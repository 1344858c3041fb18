-------------------------- MODULE SafeFetchProofs --------------------------
(***************************************************************************)
(* Theorems about SafeFetch, for every set of names and addresses, every   *)
(* policy and every limit on redirects.                                    *)
(***************************************************************************)
EXTENDS SafeFetch, TLAPS

----------------------------------------------------------------------------
\* The inductive invariant: what OnlyPermittedConnections says of the
\* connection in use has to hold of the idle ones too, since Reuse takes one
\* of them without a dial; and validation has to precede the connection.

PoolIsPermitted == \A p \in pool : Permitted(p[2])

UrlIsValidated == phase \in {"connect", "await"} => url.host \in validated /\ url.wellFormed

AwaitsOnConnection == phase = "await" => conn # None

IInv ==
    /\ TypeOK
    /\ PoolIsPermitted /\ OnlyPermittedConnections
    /\ UrlIsValidated /\ AwaitsOnConnection

----------------------------------------------------------------------------

LEMMA InitIInv == Init => IInv
<1>. SUFFICES ASSUME Init PROVE IInv
    OBVIOUS
<1>1. pool \in SUBSET (Host \X Addr) /\ PoolIsPermitted
    BY DEF Init, Idle, PoolIsPermitted
<1>2. TypeOK
    BY <1>1, AddressAssumption DEF Init, TypeOK
<1>. QED
    BY <1>1, <1>2 DEF Init, IInv, OnlyPermittedConnections, UrlIsValidated, AwaitsOnConnection

\* A step that ends the call keeps what it leaves alone.
LEMMA FailIInv ==
    ASSUME IInv, NEW reason, Fail(reason),
           reason \in {"rejected", "unreachable", "too many redirects", "timeout"}
    PROVE  IInv'
    BY DEF IInv, Fail, TypeOK, PoolIsPermitted, OnlyPermittedConnections, UrlIsValidated,
           AwaitsOnConnection, Permitted, BlocksIP

LEMMA ValidIsWellFormed ==
    ASSUME NEW u, NEW answer, Valid(u, answer) PROVE u.wellFormed
    BY DEF Valid

LEMMA ValidateIInv ==
    ASSUME IInv, NEW answer, Validate(answer) PROVE IInv'
<1>1. CASE Valid(url, answer)
    BY <1>1, ValidIsWellFormed DEF IInv, Validate, TypeOK, URL, PoolIsPermitted,
       OnlyPermittedConnections, UrlIsValidated, AwaitsOnConnection, Permitted, BlocksIP
<1>2. CASE ~Valid(url, answer)
    BY <1>2, FailIInv DEF Validate
<1>. QED
    BY <1>1, <1>2

\* The two ways to a connection: an address the dialer lets through, and an
\* idle connection, which was once dialled.
LEMMA ConnectIInv ==
    ASSUME IInv, NEW a \in Addr, Permitted(a), conn' = a,
           phase = "connect", phase' = "await", pool' \subseteq pool,
           UNCHANGED <<policy, url, via, validated, outcome>>
    PROVE  IInv'
<1>1. TypeOK'
    BY DEF IInv, TypeOK
<1>2. PoolIsPermitted' /\ OnlyPermittedConnections'
    BY DEF IInv, PoolIsPermitted, OnlyPermittedConnections, Permitted, BlocksIP
<1>3. UrlIsValidated' /\ AwaitsOnConnection'
    BY AddressAssumption DEF IInv, UrlIsValidated, AwaitsOnConnection
<1>. QED
    BY <1>1, <1>2, <1>3 DEF IInv

LEMMA DialIInv ==
    ASSUME IInv, NEW answer \in Answers(url.host), Dial(answer) PROVE IInv'
<1>1. PICK a \in answer : Permitted(a) /\ conn' = a
    BY DEF Dial
<1>2. a \in Addr
    BY DEF Answers
<1>. QED
    BY <1>1, <1>2, ConnectIInv DEF Dial

LEMMA ReuseIInv == ASSUME IInv, Reuse PROVE IInv'
<1>1. PICK p \in pool : conn' = p[2] /\ pool' = pool \ {p}
    BY DEF Reuse
<1>2. p[2] \in Addr /\ Permitted(p[2])
    BY DEF IInv, TypeOK, PoolIsPermitted
<1>. QED
    BY <1>1, <1>2, ConnectIInv DEF Reuse

LEMMA RedirectIInv ==
    ASSUME IInv, NEW u \in URL, NEW answer, Redirect(u, answer) PROVE IInv'
<1>1. CASE ~TooMany /\ Valid(u, answer)
  <2>1. Follow(u)
      BY <1>1 DEF Redirect
  <2>2. conn \in Addr /\ Permitted(conn)
      BY DEF IInv, Redirect, TypeOK, AwaitsOnConnection, OnlyPermittedConnections
  <2>3. u.host \in Host /\ url.host \in Host /\ u.wellFormed
      BY <1>1, ValidIsWellFormed DEF IInv, TypeOK, URL
  <2>4. via' \in 0 .. (MaxRedirectHops - 1)
    <3>1. via \in 0 .. (MaxRedirectHops - 1) /\ MaxRedirectHops \in Nat
        BY AddressAssumption DEF IInv, TypeOK
    <3>2. via' = via + 1 /\ ~ (via + 1 >= MaxRedirectHops)
        BY <1>1, <2>1 DEF TooMany, Follow
    <3>. QED
        BY <3>1, <3>2
  <2>5. TypeOK'
    <3>1. pool' \in SUBSET (Host \X Addr) /\ validated' \in SUBSET Host
      <4>1. <<url.host, conn>> \in Host \X Addr
          BY <2>2, <2>3
      <4>2. pool' = pool \union {<<url.host, conn>>} /\ validated' = validated \union {u.host}
          BY <2>1 DEF Follow
      <4>3. pool \in SUBSET (Host \X Addr) /\ validated \in SUBSET Host
          BY DEF IInv, TypeOK
      <4>. QED
          BY <2>3, <4>1, <4>2, <4>3
    <3>2. phase' = "connect" /\ conn' = None /\ url' = u /\ UNCHANGED <<policy, outcome>>
        BY <2>1 DEF Follow
    <3>. QED
        BY <2>4, <3>1, <3>2 DEF IInv, TypeOK
  <2>6. PoolIsPermitted'
      BY <2>1, <2>2 DEF IInv, PoolIsPermitted, Follow, Permitted, BlocksIP
  <2>7. OnlyPermittedConnections' /\ UrlIsValidated' /\ AwaitsOnConnection'
      BY <2>1, <2>3 DEF OnlyPermittedConnections, UrlIsValidated, AwaitsOnConnection, Follow
  <2>. QED
      BY <2>5, <2>6, <2>7 DEF IInv
<1>2. CASE TooMany
    BY <1>2, FailIInv DEF Redirect
<1>3. CASE ~TooMany /\ ~Valid(u, answer)
    BY <1>3, FailIInv DEF Redirect
<1>. QED
    BY <1>1, <1>2, <1>3

LEMMA NextIInv == IInv /\ [Next]_vars => IInv'
<1>. SUFFICES ASSUME IInv, [Next]_vars PROVE IInv'
    OBVIOUS
<1>1. ASSUME NEW answer \in Answers(url.host), Validate(answer) PROVE IInv'
    BY <1>1, ValidateIInv
<1>2. ASSUME NEW answer \in Answers(url.host), Dial(answer) PROVE IInv'
    BY <1>2, DialIInv
<1>3. CASE DialFails
    BY <1>3, FailIInv DEF DialFails
<1>4. CASE Reuse
    BY <1>4, ReuseIInv
<1>5. CASE Respond
    BY <1>5 DEF Respond, IInv, TypeOK, PoolIsPermitted, OnlyPermittedConnections,
                UrlIsValidated, AwaitsOnConnection, Permitted, BlocksIP
<1>6. CASE Timeout
    BY <1>6, FailIInv DEF Timeout
<1>7. ASSUME NEW u \in URL, NEW answer, Redirect(u, answer) PROVE IInv'
    BY <1>7, RedirectIInv
<1>8. CASE UNCHANGED vars
    BY <1>8 DEF vars, IInv, TypeOK, PoolIsPermitted, OnlyPermittedConnections,
                UrlIsValidated, AwaitsOnConnection, Permitted, BlocksIP
<1>. QED
    BY <1>1, <1>2, <1>3, <1>4, <1>5, <1>6, <1>7, <1>8 DEF Next, Step

LEMMA Inductive == Spec => []IInv
    BY InitIInv, NextIInv, PTL DEF Spec

----------------------------------------------------------------------------

\* The variables of a request keep their types; in particular it never counts
\* as many requests before the one in hand as the limit allows in all.
THEOREM TypeCorrect == Spec => []TypeOK
<1>1. IInv => TypeOK
    BY DEF IInv
<1>. QED
    BY <1>1, Inductive, PTL

\* No connection is ever used that the policy does not permit, although names
\* are looked up again, and may answer differently, between check and dial.
THEOREM ConnectionsArePermitted == Spec => []OnlyPermittedConnections
<1>1. IInv => OnlyPermittedConnections
    BY DEF IInv
<1>. QED
    BY <1>1, Inductive, PTL

\* Every host a request is sent to passed validation, redirects included.
THEOREM HopsAreValidated == Spec => []EveryHopIsValidated
<1>1. IInv => EveryHopIsValidated
    BY DEF IInv, UrlIsValidated, EveryHopIsValidated
<1>. QED
    BY <1>1, Inductive, PTL
============================================================================
