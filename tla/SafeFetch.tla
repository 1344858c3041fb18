----------------------------- MODULE SafeFetch -----------------------------
(***************************************************************************)
(* One outbound HTTP request of the Go programs: NewRequestWithPolicy      *)
(* validates the URL, SafeTransport resolves the host again when it dials, *)
(* CheckRedirect validates every redirect.  Two lookups of one name are    *)
(* independent: the answer may change between the check and the dial.      *)
(* A pooled connection is reused without a dial.  The client's timeout can *)
(* end the request at any point.                                           *)
(***************************************************************************)
EXTENDS Naturals

CONSTANTS
    Name,    \* host names
    Addr,    \* addresses, which are hosts themselves
    Blocked, \* addresses IsBlockedIP reports
    FakeIP,  \* the benchmarking range 198.18.0.0/15 among them
    None,
    MaxRedirectHops

ASSUME AddressAssumption ==
    /\ Name \intersect Addr = {} /\ FakeIP \subseteq Blocked /\ Blocked \subseteq Addr
    /\ None \notin Addr
    /\ MaxRedirectHops \in Nat \ {0}

Host == Name \union Addr

\* A URL: its host, and whether it has an http(s) scheme and no userinfo.
URL == [host : Host, wellFormed : BOOLEAN]

Policy == [allowPrivate : BOOLEAN, allowFakeIP : BOOLEAN]

VARIABLES
    policy,
    phase,      \* what the client does next
    url,        \* of the request in hand
    via,        \* requests made before it: len(via) at the next redirect
    pool,       \* idle connections: pairs of host and address
    conn,       \* the connection in use
    validated,  \* history: hosts that passed validation in this call
    outcome

vars == <<policy, phase, url, via, pool, conn, validated, outcome>>

----------------------------------------------------------------------------

BlocksIP(a) == a \in Blocked /\ ~(policy.allowFakeIP /\ a \in FakeIP)

Permitted(a) == policy.allowPrivate \/ ~BlocksIP(a)

\* What a lookup of the host may answer.
Answers(host) == IF host \in Addr THEN {{host}} ELSE SUBSET Addr

\* ValidateFetchURLWithContext for one answer of the resolver, which is not
\* asked when private addresses are allowed.
Valid(u, answer) ==
    /\ u.wellFormed
    /\ policy.allowPrivate \/ (answer # {} /\ \A a \in answer : ~BlocksIP(a))

\* Connections that earlier calls of the same client can have left idle.
Idle == {p \in Host \X Addr : Permitted(p[2]) /\ (p[1] \in Addr => p[1] = p[2])}

Init ==
    /\ policy \in Policy
    /\ phase = "validate"
    /\ url \in URL
    /\ via = 0
    /\ pool \in SUBSET Idle
    /\ conn = None
    /\ validated = {}
    /\ outcome = "pending"

Fail(reason) ==
    /\ outcome' = reason
    /\ phase' = "done"
    /\ conn' = None
    /\ UNCHANGED <<policy, url, via, pool, validated>>

\* NewRequestWithPolicy.
Validate(answer) ==
    /\ phase = "validate"
    /\ IF Valid(url, answer)
       THEN /\ phase' = "connect"
            /\ validated' = validated \union {url.host}
            /\ UNCHANGED <<policy, url, via, pool, conn, outcome>>
       ELSE Fail("rejected")

\* DialContext: the permitted addresses of the answer are tried in turn.
Dial_Trusting(answer) ==
    /\ phase = "connect"
    /\ \E a \in answer : conn' = a
    /\ phase' = "await"
    /\ UNCHANGED <<policy, url, via, pool, validated, outcome>>

Dial(answer) ==
    /\ phase = "connect"
    /\ \E a \in {b \in answer : Permitted(b)} : conn' = a
    /\ phase' = "await"
    /\ UNCHANGED <<policy, url, via, pool, validated, outcome>>

DialFails == phase = "connect" /\ Fail("unreachable")

Reuse ==
    /\ phase = "connect"
    /\ \E p \in pool : p[1] = url.host /\ conn' = p[2] /\ pool' = pool \ {p}
    /\ phase' = "await"
    /\ UNCHANGED <<policy, url, via, validated, outcome>>

\* The final response is handed to the caller.
Respond ==
    /\ phase = "await"
    /\ phase' = "done" /\ outcome' = "response"
    /\ UNCHANGED <<policy, url, via, pool, conn, validated>>

\* A redirect: the connection goes back to the pool and CheckRedirect runs.
TooMany_OffByOne == via >= MaxRedirectHops
TooMany == via + 1 >= MaxRedirectHops

Follow_Uncounted(u) ==
    /\ url' = u
    /\ pool' = pool \union {<<url.host, conn>>}
    /\ conn' = None
    /\ validated' = validated \union {u.host}
    /\ phase' = "connect"
    /\ UNCHANGED <<policy, via, outcome>>

Follow(u) ==
    /\ url' = u
    /\ via' = via + 1
    /\ pool' = pool \union {<<url.host, conn>>}
    /\ conn' = None
    /\ validated' = validated \union {u.host}
    /\ phase' = "connect"
    /\ UNCHANGED <<policy, outcome>>

Redirect_Unchecked(u, answer) ==
    /\ phase = "await"
    /\ IF TooMany THEN Fail("too many redirects")
       ELSE /\ url' = u /\ via' = via + 1 /\ conn' = None
                    /\ phase' = "connect"
            /\ UNCHANGED <<policy, pool, validated, outcome>>

Redirect(u, answer) ==
    /\ phase = "await"
    /\ IF TooMany THEN Fail("too many redirects")
       ELSE IF Valid(u, answer) THEN Follow(u) ELSE Fail("rejected")

Timeout == phase # "done" /\ Fail("timeout")

Step ==
    \/ \E answer \in Answers(url.host) : Validate(answer) \/ Dial(answer)
    \/ DialFails \/ Reuse \/ Respond \/ Timeout
    \/ \E u \in URL : \E answer \in Answers(u.host) : Redirect(u, answer)

Next == Step

\* The client's timeout bounds every wait.
Spec == Init /\ [][Next]_vars /\ WF_vars(Step)

----------------------------------------------------------------------------

TypeOK ==
    /\ policy \in Policy
    /\ phase \in {"validate", "connect", "await", "done"}
    /\ url \in URL
    /\ via \in 0 .. (MaxRedirectHops - 1)
    /\ pool \in SUBSET (Host \X Addr)
    /\ conn \in Addr \union {None}
    /\ validated \in SUBSET Host
    /\ outcome \in {"pending", "response", "rejected", "unreachable", "too many redirects", "timeout"}

\* Whatever the resolver answers from one lookup to the next, and whichever
\* way the connection came about, its address is one the policy permits.
OnlyPermittedConnections == conn # None => Permitted(conn)

\* Nothing is sent to a host that did not pass validation in this very call,
\* the hosts that redirects led to included.
EveryHopIsValidated == phase = "await" => url.host \in validated /\ url.wellFormed

\* The request ends whatever the servers do.
RequestEnds == <>(phase = "done")
============================================================================
