------------------------- MODULE RateLimiterProofs -------------------------
(***************************************************************************)
(* The limiter for any clients, proxies, limit, window and clock: its      *)
(* state stays well typed, Retry-After is right, no client gets more than  *)
(* two windows' worth in one, and it implements the abstract limiter.      *)
(***************************************************************************)
EXTENDS RateLimiter, TLAPS

\* A request is counted on the address of the client it came from, whatever
\* headers the client sends and whichever trusted proxy it came through.
LEMMA KeyIsClient ==
    ASSUME NEW c \in Key, NEW k \in KeysOf(c)
    PROVE  k = c
<1>1. CASE \E h \in Headers : (c \in Proxy => FirstHeader(h) = Absent) /\ k = ClientIP(c, h)
  BY <1>1 DEF ClientIP
<1>2. CASE \E p \in Proxy : \E h \in Headers : FirstHeader(h) = c /\ k = ClientIP(p, h)
  BY <1>2, AbsentAssumption DEF ClientIP
<1> QED BY <1>1, <1>2 DEF KeysOf

LEMMA MaxAgeNat == MaxAge \in Nat /\ Window < MaxAge
BY LimiterAssumption DEF MaxAge

\* What truncating division loses is less than one divisor.
LEMMA Truncation ==
    ASSUME NEW n \in Nat, NEW s \in Nat, s > 0
    PROVE  /\ n \div s \in Nat
           /\ (n \div s) * s <= n /\ n < ((n \div s) + 1) * s
<1>1. n \div s \in Nat /\ s * (n \div s) <= n /\ n < s * (n \div s) + s
  OBVIOUS
<1>2. ASSUME NEW q \in Nat PROVE (q + 1) * s = s * q + s /\ q * s = s * q
  OBVIOUS
<1> QED BY <1>1, <1>2

LEMMA RetryAfterNat ==
    ASSUME NEW a \in 0 .. (Window - 1)
    PROVE  /\ RetryAfter(a) \in Nat
           /\ RetryAfter(a) * Second >= Window - a
           /\ (RetryAfter(a) - 1) * Second < Window - a \/ (RetryAfter(a) - 1) * Second = Window - a
<1> DEFINE q == (Window - a) \div Second
<1>1. Window - a \in Nat /\ Second \in Nat /\ Second > 0 /\ Window \in Nat /\ a \in Nat
  BY LimiterAssumption
<1>2. q \in Nat /\ q * Second <= Window - a /\ Window - a < (q + 1) * Second
  BY <1>1, Truncation
<1>3. q * Second \in Nat /\ (q + 1) * Second \in Nat
  BY <1>1, <1>2
<1>4. RetryAfter(a) = q + 1 /\ (q + 1) - 1 = q
  BY <1>2 DEF RetryAfter
<1> HIDE DEF q
<1> QED
  BY <1>1, <1>2, <1>3, <1>4

Ages == 0 .. (Window - 1)

LEMMA GrantRecorded ==
    ASSUME NEW c \in Key, recent \in [Key -> [Ages -> Nat]], Granted(c)
    PROVE  /\ recent' \in [Key -> [Ages -> Nat]]
           /\ \A a \in Ages : recent'[c][a] = recent[c][a] + 1
           /\ \A k \in Key : k # c => recent'[k] = recent[k]
<1>1. recent' = [recent EXCEPT ![c] = [a \in Ages |-> recent[c][a] + 1]]
  BY DEF Granted, Ages
<1>2. [a \in Ages |-> recent[c][a] + 1] \in [Ages -> Nat]
  OBVIOUS
<1> QED BY <1>1, <1>2

----------------------------------------------------------------------------
\* The limiter starts well typed.
LEMMA TypeInit == Init => TypeOK
<1> SUFFICES ASSUME Init PROVE TypeOK
  OBVIOUS
<1>1. recent \in [Key -> [0 .. (Window - 1) -> Nat]]
  BY DEF Init
<1>2. phase \in 0 .. (Window - 1)
  BY LimiterAssumption DEF Init
<1> QED BY <1>1, <1>2 DEF Init, TypeOK

THEOREM TypeCorrect == Spec => []TypeOK
<1>1. Init => TypeOK
  BY TypeInit
<1>2. TypeOK /\ [Next]_vars => TypeOK'
  <2> SUFFICES ASSUME TypeOK, [Next]_vars PROVE TypeOK'
    OBVIOUS
  <2> USE LimiterAssumption, AbsentAssumption DEF TypeOK
  <2>1. ASSUME NEW c \in Key, NEW k \in Key, OpenWindow(c, k) PROVE TypeOK'
    <3>1. [hits |-> 1, age |-> 0] \in Visitor
      BY MaxAgeNat DEF Visitor
    <3>2. recent' \in [Key -> [0 .. (Window - 1) -> Nat]]
      BY <2>1, GrantRecorded DEF OpenWindow, Ages
    <3> QED BY <2>1, <3>1, <3>2 DEF OpenWindow, Granted
  <2>2. ASSUME NEW c \in Key, NEW k \in Key, CountHit(c, k) PROVE TypeOK'
    <3>1. visitors[k] \in Visitor /\ visitors[k].hits < MaxHits /\ visitors[k].hits \in Nat
      BY <2>2 DEF CountHit, Expired, UsedUp, Visitor
    <3>2. [visitors[k] EXCEPT !.hits = @ + 1] \in Visitor
      <4>1. visitors[k].hits + 1 \in 1 .. MaxHits /\ visitors[k].age \in 0 .. MaxAge
        BY <3>1 DEF Visitor
      <4>2. [visitors[k] EXCEPT !.hits = @ + 1] = [hits |-> visitors[k].hits + 1, age |-> visitors[k].age]
        BY <3>1 DEF Visitor
      <4> QED BY <4>1, <4>2 DEF Visitor
    <3>3. recent' \in [Key -> [0 .. (Window - 1) -> Nat]]
      BY <2>2, GrantRecorded DEF CountHit, Ages
    <3> QED BY <2>2, <3>2, <3>3 DEF CountHit, Granted
  <2>3. ASSUME NEW c \in Key, NEW k \in Key, Deny(c, k) PROVE TypeOK'
    <3>1. visitors[k] \in Visitor /\ visitors[k].age < Window
      BY <2>3 DEF Deny, Expired, Visitor
    <3>2. visitors[k].age \in 0 .. (Window - 1)
      BY <3>1 DEF Visitor
    <3>3. RetryAfter(visitors[k].age) \in Nat
      BY <3>2, RetryAfterNat
    <3> QED BY <2>3, <3>3 DEF Deny
  <2>4. CASE Tick
    <3>1. \A k \in Key : visitors'[k] \in Visitor \cup {Absent}
      BY <2>4, MaxAgeNat DEF Tick, Older, Visitor
    <3>2. visitors' \in [Key -> Visitor \cup {Absent}]
      BY <2>4, <3>1 DEF Tick
    <3>3. phase' \in 0 .. (Window - 1)
      BY <2>4 DEF Tick
    <3>4. recent' \in [Key -> [0 .. (Window - 1) -> Nat]]
      <4>1. \A k \in Key : \A a \in Ages \ {0} : recent[k][a - 1] \in Nat
        BY DEF Ages
      <4>2. recent' = [k \in Key |-> [a \in Ages |-> IF a = 0 THEN 0 ELSE recent[k][a - 1]]]
        BY <2>4 DEF Tick, Ages
      <4>3. recent' \in [Key -> [Ages -> Nat]]
        BY <4>1, <4>2
      <4> QED BY <4>3 DEF Ages
    <3>5. fired' \in BOOLEAN /\ cleaner' = cleaner /\ reply' = reply
      BY <2>4 DEF Tick
    <3> QED BY <3>2, <3>3, <3>4, <3>5
  <2>5. CASE Sweep
    BY <2>5 DEF Sweep
  <2>6. CASE Stop \/ CleanerReturns
    BY <2>6 DEF Stop, CleanerReturns
  <2>7. CASE UNCHANGED vars
    BY <2>7 DEF vars
  <2> QED
    BY <2>1, <2>2, <2>3, <2>4, <2>5, <2>6, <2>7, KeyIsClient DEF Next, Request
<1> QED BY <1>1, <1>2, PTL DEF Spec

\* Retry-After, for every window and clock resolution: a client that waits so
\* long finds its window over, and one second less would not have been enough,
\* except where a whole number of seconds is left.
THEOREM RetryAfterIsRight == Spec => RetryAfterSuffices
<1>1. TypeOK /\ [Next]_vars => [\A c, k \in Key : Deny(c, k) =>
         LET left == Window - visitors[k].age
         IN  /\ reply'.retry * Second >= left
             /\ \/ (reply'.retry - 1) * Second < left
                \/ (reply'.retry - 1) * Second = left]_vars
  <2> SUFFICES ASSUME TypeOK, NEW c \in Key, NEW k \in Key, Deny(c, k)
               PROVE  /\ reply'.retry * Second >= Window - visitors[k].age
                      /\ \/ (reply'.retry - 1) * Second < Window - visitors[k].age
                         \/ (reply'.retry - 1) * Second = Window - visitors[k].age
    OBVIOUS
  <2>1. visitors[k] \in Visitor /\ visitors[k].age < Window
    BY LimiterAssumption, AbsentAssumption DEF Deny, Expired, Visitor, TypeOK
  <2>2. visitors[k].age \in 0 .. (Window - 1)
    BY <2>1, LimiterAssumption DEF Visitor
  <2>3. reply'.retry = RetryAfter(visitors[k].age)
    BY DEF Deny
  <2> QED BY <2>2, <2>3, RetryAfterNat
<1> QED BY <1>1, TypeCorrect, PTL DEF Spec, RetryAfterSuffices

----------------------------------------------------------------------------
\* What the entry of a client says of its recent grants.  No entry: none.  An open window: its hits are the grants since
\* it opened, and the window before it gave at most MaxHits.  A window that is
\* over: the client got nothing since it ended.
Cumulative(k) == \A a, b \in Ages : a <= b => recent[k][a] <= recent[k][b]

NoEntry(k) == visitors[k] = Absent => recent[k][Window - 1] = 0

OpenEntry(k) ==
    visitors[k] # Absent /\ visitors[k].age < Window =>
        /\ recent[k][visitors[k].age] = visitors[k].hits
        /\ recent[k][Window - 1] <= visitors[k].hits + MaxHits

OldEntry(k) ==
    visitors[k] # Absent /\ visitors[k].age >= Window =>
        /\ recent[k][Window - 1] <= MaxHits
        /\ \A a \in Ages : a + Window <= visitors[k].age => recent[k][a] = 0

EntryTellsGrants(k) == Cumulative(k) /\ NoEntry(k) /\ OpenEntry(k) /\ OldEntry(k)

WindowsInv == TypeOK /\ \A k \in Key : EntryTellsGrants(k)

\* A client whose window is closed got nothing this tick and at most one
\* window's worth before.
LEMMA ClosedWindow ==
    ASSUME TypeOK, NEW k \in Key, EntryTellsGrants(k), Expired(k)
    PROVE  recent[k][0] = 0 /\ recent[k][Window - 1] <= MaxHits
<1> USE LimiterAssumption
<1>1. recent[k] \in [Ages -> Nat] /\ 0 \in Ages /\ Window - 1 \in Ages
  BY DEF TypeOK, Ages
<1>2. CASE visitors[k] = Absent
  <2>1. recent[k][Window - 1] = 0
    BY <1>2 DEF EntryTellsGrants, NoEntry
  <2>2. recent[k][0] <= recent[k][Window - 1]
    BY <1>1 DEF EntryTellsGrants, Cumulative, Ages
  <2> QED BY <1>1, <2>1, <2>2
<1>3. CASE visitors[k] # Absent
  BY <1>1, <1>3 DEF EntryTellsGrants, OldEntry, Expired
<1> QED BY <1>2, <1>3

\* A grant keeps the counts cumulative.
LEMMA GrantKeepsOrder ==
    ASSUME TypeOK, NEW k \in Key, Cumulative(k), Granted(k)
    PROVE  Cumulative(k)'
<1>1. recent \in [Key -> [Ages -> Nat]]
  BY DEF TypeOK, Ages
<1>2. \A a \in Ages : recent'[k][a] = recent[k][a] + 1 /\ recent[k][a] \in Nat
  BY <1>1, GrantRecorded
<1> QED BY <1>2 DEF Cumulative

\* A tick shifts the counts by one age and starts a new one.
LEMMA TickShifts ==
    ASSUME TypeOK, NEW k \in Key, Tick
    PROVE  /\ recent'[k][0] = 0
           /\ \A a \in Ages \ {0} : a - 1 \in Ages /\ recent'[k][a] = recent[k][a - 1]
           /\ \A a \in Ages : recent[k][a] \in Nat /\ recent'[k][a] \in Nat
<1> USE LimiterAssumption
<1>1. recent[k] \in [Ages -> Nat] /\ 0 \in Ages
  BY DEF TypeOK, Ages
<1>2. recent'[k] = [a \in Ages |-> IF a = 0 THEN 0 ELSE recent[k][a - 1]]
  BY DEF Tick, Ages
<1>3. \A a \in Ages \ {0} : a - 1 \in Ages
  BY DEF Ages
<1> QED BY <1>1, <1>2, <1>3

\* A tick ages the entry and its grants alike; the tick that ends a window finds
\* all its grants within the last Window ticks.
LEMMA TickKeepsEntry ==
    ASSUME TypeOK, NEW k \in Key, EntryTellsGrants(k), Tick
    PROVE  EntryTellsGrants(k)'
<1> USE LimiterAssumption, AbsentAssumption
<1>1. /\ visitors[k] \in Visitor \cup {Absent}
      /\ visitors'[k] = IF visitors[k] = Absent THEN Absent
                        ELSE [visitors[k] EXCEPT !.age = Older(@)]
  BY DEF TypeOK, Tick
<1>2. Window - 1 \in Ages /\ 0 \in Ages /\ \A a \in Ages : a \in Nat /\ a < Window
  BY DEF Ages
<1>3. recent'[k][Window - 1] <= recent[k][Window - 1]
  <2>1. CASE Window = 1
    BY <2>1, <1>2, TickShifts
  <2>2. CASE Window # 1
    <3>1. Window - 1 \in Ages \ {0} /\ (Window - 1) - 1 <= Window - 1
      BY <2>2, <1>2
    <3>2. recent'[k][Window - 1] = recent[k][(Window - 1) - 1] /\ (Window - 1) - 1 \in Ages
      BY <3>1, TickShifts
    <3> QED BY <3>1, <3>2, <1>2 DEF EntryTellsGrants, Cumulative
  <2> QED BY <2>1, <2>2
<1>4. recent[k][Window - 1] \in Nat /\ recent'[k][Window - 1] \in Nat
  BY <1>2, TickShifts
<1>5. Cumulative(k)'
  <2> SUFFICES ASSUME NEW a \in Ages, NEW b \in Ages, a <= b
               PROVE  recent'[k][a] <= recent'[k][b]
    BY DEF Cumulative
  <2>1. CASE a = 0
    BY <2>1, TickShifts
  <2>2. CASE a # 0
    <3>1. a \in Ages \ {0} /\ b \in Ages \ {0} /\ a - 1 <= b - 1
      BY <2>2, <1>2
    <3>2. /\ recent'[k][a] = recent[k][a - 1] /\ a - 1 \in Ages
          /\ recent'[k][b] = recent[k][b - 1] /\ b - 1 \in Ages
      BY <3>1, TickShifts
    <3> QED BY <3>1, <3>2 DEF EntryTellsGrants, Cumulative
  <2> QED BY <2>1, <2>2
<1>6. CASE visitors[k] = Absent
  <2>1. NoEntry(k)'
    BY <1>3, <1>4, <1>6 DEF EntryTellsGrants, NoEntry
  <2> QED BY <1>1, <1>5, <1>6, <2>1 DEF EntryTellsGrants, OpenEntry, OldEntry
<1>7. CASE visitors[k] # Absent
  <2> DEFINE g == visitors[k].age
             h == visitors[k].hits
  <2>1. g \in 0 .. MaxAge /\ h \in 1 .. MaxHits
    BY <1>1, <1>7 DEF Visitor
  <2>2. /\ visitors'[k].hits = h /\ visitors'[k].age = Older(g)
    BY <1>1, <1>7 DEF Visitor
  <2>3. visitors'[k] # Absent
    <3>1. Older(g) \in 0 .. MaxAge
      BY <2>1, MaxAgeNat DEF Older
    <3>2. visitors'[k] \in Visitor
      BY <1>1, <1>7, <3>1 DEF Visitor
    <3> QED BY <3>2
  <2>4. NoEntry(k)'
    BY <2>3 DEF NoEntry
  <2>5. OpenEntry(k)'
    <3> SUFFICES ASSUME Older(g) < Window
                 PROVE  /\ recent'[k][Older(g)] = h
                        /\ recent'[k][Window - 1] <= h + MaxHits
      BY <2>2 DEF OpenEntry
    <3>1. Older(g) = g + 1 /\ g < Window
      BY <2>1, MaxAgeNat DEF Older
    <3>2. recent[k][g] = h /\ recent[k][Window - 1] <= h + MaxHits
      BY <1>7, <3>1 DEF EntryTellsGrants, OpenEntry
    <3>3. g + 1 \in Ages \ {0} /\ (g + 1) - 1 = g
      BY <2>1, <3>1 DEF Ages
    <3>4. recent'[k][g + 1] = recent[k][g]
      BY <3>3, TickShifts
    <3> HIDE DEF g, h
    <3> QED BY <3>1, <3>2, <3>4, <1>3, <1>4, <2>1
  <2>6. OldEntry(k)'
    <3> SUFFICES ASSUME Older(g) >= Window
                 PROVE  /\ recent'[k][Window - 1] <= MaxHits
                        /\ \A a \in Ages : a + Window <= Older(g) => recent'[k][a] = 0
      BY <2>2 DEF OldEntry
    <3>1. CASE g < Window
      <4>1. Older(g) = Window /\ g = Window - 1
        BY <3>1, <2>1, MaxAgeNat DEF Older
      <4>2. recent[k][Window - 1] = h
        BY <1>7, <3>1, <4>1 DEF EntryTellsGrants, OpenEntry
      <4>3. \A a \in Ages : a + Window <= Window => a = 0
        BY <1>2
      <4> HIDE DEF g, h
      <4> QED BY <4>1, <4>2, <4>3, <1>3, <1>4, <2>1, TickShifts
    <3>2. CASE g >= Window
      <4>1. /\ recent[k][Window - 1] <= MaxHits
            /\ \A a \in Ages : a + Window <= g => recent[k][a] = 0
        BY <1>7, <3>2 DEF EntryTellsGrants, OldEntry
      <4>2. ASSUME NEW a \in Ages, a + Window <= Older(g) PROVE recent'[k][a] = 0
        <5>1. CASE a = 0
          BY <5>1, TickShifts
        <5>2. CASE a # 0
          <6>1. recent'[k][a] = recent[k][a - 1] /\ a - 1 \in Ages
            BY <5>2, TickShifts
          <6>2. Older(g) <= g + 1
            BY <2>1, MaxAgeNat DEF Older
          <6>3. Older(g) \in Nat
            BY <2>1, MaxAgeNat DEF Older
          <6>4. (a - 1) + Window <= g
            <7> HIDE DEF g
            <7> QED BY <4>2, <6>2, <6>3, <1>2, <2>1, MaxAgeNat
          <6> QED BY <4>1, <6>1, <6>4
        <5> QED BY <5>1, <5>2
      <4> QED BY <4>1, <4>2, <1>3, <1>4
    <3> HIDE DEF g
    <3> QED BY <3>1, <3>2, <2>1, MaxAgeNat
  <2> QED BY <1>5, <2>4, <2>5, <2>6 DEF EntryTellsGrants
<1> QED BY <1>6, <1>7

\* A grant opens a window, or counts one more in the open one.
LEMMA GrantKeepsEntry ==
    ASSUME TypeOK, NEW k \in Key, EntryTellsGrants(k), OpenWindow(k, k) \/ CountHit(k, k)
    PROVE  EntryTellsGrants(k)'
<1> USE LimiterAssumption, AbsentAssumption
<1>1. /\ recent \in [Key -> [Ages -> Nat]]
      /\ visitors \in [Key -> Visitor \cup {Absent}]
      /\ 0 \in Ages /\ Window - 1 \in Ages
  BY DEF TypeOK, Ages
<1>2. Granted(k)
  BY DEF OpenWindow, CountHit
<1>3. \A a \in Ages : recent[k][a] \in Nat /\ recent'[k][a] = recent[k][a] + 1
  BY <1>1, <1>2, GrantRecorded
<1>4. Cumulative(k)'
  BY <1>2, GrantKeepsOrder DEF EntryTellsGrants
<1>5. CASE OpenWindow(k, k)
  <2>1. visitors'[k] = [hits |-> 1, age |-> 0]
    BY <1>1, <1>5 DEF OpenWindow
  <2>2. recent[k][0] = 0 /\ recent[k][Window - 1] <= MaxHits
    BY <1>5, ClosedWindow DEF OpenWindow
  <2>3. recent'[k][0] = 1 /\ recent'[k][Window - 1] <= 1 + MaxHits
    BY <1>1, <1>3, <2>2
  <2>4. visitors'[k] # Absent
    BY <2>1, MaxAgeNat DEF Visitor
  <2> QED BY <1>4, <2>1, <2>3, <2>4 DEF EntryTellsGrants, NoEntry, OpenEntry, OldEntry
<1>6. CASE CountHit(k, k)
  <2> DEFINE g == visitors[k].age
             h == visitors[k].hits
  <2>1. visitors[k] \in Visitor /\ visitors[k] # Absent /\ g < Window
    BY <1>1, <1>6 DEF CountHit, Expired, Visitor
  <2>2. g \in Ages /\ h \in Nat
    BY <2>1 DEF Visitor, Ages
  <2>3. /\ visitors'[k].hits = h + 1 /\ visitors'[k].age = g
    BY <1>1, <1>6, <2>1 DEF CountHit, Visitor
  <2>4. visitors'[k] # Absent
    <3>1. h < MaxHits
      BY <1>6, <2>1 DEF CountHit, UsedUp, Visitor
    <3>2. visitors'[k] = [hits |-> h + 1, age |-> g]
      BY <1>1, <1>6, <2>1 DEF CountHit, Visitor
    <3>3. h + 1 \in 1 .. MaxHits /\ g \in 0 .. MaxAge
      BY <3>1, <2>1, <2>2 DEF Visitor
    <3> QED BY <3>2, <3>3 DEF Visitor
  <2>5. recent[k][g] = h /\ recent[k][Window - 1] <= h + MaxHits
    BY <2>1 DEF EntryTellsGrants, OpenEntry
  <2>6. recent'[k][g] = h + 1 /\ recent'[k][Window - 1] <= (h + 1) + MaxHits
    BY <1>1, <1>3, <2>2, <2>5
  <2>7. NoEntry(k)'
    BY <2>4 DEF NoEntry
  <2>8. OpenEntry(k)'
    BY <2>3, <2>6 DEF OpenEntry
  <2>9. OldEntry(k)'
    <3>1. ~ (g >= Window)
      BY <2>1, <2>2 DEF Ages
    <3> QED BY <2>3, <3>1 DEF OldEntry
  <2> QED BY <1>4, <2>7, <2>8, <2>9 DEF EntryTellsGrants
<1> QED BY <1>5, <1>6

\* Another client's entry and grants are not touched.
LEMMA OthersUntouched ==
    ASSUME TypeOK, NEW k \in Key, NEW j \in Key, j # k,
           OpenWindow(k, k) \/ CountHit(k, k), EntryTellsGrants(j)
    PROVE  EntryTellsGrants(j)'
<1>1. recent \in [Key -> [Ages -> Nat]] /\ visitors \in [Key -> Visitor \cup {Absent}]
  BY DEF TypeOK, Ages
<1>2. recent'[j] = recent[j]
  BY <1>1, GrantRecorded DEF OpenWindow, CountHit
<1>3. visitors'[j] = visitors[j]
  BY <1>1 DEF OpenWindow, CountHit
<1> QED BY <1>2, <1>3 DEF EntryTellsGrants, Cumulative, NoEntry, OpenEntry, OldEntry

\* Every step of the limiter keeps entries and grants together: a tick shifts
\* both, a grant adds to both, and a sweep forgets an entry only after the last
\* grant it could tell of has left the window.
THEOREM WindowsInductive == Spec => []WindowsInv
<1>1. Init => WindowsInv
  <2> SUFFICES ASSUME Init PROVE \A k \in Key : EntryTellsGrants(k)
    <3>1. Init => TypeOK
      BY TypeInit
    <3> QED BY <3>1 DEF WindowsInv
  <2> USE LimiterAssumption
  <2>1. \A k \in Key : visitors[k] = Absent /\ \A a \in Ages : recent[k][a] = 0
    BY DEF Init, Ages
  <2>2. Window - 1 \in Ages
    BY DEF Ages
  <2> QED BY <2>1, <2>2 DEF EntryTellsGrants, Cumulative, NoEntry, OpenEntry, OldEntry
<1>2. WindowsInv /\ TypeOK' /\ [Next]_vars => WindowsInv'
  <2> SUFFICES ASSUME TypeOK, \A j \in Key : EntryTellsGrants(j), [Next]_vars, NEW k \in Key
               PROVE  EntryTellsGrants(k)'
    BY DEF WindowsInv
  <2>1. CASE Tick
    BY <2>1, TickKeepsEntry
  <2>2. CASE Sweep
    <3>1. CASE Forgotten(k)
      <4>1. /\ recent[k] \in [Ages -> Nat] /\ Window - 1 \in Ages
            /\ visitors[k] \in Visitor /\ visitors[k].age >= Window
            /\ (Window - 1) + Window <= visitors[k].age
        BY <3>1, LimiterAssumption, MaxAgeNat DEF TypeOK, Ages, Forgotten, Visitor
      <4>2. recent[k][Window - 1] = 0
        BY <3>1, <4>1 DEF EntryTellsGrants, OldEntry, Forgotten
      <4>3. visitors'[k] = Absent /\ recent'[k] = recent[k]
        BY <2>2, <3>1 DEF Sweep
      <4> QED BY <4>2, <4>3 DEF EntryTellsGrants, Cumulative, NoEntry, OpenEntry, OldEntry
    <3>2. CASE ~Forgotten(k)
      <4>1. visitors'[k] = visitors[k] /\ recent'[k] = recent[k]
        BY <2>2, <3>2 DEF Sweep
      <4> QED BY <4>1 DEF EntryTellsGrants, Cumulative, NoEntry, OpenEntry, OldEntry
    <3> QED BY <3>1, <3>2
  <2>3. ASSUME NEW c \in Key, OpenWindow(c, c) \/ CountHit(c, c) PROVE EntryTellsGrants(k)'
    BY <2>3, GrantKeepsEntry, OthersUntouched
  <2>4. CASE visitors' = visitors /\ recent' = recent
    BY <2>4 DEF EntryTellsGrants, Cumulative, NoEntry, OpenEntry, OldEntry
  <2>5. ASSUME NEW c \in Key, Deny(c, c) PROVE EntryTellsGrants(k)'
    BY <2>4, <2>5 DEF Deny
  <2>6. CASE Stop \/ CleanerReturns \/ UNCHANGED vars
    BY <2>4, <2>6 DEF Stop, CleanerReturns, vars
  <2> QED BY <2>1, <2>2, <2>3, <2>5, <2>6, KeyIsClient DEF Next, Request
<1> QED BY <1>1, <1>2, TypeCorrect, PTL DEF Spec

\* For every limit and window: no client gets more than two windows' worth of
\* grants in any Window consecutive ticks.  An open window adds its own hits to
\* what the one before it may have given.
THEOREM TwoWindows == Spec => []AtMostTwoWindows
<1>1. WindowsInv => AtMostTwoWindows
  <2> SUFFICES ASSUME TypeOK, NEW k \in Key, EntryTellsGrants(k)
               PROVE  recent[k][Window - 1] <= 2 * MaxHits
    BY DEF WindowsInv, AtMostTwoWindows
  <2> USE LimiterAssumption
  <2>1. recent[k][Window - 1] \in Nat /\ visitors[k] \in Visitor \cup {Absent}
    BY DEF TypeOK
  <2>2. CASE Expired(k)
    BY <2>1, <2>2, ClosedWindow
  <2>3. CASE ~Expired(k)
    <3>1. visitors[k] # Absent /\ visitors[k].age < Window /\ visitors[k].hits \in 1 .. MaxHits
      BY <2>1, <2>3 DEF Expired, Visitor
    <3> QED BY <2>1, <3>1 DEF EntryTellsGrants, OpenEntry
  <2> QED BY <2>2, <2>3
<1> QED BY <1>1, WindowsInductive, PTL

----------------------------------------------------------------------------
\* The limiter implements WindowLimiter for every client: each step of the code
\* is a grant or denial of the client's own window, a tick, or nothing at all.
THEOREM Implementation == Spec => ImplementsWindowLimiter
<1> DEFINE w == [k \in Key |-> IF Expired(k) THEN Absent ELSE visitors[k]]
           a == [key |-> reply.key, allowed |-> reply.allowed]
<1> USE LimiterAssumption, AbsentAssumption
<1>1. Init => Promise!Init
  BY DEF Init, Promise!Init, Expired
<1>2. TypeOK /\ [Next]_vars => [Promise!Next]_<<w, a>>
  <2> SUFFICES ASSUME TypeOK, [Next]_vars PROVE [Promise!Next]_<<w, a>>
    OBVIOUS
  <2>0. visitors \in [Key -> Visitor \cup {Absent}]
    BY DEF TypeOK
  <2>1. ASSUME NEW k \in Key, OpenWindow(k, k) PROVE Promise!Grant(k)
    <3>1. w[k] = Absent
      BY <2>1 DEF OpenWindow
    <3>2. w' = [w EXCEPT ![k] = [hits |-> 1, age |-> 0]]
      <4>1. visitors'[k] = [hits |-> 1, age |-> 0] /\ visitors'[k] # Absent
        BY <2>0, <2>1, MaxAgeNat DEF OpenWindow, Visitor
      <4>2. w'[k] = [hits |-> 1, age |-> 0]
        BY <4>1 DEF Expired
      <4>3. ASSUME NEW j \in Key, j # k PROVE w'[j] = w[j]
        BY <2>0, <2>1, <4>3 DEF OpenWindow, Expired
      <4> QED BY <4>2, <4>3
    <3>3. a' = [key |-> k, allowed |-> TRUE]
      BY <2>1 DEF OpenWindow, Granted
    <3> QED BY <3>1, <3>2, <3>3 DEF Promise!Grant
  <2>2. ASSUME NEW k \in Key, CountHit(k, k) PROVE Promise!Grant(k)
    <3>1. w[k] = visitors[k] /\ visitors[k] \in Visitor /\ visitors[k].hits < MaxHits
      BY <2>0, <2>2 DEF CountHit, UsedUp, Expired, Visitor
    <3>2. w' = [w EXCEPT ![k] = [w[k] EXCEPT !.hits = @ + 1]]
      BY <2>0, <2>2, <3>1 DEF CountHit, Expired, Visitor
    <3>3. a' = [key |-> k, allowed |-> TRUE]
      BY <2>2 DEF CountHit, Granted
    <3>4. w[k] # Absent
      BY <3>1
    <3> QED BY <3>1, <3>2, <3>3, <3>4 DEF Promise!Grant
  <2>3. ASSUME NEW k \in Key, Deny(k, k) PROVE Promise!Deny(k)
    <3>1. w[k] = visitors[k] /\ visitors[k] \in Visitor /\ visitors[k].hits = MaxHits
      BY <2>0, <2>3 DEF Deny, UsedUp, Expired, Visitor
    <3>2. w' = w
      BY <2>3 DEF Deny, Expired
    <3>3. a' = [key |-> k, allowed |-> FALSE]
      BY <2>3 DEF Deny
    <3>4. w[k] # Absent
      BY <3>1
    <3> QED BY <3>1, <3>2, <3>3, <3>4 DEF Promise!Deny
  <2>4. CASE Tick
    <3>1. ASSUME NEW k \in Key
          PROVE  w'[k] = IF w[k] = Absent \/ w[k].age + 1 = Window THEN Absent
                         ELSE [w[k] EXCEPT !.age = @ + 1]
      BY <2>0, <2>4, MaxAgeNat DEF Tick, Expired, Older, Visitor
    <3>2. w' = [k \in Key |-> IF w[k] = Absent \/ w[k].age + 1 = Window THEN Absent
                              ELSE [w[k] EXCEPT !.age = @ + 1]]
      BY <3>1
    <3>3. a' = a
      BY <2>4 DEF Tick
    <3> QED BY <3>2, <3>3 DEF Promise!Next, Promise!Tick
  <2>5. CASE Sweep
    <3>1. ASSUME NEW k \in Key PROVE w'[k] = w[k]
      BY <2>0, <2>5 DEF Sweep, Forgotten, Expired, Visitor
    <3> QED BY <2>5, <3>1 DEF Sweep
  <2>6. CASE Stop \/ CleanerReturns \/ UNCHANGED vars
    BY <2>6 DEF Stop, CleanerReturns, vars, Expired
  <2> QED
    BY <2>1, <2>2, <2>3, <2>4, <2>5, <2>6, KeyIsClient DEF Next, Request, Promise!Next
<1> QED BY <1>1, <1>2, TypeCorrect, PTL DEF Spec, ImplementsWindowLimiter, Promise!Spec
============================================================================
