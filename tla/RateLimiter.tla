---------------------------- MODULE RateLimiter ----------------------------
(***************************************************************************)
(* The fixed-window limiter of ratelimit.go (and of the Worker, which has  *)
(* the same decision and no sweep).  Requests hold the mutex for the whole *)
(* decision and read the clock inside it, so a request is one step; the    *)
(* cleanup goroutine takes the same mutex, at a time of its own choosing   *)
(* after its ticker fired, until Stop ends it.  The key a request is       *)
(* counted on comes from its peer or, behind a trusted proxy, its headers; *)
(* replies and history are recorded by the client it really came from.     *)
(*                                                                         *)
(* A visitor's start is stored here as its age, now - start, in clock      *)
(* ticks.  The code compares the age with Window and with 2 * Window only, *)
(* so ages stop counting at 2 * Window + 1 and time itself is unbounded.   *)
(***************************************************************************)
EXTENDS Naturals

CONSTANTS
    Client,   \* addresses of clients
    Proxy,    \* FVF_TRUSTED_PROXIES, as parsed
    MaxHits,  \* FVF_RATE_LIMIT
    Window,   \* FVF_RATE_WINDOW, in ticks
    Second,   \* ticks in a second
    Absent    \* no entry in the map

\* FromEnv and the constructor replace what is not positive by the defaults.
ASSUME LimiterAssumption ==
    /\ MaxHits \in Nat \ {0}
    /\ Window \in Nat \ {0}
    /\ Second \in Nat \ {0}

Key == Client \cup Proxy
MaxAge == 2 * Window + 1
Visitor == [hits : 1 .. MaxHits, age : 0 .. MaxAge]

ASSUME AbsentAssumption == Absent \notin Visitor /\ Absent \notin Key

VARIABLES
    visitors,
    reply,    \* the last decision: key, allowed, and Retry-After in seconds
    phase,    \* ticks since the cleanup ticker last fired
    fired,    \* the ticker's channel (capacity 1) holds a tick
    cleaner,  \* the cleanup goroutine: running, told to stop, gone
    recent    \* history: grants to each client in the last a + 1 ticks, a < Window

vars == <<visitors, reply, phase, fired, cleaner, recent>>

Older(a) == IF a < MaxAge THEN a + 1 ELSE a

Expired_Late(k) == visitors[k] # Absent => visitors[k].age > Window
Expired(k) == visitors[k] # Absent => visitors[k].age >= Window

\* int(remaining.Seconds()) + 1: the seconds are truncated first.
RetryAfter_Truncated(age) == (Window - age) \div Second
RetryAfter(age) == ((Window - age) \div Second) + 1

----------------------------------------------------------------------------
\* Where a request comes from.  Anyone can send any headers.  A trusted proxy
\* names its client in one of them and has removed those that would outrank it;
\* what it forwards in the others is the client's own invention.
Headers == [cf : Key \cup {Absent}, xr : Key \cup {Absent}, xff : Key \cup {Absent}]

FirstHeader(h) ==
    IF h.cf # Absent THEN h.cf ELSE IF h.xr # Absent THEN h.xr ELSE h.xff

ClientIP_Trusting(peer, h) == IF FirstHeader(h) # Absent THEN FirstHeader(h) ELSE peer

ClientIP(peer, h) ==
    IF peer \in Proxy /\ FirstHeader(h) # Absent THEN FirstHeader(h) ELSE peer

\* The keys under which the requests of one client can arrive.
KeysOf(c) ==
    {ClientIP(c, h) : h \in {g \in Headers : c \in Proxy => FirstHeader(g) = Absent}}
    \cup {ClientIP(p, h) : p \in Proxy, h \in {g \in Headers : FirstHeader(g) = c}}

Init ==
    /\ visitors = [k \in Key |-> Absent]
    /\ reply = [key |-> Absent, allowed |-> TRUE, retry |-> 0]
    /\ phase = 0
    /\ fired = FALSE
    /\ cleaner = "running"
    /\ recent = [k \in Key |-> [a \in 0 .. (Window - 1) |-> 0]]

Granted(c) ==
    /\ reply' = [key |-> c, allowed |-> TRUE, retry |-> 0]
    /\ recent' = [recent EXCEPT ![c] = [a \in 0 .. (Window - 1) |-> @[a] + 1]]
    /\ UNCHANGED <<phase, fired, cleaner>>

\* AllowWithRetry for a request of client c counted on key k.  First branch: no
\* window, or one that is over.
OpenWindow(c, k) ==
    /\ Expired(k)
    /\ visitors' = [visitors EXCEPT ![k] = [hits |-> 1, age |-> 0]]
    /\ Granted(c)

UsedUp_OffByOne(k) == visitors[k].hits > MaxHits
UsedUp(k) == visitors[k].hits >= MaxHits

Deny(c, k) ==
    /\ ~Expired(k) /\ UsedUp(k)
    /\ reply' = [key |-> c, allowed |-> FALSE, retry |-> RetryAfter(visitors[k].age)]
    /\ UNCHANGED <<visitors, phase, fired, cleaner, recent>>

CountHit(c, k) ==
    /\ ~Expired(k) /\ ~UsedUp(k)
    /\ visitors' = [visitors EXCEPT ![k].hits = @ + 1]
    /\ Granted(c)

\* Time passes.  The ticker fires every Window ticks and drops a tick that
\* finds the previous one still unread.
Tick ==
    /\ visitors' = [k \in Key |-> IF visitors[k] = Absent THEN Absent
                                  ELSE [visitors[k] EXCEPT !.age = Older(@)]]
    /\ phase' = (phase + 1) % Window
    /\ fired' = (fired \/ phase + 1 = Window)
    /\ recent' = [k \in Key |-> [a \in 0 .. (Window - 1) |->
                                   IF a = 0 THEN 0 ELSE recent[k][a - 1]]]
    /\ UNCHANGED <<reply, cleaner>>

\* One round of the cleanup goroutine.  A goroutine told to stop may still
\* take a tick that is waiting: select has no order.
Forgotten_Never(k) == FALSE
Forgotten(k) == visitors[k] # Absent /\ visitors[k].age > 2 * Window

Sweep ==
    /\ fired /\ cleaner # "gone"
    /\ fired' = FALSE
    /\ visitors' = [k \in Key |-> IF Forgotten(k) THEN Absent ELSE visitors[k]]
    /\ UNCHANGED <<reply, phase, cleaner, recent>>

\* Stop closes the channel, once; the goroutine returns, its ticker stops.
Stop ==
    /\ cleaner' = IF cleaner = "running" THEN "stopping" ELSE cleaner
    /\ UNCHANGED <<visitors, reply, phase, fired, recent>>

CleanerReturns ==
    /\ cleaner = "stopping" /\ cleaner' = "gone"
    /\ UNCHANGED <<visitors, reply, phase, fired, recent>>

Request(c, k) == OpenWindow(c, k) \/ Deny(c, k) \/ CountHit(c, k)

Next ==
    \/ Tick \/ Sweep \/ Stop \/ CleanerReturns
    \/ \E c \in Key : \E k \in KeysOf(c) : Request(c, k)

\* Time does not stop and the goroutine is scheduled.
Spec == Init /\ [][Next]_vars /\ WF_vars(Tick) /\ WF_vars(Sweep)

----------------------------------------------------------------------------

TypeOK ==
    /\ visitors \in [Key -> Visitor \union {Absent}]
    /\ reply \in [key : Key \union {Absent}, allowed : BOOLEAN, retry : Nat]
    /\ phase \in 0 .. (Window - 1)
    /\ fired \in BOOLEAN
    /\ cleaner \in {"running", "stopping", "gone"}
    /\ recent \in [Key -> [0 .. (Window - 1) -> Nat]]

\* Because windows are fixed, a client can get up to two windows' worth of
\* grants in a row, and never more, in any Window consecutive ticks, whatever
\* headers it sends.
AtMostTwoWindows == \A k \in Key : recent[k][Window - 1] <= 2 * MaxHits

\* A client that waits as long as Retry-After says finds its window over.  One
\* second less would have been too short, unless what is left of the window is
\* a whole number of seconds: then the client waits one second in vain.
RetryAfterSuffices ==
    [][\A c, k \in Key : Deny(c, k) =>
         LET left == Window - visitors[k].age
         IN  /\ reply'.retry * Second >= left
             /\ \/ (reply'.retry - 1) * Second < left
                \/ (reply'.retry - 1) * Second = left]_vars

\* An entry that outlived two windows is eventually swept, or used again,
\* unless the limiter is stopped.
StaleEntriesGo ==
    \A k \in Key : (visitors[k] # Absent /\ visitors[k].age = MaxAge)
                      ~> (visitors[k] = Absent \/ visitors[k].age < MaxAge \/ cleaner # "running")

\* The code implements the promise, client by client: headers buy no one a
\* window and cost no one theirs, an entry that is expired and one that was
\* swept are the same closed window, and sweeping and stopping go unnoticed.
Promise == INSTANCE WindowLimiter WITH
    Closed <- Absent,
    window <- [k \in Key |-> IF Expired(k) THEN Absent ELSE visitors[k]],
    reply <- [key |-> reply.key, allowed |-> reply.allowed]

ImplementsWindowLimiter == Promise!Spec
============================================================================
