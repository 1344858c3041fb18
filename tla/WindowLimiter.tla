--------------------------- MODULE WindowLimiter ---------------------------
(***************************************************************************)
(* What a fixed-window rate limiter promises to its clients, with no word  *)
(* on how windows are stored or when they are forgotten: a client's window *)
(* opens with a granted request, lasts Window clock ticks, and grants at   *)
(* most MaxHits requests; a request is denied only when its client's       *)
(* window is open and used up.                                             *)
(***************************************************************************)
EXTENDS Naturals

CONSTANTS Key, MaxHits, Window, Closed

VARIABLES window,   \* Closed, or [hits, age] of the client's open window
          reply     \* the last answer: whose it was and whether it was granted

Init ==
    /\ window = [k \in Key |-> Closed]
    /\ reply = [key |-> Closed, allowed |-> TRUE]

Grant(k) ==
    /\ window[k] # Closed => window[k].hits < MaxHits
    /\ window' = [window EXCEPT ![k] =
                    IF window[k] = Closed THEN [hits |-> 1, age |-> 0]
                    ELSE [window[k] EXCEPT !.hits = @ + 1]]
    /\ reply' = [key |-> k, allowed |-> TRUE]

Deny(k) ==
    /\ window[k] # Closed /\ window[k].hits = MaxHits
    /\ reply' = [key |-> k, allowed |-> FALSE]
    /\ UNCHANGED window

Tick ==
    /\ window' = [k \in Key |->
                    IF window[k] = Closed \/ window[k].age + 1 = Window THEN Closed
                    ELSE [window[k] EXCEPT !.age = @ + 1]]
    /\ UNCHANGED reply

Next == Tick \/ \E k \in Key : Grant(k) \/ Deny(k)

Spec == Init /\ [][Next]_<<window, reply>>
============================================================================
