----------------------------- MODULE EngineCall -----------------------------
(***************************************************************************)
(* What EngineClient.call promises to FisherModel: a call that was made    *)
(* returns, once, a value or an error; a task that was cancelled before    *)
(* the call returned gets an error.                                        *)
(***************************************************************************)
CONSTANT Results   \* every way a call can end; "ok" is the only good one

VARIABLES outcome,     \* "pending" or how the call ended
          cancelled    \* the awaiting task was cancelled before that

Init == outcome = "pending" /\ cancelled = FALSE

Cancel == outcome = "pending" /\ cancelled' = TRUE /\ UNCHANGED outcome

Return ==
    /\ outcome = "pending"
    /\ outcome' \in IF cancelled THEN Results \ {"ok"} ELSE Results
    /\ UNCHANGED cancelled

Next == Cancel \/ Return

Spec == Init /\ [][Next]_<<outcome, cancelled>> /\ WF_<<outcome, cancelled>>(Return)
=============================================================================
