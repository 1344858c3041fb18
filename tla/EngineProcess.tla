--------------------------- MODULE EngineProcess ---------------------------
(***************************************************************************)
(* One EngineClient.call: the helper process, the thread that runs         *)
(* EngineProcess.execute, the two Collectors that drain its pipes, the     *)
(* watchdog, the delayed SIGKILL and the Swift task's cancellation         *)
(* handler, all running concurrently.  NSLock makes cancel and the locked  *)
(* parts of execute single steps.                                          *)
(*                                                                         *)
(* The helper is not trusted to behave: it writes any amount to both       *)
(* pipes, blocks on a full one, exits with any status, ignores SIGTERM     *)
(* (fvf-engine traps it) or hangs for ever.  Only SIGKILL always ends it.  *)
(* Output is counted in chunks; the request fits the stdin pipe.           *)
(***************************************************************************)
EXTENDS Naturals

CONSTANTS
    Limit,     \* chunks a collector accepts
    Capacity,  \* chunks a pipe holds
    MaxOutput  \* bound: chunks the helper wants to write to one pipe

ASSUME SizesAssumption ==
    Limit \in Nat /\ Capacity \in Nat \ {0} /\ MaxOutput \in Nat

Pipe == {"out", "err"}

VARIABLES
    pc,          \* the thread in execute, then call after it
    process,     \* the process is set (not nil)
    cancelled, timedOut,
    watchdog,    \* the DispatchWorkItem
    killTimer,   \* a SIGKILL is due
    helper, status,
    toWrite, pipe,          \* per pipe: chunks still to write, chunks in it
    collector, buffer,      \* per pipe: the collector's state, chunks it holds
    taskCancelled, handler, \* the awaiting task, and its onCancel handler
    result, outcome         \* what execute and call gave

flags == <<process, cancelled, timedOut, killTimer>>
helperVars == <<helper, status, toWrite>>
pipes == <<pipe, collector, buffer>>
taskVars == <<taskCancelled, handler>>
vars == <<pc, flags, watchdog, helperVars, pipes, taskVars, result, outcome>>

----------------------------------------------------------------------------

Init ==
    /\ pc = "start"
    /\ process = FALSE /\ cancelled = FALSE /\ timedOut = FALSE
    /\ watchdog = "off" /\ killTimer = FALSE
    /\ helper = "none" /\ status = "none"
    /\ toWrite \in [Pipe -> 0 .. MaxOutput]
    /\ pipe = [p \in Pipe |-> 0]
    /\ collector = [p \in Pipe |-> "off"]
    /\ buffer = [p \in Pipe |-> 0]
    /\ taskCancelled = FALSE /\ handler = "idle"
    /\ result = "none" /\ outcome = "pending"

\* EngineProcess.cancel: SIGTERM now (which the helper may ignore), and a
\* SIGKILL half a second later.
CancelProcess_TermOnly(timeout) ==
    /\ cancelled' = TRUE
    /\ timedOut' = (timedOut \/ timeout)
    /\ UNCHANGED <<process, killTimer>>

CancelProcess(timeout) ==
    /\ cancelled' = TRUE
    /\ timedOut' = (timedOut \/ timeout)
    /\ killTimer' = (killTimer \/ process)
    /\ UNCHANGED process

\* The first locked part of execute.
Launch ==
    /\ pc = "start"
    /\ \/ /\ cancelled
          /\ result' = "cancelled" /\ pc' = "done"
          /\ UNCHANGED <<process, helper>>
       \/ /\ ~cancelled   \* run throws
          /\ result' = "failed" /\ pc' = "done"
          /\ UNCHANGED <<process, helper>>
       \/ /\ ~cancelled
          /\ process' = TRUE /\ helper' = "alive" /\ pc' = "launched"
          /\ UNCHANGED result
    /\ UNCHANGED <<cancelled, timedOut, killTimer, watchdog, status, toWrite, pipes,
                   taskVars, outcome>>

\* The watchdog is scheduled and both collectors start.
StartDraining_OutputOnly ==
    /\ pc = "launched"
    /\ watchdog' = "armed"
    /\ collector' = [p \in Pipe |-> IF p = "out" THEN "reading" ELSE "off"]
    /\ pc' = "writing"
    /\ UNCHANGED <<flags, helperVars, pipe, buffer, taskVars, result, outcome>>

StartDraining ==
    /\ pc = "launched"
    /\ watchdog' = "armed"
    /\ collector' = [p \in Pipe |-> "reading"]
    /\ pc' = "writing"
    /\ UNCHANGED <<flags, helperVars, pipe, buffer, taskVars, result, outcome>>

\* Writing the request; it fails if the helper is already gone.
WriteRequest ==
    /\ pc = "writing"
    /\ pc' = "waiting"
    /\ \/ UNCHANGED flags
       \/ helper = "exited" /\ CancelProcess(FALSE)
    /\ UNCHANGED <<watchdog, helperVars, pipes, taskVars, result, outcome>>

\* waitUntilExit, then the watchdog is cancelled (unless its body has begun).
AfterExit_NoWait ==
    /\ pc = "waiting"
    /\ watchdog' = IF watchdog = "armed" THEN "off" ELSE watchdog
    /\ pc' = "collecting"
    /\ UNCHANGED <<flags, helperVars, pipes, taskVars, result, outcome>>

AfterExit ==
    /\ pc = "waiting" /\ helper = "exited"
    /\ watchdog' = IF watchdog = "armed" THEN "off" ELSE watchdog
    /\ pc' = "collecting"
    /\ UNCHANGED <<flags, helperVars, pipes, taskVars, result, outcome>>

\* Both finish() calls, then the last locked part and the verdict.
HasBytes == collector["out"] = "eof"

Verdict_EvenCancelled ==
    IF timedOut THEN "timeout"
    ELSE IF status = "zero" /\ HasBytes THEN "bytes" ELSE "failed"

Verdict ==
    IF timedOut THEN "timeout"
    ELSE IF cancelled THEN "cancelled"
    ELSE IF status = "zero" /\ HasBytes THEN "bytes" ELSE "failed"

Decide ==
    /\ pc = "collecting"
    /\ \A p \in Pipe : collector[p] \in {"eof", "overflow"}
    /\ result' = Verdict
    /\ process' = FALSE
    /\ pc' = "done"
    /\ UNCHANGED <<cancelled, timedOut, killTimer, watchdog, helperVars, pipes, taskVars, outcome>>

\* The rest of call: the cancellation check, then the envelope, which may
\* not decode, may be another request's, or may carry an error.
CallOutcomes ==
    IF taskCancelled THEN (IF result = "bytes" THEN {"cancelled"} ELSE {result})
    ELSE IF result = "bytes" THEN {"ok", "failed"} ELSE {result}

CallReturns ==
    /\ pc = "done" /\ outcome = "pending"
    /\ outcome' \in CallOutcomes
    /\ UNCHANGED <<pc, flags, watchdog, helperVars, pipes, taskVars, result>>

----------------------------------------------------------------------------

\* The user cancels: the task is flagged, then its handler calls cancel.
TaskCancel ==
    /\ ~taskCancelled /\ outcome = "pending"
    /\ taskCancelled' = TRUE /\ handler' = "due"
    /\ UNCHANGED <<pc, flags, watchdog, helperVars, pipes, result, outcome>>

HandlerRuns ==
    /\ handler = "due"
    /\ handler' = "ran"
    /\ CancelProcess(FALSE)
    /\ UNCHANGED <<pc, watchdog, helperVars, pipes, taskCancelled, result, outcome>>

\* The time is up.  A work item whose body has begun can no longer be
\* cancelled.
WatchdogBegins ==
    /\ watchdog = "armed"
    /\ watchdog' = "begun"
    /\ UNCHANGED <<pc, flags, helperVars, pipes, taskVars, result, outcome>>

WatchdogCancels ==
    /\ watchdog = "begun"
    /\ watchdog' = "off"
    /\ CancelProcess(TRUE)
    /\ UNCHANGED <<pc, helperVars, pipes, taskVars, result, outcome>>

Kill ==
    /\ killTimer
    /\ killTimer' = FALSE
    /\ IF helper = "alive" THEN helper' = "exited" /\ status' = "bad"
                           ELSE UNCHANGED <<helper, status>>
    /\ UNCHANGED <<pc, process, cancelled, timedOut, watchdog, toWrite, pipes, taskVars,
                   result, outcome>>

----------------------------------------------------------------------------

\* A collector reads a chunk; one too many makes it cancel the process, close
\* the pipe and give up without data.
TooMuch_OffByOne(p) == buffer[p] > Limit
TooMuch(p) == buffer[p] + 1 > Limit

Read(p) ==
    /\ collector[p] = "reading" /\ pipe[p] > 0
    /\ pipe' = [pipe EXCEPT ![p] = @ - 1]
    /\ IF TooMuch(p)
       THEN /\ collector' = [collector EXCEPT ![p] = "overflow"]
            /\ CancelProcess(FALSE)
            /\ UNCHANGED buffer
       ELSE /\ buffer' = [buffer EXCEPT ![p] = @ + 1]
            /\ UNCHANGED <<collector, flags>>
    /\ UNCHANGED <<pc, watchdog, helperVars, taskVars, result, outcome>>

ReadFails(p) ==
    /\ collector[p] = "reading"
    /\ collector' = [collector EXCEPT ![p] = "overflow"]
    /\ CancelProcess(FALSE)
    /\ UNCHANGED <<pc, watchdog, helperVars, pipe, buffer, taskVars, result, outcome>>

EndOfFile(p) ==
    /\ collector[p] = "reading" /\ pipe[p] = 0 /\ helper = "exited"
    /\ collector' = [collector EXCEPT ![p] = "eof"]
    /\ UNCHANGED <<pc, flags, watchdog, helperVars, pipe, buffer, taskVars, result, outcome>>

Collect(p) == Read(p) \/ EndOfFile(p)

\* The helper writes, dies of a closed pipe, ends normally once everything is
\* written, or ends badly at any time (its own watchdog, a panic, a signal).
HelperWrites(p) ==
    /\ helper = "alive" /\ toWrite[p] > 0 /\ pipe[p] < Capacity
    /\ collector[p] # "overflow"
    /\ toWrite' = [toWrite EXCEPT ![p] = @ - 1]
    /\ pipe' = [pipe EXCEPT ![p] = @ + 1]
    /\ UNCHANGED <<pc, flags, watchdog, helper, status, collector, buffer, taskVars, result, outcome>>

HelperExits ==
    /\ helper = "alive"
    /\ helper' = "exited"
    /\ status' \in IF \A p \in Pipe : toWrite[p] = 0 THEN {"zero", "bad"} ELSE {"bad"}
    /\ UNCHANGED <<pc, flags, watchdog, toWrite, pipes, taskVars, result, outcome>>

Runner == Launch \/ StartDraining \/ WriteRequest \/ AfterExit \/ Decide \/ CallReturns

Next ==
    \/ Runner
    \/ TaskCancel \/ HandlerRuns \/ WatchdogBegins \/ WatchdogCancels \/ Kill
    \/ \E p \in Pipe : Collect(p) \/ ReadFails(p) \/ HelperWrites(p)
    \/ HelperExits

\* Threads are scheduled and timers fire.  Nothing is assumed of the helper,
\* nor that the user cancels.
Fairness ==
    /\ WF_vars(Runner) /\ WF_vars(HandlerRuns)
    /\ WF_vars(WatchdogBegins) /\ WF_vars(WatchdogCancels) /\ WF_vars(Kill)
    /\ \A p \in Pipe : WF_vars(Collect(p))

Spec == Init /\ [][Next]_vars /\ Fairness

----------------------------------------------------------------------------

TypeOK ==
    /\ pc \in {"start", "launched", "writing", "waiting", "collecting", "done"}
    /\ process \in BOOLEAN /\ cancelled \in BOOLEAN /\ timedOut \in BOOLEAN
    /\ killTimer \in BOOLEAN
    /\ watchdog \in {"off", "armed", "begun"}
    /\ helper \in {"none", "alive", "exited"}
    /\ status \in {"none", "zero", "bad"}
    /\ toWrite \in [Pipe -> 0 .. MaxOutput]
    /\ pipe \in [Pipe -> 0 .. Capacity]
    /\ collector \in [Pipe -> {"off", "reading", "eof", "overflow"}]
    /\ buffer \in [Pipe -> 0 .. Limit]
    /\ taskCancelled \in BOOLEAN /\ handler \in {"idle", "due", "ran"}
    /\ result \in {"none", "bytes", "timeout", "cancelled", "failed"}
    /\ outcome \in {"pending", "ok", "timeout", "cancelled", "failed"}

\* When the call comes back no helper is left running behind it, whoever
\* cancelled it and whenever, including before it was launched.
NoHelperLeftBehind == pc = "done" => helper # "alive"

\* execute hands out output only if the helper ended well after writing all it
\* meant to, all of it was collected within the limit, and both collectors came
\* to the end of their pipe: one that gave up, be it on the messages in stderr
\* only, costs the answer, because it cancels the process.
OnlyWholeOutput ==
    result = "bytes" =>
        /\ toWrite["out"] = 0 /\ pipe["out"] = 0
        /\ \A p \in Pipe : collector[p] = "eof"
        /\ status = "zero" /\ buffer["out"] <= Limit

\* Both pipes are drained while the helper runs: a full pipe never blocks it
\* until the watchdog has to end it.
FullPipesAreDrained ==
    \A p \in Pipe : pipe[p] = Capacity ~> (pipe[p] < Capacity \/ collector[p] = "overflow")

\* The call keeps its promise to the view model, including that it returns
\* however the helper behaves.
Call == INSTANCE EngineCall WITH
    Results <- {"ok", "timeout", "cancelled", "failed"},
    outcome <- outcome,
    cancelled <- taskCancelled

ImplementsEngineCall == Call!Spec
============================================================================
