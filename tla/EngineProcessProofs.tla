------------------------ MODULE EngineProcessProofs ------------------------
(***************************************************************************)
(* Theorems about EngineProcess, for any limit, any size of the pipes and  *)
(* any amount of output.                                                   *)
(***************************************************************************)
EXTENDS EngineProcess, TLAPS

----------------------------------------------------------------------------
\* The inductive invariant.

\* Where the runner is says what it knows of the helper and of the result.
RunnerInv ==
    /\ pc = "start" => helper = "none"
    /\ pc = "collecting" => helper = "exited"
    /\ pc = "done" => helper # "alive"
    /\ pc = "done" <=> result # "none"

\* A good status comes after the last write, the end of a file after the end of
\* its only writer, and a collector that gave up has cancelled the process.
OutputInv ==
    /\ status = "zero" => helper = "exited" /\ \A p \in Pipe : toWrite[p] = 0
    /\ \A p \in Pipe : collector[p] = "eof" => helper = "exited" /\ pipe[p] = 0
    /\ \A p \in Pipe : collector[p] = "overflow" => cancelled

IInv == TypeOK /\ RunnerInv /\ OutputInv /\ OnlyWholeOutput

----------------------------------------------------------------------------
\* Every action preserves the invariant.

LEMMA InitIInv == Init => IInv
<1> SUFFICES ASSUME Init PROVE IInv
  OBVIOUS
<1>1. pipe \in [Pipe -> 0 .. Capacity] /\ buffer \in [Pipe -> 0 .. Limit]
  BY SizesAssumption DEF Init
<1>2. collector \in [Pipe -> {"off", "reading", "eof", "overflow"}]
  BY DEF Init
<1>3. TypeOK
  BY <1>1, <1>2 DEF Init, TypeOK
<1>4. RunnerInv /\ OutputInv /\ OnlyWholeOutput
  BY DEF Init, RunnerInv, OutputInv, OnlyWholeOutput
<1> QED
  BY <1>3, <1>4 DEF IInv

LEMMA CancelledFlags ==
    ASSUME TypeOK, NEW b \in BOOLEAN, CancelProcess(b)
    PROVE  process' \in BOOLEAN /\ cancelled' \in BOOLEAN /\ timedOut' \in BOOLEAN /\ killTimer' \in BOOLEAN
  BY DEF TypeOK, CancelProcess

LEMMA LaunchIInv == IInv /\ Launch => IInv'
<1> SUFFICES ASSUME IInv, Launch PROVE IInv'
  OBVIOUS
<1>1. TypeOK'
  <2>1. process' \in BOOLEAN
    BY DEF IInv, TypeOK, Launch
  <2>2. /\ pc' \in {"launched", "done"} /\ helper' \in {"none", "alive", "exited"}
        /\ result' \in {"none", "bytes", "timeout", "cancelled", "failed"}
    BY DEF IInv, TypeOK, Launch
  <2>3. UNCHANGED <<cancelled, timedOut, killTimer, watchdog, status, toWrite, pipes, taskVars, outcome>>
    BY DEF Launch
  <2> QED
    BY <2>1, <2>2, <2>3 DEF IInv, TypeOK, pipes, taskVars
<1>2. RunnerInv' /\ OutputInv'
  BY DEF IInv, RunnerInv, OutputInv, Launch, pipes
<1>3. OnlyWholeOutput'
  BY DEF IInv, RunnerInv, OnlyWholeOutput, Launch, pipes
<1> QED
  BY <1>1, <1>2, <1>3 DEF IInv

LEMMA StartDrainingIInv == IInv /\ StartDraining => IInv'
<1> SUFFICES ASSUME IInv, StartDraining PROVE IInv'
  OBVIOUS
<1>1. TypeOK'
  BY DEF IInv, TypeOK, StartDraining, flags, helperVars, taskVars
<1>2. RunnerInv'
  BY DEF IInv, RunnerInv, StartDraining, helperVars
<1>3. OutputInv'
  BY DEF IInv, OutputInv, StartDraining, helperVars
<1>4. OnlyWholeOutput'
  BY DEF IInv, RunnerInv, OnlyWholeOutput, StartDraining, helperVars
<1> QED
  BY <1>1, <1>2, <1>3, <1>4 DEF IInv

LEMMA WriteRequestIInv == IInv /\ WriteRequest => IInv'
<1> SUFFICES ASSUME IInv, WriteRequest PROVE IInv'
  OBVIOUS
<1>1. TypeOK'
  <2>1. process' \in BOOLEAN /\ cancelled' \in BOOLEAN /\ timedOut' \in BOOLEAN /\ killTimer' \in BOOLEAN
    BY CancelledFlags DEF WriteRequest, flags, IInv, TypeOK
  <2>2. pc' = "waiting" /\ UNCHANGED <<watchdog, helperVars, pipes, taskVars, result, outcome>>
    BY DEF WriteRequest
  <2> QED
    BY <2>1, <2>2 DEF IInv, TypeOK, helperVars, pipes, taskVars
<1>2. RunnerInv' /\ OutputInv' /\ OnlyWholeOutput'
  BY DEF IInv, RunnerInv, OutputInv, OnlyWholeOutput, WriteRequest,
     CancelProcess, flags, helperVars, pipes
<1> QED
  BY <1>1, <1>2 DEF IInv

LEMMA AfterExitIInv == IInv /\ AfterExit => IInv'
<1> SUFFICES ASSUME IInv, AfterExit PROVE IInv'
  OBVIOUS
<1>1. TypeOK'
  BY DEF IInv, TypeOK, AfterExit, flags, helperVars, pipes, taskVars
<1>2. RunnerInv' /\ OutputInv' /\ OnlyWholeOutput'
  BY DEF IInv, RunnerInv, OutputInv, OnlyWholeOutput, AfterExit, flags,
     helperVars, pipes
<1> QED
  BY <1>1, <1>2 DEF IInv

LEMMA DecideIInv == IInv /\ Decide => IInv'
<1> SUFFICES ASSUME IInv, Decide PROVE IInv'
  OBVIOUS
<1>1. result' \in {"timeout", "cancelled", "bytes", "failed"}
  BY DEF Decide, Verdict
<1>2. result' = "bytes" => status = "zero" /\ \A p \in Pipe : collector[p] = "eof"
  BY DEF Decide, Verdict, IInv, OutputInv
<1>3. TypeOK'
  <2>1. process' = FALSE /\ pc' = "done"
    BY DEF Decide
  <2>2. UNCHANGED <<cancelled, timedOut, killTimer, watchdog, helperVars, pipes, taskVars, outcome>>
    BY DEF Decide
  <2>3. process' \in BOOLEAN
    BY <2>1
  <2> QED
    BY <1>1, <2>1, <2>2, <2>3 DEF IInv, TypeOK, helperVars, pipes, taskVars
<1>4. RunnerInv' /\ OutputInv'
  BY <1>1 DEF IInv, RunnerInv, OutputInv, Decide, helperVars, pipes
<1>5. OnlyWholeOutput'
  <2>1. "out" \in Pipe /\ buffer["out"] \in 0 .. Limit
    BY DEF IInv, TypeOK, Pipe
  <2>2. result' = "bytes" => toWrite["out"] = 0 /\ pipe["out"] = 0 /\ buffer["out"] <= Limit
    BY <1>2, <2>1, SizesAssumption DEF IInv, OutputInv
  <2> QED
    BY <1>2, <2>2 DEF OnlyWholeOutput, Decide, helperVars, pipes
<1> QED
  BY <1>3, <1>4, <1>5 DEF IInv

LEMMA CallReturnsIInv == IInv /\ CallReturns => IInv'
<1> SUFFICES ASSUME IInv, CallReturns PROVE IInv'
  OBVIOUS
<1>1. result \in {"bytes", "timeout", "cancelled", "failed"}
  BY DEF IInv, TypeOK, RunnerInv, CallReturns
<1>2. outcome' \in {"ok", "timeout", "cancelled", "failed"}
  BY <1>1 DEF CallReturns, CallOutcomes
<1>3. TypeOK'
  BY <1>2 DEF IInv, TypeOK, CallReturns, flags, helperVars, pipes, taskVars
<1>4. RunnerInv' /\ OutputInv' /\ OnlyWholeOutput'
  BY DEF IInv, RunnerInv, OutputInv, OnlyWholeOutput, CallReturns, flags,
     helperVars, pipes
<1> QED
  BY <1>3, <1>4 DEF IInv

\* What cancels the process changes nothing the other invariants speak of.
LEMMA CancellationIInv ==
    ASSUME IInv, TaskCancel \/ HandlerRuns \/ WatchdogBegins \/ WatchdogCancels
    PROVE  IInv'
<1>1. TypeOK'
  <2>1. process' \in BOOLEAN /\ cancelled' \in BOOLEAN /\ timedOut' \in BOOLEAN /\ killTimer' \in BOOLEAN
    BY CancelledFlags DEF TaskCancel, HandlerRuns, WatchdogBegins, WatchdogCancels, flags, IInv, TypeOK
  <2>2. /\ taskCancelled' \in BOOLEAN /\ handler' \in {"idle", "due", "ran"}
        /\ watchdog' \in {"off", "armed", "begun"}
    BY DEF TaskCancel, HandlerRuns, WatchdogBegins, WatchdogCancels, taskVars, IInv, TypeOK
  <2>3. UNCHANGED <<pc, helperVars, pipes, result, outcome>>
    BY DEF TaskCancel, HandlerRuns, WatchdogBegins, WatchdogCancels
  <2> QED
    BY <2>1, <2>2, <2>3 DEF IInv, TypeOK, helperVars, pipes
<1>2. UNCHANGED <<pc, helperVars, pipes, result>>
  BY DEF TaskCancel, HandlerRuns, WatchdogBegins, WatchdogCancels
<1>3. cancelled => cancelled'
  BY DEF TaskCancel, HandlerRuns, WatchdogBegins, WatchdogCancels, CancelProcess, flags
<1>4. RunnerInv' /\ OutputInv' /\ OnlyWholeOutput'
  BY <1>2, <1>3 DEF IInv, RunnerInv, OutputInv, OnlyWholeOutput, helperVars, pipes
<1> QED
  BY <1>1, <1>4 DEF IInv

LEMMA KillIInv == IInv /\ Kill => IInv'
<1> SUFFICES ASSUME IInv, Kill PROVE IInv'
  OBVIOUS
<1>1. TypeOK'
  <2>1. killTimer' \in BOOLEAN
    BY DEF Kill
  <2>2. helper' \in {"none", "alive", "exited"} /\ status' \in {"none", "zero", "bad"}
    BY DEF IInv, TypeOK, Kill
  <2>3. UNCHANGED <<pc, process, cancelled, timedOut, watchdog, toWrite, pipes, taskVars, result, outcome>>
    BY DEF Kill
  <2> QED
    BY <2>1, <2>2, <2>3 DEF IInv, TypeOK, pipes, taskVars
<1>2. RunnerInv'
  BY DEF IInv, RunnerInv, Kill
<1>3. OutputInv'
  BY DEF IInv, OutputInv, Kill, pipes
<1>4. OnlyWholeOutput'
  BY DEF IInv, RunnerInv, OutputInv, OnlyWholeOutput, Kill, pipes
<1> QED
  BY <1>1, <1>2, <1>3, <1>4 DEF IInv

LEMMA ReadIInv == ASSUME IInv, NEW p \in Pipe, Read(p) PROVE IInv'
<1>1. pipe[p] \in 0 .. Capacity /\ pipe[p] > 0 /\ buffer[p] \in 0 .. Limit
  BY DEF IInv, TypeOK, Read
<1>2. pipe[p] - 1 \in 0 .. Capacity
  BY <1>1, SizesAssumption
<1>3. ~TooMuch(p) => buffer[p] + 1 \in 0 .. Limit
  BY <1>1, SizesAssumption DEF TooMuch
<1>4. pipe' \in [Pipe -> 0 .. Capacity] /\ buffer' \in [Pipe -> 0 .. Limit]
  BY <1>2, <1>3 DEF IInv, TypeOK, Read
<1>5. collector' \in [Pipe -> {"off", "reading", "eof", "overflow"}]
  BY DEF IInv, TypeOK, Read
<1>6. process' \in BOOLEAN /\ cancelled' \in BOOLEAN /\ timedOut' \in BOOLEAN /\ killTimer' \in BOOLEAN
  BY DEF IInv, TypeOK, Read, CancelProcess, flags
<1>7. TypeOK'
  BY <1>4, <1>5, <1>6 DEF IInv, TypeOK, Read, helperVars, taskVars
<1>8. RunnerInv'
  BY DEF IInv, RunnerInv, Read, helperVars
<1>9. \A q \in Pipe : collector'[q] = "eof" => collector[q] = "eof" /\ pipe'[q] = pipe[q]
  BY DEF IInv, TypeOK, Read
<1>10. \A q \in Pipe : collector'[q] = "overflow" => cancelled'
  BY DEF IInv, TypeOK, OutputInv, Read, CancelProcess, flags
<1>11. OutputInv'
  BY <1>9, <1>10 DEF IInv, OutputInv, Read, helperVars
<1>12. result = "bytes" => p # "out" /\ buffer'["out"] = buffer["out"] /\ pipe'["out"] = pipe["out"]
                          /\ collector'["out"] = collector["out"]
  BY DEF IInv, TypeOK, OnlyWholeOutput, Read, Pipe
<1>13. OnlyWholeOutput'
  BY <1>12 DEF IInv, OnlyWholeOutput, Read, helperVars
<1> QED
  BY <1>7, <1>8, <1>11, <1>13 DEF IInv

LEMMA ReadFailsIInv == ASSUME IInv, NEW p \in Pipe, ReadFails(p) PROVE IInv'
<1>1. TypeOK'
  BY DEF IInv, TypeOK, ReadFails, CancelProcess, helperVars, taskVars
<1>2. RunnerInv'
  BY DEF IInv, RunnerInv, ReadFails, helperVars
<1>3. OutputInv'
  BY DEF IInv, TypeOK, OutputInv, ReadFails, CancelProcess, helperVars
<1>4. OnlyWholeOutput'
  BY DEF IInv, TypeOK, OnlyWholeOutput, ReadFails, helperVars
<1> QED
  BY <1>1, <1>2, <1>3, <1>4 DEF IInv

LEMMA EndOfFileIInv == ASSUME IInv, NEW p \in Pipe, EndOfFile(p) PROVE IInv'
<1>1. TypeOK'
  BY DEF IInv, TypeOK, EndOfFile, flags, helperVars, taskVars
<1>2. RunnerInv'
  BY DEF IInv, RunnerInv, EndOfFile, helperVars
<1>3. OutputInv'
  BY DEF IInv, TypeOK, OutputInv, EndOfFile, flags, helperVars
<1>4. OnlyWholeOutput'
  BY DEF IInv, TypeOK, OnlyWholeOutput, EndOfFile, helperVars
<1> QED
  BY <1>1, <1>2, <1>3, <1>4 DEF IInv

LEMMA HelperWritesIInv == ASSUME IInv, NEW p \in Pipe, HelperWrites(p) PROVE IInv'
<1>1. toWrite[p] - 1 \in 0 .. MaxOutput /\ pipe[p] + 1 \in 0 .. Capacity
  BY SizesAssumption DEF IInv, TypeOK, HelperWrites
<1>2. TypeOK'
  BY <1>1 DEF IInv, TypeOK, HelperWrites, flags, taskVars
<1>3. status # "zero" /\ \A q \in Pipe : collector[q] # "eof"
  BY DEF IInv, OutputInv, HelperWrites
<1>4. RunnerInv' /\ OutputInv'
  BY <1>3 DEF IInv, RunnerInv, OutputInv, HelperWrites, flags
<1>5. OnlyWholeOutput'
  BY <1>3 DEF IInv, OnlyWholeOutput, HelperWrites
<1> QED
  BY <1>2, <1>4, <1>5 DEF IInv

LEMMA HelperExitsIInv == IInv /\ HelperExits => IInv'
<1> SUFFICES ASSUME IInv, HelperExits PROVE IInv'
  OBVIOUS
<1>1. TypeOK'
  BY DEF IInv, TypeOK, HelperExits, flags, pipes, taskVars
<1>2. RunnerInv'
  BY DEF IInv, RunnerInv, HelperExits
<1>3. OutputInv'
  BY DEF IInv, OutputInv, HelperExits, flags, pipes
<1>4. result # "bytes"
  BY DEF IInv, RunnerInv, TypeOK, HelperExits
<1>5. OnlyWholeOutput'
  BY <1>4 DEF OnlyWholeOutput, HelperExits
<1> QED
  BY <1>1, <1>2, <1>3, <1>5 DEF IInv

LEMMA NextIInv == IInv /\ [Next]_vars => IInv'
<1> SUFFICES ASSUME IInv, [Next]_vars PROVE IInv'
  OBVIOUS
<1>1. CASE Runner
  BY <1>1, LaunchIInv, StartDrainingIInv, WriteRequestIInv, AfterExitIInv, DecideIInv,
     CallReturnsIInv DEF Runner
<1>2. CASE TaskCancel \/ HandlerRuns \/ WatchdogBegins \/ WatchdogCancels
  BY <1>2, CancellationIInv
<1>3. CASE Kill \/ HelperExits
  BY <1>3, KillIInv, HelperExitsIInv
<1>4. CASE \E p \in Pipe : Collect(p) \/ ReadFails(p) \/ HelperWrites(p)
  BY <1>4, ReadIInv, EndOfFileIInv, ReadFailsIInv, HelperWritesIInv DEF Collect
<1>5. CASE UNCHANGED vars
  BY <1>5 DEF vars, flags, helperVars, pipes, taskVars, IInv, TypeOK, RunnerInv, OutputInv,
     OnlyWholeOutput
<1> QED
  BY <1>1, <1>2, <1>3, <1>4, <1>5 DEF Next

LEMMA Inductive == Spec => []IInv
  BY InitIInv, NextIInv, PTL DEF Spec

----------------------------------------------------------------------------
\* The theorems.

\* The variables of a call keep their types: the buffers their limit, the
\* pipes their capacity.
THEOREM TypeCorrect == Spec => []TypeOK
<1>1. IInv => TypeOK
  BY DEF IInv
<1> QED
  BY <1>1, Inductive, PTL

\* No helper survives its call, whatever it does and whoever cancels it.
THEOREM NothingLeftBehind == Spec => []NoHelperLeftBehind
<1>1. IInv => NoHelperLeftBehind
  BY DEF IInv, RunnerInv, NoHelperLeftBehind
<1> QED
  BY <1>1, Inductive, PTL

\* What execute hands out is everything the helper wrote, and neither pipe was
\* given up on.
THEOREM OutputIsWhole == Spec => []OnlyWholeOutput
<1>1. IInv => OnlyWholeOutput
  BY DEF IInv
<1> QED
  BY <1>1, Inductive, PTL

\* One step of the call is a step of the abstract call or none of its business.
LEMMA StepSimulation ==
    ASSUME IInv, [Next]_vars
    PROVE  [Call!Next]_<<outcome, taskCancelled>>
<1>1. CASE CallReturns
  <2>1. result \in {"bytes", "timeout", "cancelled", "failed"}
    BY <1>1 DEF IInv, TypeOK, RunnerInv, CallReturns
  <2>2. outcome' \in IF taskCancelled THEN {"ok", "timeout", "cancelled", "failed"} \ {"ok"}
                     ELSE {"ok", "timeout", "cancelled", "failed"}
    BY <1>1, <2>1 DEF CallReturns, CallOutcomes
  <2>3. Call!Return
    BY <1>1, <2>2 DEF CallReturns, Call!Return, taskVars
  <2> QED
    BY <2>3 DEF Call!Next
<1>2. CASE TaskCancel
  BY <1>2 DEF TaskCancel, Call!Next, Call!Cancel
<1>3. CASE Launch \/ StartDraining \/ WriteRequest \/ AfterExit \/ Decide
  BY <1>3 DEF Launch, StartDraining, WriteRequest, AfterExit, Decide, taskVars
<1>4. CASE HandlerRuns \/ WatchdogBegins \/ WatchdogCancels \/ Kill \/ HelperExits
  BY <1>4 DEF HandlerRuns, WatchdogBegins, WatchdogCancels, Kill, HelperExits, taskVars
<1>5. CASE \E p \in Pipe : Collect(p) \/ ReadFails(p) \/ HelperWrites(p)
  BY <1>5 DEF Collect, Read, EndOfFile, ReadFails, HelperWrites, taskVars
<1>6. CASE UNCHANGED vars
  BY <1>6 DEF vars, taskVars
<1> QED
  BY <1>1, <1>2, <1>3, <1>4, <1>5, <1>6 DEF Next, Runner

\* Apart from its promise to return, which is a matter of fairness, the call
\* implements the abstract one: it returns once, and no value once cancelled.
THEOREM SafelyImplementsEngineCall ==
    Spec => Call!Init /\ [][Call!Next]_<<outcome, taskCancelled>>
<1>1. Init => Call!Init
  BY DEF Init, Call!Init
<1> QED
  BY <1>1, StepSimulation, Inductive, PTL DEF Spec

============================================================================
