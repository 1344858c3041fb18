------------------------- MODULE FisherModelProofs -------------------------
(***************************************************************************)
(* Theorems about FisherModel, for every number of generations, candidates *)
(* and unfinished tasks, and every batch size.                             *)
(***************************************************************************)
EXTENDS FisherModel, WellFoundedInduction, TLAPS

----------------------------------------------------------------------------
\* The inductive invariant.  BusyWhileOneTaskWorks alone is not inductive: a
\* new generation could meet a task that already carries its token, and a
\* task could outlive its generation in the variable that names the newest.

TokensPast == \A s \in Slot : Running(s) => tasks[s].token <= generation

NewestTaskIsCurrent == \A s \in Slot : Running(s) /\ s = task => Current(tasks[s])

\* A task that still counts fetches for the page on show; IconsOfShownPage
\* follows from it, since only such a task installs an icon.
LiveTaskOnShownPage ==
    \A s \in Slot : Running(s) /\ Live(tasks[s]) =>
        /\ tasks[s].kind \in {"batch", "select"} =>
               tasks[s].url[1] = candidates.from /\ tasks[s].dir = currentCache
        /\ tasks[s].kind = "batch" => tasks[s].count = candidates.count
        /\ tasks[s].kind = "select" => tasks[s].url[2] < candidates.count

\* A task that counts has the selection to itself: until the first icon is
\* there a discovery shows nothing, a click waits for the icon it selected,
\* and an export is of the selected one.
TaskFitsSelection ==
    \A s \in Slot : Running(s) /\ Current(tasks[s]) =>
        /\ tasks[s].kind \in {"discover", "batch", "select"} => savedURL = None
        /\ tasks[s].kind = "batch" =>
             /\ selectedID = None /\ format = "original"
             /\ \A i \in Id : loaded[i] = None
             /\ \A i \in failures : i < tasks[s].url[2]
        /\ tasks[s].kind = "select" =>
             selectedID = tasks[s].url[2] /\ loaded[tasks[s].url[2]] = None
        /\ tasks[s].kind \in {"copy", "save"} =>
             selection # None /\ tasks[s].url = selection.url

SavedIsShown == savedURL # None => selection # None /\ savedURL = selection.url

CardsInv == SavedIsShown /\ FormatIsOffered /\ FailedNotLoaded /\ LoadedIconIsSelected
SelectionInv == TaskFitsSelection /\ CardsInv

TaskInv == TokensPast /\ NewestTaskIsCurrent /\ BusyWhileOneTaskWorks
PageInv == LiveTaskOnShownPage /\ IconsOfShownPage
IInv == TypeOK /\ TaskInv /\ PageInv /\ SelectionInv

----------------------------------------------------------------------------
\* Lemmas about the operators.

\* A nonempty set of naturals has a least element, and First returns it.
LEMMA FirstIsLeast ==
    ASSUME NEW S \in SUBSET Nat, S # {}
    PROVE  First(S) \in S /\ \A j \in S : First(S) <= j
<1>. DEFINE R == {p \in Nat \X Nat : p[1] < p[2]}
<1>1. IsWellFoundedOn(R, Nat)
    BY NatLessThanWellFounded DEF OpToRel
<1>2. \E i \in S : \A j \in S : <<j, i>> \notin R
    BY <1>1, WFMin, Zenon
<1>3. ASSUME NEW i \in S, NEW j \in S, <<j, i>> \notin R
      PROVE  i <= j
  <2>1. i \in Nat /\ j \in Nat /\ <<j, i>> \in Nat \X Nat
      OBVIOUS
  <2>2. ~ (j < i)
      BY <1>3, <2>1, Zenon
  <2>. QED
      BY <2>1, <2>2
<1>4. \E i \in S : \A j \in S : i <= j
    BY <1>2, <1>3, Zenon
<1>. QED
    BY <1>4 DEF First

\* What the next selection can be.
LEMMA FirstUsableType ==
    ASSUME NEW icons
    PROVE  FirstUsable(icons) \in Id \union {None}
<1>. DEFINE loadedIds == {i \in Id : i < candidates.count /\ icons[i] # None}
            imageIds == {i \in loadedIds : icons[i].image}
<1>1. Id \subseteq Nat
    BY BoundsAssumption DEF Id
<1>2. imageIds # {} => First(imageIds) \in Id
    BY <1>1, FirstIsLeast
<1>3. loadedIds # {} => First(loadedIds) \in Id
    BY <1>1, FirstIsLeast
<1>. QED
    BY <1>2, <1>3 DEF FirstUsable

\* Installing outcomes of a discovery yields icons or nothing.
LEMMA InstalledType ==
    ASSUME TypeOK, NEW from \in Gen, NEW dir \in Gen, NEW got
    PROVE  Installed(got, from, dir) \in [Id -> Icon \union {None}]
<1>1. ASSUME NEW i \in Id, NEW o
      PROVE  IconOf(o, <<from, i>>, dir) \in Icon
    BY DEF IconOf, Icon, Url, AllowedFormats, Format
<1>. QED
    BY <1>1 DEF Installed, TypeOK

\* Cancelling only sets a flag.
LEMMA CancelledTasksType ==
    ASSUME TypeOK
    PROVE  TasksAfterCancel \in [Slot -> TaskRecord \union {None}]
    BY DEF TypeOK, TasksAfterCancel, TaskRecord, Running

\* The task of a discovery goes on as a task waiting for its first batch ...
LEMMA PageReadTaskType ==
    ASSUME NEW t \in TaskRecord, NEW n \in 0 .. MaxIcons
    PROVE  LET b == [t EXCEPT !.kind = "batch", !.url = <<t.token, 0>>,
                              !.dir = t.token, !.count = n]
           IN  b \in TaskRecord /\ b.token = t.token /\ b.cancelled = t.cancelled
<1>1. t.token \in Gen
    BY DEF TaskRecord
<1>2. <<t.token, 0>> \in Url
    BY <1>1, BoundsAssumption DEF Url, Id
<1>. QED
    BY <1>1, <1>2 DEF TaskRecord

\* ... and from batch to batch.
LEMMA NextBatchTaskType ==
    ASSUME NEW t \in TaskRecord, HasMore(t)
    PROVE  LET b == [t EXCEPT !.url = <<t.url[1], t.url[2] + BatchSize>>]
           IN  b \in TaskRecord /\ b.token = t.token /\ b.cancelled = t.cancelled
<1>1. t.url[1] \in Gen /\ t.url[2] \in Id /\ t.count \in 0 .. MaxIcons
    BY DEF TaskRecord, Url
<1>2. <<t.url[1], t.url[2] + BatchSize>> \in Url
    BY <1>1, BoundsAssumption DEF HasMore, Url, Id
<1>. QED
    BY <1>1, <1>2 DEF TaskRecord

----------------------------------------------------------------------------
\* Type correctness.

LEMMA InitTypeOK == Init => TypeOK
<1>. SUFFICES ASSUME Init PROVE TypeOK
    OBVIOUS
<1>1. 0 \in Gen /\ 0 \in 0 .. MaxIcons /\ "original" \in Format
    BY BoundsAssumption DEF Gen, Format
<1>2. candidates \in [from : Gen, count : 0 .. MaxIcons]
    BY <1>1 DEF Init
<1>3. loaded \in [Id -> Icon \union {None}] /\ tasks \in [Slot -> TaskRecord \union {None}]
    BY DEF Init
<1>. QED
    BY <1>1, <1>2, <1>3 DEF Init, TypeOK

LEMMA DiscoverTypeOK == TypeOK /\ Discover => TypeOK'
<1>. SUFFICES ASSUME TypeOK, generation < MaxGen, NEW s \in Slot, DiscoverInSlot(s)
              PROVE  TypeOK'
    BY DEF Discover
<1>. DEFINE t == [kind |-> "discover", token |-> NextGeneration, cancelled |-> FALSE,
                  url |-> <<0, 0>>, dir |-> 0, count |-> 0]
<1>1. NextGeneration \in Gen
    BY BoundsAssumption DEF TypeOK, NextGeneration, Gen
<1>2. 0 \in Gen /\ <<0, 0>> \in Url
    BY BoundsAssumption DEF Gen, Url, Id
<1>3. t \in TaskRecord
    BY <1>1, <1>2, BoundsAssumption DEF TaskRecord
<1>4. tasks' \in [Slot -> TaskRecord \union {None}]
    BY <1>3, CancelledTasksType DEF DiscoverInSlot
<1>. QED
    BY <1>1, <1>4 DEF TypeOK, DiscoverInSlot

LEMMA CancelTypeOK == TypeOK /\ Cancel => TypeOK'
<1>. SUFFICES ASSUME TypeOK, Cancel PROVE TypeOK'
    OBVIOUS
<1>1. generation' \in Gen
    BY BoundsAssumption DEF TypeOK, Cancel, NextGeneration, Gen
<1>2. tasks' \in [Slot -> TaskRecord \union {None}]
    BY CancelledTasksType DEF Cancel
<1>. QED
    BY <1>1, <1>2 DEF TypeOK, Cancel

LEMMA SelectTypeOK == ASSUME TypeOK, NEW i \in Id, Select(i) PROVE TypeOK'
<1>1. CASE loaded[i] # None
    BY <1>1 DEF TypeOK, Select, Format
<1>2. ASSUME NEW s \in Slot, SelectInSlot(i, s)
      PROVE  tasks' \in [Slot -> TaskRecord \union {None}]
    BY <1>2, BoundsAssumption DEF TypeOK, SelectInSlot, TaskRecord, Url
<1>3. CASE loaded[i] = None
    BY <1>2, <1>3 DEF TypeOK, Select, SelectInSlot, Format
<1>. QED
    BY <1>1, <1>3

LEMMA ExportTypeOK ==
    ASSUME TypeOK, NEW action \in {"copy", "save"}, Export(action) PROVE TypeOK'
<1>1. selection \in Icon
    BY NoneAssumption DEF TypeOK, Export, selection
<1>2. PICK s \in Slot : ExportInSlot(action, s)
    BY DEF Export
<1>3. tasks' \in [Slot -> TaskRecord \union {None}]
    BY <1>1, <1>2, BoundsAssumption DEF TypeOK, ExportInSlot, TaskRecord, Icon
<1>. QED
    BY <1>2, <1>3 DEF TypeOK, Export, ExportInSlot

LEMMA PageReadTypeOK ==
    ASSUME TypeOK, NEW s \in Slot, NEW n \in 0 .. MaxIcons, PageRead(s, n) PROVE TypeOK'
<1>. DEFINE t == tasks[s]
<1>1. t \in TaskRecord
    BY DEF TypeOK, PageRead, Running
<1>2. t.token \in Gen
    BY <1>1 DEF TaskRecord
<1>3. [t EXCEPT !.kind = "batch", !.url = <<t.token, 0>>, !.dir = t.token, !.count = n]
        \in TaskRecord
    BY <1>1, PageReadTaskType
<1>4. tasks' \in [Slot -> TaskRecord \union {None}]
    BY <1>3 DEF TypeOK, PageRead, Ended
<1>. QED
    BY <1>2, <1>4 DEF TypeOK, PageRead, Format

LEMMA BatchDoneTypeOK == ASSUME TypeOK, NEW s \in Slot, BatchDone(s) PROVE TypeOK'
<1>. DEFINE t == tasks[s]
<1>1. t \in TaskRecord
    BY DEF TypeOK, BatchDone, Running
<1>2. t.url[1] \in Gen /\ t.url[2] \in Id /\ t.dir \in Gen /\ t.count \in 0 .. MaxIcons
    BY <1>1 DEF TaskRecord, Url
<1>3. PICK got \in [Batch(t) -> Fetched] : BatchArrives(s, got)
    BY DEF BatchDone
<1>4. loaded' \in [Id -> Icon \union {None}]
    BY <1>2, <1>3, InstalledType DEF BatchArrives
<1>5. failures' \in SUBSET Id
    BY <1>3 DEF TypeOK, BatchArrives, NotInstalled, Batch
<1>6. selectedID' \in Id \union {None}
    BY <1>3, FirstUsableType DEF TypeOK, BatchArrives
<1>7. HasMore(t) => [t EXCEPT !.url = <<t.url[1], t.url[2] + BatchSize>>] \in TaskRecord
    BY <1>1, NextBatchTaskType
<1>8. tasks' \in [Slot -> TaskRecord \union {None}]
    BY <1>3, <1>7 DEF TypeOK, BatchArrives, Ended
<1>9. busy' \in BOOLEAN /\ error' \in BOOLEAN
    BY <1>3 DEF TypeOK, BatchArrives
<1>. QED
    BY <1>3, <1>4, <1>5, <1>6, <1>8, <1>9 DEF TypeOK, BatchArrives

LEMMA IconFetchedTypeOK == ASSUME TypeOK, NEW s \in Slot, IconFetched(s) PROVE TypeOK'
<1>. DEFINE t == tasks[s]
<1>1. t \in TaskRecord
    BY DEF TypeOK, IconFetched, Running
<1>2. t.url[1] \in Gen /\ t.url[2] \in Id /\ t.dir \in Gen
    BY <1>1 DEF TaskRecord, Url
<1>3. PICK o \in Fetched \ {"failed"} : IconArrives(s, o)
    BY DEF IconFetched
<1>4. loaded' \in [Id -> Icon \union {None}]
    BY <1>2, <1>3, InstalledType DEF IconArrives
<1>5. failures' \in SUBSET Id
    BY <1>2, <1>3 DEF TypeOK, IconArrives, NotInstalled
<1>. QED
    BY <1>3, <1>4, <1>5 DEF TypeOK, IconArrives, Ended

LEMMA SelectThrowsTypeOK == ASSUME TypeOK, NEW s \in Slot, SelectThrows(s) PROVE TypeOK'
<1>1. tasks[s].url[2] \in Id
    BY DEF TypeOK, SelectThrows, Running, TaskRecord, Url
<1>. QED
    BY <1>1 DEF TypeOK, SelectThrows, Ended

LEMMA ExportedTypeOK == ASSUME TypeOK, NEW s \in Slot, Exported(s) PROVE TypeOK'
<1>1. tasks[s].url \in Url
    BY DEF TypeOK, Exported, Running, TaskRecord
<1>. QED
    BY <1>1 DEF TypeOK, Exported, Ended

\* Every step keeps the types.
LEMMA NextTypeOK == TypeOK /\ [Next]_vars => TypeOK'
<1>. SUFFICES ASSUME TypeOK, [Next]_vars PROVE TypeOK'
    OBVIOUS
<1>1. CASE Cancel
    BY <1>1, CancelTypeOK
<1>2. CASE Discover
    BY <1>2, DiscoverTypeOK
<1>3. CASE \E i \in Id : Select(i)
    BY <1>3, SelectTypeOK
<1>4. CASE \E action \in {"copy", "save"} : Export(action)
    BY <1>4, ExportTypeOK
<1>5. CASE \E f \in Format : PickFormat(f)
    BY <1>5 DEF TypeOK, PickFormat
<1>6. CASE CopyLink
    BY <1>6 DEF TypeOK, CopyLink
<1>7. ASSUME NEW s \in Slot, Resume(s) PROVE TypeOK'
  <2>1. CASE SupersededResumes(s)
      BY <2>1 DEF TypeOK, SupersededResumes, Ended, visible
  <2>2. CASE DiscoverThrows(s)
      BY <2>2 DEF TypeOK, DiscoverThrows, Ended
  <2>3. CASE \E n \in 0 .. MaxIcons : PageRead(s, n)
      BY <2>3, PageReadTypeOK
  <2>4. CASE BatchDone(s)
      BY <2>4, BatchDoneTypeOK
  <2>5. CASE IconFetched(s)
      BY <2>5, IconFetchedTypeOK
  <2>6. CASE SelectThrows(s)
      BY <2>6, SelectThrowsTypeOK
  <2>7. CASE Exported(s)
      BY <2>7, ExportedTypeOK
  <2>8. CASE ExportThrows(s)
      BY <2>8 DEF TypeOK, ExportThrows, Ended
  <2>. QED
      BY <1>7, <2>1, <2>2, <2>3, <2>4, <2>5, <2>6, <2>7, <2>8 DEF Resume
<1>8. CASE UNCHANGED vars
    BY <1>8 DEF TypeOK, vars
<1>. QED
    BY <1>1, <1>2, <1>3, <1>4, <1>5, <1>6, <1>7, <1>8 DEF Next

\* The variables of the view model keep their types.
THEOREM TypeCorrect == Spec => []TypeOK
    BY InitTypeOK, NextTypeOK, PTL DEF Spec

----------------------------------------------------------------------------
\* What a resuming task does to the bookkeeping: it touches no other task and
\* keeps its own token, and if its generation has passed it ends in silence.

ResumeOutcome(s) ==
    \/ ~Current(tasks[s]) /\ tasks' = Ended(s) /\ UNCHANGED visible
    \/ Current(tasks[s]) /\ tasks' = Ended(s) /\ busy' = FALSE
    \/ /\ Current(tasks[s]) /\ busy' = busy
       /\ \E t \in TaskRecord :
            /\ t.token = tasks[s].token /\ t.cancelled = tasks[s].cancelled
            /\ tasks' = [tasks EXCEPT ![s] = t]

LEMMA ResumeBookkeeping ==
    ASSUME TypeOK, NEW s \in Slot, Resume(s)
    PROVE  Running(s) /\ UNCHANGED <<generation, task>> /\ ResumeOutcome(s)
<1>1. CASE SupersededResumes(s)
    BY <1>1 DEF SupersededResumes, ResumeOutcome
<1>2. CASE DiscoverThrows(s)
    BY <1>2 DEF DiscoverThrows, ResumeOutcome
<1>3. ASSUME NEW n \in 0 .. MaxIcons, PageRead(s, n)
      PROVE  Running(s) /\ UNCHANGED <<generation, task>> /\ ResumeOutcome(s)
  <2>. DEFINE t == [tasks[s] EXCEPT !.kind = "batch", !.url = <<tasks[s].token, 0>>,
                                    !.dir = tasks[s].token, !.count = n]
  <2>1. tasks[s] \in TaskRecord
      BY <1>3 DEF TypeOK, PageRead, Running
  <2>2. t \in TaskRecord /\ t.token = tasks[s].token /\ t.cancelled = tasks[s].cancelled
      BY <2>1, PageReadTaskType
  <2>3. CASE n = 0
      BY <1>3, <2>3 DEF PageRead, ResumeOutcome, Live
  <2>4. CASE n # 0
    <3>1. tasks' = [tasks EXCEPT ![s] = t] /\ busy' = busy /\ Current(tasks[s])
        BY <1>3, <2>4 DEF PageRead, Live
    <3>. QED
        BY <1>3, <2>2, <3>1 DEF PageRead, ResumeOutcome
  <2>. QED
      BY <2>3, <2>4
<1>4. CASE BatchDone(s)
  <2>. DEFINE t == [tasks[s] EXCEPT !.url = <<tasks[s].url[1], tasks[s].url[2] + BatchSize>>]
  <2>1. tasks[s] \in TaskRecord
      BY <1>4 DEF TypeOK, BatchDone, Running
  <2>2. HasMore(tasks[s]) =>
          t \in TaskRecord /\ t.token = tasks[s].token /\ t.cancelled = tasks[s].cancelled
      BY <2>1, NextBatchTaskType
  <2>3. PICK got : BatchArrives(s, got)
      BY <1>4 DEF BatchDone
  <2>4. CASE tasks' = Ended(s) /\ busy' = FALSE
      BY <1>4, <2>3, <2>4 DEF BatchDone, BatchArrives, Live, ResumeOutcome
  <2>5. CASE HasMore(tasks[s]) /\ tasks' = [tasks EXCEPT ![s] = t] /\ busy' = busy
      BY <1>4, <2>2, <2>3, <2>5 DEF BatchDone, BatchArrives, Live, ResumeOutcome
  <2>. QED
      BY <2>1, <2>3, <2>4, <2>5 DEF BatchArrives
<1>5. CASE IconFetched(s)
    BY <1>5 DEF IconFetched, IconArrives, Live, ResumeOutcome
<1>6. CASE SelectThrows(s)
    BY <1>6 DEF SelectThrows, ResumeOutcome
<1>7. CASE Exported(s)
    BY <1>7 DEF Exported, Live, ResumeOutcome
<1>8. CASE ExportThrows(s)
    BY <1>8 DEF ExportThrows, ResumeOutcome
<1>. QED
    BY <1>1, <1>2, <1>3, <1>4, <1>5, <1>6, <1>7, <1>8 DEF Resume

\* What an operation that starts a task does to the bookkeeping.
LEMMA StartBookkeeping ==
    ASSUME TypeOK, TaskInv, NEW s \in Slot, ~busy, ~Running(s),
           NEW t \in TaskRecord, t.token = generation, ~t.cancelled,
           tasks' = [tasks EXCEPT ![s] = t], task' = s, busy' = TRUE, UNCHANGED generation
    PROVE  TaskInv'
<1>1. tasks'[s] = t /\ t # None
    BY NoneAssumption DEF TypeOK
<1>2. \A r \in Slot \ {s} : tasks'[r] = tasks[r] /\ (Running(r) => tasks[r].token # generation)
    BY DEF TypeOK, TaskInv, BusyWhileOneTaskWorks
<1>. USE <1>1, <1>2
<1>3. TokensPast'
    BY DEF TypeOK, Gen, TaskInv, TokensPast, Running
<1>4. NewestTaskIsCurrent'
    BY DEF NewestTaskIsCurrent, Current
<1>5. BusyWhileOneTaskWorks'
    BY DEF BusyWhileOneTaskWorks, Running
<1>. QED
    BY <1>3, <1>4, <1>5 DEF TaskInv

\* Cancelling, alone or on the way to a new discovery, leaves no task that
\* counts: every token is then in the past.
LEMMA CancelledTasksArePast ==
    ASSUME TypeOK, TaskInv
    PROVE  \A s \in Slot :
             /\ TasksAfterCancel[s] # None <=> Running(s)
             /\ Running(s) => TasksAfterCancel[s].token \in Nat
                              /\ TasksAfterCancel[s].token < NextGeneration
<1>. SUFFICES ASSUME NEW s \in Slot
     PROVE  /\ TasksAfterCancel[s] # None <=> Running(s)
            /\ Running(s) => TasksAfterCancel[s].token \in Nat
                             /\ TasksAfterCancel[s].token < NextGeneration
    OBVIOUS
<1>1. CASE ~Running(s)
    BY <1>1 DEF TasksAfterCancel, Running
<1>2. CASE Running(s)
  <2>1. tasks[s] \in TaskRecord
      BY <1>2 DEF TypeOK, Running
  <2>2. tasks[s].token \in Nat /\ tasks[s].token <= generation /\ generation \in Nat
      BY <1>2, <2>1, BoundsAssumption DEF TypeOK, TaskInv, TokensPast, TaskRecord, Gen
  <2>3. /\ [tasks[s] EXCEPT !.cancelled = TRUE] \in TaskRecord
        /\ [tasks[s] EXCEPT !.cancelled = TRUE].token = tasks[s].token
      BY <2>1 DEF TaskRecord
  <2>4. TasksAfterCancel[s] \in {tasks[s], [tasks[s] EXCEPT !.cancelled = TRUE]}
      BY DEF TasksAfterCancel
  <2>5. TasksAfterCancel[s] \in TaskRecord /\ TasksAfterCancel[s].token = tasks[s].token
      BY <2>1, <2>3, <2>4, Zenon
  <2>. QED
      BY <1>2, <2>2, <2>5, NoneAssumption DEF NextGeneration
<1>. QED
    BY <1>1, <1>2

LEMMA CancelTaskInv == TypeOK /\ TaskInv /\ Cancel => TaskInv'
<1>. SUFFICES ASSUME TypeOK, TaskInv, Cancel PROVE TaskInv'
    OBVIOUS
<1>1. \A s \in Slot : Running(s)' =>
          tasks'[s].token \in Nat /\ tasks'[s].token < generation'
    BY CancelledTasksArePast DEF Cancel, Running
<1>2. generation' \in Nat /\ ~busy' /\ task' = None
    BY DEF Cancel, NextGeneration, TypeOK, Gen
<1>3. TokensPast'
    BY <1>1, <1>2 DEF TokensPast
<1>4. NewestTaskIsCurrent'
    BY <1>2, NoneAssumption DEF NewestTaskIsCurrent
<1>5. BusyWhileOneTaskWorks'
    BY <1>1, <1>2 DEF BusyWhileOneTaskWorks
<1>. QED
    BY <1>3, <1>4, <1>5 DEF TaskInv

LEMMA DiscoverTaskInv == TypeOK /\ TaskInv /\ Discover => TaskInv'
<1>. SUFFICES ASSUME TypeOK, TaskInv, generation < MaxGen, NEW s \in Slot, DiscoverInSlot(s)
              PROVE  TaskInv'
    BY DEF Discover
<1>1. \A r \in Slot \ {s} : Running(r)' =>
          tasks'[r].token \in Nat /\ tasks'[r].token < generation'
    BY CancelledTasksArePast DEF DiscoverInSlot, Running, TasksAfterCancel
<1>2. /\ tasks'[s].token = generation' /\ ~tasks'[s].cancelled
      /\ generation' \in Nat /\ busy' /\ task' = s
    BY DEF DiscoverInSlot, NextGeneration, TypeOK, Gen, TasksAfterCancel
<1>3. tasks'[s] # None
  <2>1. TypeOK'
      BY DiscoverTypeOK DEF Discover
  <2>2. NextGeneration \in Gen /\ <<0, 0>> \in Url /\ 0 \in Gen
      BY <2>1, BoundsAssumption DEF TypeOK, DiscoverInSlot, Url, Gen, Id
  <2>3. [kind |-> "discover", token |-> NextGeneration, cancelled |-> FALSE,
         url |-> <<0, 0>>, dir |-> 0, count |-> 0] \in TaskRecord
      BY <2>2, BoundsAssumption DEF TaskRecord
  <2>. QED
      BY <2>3, NoneAssumption DEF DiscoverInSlot, TasksAfterCancel
<1>4. TokensPast'
    BY <1>1, <1>2 DEF TokensPast
<1>5. NewestTaskIsCurrent'
    BY <1>2 DEF NewestTaskIsCurrent, Current
<1>6. BusyWhileOneTaskWorks'
    BY <1>1, <1>2, <1>3 DEF BusyWhileOneTaskWorks, Running
<1>. QED
    BY <1>4, <1>5, <1>6 DEF TaskInv

LEMMA SelectTaskInv ==
    ASSUME TypeOK, TaskInv, NEW i \in Id, Select(i) PROVE TaskInv'
<1>1. CASE loaded[i] # None
    BY <1>1 DEF Select, TaskInv, TokensPast, NewestTaskIsCurrent, BusyWhileOneTaskWorks,
                Running, Current
<1>2. CASE loaded[i] = None
  <2>1. PICK s \in Slot : SelectInSlot(i, s)
      BY <1>2 DEF Select
  <2>. DEFINE t == [kind |-> "select", token |-> generation, cancelled |-> FALSE,
                    url |-> <<candidates.from, i>>, dir |-> currentCache, count |-> 0]
  <2>2. t \in TaskRecord /\ t.token = generation /\ ~t.cancelled
      BY BoundsAssumption DEF TypeOK, TaskRecord, Url
  <2>3. tasks' = [tasks EXCEPT ![s] = t] /\ task' = s /\ busy' = TRUE /\ ~Running(s)
      BY <2>1 DEF SelectInSlot, Free
  <2>. QED
      BY <2>2, <2>3, StartBookkeeping DEF Select
<1>. QED
    BY <1>1, <1>2

LEMMA ExportTaskInv ==
    ASSUME TypeOK, TaskInv, NEW action \in {"copy", "save"}, Export(action) PROVE TaskInv'
<1>1. PICK s \in Slot : ExportInSlot(action, s)
    BY DEF Export
<1>. DEFINE t == [kind |-> action, token |-> generation, cancelled |-> FALSE,
                  url |-> selection.url, dir |-> selection.dir, count |-> 0]
<1>2. selection \in Icon
    BY NoneAssumption DEF TypeOK, Export, selection
<1>3. t \in TaskRecord /\ t.token = generation /\ ~t.cancelled
    BY <1>2, BoundsAssumption DEF TypeOK, TaskRecord, Icon
<1>4. tasks' = [tasks EXCEPT ![s] = t] /\ task' = s /\ ~Running(s)
    BY <1>1 DEF ExportInSlot, Free
<1>. QED
    BY <1>3, <1>4, StartBookkeeping DEF Export

LEMMA ResumeTaskInv ==
    ASSUME TypeOK, TaskInv, NEW s \in Slot, Resume(s) PROVE TaskInv'
<1>1. Running(s) /\ UNCHANGED <<generation, task>> /\ ResumeOutcome(s)
    BY ResumeBookkeeping
<1>2. ASSUME tasks' = Ended(s), Current(tasks[s]) => ~busy', ~Current(tasks[s]) => busy' = busy
      PROVE  TaskInv'
  <2>1. \A r \in Slot : tasks'[r] = IF r = s THEN None ELSE tasks[r]
      BY <1>2 DEF TypeOK, Ended
  <2>2. TokensPast'
      BY <1>1, <2>1 DEF TaskInv, TokensPast, Running
  <2>3. NewestTaskIsCurrent'
      BY <1>1, <2>1 DEF TaskInv, NewestTaskIsCurrent, Running, Current
  <2>4. BusyWhileOneTaskWorks'
      BY <1>1, <1>2, <2>1 DEF TypeOK, TaskInv, BusyWhileOneTaskWorks, Running, Current
  <2>. QED
      BY <2>2, <2>3, <2>4 DEF TaskInv
<1>3. ASSUME Current(tasks[s]), busy' = busy, NEW t \in TaskRecord,
             t.token = tasks[s].token, t.cancelled = tasks[s].cancelled,
             tasks' = [tasks EXCEPT ![s] = t]
      PROVE  TaskInv'
  <2>1. \A r \in Slot : tasks'[r] = IF r = s THEN t ELSE tasks[r]
      BY <1>3 DEF TypeOK
  <2>2. t # None
      BY NoneAssumption
  <2>3. TokensPast'
      BY <1>1, <1>3, <2>1 DEF TaskInv, TokensPast, Running
  <2>4. NewestTaskIsCurrent'
      BY <1>1, <1>3, <2>1 DEF TaskInv, NewestTaskIsCurrent, Running, Current
  <2>5. BusyWhileOneTaskWorks'
      BY <1>1, <1>3, <2>1, <2>2 DEF TaskInv, BusyWhileOneTaskWorks, Running, Current
  <2>. QED
      BY <2>3, <2>4, <2>5 DEF TaskInv
<1>. QED
    BY <1>1, <1>2, <1>3 DEF ResumeOutcome, visible

LEMMA InitTaskInv == Init => TaskInv
    BY DEF Init, TaskInv, TokensPast, NewestTaskIsCurrent, BusyWhileOneTaskWorks, Running

LEMMA NextTaskInv == TypeOK /\ TaskInv /\ [Next]_vars => TaskInv'
<1>. SUFFICES ASSUME TypeOK, TaskInv, [Next]_vars PROVE TaskInv'
    OBVIOUS
<1>1. ASSUME UNCHANGED <<busy, generation, task, tasks>> PROVE TaskInv'
    BY <1>1 DEF TaskInv, TokensPast, NewestTaskIsCurrent, BusyWhileOneTaskWorks,
                Running, Current
<1>2. CASE Cancel
    BY <1>2, CancelTaskInv
<1>3. CASE Discover
    BY <1>3, DiscoverTaskInv
<1>4. CASE \E i \in Id : Select(i)
    BY <1>4, SelectTaskInv
<1>5. CASE \E action \in {"copy", "save"} : Export(action)
    BY <1>5, ExportTaskInv
<1>6. CASE \E f \in Format : PickFormat(f)
    BY <1>1, <1>6 DEF PickFormat
<1>7. CASE CopyLink
    BY <1>1, <1>7 DEF CopyLink
<1>8. CASE \E s \in Slot : Resume(s)
    BY <1>8, ResumeTaskInv
<1>9. CASE UNCHANGED vars
    BY <1>1, <1>9 DEF vars
<1>. QED
    BY <1>2, <1>3, <1>4, <1>5, <1>6, <1>7, <1>8, <1>9 DEF Next

\* The spinner and the tasks agree at all times, however often the user
\* cancels or starts over and however late a task resumes.
THEOREM SpinnerIsHonest == Spec => []BusyWhileOneTaskWorks
<1>1. Init => TypeOK /\ TaskInv
    BY InitTypeOK, InitTaskInv
<1>2. TypeOK /\ TaskInv /\ [Next]_vars => (TypeOK /\ TaskInv)'
    BY NextTypeOK, NextTaskInv
<1>3. TaskInv => BusyWhileOneTaskWorks
    BY DEF TaskInv
<1>. QED
    BY <1>1, <1>2, <1>3, PTL DEF Spec

----------------------------------------------------------------------------
\* Silence of stale tasks.

Silent == \A s \in Slot :
    Running(s) /\ tasks[s].token # generation /\ tasks'[s] # tasks[s] => visible' = visible

LEMMA NextSilent == TypeOK /\ TaskInv /\ [Next]_vars => Silent
<1>. SUFFICES ASSUME TypeOK, TaskInv, [Next]_vars, NEW s \in Slot,
                     Running(s), tasks[s].token # generation, tasks'[s] # tasks[s]
              PROVE  visible' = visible
    BY DEF Silent
<1>1. s # task
    BY DEF TaskInv, NewestTaskIsCurrent, Current
<1>2. TasksAfterCancel[s] = tasks[s]
    BY <1>1 DEF TasksAfterCancel
<1>3. ASSUME NEW r \in Slot, Resume(r) PROVE visible' = visible
  <2>1. ResumeOutcome(r)
      BY <1>3, ResumeBookkeeping
  <2>2. r = s
      BY <2>1 DEF TypeOK, ResumeOutcome, Ended
  <2>. QED
      BY <2>1, <2>2 DEF ResumeOutcome, Current
<1>4. CASE Cancel
    BY <1>2, <1>4 DEF Cancel
<1>5. CASE Discover
    BY <1>2, <1>5 DEF Discover, DiscoverInSlot, Free, TasksAfterCancel
<1>6. CASE \E i \in Id : Select(i)
    BY <1>6 DEF Select, SelectInSlot, Free, TypeOK
<1>7. CASE \E action \in {"copy", "save"} : Export(action)
    BY <1>7 DEF Export, ExportInSlot, Free, TypeOK
<1>8. CASE \E f \in Format : PickFormat(f)
    BY <1>8 DEF PickFormat
<1>9. CASE CopyLink
    BY <1>9 DEF CopyLink
<1>10. CASE UNCHANGED vars
    BY <1>10 DEF vars
<1>. QED
    BY <1>3, <1>4, <1>5, <1>6, <1>7, <1>8, <1>9, <1>10 DEF Next

\* A task whose generation has passed changes nothing the user can see.
THEOREM StaleSilence == Spec => StaleTasksAreSilent
<1>1. Init => TypeOK /\ TaskInv
    BY InitTypeOK, InitTaskInv
<1>2. TypeOK /\ TaskInv /\ [Next]_vars => (TypeOK /\ TaskInv)'
    BY NextTypeOK, NextTaskInv
<1>3. TypeOK /\ TaskInv /\ [Next]_vars => [Silent]_vars
    BY NextSilent
<1>4. Spec => [][Silent]_vars
    BY <1>1, <1>2, <1>3, PTL DEF Spec
<1>. QED
    BY <1>4 DEF StaleTasksAreSilent, Silent

----------------------------------------------------------------------------
\* Icons of the page on show.

\* Beside a task that counts there is no other.
LEMMA OneTaskCounts ==
    ASSUME TaskInv, NEW r \in Slot, Running(r), Current(tasks[r]),
           NEW s \in Slot, Running(s), s # r
    PROVE  ~Current(tasks[s])
    BY DEF TaskInv, BusyWhileOneTaskWorks, Current

\* Outcomes fetched for the page on show install icons of that page only.
LEMMA InstalledOnPage ==
    ASSUME TypeOK, IconsOfShownPage, NEW got, \A i \in DOMAIN got : i < candidates.count,
           loaded' = Installed(got, candidates.from, currentCache),
           UNCHANGED <<candidates, currentCache>>
    PROVE  IconsOfShownPage'
<1>. SUFFICES ASSUME NEW i \in Id, loaded'[i] # None
              PROVE  /\ i < candidates.count
                     /\ loaded'[i].url = <<candidates.from, i>>
                     /\ loaded'[i].dir = currentCache
    BY DEF IconsOfShownPage
<1>1. CASE i \in DOMAIN got /\ Good(got[i])
  <2>1. loaded'[i] = IconOf(got[i], <<candidates.from, i>>, currentCache)
      BY <1>1 DEF Installed
  <2>. QED
      BY <1>1, <2>1 DEF IconOf
<1>2. CASE ~(i \in DOMAIN got /\ Good(got[i]))
  <2>1. loaded'[i] = loaded[i]
      BY <1>2 DEF Installed
  <2>. QED
      BY <2>1 DEF IconsOfShownPage
<1>. QED
    BY <1>1, <1>2

\* The page on show is unchanged, and whatever task counts then was there
\* before: nothing can go wrong.
LEMMA SamePageInv ==
    ASSUME PageInv, UNCHANGED <<candidates, currentCache, loaded>>,
           \A s \in Slot : Running(s)' /\ Live(tasks[s])' =>
               /\ Running(s) /\ Live(tasks[s])
               /\ tasks'[s] = tasks[s]
    PROVE  PageInv'
<1>1. IconsOfShownPage'
    BY DEF PageInv, IconsOfShownPage
<1>2. LiveTaskOnShownPage'
    BY DEF PageInv, LiveTaskOnShownPage
<1>. QED
    BY <1>1, <1>2 DEF PageInv

LEMMA CancelPageInv == TypeOK /\ TaskInv /\ PageInv /\ Cancel => PageInv'
<1>. SUFFICES ASSUME TypeOK, TaskInv, PageInv, Cancel PROVE PageInv'
    OBVIOUS
<1>1. \A s \in Slot : Running(s)' => ~Live(tasks[s])'
    BY CancelledTasksArePast DEF Cancel, Running, Live, Current
<1>. QED
    BY <1>1, SamePageInv DEF Cancel

LEMMA DiscoverPageInv == TypeOK /\ TaskInv /\ PageInv /\ Discover => PageInv'
<1>. SUFFICES ASSUME TypeOK, TaskInv, PageInv, NEW s \in Slot, DiscoverInSlot(s)
              PROVE  PageInv'
    BY DEF Discover
<1>1. \A r \in Slot \ {s} : Running(r)' => ~Live(tasks[r])'
  <2>1. \A r \in Slot \ {s} : Running(r)' =>
            tasks'[r].token \in Nat /\ tasks'[r].token < generation'
      BY CancelledTasksArePast DEF DiscoverInSlot, Running, TasksAfterCancel
  <2>2. generation' \in Nat
      BY DEF DiscoverInSlot, NextGeneration, TypeOK, Gen
  <2>. QED
      BY <2>1, <2>2 DEF Live, Current
<1>2. tasks'[s].kind = "discover"
    BY DEF DiscoverInSlot, TasksAfterCancel
<1>3. LiveTaskOnShownPage'
    BY <1>1, <1>2 DEF LiveTaskOnShownPage
<1>4. IconsOfShownPage'
    BY DEF PageInv, IconsOfShownPage, DiscoverInSlot
<1>. QED
    BY <1>3, <1>4 DEF PageInv

LEMMA SelectPageInv ==
    ASSUME TypeOK, TaskInv, PageInv, NEW i \in Id, Select(i) PROVE PageInv'
<1>1. CASE loaded[i] # None
    BY <1>1, SamePageInv DEF Select, Running, Live, Current
<1>2. CASE loaded[i] = None
  <2>1. PICK s \in Slot : SelectInSlot(i, s)
      BY <1>2 DEF Select
  <2>2. \A r \in Slot \ {s} : tasks'[r] = tasks[r]
      BY <2>1 DEF TypeOK, SelectInSlot
  <2>3. tasks'[s].kind = "select" /\ tasks'[s].url = <<candidates.from, i>>
        /\ tasks'[s].dir = currentCache
      BY <2>1 DEF TypeOK, SelectInSlot
  <2>4. LiveTaskOnShownPage'
      BY <2>2, <2>3 DEF PageInv, LiveTaskOnShownPage, Select, Running, Live, Current
  <2>5. IconsOfShownPage'
      BY DEF PageInv, IconsOfShownPage, Select
  <2>. QED
      BY <2>4, <2>5 DEF PageInv
<1>. QED
    BY <1>1, <1>2

LEMMA ExportPageInv ==
    ASSUME TypeOK, TaskInv, PageInv, NEW action \in {"copy", "save"}, Export(action)
    PROVE  PageInv'
<1>1. PICK s \in Slot : ExportInSlot(action, s)
    BY DEF Export
<1>2. \A r \in Slot \ {s} : tasks'[r] = tasks[r]
    BY <1>1 DEF TypeOK, ExportInSlot
<1>3. tasks'[s].kind \in {"copy", "save"}
    BY <1>1 DEF TypeOK, ExportInSlot
<1>4. LiveTaskOnShownPage'
    BY <1>2, <1>3 DEF PageInv, LiveTaskOnShownPage, Export, Running, Live, Current
<1>5. IconsOfShownPage'
    BY DEF PageInv, IconsOfShownPage, Export
<1>. QED
    BY <1>4, <1>5 DEF PageInv

LEMMA PageReadPageInv ==
    ASSUME TypeOK, TaskInv, PageInv, NEW s \in Slot, NEW n \in 0 .. MaxIcons, PageRead(s, n)
    PROVE  PageInv'
<1>1. \A r \in Slot \ {s} : tasks'[r] = tasks[r] /\ (Running(r) => ~Current(tasks[r]))
    BY OneTaskCounts DEF TypeOK, PageRead, Live, Ended
<1>2. \A r \in Slot \ {s} : Running(r)' => ~Live(tasks[r])'
    BY <1>1 DEF Running, Live, Current, PageRead
<1>3. IconsOfShownPage'
    BY DEF IconsOfShownPage, PageRead
<1>4. CASE n = 0
  <2>1. tasks'[s] = None
      BY <1>4 DEF TypeOK, PageRead, Ended
  <2>. QED
      BY <1>2, <1>3, <2>1 DEF PageInv, LiveTaskOnShownPage, Running
<1>5. CASE n # 0
  <2>1. tasks[s] \in TaskRecord
      BY DEF TypeOK, PageRead, Running
  <2>2. /\ tasks'[s].kind = "batch" /\ tasks'[s].url = <<tasks[s].token, 0>>
        /\ tasks'[s].dir = tasks[s].token /\ tasks'[s].count = n
    <3>1. tasks'[s] = [tasks[s] EXCEPT !.kind = "batch", !.url = <<tasks[s].token, 0>>,
                                       !.dir = tasks[s].token, !.count = n]
        BY <1>5 DEF TypeOK, PageRead
    <3>. QED
        BY <2>1, <3>1 DEF TaskRecord
  <2>3. candidates'.from = tasks[s].token /\ candidates'.count = n
        /\ currentCache' = tasks[s].token
      BY DEF PageRead
  <2>4. LiveTaskOnShownPage'
      BY <1>2, <2>2, <2>3 DEF LiveTaskOnShownPage
  <2>. QED
      BY <1>3, <2>4 DEF PageInv
<1>. QED
    BY <1>4, <1>5

LEMMA BatchDonePageInv ==
    ASSUME TypeOK, TaskInv, PageInv, NEW s \in Slot, BatchDone(s) PROVE PageInv'
<1>. DEFINE t == tasks[s]
<1>1. PICK got \in [Batch(t) -> Fetched] : BatchArrives(s, got)
    BY DEF BatchDone
<1>2. t \in TaskRecord /\ Running(s) /\ Live(t) /\ t.kind = "batch"
    BY <1>1 DEF TypeOK, BatchDone, BatchArrives, Running
<1>3. t.url[1] = candidates.from /\ t.dir = currentCache /\ t.count = candidates.count
    BY <1>2 DEF PageInv, LiveTaskOnShownPage
<1>4. UNCHANGED <<candidates, currentCache, generation>>
    BY <1>1 DEF BatchArrives
<1>5. IconsOfShownPage'
  <2>1. \A i \in DOMAIN got : i < candidates.count
      BY <1>3 DEF Batch
  <2>2. loaded' = Installed(got, candidates.from, currentCache)
      BY <1>1, <1>3 DEF BatchArrives
  <2>. QED
      BY <1>4, <2>1, <2>2, InstalledOnPage DEF PageInv
<1>6. \A r \in Slot \ {s} : tasks'[r] = tasks[r]
    BY <1>1 DEF TypeOK, BatchArrives, Ended
<1>7. \/ tasks'[s] = None
      \/ /\ tasks'[s].kind = "batch" /\ tasks'[s].url[1] = t.url[1]
         /\ tasks'[s].dir = t.dir /\ tasks'[s].count = t.count
  <2>1. CASE tasks' = Ended(s)
      BY <2>1 DEF TypeOK, Ended
  <2>2. CASE tasks' = [tasks EXCEPT ![s].url = <<t.url[1], t.url[2] + BatchSize>>]
    <3>1. tasks'[s] = [t EXCEPT !.url = <<t.url[1], t.url[2] + BatchSize>>]
        BY <2>2 DEF TypeOK
    <3>. QED
        BY <1>2, <3>1 DEF TaskRecord
  <2>. QED
      BY <1>1, <2>1, <2>2 DEF BatchArrives
<1>8. LiveTaskOnShownPage'
    BY <1>3, <1>4, <1>6, <1>7 DEF PageInv, LiveTaskOnShownPage, Running, Live, Current
<1>. QED
    BY <1>5, <1>8 DEF PageInv

LEMMA IconFetchedPageInv ==
    ASSUME TypeOK, TaskInv, PageInv, NEW s \in Slot, IconFetched(s) PROVE PageInv'
<1>. DEFINE t == tasks[s]
            i == t.url[2]
<1>1. PICK o \in Fetched \ {"failed"} : IconArrives(s, o)
    BY DEF IconFetched
<1>2. Running(s) /\ Live(t) /\ t.kind = "select"
    BY <1>1 DEF IconFetched, IconArrives
<1>3. t.url[1] = candidates.from /\ t.dir = currentCache /\ i < candidates.count
    BY <1>2 DEF PageInv, LiveTaskOnShownPage
<1>4. UNCHANGED <<candidates, currentCache, generation>>
    BY <1>1 DEF IconArrives
<1>5. IconsOfShownPage'
    BY <1>1, <1>3, <1>4, InstalledOnPage DEF PageInv, IconArrives
<1>6. \A r \in Slot : tasks'[r] = IF r = s THEN None ELSE tasks[r]
    BY <1>1 DEF TypeOK, IconArrives, Ended
<1>7. LiveTaskOnShownPage'
    BY <1>4, <1>6 DEF PageInv, LiveTaskOnShownPage, Running, Live, Current
<1>. QED
    BY <1>5, <1>7 DEF PageInv

LEMMA InitPageInv == Init => PageInv
    BY DEF Init, PageInv, LiveTaskOnShownPage, IconsOfShownPage, Running

LEMMA NextPageInv == TypeOK /\ TaskInv /\ PageInv /\ [Next]_vars => PageInv'
<1>. SUFFICES ASSUME TypeOK, TaskInv, PageInv, [Next]_vars PROVE PageInv'
    OBVIOUS
<1>1. ASSUME UNCHANGED <<candidates, currentCache, loaded, generation, tasks>> PROVE PageInv'
    BY <1>1, SamePageInv DEF Running, Live, Current
<1>2. CASE Cancel
    BY <1>2, CancelPageInv
<1>3. CASE Discover
    BY <1>3, DiscoverPageInv
<1>4. CASE \E i \in Id : Select(i)
    BY <1>4, SelectPageInv
<1>5. CASE \E action \in {"copy", "save"} : Export(action)
    BY <1>5, ExportPageInv
<1>6. CASE \E f \in Format : PickFormat(f)
    BY <1>1, <1>6 DEF PickFormat
<1>7. CASE CopyLink
    BY <1>1, <1>7 DEF CopyLink
<1>8. ASSUME NEW s \in Slot, Resume(s) PROVE PageInv'
  <2>1. ASSUME tasks' = Ended(s), UNCHANGED <<candidates, currentCache, loaded, generation>>
        PROVE  PageInv'
    <3>1. \A r \in Slot : tasks'[r] = IF r = s THEN None ELSE tasks[r]
        BY <2>1 DEF TypeOK, Ended
    <3>. QED
        BY <2>1, <3>1, SamePageInv DEF Running, Live, Current
  <2>2. CASE SupersededResumes(s)
      BY <2>1, <2>2 DEF SupersededResumes, visible
  <2>3. CASE DiscoverThrows(s)
      BY <2>1, <2>3 DEF DiscoverThrows
  <2>4. CASE \E n \in 0 .. MaxIcons : PageRead(s, n)
      BY <2>4, PageReadPageInv
  <2>5. CASE BatchDone(s)
      BY <2>5, BatchDonePageInv
  <2>6. CASE IconFetched(s)
      BY <2>6, IconFetchedPageInv
  <2>7. CASE SelectThrows(s)
      BY <2>1, <2>7 DEF SelectThrows
  <2>8. CASE Exported(s)
      BY <2>1, <2>8 DEF Exported
  <2>9. CASE ExportThrows(s)
      BY <2>1, <2>9 DEF ExportThrows
  <2>. QED
      BY <1>8, <2>2, <2>3, <2>4, <2>5, <2>6, <2>7, <2>8, <2>9 DEF Resume
<1>9. CASE UNCHANGED vars
    BY <1>1, <1>9 DEF vars
<1>. QED
    BY <1>2, <1>3, <1>4, <1>5, <1>6, <1>7, <1>8, <1>9 DEF Next

----------------------------------------------------------------------------
\* The selection.

\* Nothing but a resuming or an added task concerns the selection: the cards
\* are as they were.
LEMMA SameCards ==
    ASSUME CardsInv,
           UNCHANGED <<candidates, selectedID, loaded, failures, format, savedURL>>
    PROVE  CardsInv'
    BY DEF CardsInv, SavedIsShown, FormatIsOffered, FailedNotLoaded, LoadedIconIsSelected, selection

\* What a counting task needs is there after a step that leaves the cards
\* alone and adds no counting task.
LEMMA SameTaskFits ==
    ASSUME TaskFitsSelection,
           UNCHANGED <<selectedID, loaded, failures, format, savedURL>>,
           \A s \in Slot : Running(s)' /\ Current(tasks[s])' =>
               Running(s) /\ Current(tasks[s]) /\ tasks'[s] = tasks[s]
    PROVE  TaskFitsSelection'
    BY DEF TaskFitsSelection, selection

\* When the one task that counts has ended, none is left.
LEMMA NoneCounts ==
    ASSUME TypeOK, TaskInv, NEW s \in Slot, Running(s), Current(tasks[s]),
           tasks' = Ended(s), UNCHANGED generation
    PROVE  TaskFitsSelection'
<1>1. \A r \in Slot : tasks'[r] = IF r = s THEN None ELSE tasks[r]
    BY DEF TypeOK, Ended
<1>2. \A r \in Slot : ~(Running(r)' /\ Current(tasks[r])')
    BY <1>1, OneTaskCounts DEF Running, Current
<1>. QED
    BY <1>2 DEF TaskFitsSelection

LEMMA IdleTasks ==
    ASSUME TaskInv, ~busy
    PROVE  \A s \in Slot : ~(Running(s) /\ Current(tasks[s]))
    BY DEF TaskInv, BusyWhileOneTaskWorks, Current

LEMMA CancelSelectionInv == TypeOK /\ TaskInv /\ SelectionInv /\ Cancel => SelectionInv'
<1>. SUFFICES ASSUME TypeOK, TaskInv, SelectionInv, Cancel PROVE SelectionInv'
    OBVIOUS
<1>1. \A s \in Slot : ~(Running(s)' /\ Current(tasks[s])')
    BY CancelledTasksArePast DEF Cancel, Running, Current
<1>2. TaskFitsSelection'
    BY <1>1 DEF TaskFitsSelection
<1>3. CardsInv'
    BY SameCards DEF Cancel, SelectionInv
<1>. QED
    BY <1>2, <1>3 DEF SelectionInv

LEMMA DiscoverSelectionInv == TypeOK /\ TaskInv /\ SelectionInv /\ Discover => SelectionInv'
<1>. SUFFICES ASSUME TypeOK, TaskInv, SelectionInv, NEW s \in Slot, DiscoverInSlot(s)
              PROVE  SelectionInv'
    BY DEF Discover
<1>1. \A r \in Slot \ {s} : ~(Running(r)' /\ Current(tasks[r])')
  <2>1. \A r \in Slot \ {s} : Running(r)' =>
            tasks'[r].token \in Nat /\ tasks'[r].token < generation'
      BY CancelledTasksArePast DEF DiscoverInSlot, Running, TasksAfterCancel
  <2>2. generation' \in Nat
      BY DEF DiscoverInSlot, NextGeneration, TypeOK, Gen
  <2>. QED
      BY <2>1, <2>2 DEF Current
<1>2. tasks'[s].kind = "discover" /\ savedURL' = None
    BY DEF DiscoverInSlot, TasksAfterCancel
<1>3. TaskFitsSelection'
    BY <1>1, <1>2 DEF TaskFitsSelection
<1>4. CardsInv'
    BY DEF DiscoverInSlot, SelectionInv, CardsInv, SavedIsShown, FormatIsOffered, FailedNotLoaded,
           LoadedIconIsSelected, selection
<1>. QED
    BY <1>3, <1>4 DEF SelectionInv

LEMMA SelectSelectionInv ==
    ASSUME TypeOK, TaskInv, SelectionInv, NEW i \in Id, Select(i) PROVE SelectionInv'
<1>1. \A r \in Slot : ~(Running(r) /\ Current(tasks[r]))
    BY IdleTasks DEF Select
<1>2. CardsInv'
    BY NoneAssumption DEF Select, SelectionInv, CardsInv, SavedIsShown, FormatIsOffered,
           FailedNotLoaded, LoadedIconIsSelected
<1>3. CASE loaded[i] # None
    BY <1>1, <1>2, <1>3 DEF Select, SelectionInv, TaskFitsSelection, Running, Current
<1>4. CASE loaded[i] = None
  <2>1. PICK s \in Slot : SelectInSlot(i, s)
      BY <1>4 DEF Select
  <2>2. \A r \in Slot \ {s} : tasks'[r] = tasks[r]
      BY <2>1 DEF TypeOK, SelectInSlot
  <2>3. tasks'[s].kind = "select" /\ tasks'[s].url[2] = i
      BY <2>1 DEF TypeOK, SelectInSlot
  <2>4. savedURL' = None /\ selectedID' = i /\ loaded'[i] = None
      BY <1>4 DEF Select
  <2>5. \A r \in Slot \ {s} : ~(Running(r)' /\ Current(tasks[r])')
      BY <1>1, <2>2 DEF Select, Running, Current
  <2>6. TaskFitsSelection'
      BY <2>3, <2>4, <2>5 DEF TaskFitsSelection
  <2>. QED
      BY <1>2, <2>6 DEF SelectionInv
<1>. QED
    BY <1>3, <1>4

LEMMA ExportSelectionInv ==
    ASSUME TypeOK, TaskInv, SelectionInv, NEW action \in {"copy", "save"}, Export(action)
    PROVE  SelectionInv'
<1>1. \A r \in Slot : ~(Running(r) /\ Current(tasks[r]))
    BY IdleTasks DEF Export
<1>2. PICK s \in Slot : ExportInSlot(action, s)
    BY DEF Export
<1>3. \A r \in Slot \ {s} : tasks'[r] = tasks[r]
    BY <1>2 DEF TypeOK, ExportInSlot
<1>4. tasks'[s].kind \in {"copy", "save"} /\ tasks'[s].url = selection.url
    BY <1>2 DEF TypeOK, ExportInSlot
<1>5. selection' = selection /\ selection # None
    BY DEF Export, selection
<1>6. \A r \in Slot \ {s} : ~(Running(r)' /\ Current(tasks[r])')
    BY <1>1, <1>3 DEF Export, Running, Current
<1>7. TaskFitsSelection'
    BY <1>4, <1>5, <1>6 DEF TaskFitsSelection
<1>8. CardsInv'
    BY SameCards DEF Export, SelectionInv
<1>. QED
    BY <1>7, <1>8 DEF SelectionInv

LEMMA PickFormatSelectionInv ==
    ASSUME SelectionInv, NEW f \in Format, PickFormat(f) PROVE SelectionInv'
<1>1. selection # None /\ selection' = selection /\ selectedID # None
    BY DEF PickFormat, selection
<1>2. TaskFitsSelection'
    BY <1>1 DEF PickFormat, SelectionInv, TaskFitsSelection, Running, Current
<1>3. CardsInv'
    BY <1>1 DEF PickFormat, SelectionInv, CardsInv, SavedIsShown, FormatIsOffered, FailedNotLoaded,
                LoadedIconIsSelected
<1>. QED
    BY <1>2, <1>3 DEF SelectionInv

LEMMA PageReadSelectionInv ==
    ASSUME TypeOK, TaskInv, SelectionInv, NEW s \in Slot, NEW n \in 0 .. MaxIcons, PageRead(s, n)
    PROVE  SelectionInv'
<1>1. Running(s) /\ Current(tasks[s]) /\ tasks[s].kind = "discover"
    BY DEF PageRead, Live
<1>2. savedURL = None
    BY <1>1 DEF SelectionInv, TaskFitsSelection
<1>3. CardsInv'
    BY <1>2 DEF PageRead, CardsInv, SavedIsShown, FormatIsOffered, FailedNotLoaded,
                LoadedIconIsSelected
<1>4. CASE n = 0
  <2>1. tasks' = Ended(s) /\ UNCHANGED generation
      BY <1>4 DEF PageRead
  <2>2. TaskFitsSelection'
      BY <1>1, <2>1, NoneCounts
  <2>. QED
      BY <1>3, <2>2 DEF SelectionInv
<1>5. CASE n # 0
  <2>1. \A r \in Slot \ {s} : tasks'[r] = tasks[r]
      BY DEF TypeOK, PageRead, Ended
  <2>2. \A r \in Slot \ {s} : ~(Running(r)' /\ Current(tasks[r])')
      BY <1>1, <2>1, OneTaskCounts DEF PageRead, Running, Current
  <2>3. tasks'[s].kind = "batch"
    <3>1. tasks[s] \in TaskRecord
        BY <1>1 DEF TypeOK, Running
    <3>2. tasks'[s] = [tasks[s] EXCEPT !.kind = "batch", !.url = <<tasks[s].token, 0>>,
                                       !.dir = tasks[s].token, !.count = n]
        BY <1>5 DEF TypeOK, PageRead
    <3>. QED
        BY <3>1, <3>2 DEF TaskRecord
  <2>4. /\ savedURL' = None /\ selectedID' = None /\ format' = "original"
        /\ failures' = {} /\ \A i \in Id : loaded'[i] = None
      BY <1>2 DEF PageRead
  <2>5. TaskFitsSelection'
      BY <2>2, <2>3, <2>4 DEF TaskFitsSelection
  <2>. QED
      BY <1>3, <2>5 DEF SelectionInv
<1>. QED
    BY <1>4, <1>5

\* While a discovery waits for a batch nothing is loaded: what FirstUsable
\* finds, or not, is all there is.
LEMMA FirstUsableFinds ==
    ASSUME NEW icons, FirstUsable(icons) = None,
           NEW i \in Id, i < candidates.count
    PROVE  icons[i] = None
<1>. DEFINE loadedIds == {j \in Id : j < candidates.count /\ icons[j] # None}
            imageIds == {j \in loadedIds : icons[j].image}
<1>1. Id \subseteq Nat
    BY BoundsAssumption DEF Id
<1>2. imageIds # {} => First(imageIds) \in Id
    BY <1>1, FirstIsLeast
<1>3. loadedIds # {} => First(loadedIds) \in Id
    BY <1>1, FirstIsLeast
<1>4. loadedIds = {}
    BY <1>2, <1>3, NoneAssumption DEF FirstUsable
<1>. QED
    BY <1>4

LEMMA BatchDoneSelectionInv ==
    ASSUME TypeOK, TaskInv, PageInv, SelectionInv, NEW s \in Slot, BatchDone(s), PageInv'
    PROVE  SelectionInv'
<1>. DEFINE t == tasks[s]
<1>1. PICK got \in [Batch(t) -> Fetched] : BatchArrives(s, got)
    BY DEF BatchDone
<1>. DEFINE first == FirstUsable(Installed(got, t.url[1], t.dir))
<1>2. Running(s) /\ Live(t) /\ Current(t) /\ t.kind = "batch" /\ t \in TaskRecord
    BY <1>1 DEF TypeOK, BatchDone, BatchArrives, Live, Running
<1>3. /\ savedURL = None /\ selectedID = None /\ format = "original"
      /\ \A i \in Id : loaded[i] = None
      /\ \A i \in failures : i < t.url[2]
    BY <1>2 DEF SelectionInv, TaskFitsSelection
<1>4. t.count = candidates.count
    BY <1>2 DEF PageInv, LiveTaskOnShownPage
<1>5. UNCHANGED <<candidates, format, savedURL, generation>> /\ loaded' = Installed(got, t.url[1], t.dir)
      /\ failures' = failures \union NotInstalled(got)
      /\ selectedID' = IF first = None THEN selectedID ELSE first
    BY <1>1 DEF BatchArrives
<1>6. \A i \in NotInstalled(got) : i \in Batch(t) /\ loaded'[i] = None
    BY <1>3, <1>5 DEF NotInstalled, Installed, Batch
<1>7. \A i \in Batch(t) : i \in Id /\ t.url[2] <= i /\ i < t.url[2] + BatchSize /\ i < candidates.count
    BY <1>4 DEF Batch
<1>8. FailedNotLoaded'
  <2>. SUFFICES ASSUME NEW i \in failures' PROVE i < candidates.count /\ loaded'[i] = None
      BY <1>5 DEF FailedNotLoaded
  <2>1. CASE i \in NotInstalled(got)
      BY <1>6, <1>7, <2>1
  <2>2. CASE i \in failures
    <3>1. i \in Id /\ i < candidates.count /\ loaded[i] = None
        BY <2>2 DEF TypeOK, SelectionInv, CardsInv, FailedNotLoaded
    <3>2. i \notin Batch(t)
      <4>1. t.url[2] \in Nat /\ i \in Nat
          BY <1>2, <3>1, BoundsAssumption DEF TaskRecord, Url, Id
      <4>. QED
          BY <1>3, <1>7, <2>2, <4>1
    <3>3. loaded'[i] = loaded[i]
        BY <1>5, <3>1, <3>2 DEF Installed
    <3>. QED
        BY <3>1, <3>3
  <2>. QED
      BY <1>5, <2>1, <2>2
<1>9. first = None => \A i \in Id : loaded'[i] = None
  <2>. SUFFICES ASSUME first = None, NEW i \in Id PROVE loaded'[i] = None
      OBVIOUS
  <2>1. loaded'[i] # None => i < candidates.count
      BY <1>5 DEF PageInv, IconsOfShownPage
  <2>2. i < candidates.count => loaded'[i] = None
      BY <1>5, FirstUsableFinds
  <2>. QED
      BY <2>1, <2>2
<1>10. CardsInv'
  <2>1. SavedIsShown'
      BY <1>3, <1>5 DEF SavedIsShown
  <2>2. FormatIsOffered'
      BY <1>3, <1>5 DEF FormatIsOffered
  <2>3. LoadedIconIsSelected'
      BY <1>3, <1>5, <1>9 DEF LoadedIconIsSelected
  <2>. QED
      BY <1>8, <2>1, <2>2, <2>3 DEF CardsInv
<1>11. CASE tasks' = Ended(s)
  <2>1. TaskFitsSelection'
      BY <1>2, <1>5, <1>11, NoneCounts
  <2>. QED
      BY <1>10, <2>1 DEF SelectionInv
<1>12. CASE /\ first = None
            /\ tasks' = [tasks EXCEPT ![s].url = <<t.url[1], t.url[2] + BatchSize>>]
  <2>1. \A r \in Slot \ {s} : tasks'[r] = tasks[r]
      BY <1>12 DEF TypeOK
  <2>2. \A r \in Slot \ {s} : ~(Running(r)' /\ Current(tasks[r])')
      BY <1>2, <1>5, <2>1, OneTaskCounts DEF Running, Current
  <2>3. tasks'[s].kind = "batch" /\ tasks'[s].url[2] = t.url[2] + BatchSize
    <3>1. tasks'[s] = [t EXCEPT !.url = <<t.url[1], t.url[2] + BatchSize>>]
        BY <1>12 DEF TypeOK
    <3>. QED
        BY <1>2, <3>1 DEF TaskRecord
  <2>4. \A i \in failures' : i < t.url[2] + BatchSize
    <3>1. t.url[2] \in Nat /\ failures \subseteq Nat
        BY <1>2, BoundsAssumption DEF TypeOK, TaskRecord, Url, Id
    <3>. QED
        BY <1>3, <1>5, <1>6, <1>7, <3>1, BoundsAssumption
  <2>5. selectedID' = None /\ savedURL' = None /\ format' = "original"
      BY <1>3, <1>5, <1>12
  <2>6. TaskFitsSelection'
      BY <1>9, <1>12, <2>2, <2>3, <2>4, <2>5 DEF TaskFitsSelection
  <2>. QED
      BY <1>10, <2>6 DEF SelectionInv
<1>. QED
    BY <1>1, <1>11, <1>12 DEF BatchArrives

LEMMA IconFetchedSelectionInv ==
    ASSUME TypeOK, TaskInv, PageInv, SelectionInv, NEW s \in Slot, IconFetched(s)
    PROVE  SelectionInv'
<1>. DEFINE t == tasks[s]
            i == t.url[2]
<1>1. PICK o \in Fetched \ {"failed"} : IconArrives(s, o)
    BY DEF IconFetched
<1>2. Running(s) /\ Current(t) /\ t.kind = "select" /\ t \in TaskRecord
    BY <1>1 DEF TypeOK, IconFetched, IconArrives, Live, Running
<1>3. savedURL = None /\ selectedID = i /\ loaded[i] = None /\ i \in Id
    BY <1>2 DEF SelectionInv, TaskFitsSelection, TaskRecord, Url
<1>4. UNCHANGED <<candidates, selectedID, format, savedURL, generation>> /\ tasks' = Ended(s)
    BY <1>1 DEF IconArrives
<1>5. \A j \in Id \ {i} : loaded'[j] = loaded[j]
    BY <1>1 DEF IconArrives, Installed
<1>6. failures' \subseteq failures \ {i}
    BY <1>1 DEF IconArrives, NotInstalled
<1>7. TaskFitsSelection'
    BY <1>2, <1>4, NoneCounts
<1>8. format = "original"
    BY <1>3, NoneAssumption DEF SelectionInv, CardsInv, FormatIsOffered, selection
<1>9. FailedNotLoaded'
    BY <1>4, <1>5, <1>6 DEF TypeOK, SelectionInv, CardsInv, FailedNotLoaded
<1>10. SavedIsShown' /\ FormatIsOffered' /\ LoadedIconIsSelected'
    BY <1>3, <1>4, <1>8, NoneAssumption DEF SavedIsShown, FormatIsOffered, LoadedIconIsSelected
<1>. QED
    BY <1>7, <1>9, <1>10 DEF SelectionInv, CardsInv

LEMMA SelectThrowsSelectionInv ==
    ASSUME TypeOK, TaskInv, PageInv, SelectionInv, NEW s \in Slot, SelectThrows(s)
    PROVE  SelectionInv'
<1>1. Running(s) /\ Current(tasks[s]) /\ tasks[s].kind = "select"
    BY DEF SelectThrows
<1>2. Live(tasks[s])
    BY <1>1 DEF TaskInv, BusyWhileOneTaskWorks, Current, Live
<1>3. tasks[s].url[2] < candidates.count /\ loaded[tasks[s].url[2]] = None
    BY <1>1, <1>2 DEF PageInv, LiveTaskOnShownPage, SelectionInv, TaskFitsSelection
<1>4. TaskFitsSelection'
    BY <1>1, NoneCounts DEF SelectThrows
<1>5. CardsInv'
    BY <1>3 DEF SelectThrows, SelectionInv, CardsInv, SavedIsShown, FormatIsOffered,
                FailedNotLoaded, LoadedIconIsSelected, selection
<1>. QED
    BY <1>4, <1>5 DEF SelectionInv

LEMMA ExportedSelectionInv ==
    ASSUME TypeOK, TaskInv, SelectionInv, NEW s \in Slot, Exported(s)
    PROVE  SelectionInv'
<1>1. Running(s) /\ Current(tasks[s])
    BY DEF Exported, Live
<1>2. TaskFitsSelection'
    BY <1>1, NoneCounts DEF Exported
<1>3. selection' = selection
    BY DEF Exported, selection
<1>4. SavedIsShown'
    BY <1>1, <1>3 DEF Exported, SelectionInv, TaskFitsSelection, CardsInv, SavedIsShown
<1>5. FormatIsOffered' /\ FailedNotLoaded' /\ LoadedIconIsSelected'
    BY <1>3 DEF Exported, SelectionInv, CardsInv, FormatIsOffered, FailedNotLoaded,
                LoadedIconIsSelected
<1>. QED
    BY <1>2, <1>4, <1>5 DEF SelectionInv, CardsInv

LEMMA InitSelectionInv == Init => SelectionInv
    BY DEF Init, SelectionInv, TaskFitsSelection, CardsInv, SavedIsShown, FormatIsOffered,
           FailedNotLoaded, LoadedIconIsSelected, Running

LEMMA NextSelectionInv ==
    TypeOK /\ TaskInv /\ PageInv /\ SelectionInv /\ [Next]_vars => SelectionInv'
<1>. SUFFICES ASSUME TypeOK, TaskInv, PageInv, SelectionInv, [Next]_vars PROVE SelectionInv'
    OBVIOUS
<1>1. ASSUME UNCHANGED <<candidates, selectedID, loaded, failures, format, savedURL>>,
             \A s \in Slot : Running(s)' /\ Current(tasks[s])' =>
                 Running(s) /\ Current(tasks[s]) /\ tasks'[s] = tasks[s]
      PROVE  SelectionInv'
    BY <1>1, SameCards, SameTaskFits DEF SelectionInv
<1>2. CASE Cancel
    BY <1>2, CancelSelectionInv
<1>3. CASE Discover
    BY <1>3, DiscoverSelectionInv
<1>4. CASE \E i \in Id : Select(i)
    BY <1>4, SelectSelectionInv
<1>5. CASE \E action \in {"copy", "save"} : Export(action)
    BY <1>5, ExportSelectionInv
<1>6. CASE \E f \in Format : PickFormat(f)
    BY <1>6, PickFormatSelectionInv
<1>7. CASE CopyLink
    BY <1>1, <1>7 DEF CopyLink, Running, Current
<1>8. ASSUME NEW s \in Slot, Resume(s) PROVE SelectionInv'
  <2>1. ASSUME tasks' = Ended(s),
               UNCHANGED <<candidates, selectedID, loaded, failures, format, savedURL, generation>>
        PROVE  SelectionInv'
    <3>1. \A r \in Slot : tasks'[r] = IF r = s THEN None ELSE tasks[r]
        BY <2>1 DEF TypeOK, Ended
    <3>. QED
        BY <1>1, <2>1, <3>1 DEF Running, Current
  <2>2. CASE SupersededResumes(s)
      BY <2>1, <2>2 DEF SupersededResumes, visible
  <2>3. CASE DiscoverThrows(s)
      BY <2>1, <2>3 DEF DiscoverThrows
  <2>4. CASE \E n \in 0 .. MaxIcons : PageRead(s, n)
      BY <2>4, PageReadSelectionInv
  <2>5. CASE BatchDone(s)
      BY <2>5, BatchDonePageInv, BatchDoneSelectionInv
  <2>6. CASE IconFetched(s)
      BY <2>6, IconFetchedSelectionInv
  <2>7. CASE SelectThrows(s)
      BY <2>7, SelectThrowsSelectionInv
  <2>8. CASE Exported(s)
      BY <2>8, ExportedSelectionInv
  <2>9. CASE ExportThrows(s)
      BY <2>1, <2>9 DEF ExportThrows
  <2>. QED
      BY <1>8, <2>2, <2>3, <2>4, <2>5, <2>6, <2>7, <2>8, <2>9 DEF Resume
<1>9. CASE UNCHANGED vars
    BY <1>1, <1>9 DEF vars, Running, Current
<1>. QED
    BY <1>2, <1>3, <1>4, <1>5, <1>6, <1>7, <1>8, <1>9 DEF Next

----------------------------------------------------------------------------

\* The inductive invariant holds at all times.
LEMMA Inductive == Spec => []IInv
<1>1. Init => IInv
    BY InitTypeOK, InitTaskInv, InitPageInv, InitSelectionInv DEF IInv
<1>2. IInv /\ [Next]_vars => IInv'
    BY NextTypeOK, NextTaskInv, NextPageInv, NextSelectionInv DEF IInv
<1>. QED
    BY <1>1, <1>2, PTL DEF Spec

\* No icon of one page is ever drawn on another page's card, for any number
\* of candidates, batches and unfinished tasks.
THEOREM IconsBelongToPage == Spec => []IconsOfShownPage
<1>1. IInv => IconsOfShownPage
    BY DEF IInv, PageInv
<1>. QED
    BY <1>1, Inductive, PTL

\* The format picker never holds what the selected icon cannot be exported to.
THEOREM FormatsAreOffered == Spec => []FormatIsOffered
<1>1. IInv => FormatIsOffered
    BY DEF IInv, SelectionInv, CardsInv
<1>. QED
    BY <1>1, Inductive, PTL

\* What is exported, and what was saved, is the icon selected on the panel.
THEOREM ExportsAreOfTheShown == Spec => []ExportsWhatIsShown
<1>1. IInv => ExportsWhatIsShown
    BY DEF IInv, SelectionInv, CardsInv, SavedIsShown, TaskFitsSelection, ExportsWhatIsShown, Live
<1>. QED
    BY <1>1, Inductive, PTL

\* No card is drawn both as loaded and as failed.
THEOREM CardsAreOfOneKind == Spec => []FailedNotLoaded
<1>1. IInv => FailedNotLoaded
    BY DEF IInv, SelectionInv, CardsInv
<1>. QED
    BY <1>1, Inductive, PTL

\* Where an icon is loaded one is selected.
THEOREM LoadedMeansSelected == Spec => []LoadedIconIsSelected
<1>1. IInv => LoadedIconIsSelected
    BY DEF IInv, SelectionInv, CardsInv
<1>. QED
    BY <1>1, Inductive, PTL

----------------------------------------------------------------------------
\* Results stay: installing an icon only ever fills an empty place, because
\* the task that counts waits for an icon that is not there.

LEMMA InstallingFills ==
    ASSUME NEW got, NEW from, NEW dir, loaded' = Installed(got, from, dir),
           \A i \in DOMAIN got : i \in Id => loaded[i] = None, NEW i \in Id, loaded[i] # None
    PROVE  loaded'[i] = loaded[i]
    BY DEF Installed

Keeps ==
    \A i \in Id : loaded[i] # None /\ loaded'[i] # loaded[i] =>
        \E s \in Slot : /\ Running(s) /\ tasks[s].kind = "discover"
                        /\ tasks[s].token = generation
                        /\ currentCache' = tasks[s].token

LEMMA NextKeeps == IInv /\ [Next]_vars => Keeps
<1>. SUFFICES ASSUME IInv, [Next]_vars, NEW i \in Id, loaded[i] # None, loaded'[i] # loaded[i]
              PROVE  \E s \in Slot : /\ Running(s) /\ tasks[s].kind = "discover"
                                     /\ tasks[s].token = generation
                                     /\ currentCache' = tasks[s].token
    BY DEF Keeps
<1>1. PICK s \in Slot : Resume(s)
    BY DEF Next, vars, Cancel, Discover, DiscoverInSlot, Select, Export, PickFormat, CopyLink
<1>2. CASE \E n \in 0 .. MaxIcons : PageRead(s, n)
    BY <1>2 DEF PageRead, Live, Current
<1>3. CASE BatchDone(s)
  <2>1. PICK got \in [Batch(tasks[s]) -> Fetched] : BatchArrives(s, got)
      BY <1>3 DEF BatchDone
  <2>2. loaded[i] = None
      BY <1>3, <2>1 DEF IInv, SelectionInv, TaskFitsSelection, BatchDone, BatchArrives, Live
  <2>. QED
      BY <2>2
<1>4. CASE IconFetched(s)
  <2>1. PICK o \in Fetched \ {"failed"} : IconArrives(s, o)
      BY <1>4 DEF IconFetched
  <2>2. loaded[tasks[s].url[2]] = None
      BY <1>4, <2>1 DEF IInv, SelectionInv, TaskFitsSelection, IconFetched, IconArrives, Live
  <2>3. loaded' = Installed([j \in {tasks[s].url[2]} |-> o], tasks[s].url[1], tasks[s].dir)
      BY <2>1 DEF IconArrives
  <2>. QED
      BY <2>2, <2>3, InstallingFills
<1>5. CASE \/ SupersededResumes(s) \/ DiscoverThrows(s) \/ SelectThrows(s)
           \/ Exported(s) \/ ExportThrows(s)
    BY <1>5 DEF SupersededResumes, DiscoverThrows, SelectThrows, Exported, ExportThrows, visible
<1>. QED
    BY <1>1, <1>2, <1>3, <1>4, <1>5 DEF Resume

\* Nothing but a newer page takes an icon off the panel.
THEOREM ResultsAreKept == Spec => ResultsKeptUntilPageRead
<1>1. IInv /\ [Next]_vars => [Keeps]_vars
    BY NextKeeps
<1>2. Spec => [][Keeps]_vars
    BY <1>1, Inductive, PTL DEF Spec
<1>. QED
    BY <1>2 DEF ResultsKeptUntilPageRead, Keeps

----------------------------------------------------------------------------
\* The panel as Panel describes it.

panel == <<Activity, candidates.from, Shown, Selected, savedURL>>

\* A discovery that still counts is newer than the page on show.
PageIsPast ==
    /\ candidates.from <= generation
    /\ \A s \in Slot : Running(s) /\ Current(tasks[s]) /\ tasks[s].kind = "discover" =>
           candidates.from < generation

PanelInv == IInv /\ PageIsPast

LEMMA InitPageIsPast == Init => PageIsPast
    BY DEF Init, PageIsPast, Running

\* The page on show stays, and a discovery that counts was there before.
LEMMA SamePageIsPast ==
    ASSUME PageIsPast, UNCHANGED <<candidates, generation>>,
           \A s \in Slot : Running(s)' /\ Current(tasks[s])' /\ tasks'[s].kind = "discover" =>
               Running(s) /\ tasks'[s] = tasks[s]
    PROVE  PageIsPast'
    BY DEF PageIsPast, Current

\* A new generation leaves the page on show behind.
LEMMA NewGenerationIsPast ==
    ASSUME TypeOK, PageIsPast, generation' = generation + 1, UNCHANGED candidates
    PROVE  PageIsPast'
<1>1. candidates.from \in Nat /\ generation \in Nat
    BY BoundsAssumption DEF TypeOK, Gen
<1>. QED
    BY <1>1 DEF PageIsPast

LEMMA NextPageIsPast == IInv /\ PageIsPast /\ [Next]_vars => PageIsPast'
<1>. SUFFICES ASSUME IInv, PageIsPast, [Next]_vars PROVE PageIsPast'
    OBVIOUS
<1>. USE DEF IInv
<1>1. CASE Cancel \/ Discover
    BY <1>1, NewGenerationIsPast DEF Cancel, Discover, DiscoverInSlot, NextGeneration
<1>2. ASSUME NEW i \in Id, Select(i) PROVE PageIsPast'
  <2>1. \A s \in Slot : Running(s)' /\ tasks'[s].kind = "discover" =>
            Running(s) /\ tasks'[s] = tasks[s]
      BY <1>2 DEF Select, SelectInSlot, TypeOK, Running
  <2>. QED
      BY <1>2, <2>1, SamePageIsPast DEF Select
<1>3. ASSUME NEW action \in {"copy", "save"}, Export(action) PROVE PageIsPast'
  <2>1. \A s \in Slot : Running(s)' /\ tasks'[s].kind = "discover" =>
            Running(s) /\ tasks'[s] = tasks[s]
      BY <1>3 DEF Export, ExportInSlot, TypeOK, Running
  <2>. QED
      BY <1>3, <2>1, SamePageIsPast DEF Export
<1>4. ASSUME NEW s \in Slot, Resume(s) PROVE PageIsPast'
  <2>1. ASSUME NEW n \in 0 .. MaxIcons, PageRead(s, n) PROVE PageIsPast'
    <3>1. candidates'.from = generation /\ generation' = generation /\ generation \in Nat
        BY <2>1 DEF PageRead, Live, Current, TypeOK, Gen
    <3>2. \A r \in Slot : Running(r)' /\ Current(tasks[r])' => tasks'[r].kind # "discover"
      <4>1. ASSUME NEW r \in Slot, r # s, Running(r)', Current(tasks[r])' PROVE FALSE
        <5>1. tasks'[r] = tasks[r]
            BY <2>1, <4>1 DEF PageRead, Ended, TypeOK
        <5>2. Running(r) /\ Current(tasks[r]) /\ Running(s) /\ Current(tasks[s])
            BY <2>1, <4>1, <5>1 DEF PageRead, Live, Running, Current
        <5>. QED
            BY <4>1, <5>2, OneTaskCounts
      <4>2. Running(s)' => tasks'[s].kind # "discover"
        <5>1. tasks[s] \in TaskRecord
            BY <2>1 DEF PageRead, Running, TypeOK
        <5>2. CASE n = 0
            BY <2>1, <5>2 DEF PageRead, Ended, Running, TypeOK
        <5>3. CASE n # 0
          <6>1. tasks'[s] = [tasks[s] EXCEPT !.kind = "batch", !.url = <<tasks[s].token, 0>>,
                                             !.dir = tasks[s].token, !.count = n]
              BY <2>1, <5>3 DEF PageRead, TypeOK
          <6>. QED
              BY <5>1, <6>1 DEF TaskRecord
        <5>. QED
            BY <5>2, <5>3
      <4>. QED
          BY <4>1, <4>2
    <3>. QED
        BY <3>1, <3>2 DEF PageIsPast
  <2>2. CASE BatchDone(s)
    <3>1. PICK got : BatchArrives(s, got)
        BY <2>2 DEF BatchDone
    <3>2. \A r \in Slot : Running(r)' /\ tasks'[r].kind = "discover" =>
              Running(r) /\ tasks'[r] = tasks[r]
      <4>1. tasks[s] \in TaskRecord /\ tasks[s].kind = "batch"
          BY <2>2 DEF BatchDone, Running, TypeOK
      <4>2. CASE tasks' = Ended(s)
          BY <4>2 DEF Ended, Running, TypeOK
      <4>3. CASE tasks' = [tasks EXCEPT ![s].url = <<tasks[s].url[1], tasks[s].url[2] + BatchSize>>]
          BY <4>1, <4>3 DEF TaskRecord, Running, TypeOK
      <4>. QED
          BY <3>1, <4>2, <4>3 DEF BatchArrives
    <3>. QED
        BY <3>1, <3>2, SamePageIsPast DEF BatchArrives
  <2>3. CASE \/ SupersededResumes(s) \/ DiscoverThrows(s) \/ IconFetched(s)
             \/ SelectThrows(s) \/ Exported(s) \/ ExportThrows(s)
    <3>1. tasks' = Ended(s) /\ UNCHANGED <<candidates, generation>>
        BY <2>3 DEF SupersededResumes, DiscoverThrows, IconFetched, IconArrives, SelectThrows,
                    Exported, ExportThrows, visible
    <3>2. \A r \in Slot : Running(r)' => Running(r) /\ tasks'[r] = tasks[r]
        BY <3>1 DEF Ended, Running, TypeOK
    <3>. QED
        BY <3>1, <3>2, SamePageIsPast
  <2>. QED
      BY <1>4, <2>1, <2>2, <2>3 DEF Resume
<1>5. CASE UNCHANGED vars \/ CopyLink \/ \E f \in Format : PickFormat(f)
  <2>1. UNCHANGED <<candidates, generation, tasks>>
      BY <1>5 DEF vars, CopyLink, PickFormat
  <2>. QED
      BY <2>1, SamePageIsPast DEF Running
<1>. QED
    BY <1>1, <1>2, <1>3, <1>4, <1>5 DEF Next

\* PanelInv holds at all times.
LEMMA PanelInductive == Spec => []PanelInv
<1>1. PanelInv /\ [Next]_vars => PanelInv'
  <2>1. IInv /\ [Next]_vars => IInv'
      BY NextTypeOK, NextTaskInv, NextPageInv, NextSelectionInv DEF IInv
  <2>. QED
      BY <2>1, NextPageIsPast DEF PanelInv
<1>2. Init => PanelInv
    BY InitTypeOK, InitTaskInv, InitPageInv, InitSelectionInv, InitPageIsPast DEF IInv, PanelInv
<1>. QED
    BY <1>1, <1>2, PTL DEF Spec

\* The task that counts is what the panel does.
LEMMA ActivityOfTask ==
    ASSUME IInv, NEW s \in Slot, Running(s), Current(tasks[s])
    PROVE  busy /\ task = s /\ Activity = Doing[tasks[s].kind]
<1>1. busy /\ task = s
    BY DEF IInv, TaskInv, BusyWhileOneTaskWorks, Current
<1>. QED
    BY <1>1, NoneAssumption DEF Activity

\* The icons on show are the cards that are loaded, before a step and after.
LEMMA ShownAreLoaded ==
    /\ IconsOfShownPage =>
           Shown = {<<candidates.from, i>> : i \in {j \in Id : loaded[j] # None}}
    /\ IconsOfShownPage' =>
           Shown' = {<<candidates'.from, i>> : i \in {j \in Id : loaded'[j] # None}}
    BY DEF Shown, IconsOfShownPage

\* An icon that is selected can be exported if it is on show.
LEMMA SelectionOnShow ==
    ASSUME IInv, selection # None
    PROVE  selectedID \in Id /\ selection.url = Selected /\ Selected \in Shown
<1>1. selectedID \in Id /\ loaded[selectedID] # None
    BY DEF selection, IInv, TypeOK
<1>2. selection.url = <<candidates.from, selectedID>>
    BY <1>1, NoneAssumption DEF selection, IInv, PageInv, IconsOfShownPage
<1>. QED
    BY <1>1, <1>2, NoneAssumption DEF Selected, Shown, selection

\* The selected icon is one that is there.
LEMMA FirstUsableIsThere ==
    ASSUME NEW icons, FirstUsable(icons) # None
    PROVE  FirstUsable(icons) \in Id /\ icons[FirstUsable(icons)] # None
<1>. DEFINE loadedIds == {j \in Id : j < candidates.count /\ icons[j] # None}
            imageIds == {j \in loadedIds : icons[j].image}
<1>1. Id \subseteq Nat
    BY BoundsAssumption DEF Id
<1>2. imageIds # {} => First(imageIds) \in imageIds
    BY <1>1, FirstIsLeast
<1>3. loadedIds # {} => First(loadedIds) \in loadedIds
    BY <1>1, FirstIsLeast
<1>. QED
    BY <1>2, <1>3 DEF FirstUsable

\* When the task that counts ends and nothing on show has changed, the panel stops.
LEMMA EndIsStop ==
    ASSUME IInv, NEW s \in Slot, Running(s), Current(tasks[s]), busy' = FALSE,
           UNCHANGED <<candidates, loaded, selectedID, savedURL>>
    PROVE  Panel!Stop
<1>1. Activity # "nothing" /\ Activity' = "nothing"
  <2>1. tasks[s].kind \in {"discover", "batch", "select", "copy", "save"}
      BY DEF IInv, TypeOK, TaskRecord, Running
  <2>. QED
      BY <2>1, ActivityOfTask DEF Activity, Doing
<1>. QED
    BY <1>1 DEF Panel!Stop, Shown, Selected

\* A task that was just started is one.
LEMMA NewTask ==
    ASSUME NEW kind \in {"discover", "select", "copy", "save"}, NEW token \in Gen,
           NEW url \in Url, NEW dir \in Gen
    PROVE  LET t == [kind |-> kind, token |-> token, cancelled |-> FALSE,
                     url |-> url, dir |-> dir, count |-> 0]
           IN  t # None /\ t.kind = kind
<1>1. 0 \in 0 .. MaxIcons
    BY BoundsAssumption
<1>2. [kind |-> kind, token |-> token, cancelled |-> FALSE,
       url |-> url, dir |-> dir, count |-> 0] \in TaskRecord
    BY <1>1 DEF TaskRecord
<1>. QED
    BY <1>2, NoneAssumption

LEMMA StartsSimulate ==
    ASSUME PanelInv, Cancel \/ Discover \/ \E action \in {"copy", "save"} : Export(action)
    PROVE  [Panel!Next]_panel
<1>. USE DEF PanelInv
<1>1. CASE Cancel
  <2>1. Activity' = "nothing" /\ UNCHANGED <<candidates, Shown, Selected, savedURL>>
      BY <1>1 DEF Cancel, Activity, Shown, Selected
  <2>. QED
      BY <2>1 DEF Panel!Next, Panel!Stop, panel
<1>2. CASE Discover
  <2>1. PICK s \in Slot : DiscoverInSlot(s)
      BY <1>2 DEF Discover
  <2>2. tasks'[s].kind = "discover" /\ tasks'[s] # None
    <3>1. tasks'[s] = [kind |-> "discover", token |-> generation', cancelled |-> FALSE,
                       url |-> <<0, 0>>, dir |-> 0, count |-> 0]
        BY <2>1 DEF DiscoverInSlot, TasksAfterCancel
    <3>2. generation' \in Gen /\ 0 \in Gen /\ <<0, 0>> \in Url
        BY <1>2, DiscoverTypeOK, BoundsAssumption DEF IInv, TypeOK, Gen, Id, Url
    <3>. QED
        BY <3>1, <3>2, NewTask
  <2>3. Activity' = "reading"
      BY <2>1, <2>2, NoneAssumption DEF DiscoverInSlot, Activity, Running, Doing
  <2>4. Panel!Discover
      BY <2>1, <2>3 DEF DiscoverInSlot, Panel!Discover, Shown, Selected
  <2>. QED
      BY <2>4 DEF Panel!Next
<1>3. ASSUME NEW action \in {"copy", "save"}, Export(action) PROVE [Panel!Next]_panel
  <2>1. PICK s \in Slot : ExportInSlot(action, s)
      BY <1>3 DEF Export
  <2>2. tasks'[s].kind = action /\ tasks'[s] # None
    <3>1. tasks'[s] = [kind |-> action, token |-> generation, cancelled |-> FALSE,
                       url |-> selection.url, dir |-> selection.dir, count |-> 0]
        BY <2>1 DEF ExportInSlot, IInv, TypeOK
    <3>2. generation \in Gen /\ selection \in Icon
        BY <1>3, NoneAssumption DEF Export, selection, IInv, TypeOK
    <3>3. selection.url \in Url /\ selection.dir \in Gen
        BY <3>2 DEF Icon
    <3>. QED
        BY <3>1, <3>2, <3>3, NewTask
  <2>3. Activity = "nothing" /\ Activity' = "exporting"
      BY <1>3, <2>1, <2>2, NoneAssumption DEF Export, ExportInSlot, Activity, Running, Doing
  <2>4. Panel!Export
      BY <1>3, <2>3, SelectionOnShow DEF Export, Panel!Export, Shown, Selected
  <2>. QED
      BY <2>4 DEF Panel!Next
<1>. QED
    BY <1>1, <1>2, <1>3

LEMMA SelectSimulates ==
    ASSUME PanelInv, NEW i \in Id, Select(i)
    PROVE  Panel!Click(i)
<1>. USE DEF PanelInv, IInv
<1>1. Activity = "nothing"
    BY DEF Select, Activity
<1>2. Selected' = <<candidates.from, i>>
    BY NoneAssumption DEF Select, Selected
<1>3. Shown' = Shown /\ UNCHANGED candidates /\ savedURL' = None
    BY DEF Select, Shown
<1>4. CASE loaded[i] # None
  <2>1. <<candidates.from, i>> \in Shown
      BY <1>4, ShownAreLoaded DEF PageInv
  <2>2. Activity' = "nothing"
      BY <1>4 DEF Select, Activity
  <2>. QED
      BY <1>1, <1>2, <1>3, <2>1, <2>2 DEF Panel!Click
<1>5. CASE loaded[i] = None
  <2>1. <<candidates.from, i>> \notin Shown
      BY <1>5, ShownAreLoaded DEF PageInv
  <2>2. PICK s \in Slot : SelectInSlot(i, s)
      BY <1>5 DEF Select
  <2>3. tasks'[s].kind = "select" /\ tasks'[s] # None
    <3>1. tasks'[s] = [kind |-> "select", token |-> generation, cancelled |-> FALSE,
                       url |-> <<candidates.from, i>>, dir |-> currentCache, count |-> 0]
        BY <2>2 DEF SelectInSlot, TypeOK
    <3>2. generation \in Gen /\ currentCache \in Gen /\ <<candidates.from, i>> \in Url
        BY DEF TypeOK, Url
    <3>. QED
        BY <3>1, <3>2, NewTask
  <2>4. Activity' = "fetching"
      BY <2>2, <2>3, NoneAssumption DEF SelectInSlot, Activity, Running, Doing
  <2>. QED
      BY <1>1, <1>2, <1>3, <2>1, <2>4 DEF Panel!Click
<1>. QED
    BY <1>4, <1>5

LEMMA PageReadSimulates ==
    ASSUME PanelInv, NEW s \in Slot, NEW n \in 0 .. MaxIcons, PageRead(s, n)
    PROVE  Panel!Read
<1>. USE DEF PanelInv, IInv
<1>1. /\ Running(s) /\ Current(tasks[s]) /\ tasks[s].kind = "discover"
      /\ tasks[s] \in TaskRecord
    BY DEF PageRead, Live, Running, TypeOK
<1>2. Activity = "reading" /\ busy /\ task = s
    BY <1>1, ActivityOfTask DEF Doing
<1>3. candidates'.from \in Gen /\ candidates.from < candidates'.from
    BY <1>1 DEF PageRead, PageIsPast, Current, TypeOK
<1>4. Shown' = {} /\ Selected' = None /\ savedURL' = savedURL
  <2>1. \A j \in Id : loaded'[j] = None
      BY DEF PageRead
  <2>. QED
      BY <2>1 DEF PageRead, Shown, Selected
<1>5. Activity' \in {"loading", "nothing"}
  <2>1. CASE n = 0
      BY <2>1 DEF PageRead, Activity
  <2>2. CASE n # 0
    <3>1. tasks'[s] = [tasks[s] EXCEPT !.kind = "batch", !.url = <<tasks[s].token, 0>>,
                                       !.dir = tasks[s].token, !.count = n]
        BY <2>2 DEF PageRead, TypeOK
    <3>2. tasks'[s].kind = "batch" /\ tasks'[s] # None
      <4>1. tasks'[s].kind = "batch"
          BY <1>1, <3>1 DEF TaskRecord
      <4>2. tasks'[s] \in TaskRecord
          BY <1>1, <3>1, PageReadTaskType
      <4>. QED
          BY <4>1, <4>2, NoneAssumption
    <3>3. busy' /\ task' = s
        BY <1>2, <2>2 DEF PageRead
    <3>. QED
        BY <3>2, <3>3, NoneAssumption DEF Activity, Running, Doing
  <2>. QED
      BY <2>1, <2>2
<1>. QED
    BY <1>2, <1>3, <1>4, <1>5 DEF Panel!Read

LEMMA BatchDoneSimulates ==
    ASSUME PanelInv, IInv', NEW s \in Slot, BatchDone(s)
    PROVE  [Panel!Next]_panel
<1>. USE DEF PanelInv, IInv
<1>1. PICK got \in [Batch(tasks[s]) -> Fetched] : BatchArrives(s, got)
    BY DEF BatchDone
<1>. DEFINE icons == Installed(got, tasks[s].url[1], tasks[s].dir)
            first == FirstUsable(icons)
<1>2. /\ Running(s) /\ Current(tasks[s]) /\ tasks[s].kind = "batch"
      /\ tasks[s] \in TaskRecord
    BY <1>1 DEF BatchDone, BatchArrives, Live, Running, TypeOK
<1>3. Activity = "loading" /\ busy /\ task = s
    BY <1>2, ActivityOfTask DEF Doing
<1>4. selectedID = None /\ \A i \in Id : loaded[i] = None
    BY <1>2 DEF SelectionInv, TaskFitsSelection
<1>5. Shown = {} /\ Selected = None
    BY <1>4 DEF Shown, Selected
<1>6. /\ loaded' = icons /\ UNCHANGED <<candidates, savedURL, task>>
      /\ selectedID' = IF first = None THEN selectedID ELSE first
    BY <1>1 DEF BatchArrives
<1>7. CASE first = None
  <2>1. \A i \in Id : loaded'[i] = None
    <3>1. ASSUME NEW i \in Id, loaded'[i] # None PROVE FALSE
      <4>1. i < candidates.count
          BY <1>6, <3>1 DEF PageInv, IconsOfShownPage
      <4>2. icons[i] = None
          BY <1>7, <4>1, FirstUsableFinds
      <4>. QED
          BY <1>6, <3>1, <4>2
    <3>. QED
        BY <3>1
  <2>2. Shown' = {} /\ Selected' = None
      BY <1>4, <1>6, <1>7, <2>1 DEF Shown, Selected
  <2>3. CASE busy' = FALSE
    <3>1. Activity' = "nothing"
        BY <2>3 DEF Activity
    <3>. QED
        BY <1>3, <1>5, <1>6, <2>2, <3>1 DEF Panel!Next, Panel!Stop
  <2>4. CASE tasks' = [tasks EXCEPT ![s].url = <<tasks[s].url[1], tasks[s].url[2] + BatchSize>>]
             /\ UNCHANGED busy /\ HasMore(tasks[s])
    <3>1. tasks'[s] = [tasks[s] EXCEPT !.url = <<tasks[s].url[1], tasks[s].url[2] + BatchSize>>]
        BY <2>4 DEF TypeOK
    <3>2. tasks'[s].kind = "batch" /\ tasks'[s] # None
        BY <1>2, <2>4, <3>1, NextBatchTaskType, NoneAssumption DEF TaskRecord
    <3>3. Activity' = "loading"
        BY <1>3, <1>6, <2>4, <3>2, NoneAssumption DEF Activity, Running, Doing
    <3>. QED
        BY <1>3, <1>5, <1>6, <2>2, <3>3 DEF panel
  <2>. QED
      BY <1>1, <2>3, <2>4 DEF BatchArrives
<1>8. CASE first # None
  <2>1. first \in Id /\ loaded'[first] # None
      BY <1>6, <1>8, FirstUsableIsThere
  <2>2. Selected' = <<candidates.from, first>>
      BY <1>6, <1>8 DEF Selected
  <2>3. Shown' = {<<candidates.from, i>> : i \in {j \in Id : loaded'[j] # None}}
      BY <1>6, ShownAreLoaded DEF PageInv
  <2>4. Shown' \in SUBSET ({candidates.from} \X Id) /\ Selected' \in Shown'
      BY <2>1, <2>2, <2>3
  <2>5. Activity' = "nothing"
      BY <1>1, <1>8 DEF BatchArrives, Activity
  <2>. QED
      BY <1>3, <1>5, <1>6, <2>4, <2>5 DEF Panel!Next, Panel!Load, Panel!OfPage
<1>. QED
    BY <1>7, <1>8

LEMMA IconFetchedSimulates ==
    ASSUME PanelInv, IInv', NEW s \in Slot, IconFetched(s)
    PROVE  Panel!Fetch \/ Panel!Stop
<1>. USE DEF PanelInv, IInv
<1>1. PICK o \in Fetched \ {"failed"} : IconArrives(s, o)
    BY DEF IconFetched
<1>. DEFINE i == tasks[s].url[2]
            from == candidates.from
<1>2. /\ Running(s) /\ Current(tasks[s]) /\ tasks[s].kind = "select" /\ i \in Id
      /\ selectedID = i /\ loaded[i] = None
  <2>1. Running(s) /\ Current(tasks[s]) /\ tasks[s].kind = "select"
      BY <1>1 DEF IconFetched, IconArrives, Live
  <2>2. i \in Id
      BY <2>1 DEF TypeOK, TaskRecord, Url, Running
  <2>. QED
      BY <2>1, <2>2 DEF SelectionInv, TaskFitsSelection
<1>3. /\ loaded' = Installed([j \in {i} |-> o], tasks[s].url[1], tasks[s].dir)
      /\ UNCHANGED <<candidates, selectedID, savedURL>> /\ busy' = FALSE
    BY <1>1 DEF IconArrives
<1>4. Activity = "fetching" /\ Activity' = "nothing"
    BY <1>2, <1>3, ActivityOfTask DEF Doing, Activity
<1>5. Selected = <<from, i>> /\ Selected' = Selected
    BY <1>2, <1>3, NoneAssumption DEF Selected
<1>6. \A j \in Id : j # i => loaded'[j] = loaded[j]
    BY <1>3 DEF Installed
<1>7. /\ Shown = {<<from, k>> : k \in {j \in Id : loaded[j] # None}}
      /\ Shown' = {<<from, k>> : k \in {j \in Id : loaded'[j] # None}}
    BY <1>3, ShownAreLoaded DEF PageInv
<1>8. CASE loaded'[i] = None
  <2>1. Shown' = Shown
      BY <1>2, <1>6, <1>7, <1>8
  <2>. QED
      BY <1>3, <1>4, <1>5, <2>1 DEF Panel!Stop
<1>9. CASE loaded'[i] # None
  <2>1. Shown' = Shown \union {<<from, i>>}
      BY <1>2, <1>6, <1>7, <1>9
  <2>. QED
      BY <1>3, <1>4, <1>5, <2>1 DEF Panel!Fetch
<1>. QED
    BY <1>8, <1>9

LEMMA ExportedSimulates ==
    ASSUME PanelInv, NEW s \in Slot, Exported(s)
    PROVE  Panel!Save \/ Panel!Stop
<1>. USE DEF PanelInv, IInv
<1>1. Running(s) /\ Current(tasks[s]) /\ busy' = FALSE
      /\ UNCHANGED <<candidates, selectedID, loaded>>
    BY DEF Exported, Live
<1>2. CASE UNCHANGED savedURL
    BY <1>1, <1>2, EndIsStop
<1>3. CASE tasks[s].kind = "save" /\ savedURL' = tasks[s].url
  <2>1. Activity = "exporting" /\ Activity' = "nothing"
      BY <1>1, <1>3, ActivityOfTask DEF Doing, Activity
  <2>2. selection # None /\ tasks[s].url = selection.url
      BY <1>1, <1>3 DEF SelectionInv, TaskFitsSelection
  <2>3. savedURL' = Selected
      BY <1>3, <2>2, SelectionOnShow
  <2>. QED
      BY <1>1, <2>1, <2>3 DEF Panel!Save, Shown, Selected
<1>. QED
    BY <1>2, <1>3 DEF Exported

\* A task of a past generation is not what the panel does.
LEMMA SupersededStutters ==
    ASSUME PanelInv, NEW s \in Slot, SupersededResumes(s)
    PROVE  UNCHANGED panel
<1>. USE DEF PanelInv, IInv
<1>1. Activity' = Activity
  <2>1. CASE ~busy
      BY <2>1 DEF SupersededResumes, visible, Activity
  <2>2. CASE busy
    <3>1. PICK r \in Slot : Running(r) /\ tasks[r].token = generation /\ r = task
        BY <2>2 DEF TaskInv, BusyWhileOneTaskWorks
    <3>2. r # s /\ tasks'[r] = tasks[r]
        BY <3>1 DEF SupersededResumes, Current, Ended, TypeOK
    <3>. QED
        BY <2>2, <3>1, <3>2 DEF SupersededResumes, visible, Activity, Running
  <2>. QED
      BY <2>1, <2>2 DEF TypeOK
<1>. QED
    BY <1>1 DEF SupersededResumes, visible, panel, Shown, Selected

LEMMA PanelStep == PanelInv /\ IInv' /\ [Next]_vars => [Panel!Next]_panel
<1>. SUFFICES ASSUME PanelInv, IInv', [Next]_vars PROVE [Panel!Next]_panel
    OBVIOUS
<1>1. CASE Cancel \/ Discover \/ \E action \in {"copy", "save"} : Export(action)
    BY <1>1, StartsSimulate
<1>2. ASSUME NEW i \in Id, Select(i) PROVE [Panel!Next]_panel
    BY <1>2, SelectSimulates DEF Panel!Next
<1>3. ASSUME NEW s \in Slot, Resume(s) PROVE [Panel!Next]_panel
  <2>1. CASE SupersededResumes(s)
      BY <2>1, SupersededStutters
  <2>2. CASE DiscoverThrows(s) \/ SelectThrows(s) \/ ExportThrows(s)
      BY <2>2, EndIsStop DEF DiscoverThrows, SelectThrows, ExportThrows, PanelInv, Panel!Next
  <2>3. CASE \E n \in 0 .. MaxIcons : PageRead(s, n)
      BY <2>3, PageReadSimulates DEF Panel!Next
  <2>4. CASE BatchDone(s)
      BY <2>4, BatchDoneSimulates
  <2>5. CASE IconFetched(s)
      BY <2>5, IconFetchedSimulates DEF Panel!Next
  <2>6. CASE Exported(s)
      BY <2>6, ExportedSimulates DEF Panel!Next
  <2>. QED
      BY <1>3, <2>1, <2>2, <2>3, <2>4, <2>5, <2>6 DEF Resume
<1>4. CASE UNCHANGED vars \/ CopyLink \/ \E f \in Format : PickFormat(f)
  <2>1. UNCHANGED <<busy, task, tasks, candidates, loaded, selectedID, savedURL>>
      BY <1>4 DEF vars, CopyLink, PickFormat
  <2>. QED
      BY <2>1 DEF panel, Activity, Running, Shown, Selected
<1>. QED
    BY <1>1, <1>2, <1>3, <1>4 DEF Next

\* Apart from its promise to end what it does, which is a matter of fairness,
\* the view model with its tasks, tokens and cancellations is the panel: one
\* operation at a time, to the page and the icon on show.
THEOREM SafelyImplementsPanel == Spec => Panel!Init /\ [][Panel!Next]_panel
<1>1. Init => Panel!Init
    BY DEF Init, Panel!Init, Activity, Shown, Selected
<1>2. PanelInv => IInv
    BY DEF PanelInv
<1>. QED
    BY <1>1, <1>2, PanelStep, PanelInductive, PTL DEF Spec

============================================================================
