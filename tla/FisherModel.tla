---------------------------- MODULE FisherModel ----------------------------
(***************************************************************************)
(* The view model of the macOS menu-bar app, FisherModel.swift.            *)
(*                                                                         *)
(* The class is bound to the main actor, so its code runs in atomic        *)
(* segments between two awaits.  An operation (discover, select, export)   *)
(* runs a first segment in the button's handler, starts an unstructured    *)
(* Task and returns; the Task awaits one engine call (or one batch of      *)
(* calls) and resumes on the main actor, with any answer and at any later  *)
(* time, possibly after the user cancelled it or started something else.   *)
(* What the engine does meanwhile is the subject of EngineProcess.tla;     *)
(* here an awaited call is simply a task that has not resumed yet.         *)
(*                                                                         *)
(* generation is a fresh UUID in the code and the next natural here.  A    *)
(* discovery owns a fresh cache directory, named here by its token.  The   *)
(* engine numbers the candidates of every discovery icon-0, icon-1, ... :  *)
(* the ids are reused, so the candidate itself is the pair of its          *)
(* discovery and its id.                                                   *)
(***************************************************************************)
EXTENDS Naturals

CONSTANTS
    MaxGen,     \* bound: how many times the generation may change
    MaxIcons,   \* bound: candidates in one discovery
    BatchSize,  \* candidates fetched at once (3 in the code)
    Converted,  \* formats a bitmap can be saved as besides the original
    Slot,       \* bound: tasks that may be unfinished at the same time
    None        \* nil

ASSUME BoundsAssumption ==
    /\ MaxGen \in Nat \ {0}
    /\ MaxIcons \in Nat \ {0}
    /\ BatchSize \in Nat \ {0}
    /\ "original" \notin Converted

Gen == 0 .. MaxGen
Id == 0 .. (MaxIcons - 1)
Url == Gen \X Id
Format == Converted \union {"original"}

\* LoadedIcon: the artifact (whose url and allowed formats matter here), the
\* cache directory it lies in, and whether a thumbnail could be decoded.
Icon == [url : Url, dir : Gen, image : BOOLEAN, formats : SUBSET Format]

\* An unfinished Task and the locals its closure captured.
TaskRecord ==
    [kind : {"discover", "batch", "select", "copy", "save"},
     token : Gen, cancelled : BOOLEAN,
     url : Url, dir : Gen, count : 0 .. MaxIcons]

ASSUME NoneAssumption ==
    /\ None \notin Id /\ None \notin Icon /\ None \notin Url
    /\ None \notin TaskRecord /\ None \notin Slot

VARIABLES
    busy, error,
    candidates,    \* [from: the discovery that listed them, count]
    currentCache,  \* 0 is nil
    selectedID, loaded, failures, format,
    savedURL,      \* the candidate whose icon was saved
    pasteboard,    \* the clipboard holds an icon that was copied here
    generation, task, tasks

vars == <<busy, error, candidates, currentCache, selectedID, loaded, failures,
          format, savedURL, pasteboard, generation, task, tasks>>

\* Everything the panel draws, plus the clipboard.
visible == <<busy, error, candidates, currentCache, selectedID, loaded,
             failures, format, savedURL, pasteboard>>

----------------------------------------------------------------------------

selection == IF selectedID = None THEN None ELSE loaded[selectedID]

Running(s) == tasks[s] # None

\* Which free slot a new task gets makes no difference.
Free(s) == ~Running(s) /\ s = CHOOSE r \in Slot : ~Running(r)

\* The two checks every segment makes after an await.
Current_Unguarded(t) == TRUE
Current(t) == t.token = generation
Live_Unguarded(t) == TRUE
Live(t) == ~t.cancelled /\ Current(t)

\* What fetching one candidate can give: the call fails, the artifact's path
\* does not validate, or an icon is there: a bitmap, with or ("blank") without
\* a thumbnail, or a file saved only as it is, an ICO with a thumbnail, an SVG
\* or an undecodable ICO ("file") without.
Fetched == {"failed", "unsafe", "bitmap", "blank", "ico", "file"}
Good(o) == o \in {"bitmap", "blank", "ico", "file"}
AllowedFormats(o) == IF o \in {"ico", "file"} THEN {"original"} ELSE Format

IconOf(o, url, dir) ==
    [url |-> url, dir |-> dir, image |-> o \in {"bitmap", "ico"},
     formats |-> AllowedFormats(o)]

\* install, for every outcome of a batch at once.
Installed_Unchecked(got, from, dir) ==
    [i \in Id |-> IF i \in DOMAIN got THEN IconOf(got[i], <<from, i>>, dir) ELSE loaded[i]]
Installed_Forgetful(got, from, dir) ==
    [i \in Id |-> IF i \in DOMAIN got /\ Good(got[i])
                  THEN IconOf(got[i], <<from, i>>, dir) ELSE None]
Installed(got, from, dir) ==
    [i \in Id |-> IF i \in DOMAIN got /\ Good(got[i])
                  THEN IconOf(got[i], <<from, i>>, dir) ELSE loaded[i]]
NotInstalled(got) == {i \in DOMAIN got : ~Good(got[i])}

\* The first candidate in rank order with an image, else the first loaded.
FirstUsable_ImagesOnly(icons) ==
    LET images == {i \in Id : icons[i] # None /\ icons[i].image}
    IN  IF images = {} THEN None ELSE CHOOSE i \in images : \A j \in images : i <= j

First(S) == CHOOSE i \in S : \A j \in S : i <= j
FirstUsable(icons) ==
    LET loadedIds == {i \in Id : i < candidates.count /\ icons[i] # None}
        imageIds == {i \in loadedIds : icons[i].image}
    IN  IF imageIds # {} THEN First(imageIds)
        ELSE IF loadedIds # {} THEN First(loadedIds) ELSE None

NextGeneration_Kept == generation
NextGeneration == generation + 1

\* task?.cancel(): the flag reaches the task only if it is still unfinished.
TasksAfterCancel ==
    [s \in Slot |-> IF s = task /\ Running(s)
                    THEN [tasks[s] EXCEPT !.cancelled = TRUE] ELSE tasks[s]]

Ended(s) == [tasks EXCEPT ![s] = None]

----------------------------------------------------------------------------

Init ==
    /\ busy = FALSE
    /\ error = FALSE
    /\ candidates = [from |-> 0, count |-> 0]
    /\ currentCache = 0
    /\ selectedID = None
    /\ loaded = [i \in Id |-> None]
    /\ failures = {}
    /\ format = "original"
    /\ savedURL = None
    /\ pasteboard = FALSE
    /\ generation = 0
    /\ task = None
    /\ tasks = [s \in Slot |-> None]

\* The Cancel button, and quitting.
Cancel ==
    /\ generation < MaxGen
    /\ generation' = NextGeneration
    /\ tasks' = TasksAfterCancel
    /\ task' = None
    /\ busy' = FALSE
    /\ UNCHANGED <<error, candidates, currentCache, selectedID, loaded, failures,
                   format, savedURL, pasteboard>>

\* discover(): cancels what runs, keeps the previous results on show.
DiscoverInSlot(s) ==
    /\ Free(s)
    /\ generation' = NextGeneration
    /\ tasks' = [TasksAfterCancel EXCEPT ![s] =
                   [kind |-> "discover", token |-> NextGeneration, cancelled |-> FALSE,
                    url |-> <<0, 0>>, dir |-> 0, count |-> 0]]
    /\ task' = s
    /\ busy' = TRUE
    /\ error' = FALSE
    /\ savedURL' = None
    /\ UNCHANGED <<candidates, currentCache, selectedID, loaded, failures, format, pasteboard>>

Discover == generation < MaxGen /\ \E s \in Slot : DiscoverInSlot(s)

\* What a task does when it resumes after its generation has passed, in the
\* success path and in the catch clause alike: it returns.
SupersededResumes(s) ==
    /\ Running(s)
    /\ ~Current(tasks[s])
    /\ tasks' = Ended(s)
    /\ UNCHANGED <<visible, generation, task>>

\* The catch clause of discover's task.  The batches throw only when the task
\* was cancelled; an interruption (CancellationError) is not shown.
DiscoverThrows_StaysBusy(s) ==
    /\ Running(s) /\ tasks[s].kind = "discover" /\ Current(tasks[s])
    /\ tasks' = Ended(s)
    /\ error' \in {error, TRUE}
    /\ UNCHANGED <<busy, candidates, currentCache, selectedID, loaded, failures, format,
                   savedURL, pasteboard, generation, task>>

DiscoverThrows(s) ==
    LET t == tasks[s] IN
    /\ Running(s) /\ t.kind \in {"discover", "batch"}
    /\ Current(t)
    /\ t.kind = "batch" => t.cancelled
    /\ tasks' = Ended(s)
    /\ busy' = FALSE
    /\ error' \in IF t.cancelled THEN {error} ELSE {error, TRUE}
    /\ UNCHANGED <<candidates, currentCache, selectedID, loaded, failures, format,
                   savedURL, pasteboard, generation, task>>

\* The page was read: its candidates replace the old results and the first
\* batch is requested; without candidates the discovery is over.
PageRead(s, n) ==
    LET t == tasks[s] IN
    /\ Running(s) /\ t.kind = "discover"
    /\ Live(t)
    /\ currentCache' = t.token
    /\ candidates' = [from |-> t.token, count |-> n]
    /\ loaded' = [i \in Id |-> None]
    /\ failures' = {}
    /\ selectedID' = None
    /\ format' = "original"
    /\ IF n = 0
       THEN tasks' = Ended(s) /\ busy' = FALSE /\ error' = TRUE
       ELSE /\ tasks' = [tasks EXCEPT ![s] =
                          [t EXCEPT !.kind = "batch", !.url = <<t.token, 0>>,
                                    !.dir = t.token, !.count = n]]
            /\ UNCHANGED <<busy, error>>
    /\ UNCHANGED <<savedURL, pasteboard, generation, task>>

\* The candidates of the batch a task waits for, and whether more follow it.
Batch(t) == {i \in Id : t.url[2] <= i /\ i < t.url[2] + BatchSize /\ i < t.count}

HasMore_OffByOne(t) == t.url[2] < t.count
HasMore(t) == t.url[2] + BatchSize < t.count

\* A batch is complete.  The loop stops at the first usable icon, after the
\* last candidate, or when the 15 second deadline has passed.
BatchArrives(s, got) ==
    LET t == tasks[s]
        icons == Installed(got, t.url[1], t.dir)
        first == FirstUsable(icons)
        finish == /\ tasks' = Ended(s)
                  /\ busy' = FALSE
                  /\ error' = (error \/ first = None)
        continue == /\ first = None /\ HasMore(t)
                    /\ tasks' = [tasks EXCEPT ![s].url = <<t.url[1], t.url[2] + BatchSize>>]
                    /\ UNCHANGED <<busy, error>>
    IN  /\ Live(t)
        /\ loaded' = icons
        /\ failures' = failures \union NotInstalled(got)
        /\ selectedID' = IF first = None THEN selectedID ELSE first
        /\ finish \/ continue
        /\ UNCHANGED <<candidates, currentCache, format, savedURL, pasteboard, generation, task>>

BatchDone(s) ==
    /\ Running(s) /\ tasks[s].kind = "batch"
    /\ \E got \in [Batch(tasks[s]) -> Fetched] : BatchArrives(s, got)

----------------------------------------------------------------------------

\* select(): a click on a candidate's card.
SelectInSlot(i, s) ==
    /\ Free(s)
    /\ tasks' = [tasks EXCEPT ![s] =
                   [kind |-> "select", token |-> generation, cancelled |-> FALSE,
                    url |-> <<candidates.from, i>>, dir |-> currentCache, count |-> 0]]
    /\ task' = s
    /\ busy' = TRUE

Select(i) ==
    /\ ~busy /\ currentCache # 0 /\ i < candidates.count
    /\ selectedID' = i
    /\ format' = "original"
    /\ savedURL' = None
    /\ error' = FALSE
    /\ IF loaded[i] # None THEN UNCHANGED <<busy, task, tasks>>
       ELSE \E s \in Slot : SelectInSlot(i, s)
    /\ UNCHANGED <<candidates, currentCache, loaded, failures, pasteboard, generation>>

\* The icon arrived.  install may have recorded an unusable path as a failure;
\* the handler takes the candidate off the failures all the same.
IconArrives(s, o) ==
    LET t == tasks[s]
        i == t.url[2]
        got == [j \in {i} |-> o]
    IN  /\ Live(t)
        /\ loaded' = Installed(got, t.url[1], t.dir)
        /\ failures' = (failures \union NotInstalled(got)) \ {i}
        /\ busy' = FALSE
        /\ tasks' = Ended(s)
        /\ UNCHANGED <<error, candidates, currentCache, selectedID, format, savedURL,
                       pasteboard, generation, task>>

IconFetched(s) ==
    /\ Running(s) /\ tasks[s].kind = "select"
    /\ \E o \in Fetched \ {"failed"} : IconArrives(s, o)

SelectThrows(s) ==
    LET t == tasks[s] IN
    /\ Running(s) /\ t.kind = "select"
    /\ Current(t)
    /\ tasks' = Ended(s)
    /\ failures' = failures \union {t.url[2]}
    /\ error' = TRUE
    /\ busy' = FALSE
    /\ UNCHANGED <<candidates, currentCache, selectedID, loaded, format, savedURL,
                   pasteboard, generation, task>>

----------------------------------------------------------------------------

\* export(), for Copy (which needs a thumbnail) and for Save.
ExportInSlot(action, s) ==
    /\ Free(s)
    /\ tasks' = [tasks EXCEPT ![s] =
                   [kind |-> action, token |-> generation, cancelled |-> FALSE,
                    url |-> selection.url, dir |-> selection.dir, count |-> 0]]
    /\ task' = s

Export_WhileBusy(action) ==
    /\ selection # None
    /\ action = "copy" => selection.image
    /\ \E s \in Slot : ExportInSlot(action, s)
    /\ busy' = TRUE
    /\ error' = FALSE
    /\ UNCHANGED <<candidates, currentCache, selectedID, loaded, failures, format,
                   savedURL, pasteboard, generation>>

Export(action) ==
    /\ ~busy /\ selection # None
    /\ action = "copy" => selection.image
    /\ \E s \in Slot : ExportInSlot(action, s)
    /\ busy' = TRUE
    /\ error' = FALSE
    /\ UNCHANGED <<candidates, currentCache, selectedID, loaded, failures, format,
                   savedURL, pasteboard, generation>>

\* The converted file is there.  A copy empties the clipboard before it reads
\* the file, and reading may throw (of an ICO, kept as it is, the app writes the
\* thumbnail it has; the model lets that copy fail too).  The save panel is
\* modal: the user confirms or declines.  An unusable file and a failed write,
\* which change nothing else, are ExportThrows.
Exported(s) ==
    LET t == tasks[s] IN
    /\ Running(s) /\ Live(t)
    /\ tasks' = Ended(s)
    /\ busy' = FALSE
    /\ \/ /\ t.kind = "copy"
          /\ \/ pasteboard' = TRUE /\ UNCHANGED error
             \/ pasteboard' = FALSE /\ error' = TRUE
          /\ UNCHANGED savedURL
       \/ /\ t.kind = "save"
          /\ \/ savedURL' = t.url /\ UNCHANGED error
             \/ UNCHANGED <<savedURL, error>>
          /\ UNCHANGED pasteboard
    /\ UNCHANGED <<candidates, currentCache, selectedID, loaded, failures, format,
                   generation, task>>

ExportThrows(s) ==
    LET t == tasks[s] IN
    /\ Running(s) /\ t.kind \in {"copy", "save"}
    /\ Current(t)
    /\ tasks' = Ended(s)
    /\ busy' = FALSE
    /\ error' = TRUE
    /\ UNCHANGED <<candidates, currentCache, selectedID, loaded, failures, format,
                   savedURL, pasteboard, generation, task>>

----------------------------------------------------------------------------

\* The format picker, drawn while an icon is selected, busy or not.
PickFormat_AnyFormat(f) ==
    /\ selection # None
    /\ format' = f
    /\ UNCHANGED <<busy, error, candidates, currentCache, selectedID, loaded, failures,
                   savedURL, pasteboard, generation, task, tasks>>

PickFormat(f) ==
    /\ selection # None /\ f \in selection.formats
    /\ format' = f
    /\ UNCHANGED <<busy, error, candidates, currentCache, selectedID, loaded, failures,
                   savedURL, pasteboard, generation, task, tasks>>

\* copyLink(): the clipboard then holds text, not an icon.
CopyLink ==
    /\ selection # None
    /\ pasteboard' = FALSE
    /\ UNCHANGED <<busy, error, candidates, currentCache, selectedID, loaded, failures,
                   format, savedURL, generation, task, tasks>>

Resume(s) ==
    \/ SupersededResumes(s)
    \/ DiscoverThrows(s)
    \/ \E n \in 0 .. MaxIcons : PageRead(s, n)
    \/ BatchDone(s)
    \/ IconFetched(s)
    \/ SelectThrows(s)
    \/ Exported(s)
    \/ ExportThrows(s)

Next ==
    \/ Cancel
    \/ Discover
    \/ \E i \in Id : Select(i)
    \/ \E action \in {"copy", "save"} : Export(action)
    \/ \E f \in Format : PickFormat(f)
    \/ CopyLink
    \/ \E s \in Slot : Resume(s)

\* Every engine call ends (its watchdog kills the helper) and the main actor
\* then runs the continuation, so each unfinished task eventually resumes.
Fairness == \A s \in Slot : WF_vars(Resume(s))

Spec == Init /\ [][Next]_vars /\ Fairness

----------------------------------------------------------------------------

TypeOK ==
    /\ busy \in BOOLEAN
    /\ error \in BOOLEAN
    /\ candidates \in [from : Gen, count : 0 .. MaxIcons]
    /\ currentCache \in Gen
    /\ selectedID \in Id \union {None}
    /\ loaded \in [Id -> Icon \union {None}]
    /\ failures \in SUBSET Id
    /\ format \in Format
    /\ savedURL \in Url \union {None}
    /\ pasteboard \in BOOLEAN
    /\ generation \in Gen
    /\ task \in Slot \union {None}
    /\ tasks \in [Slot -> TaskRecord \union {None}]

\* Every icon on show was fetched for the page on show and lies in its cache
\* directory, although the engine reuses the candidates' ids from page to
\* page: an icon of an earlier site is never drawn on a later site's card.
IconsOfShownPage ==
    \A i \in Id : loaded[i] # None =>
        /\ i < candidates.count
        /\ loaded[i].url = <<candidates.from, i>>
        /\ loaded[i].dir = currentCache

\* The spinner runs exactly while a task of the current generation is
\* unfinished, and there is only one such task: no operation leaves the panel
\* busy for nothing, ends the busy state of another, or runs beside it.
BusyWhileOneTaskWorks ==
    LET working == {s \in Slot : Running(s) /\ tasks[s].token = generation}
    IN  /\ busy <=> working # {}
        /\ \A s \in working : s = task /\ ~tasks[s].cancelled

\* The picker never holds a format the selected icon cannot be exported to,
\* whatever was selected or discovered since the user picked it.
FormatIsOffered ==
    format # "original" => selection # None /\ format \in selection.formats

\* What is being exported, and what "Show in Finder" offers, is the icon the
\* panel shows as selected.
ExportsWhatIsShown ==
    /\ savedURL # None => selection # None /\ savedURL = selection.url
    /\ \A s \in Slot : Running(s) /\ Live(tasks[s]) /\ tasks[s].kind \in {"copy", "save"} =>
            selection # None /\ tasks[s].url = selection.url

\* A card is never drawn both as loaded and as failed.
FailedNotLoaded == \A i \in failures : i < candidates.count /\ loaded[i] = None

\* A page with a loaded icon never stands there with nothing selected: the
\* batch that brings the first usable icon also selects one.
LoadedIconIsSelected ==
    selectedID = None => \A i \in Id : loaded[i] = None

\* A task whose generation has passed changes nothing the user can see when
\* it resumes: "old results must not overwrite those of the new address".
StaleTasksAreSilent ==
    [][\A s \in Slot :
         Running(s) /\ tasks[s].token # generation /\ tasks'[s] # tasks[s]
            => visible' = visible]_vars

\* The results on show survive everything but a newer page that was read: a
\* failed, cancelled or still running discovery loses none of them.
ResultsKeptUntilPageRead ==
    [][\A i \in Id : loaded[i] # None /\ loaded'[i] # loaded[i] =>
          \E s \in Slot : /\ Running(s) /\ tasks[s].kind = "discover"
                          /\ tasks[s].token = generation
                          /\ currentCache' = tasks[s].token]_vars

\* What the panel is busy with: what its newest task does.  Were it busy
\* without one, it would be waiting for nothing, which Panel does not know.
Doing == [discover |-> "reading", batch |-> "loading", select |-> "fetching",
          copy |-> "exporting", save |-> "exporting"]
Activity ==
    IF ~busy THEN "nothing"
    ELSE IF task # None /\ Running(task) THEN Doing[tasks[task].kind] ELSE "waiting"

Shown == {loaded[i].url : i \in {j \in Id : loaded[j] # None}}
Selected == IF selectedID = None THEN None ELSE <<candidates.from, selectedID>>

Panel == INSTANCE Panel WITH
    Page <- Gen, Index <- Id, doing <- Activity, page <- candidates.from,
    shown <- Shown, selected <- Selected, saved <- savedURL

\* Behind its tasks, tokens and cancellations the panel does one thing at a
\* time, to the icon and the page on show, and ends it: a late answer, a failed
\* one or a cancelled discovery is nothing more than an end.
ImplementsPanel == Panel!Spec

\* A clicked candidate whose icon turned out unusable is marked failed on its
\* card, whichever way it failed.
UnusableCandidateIsMarked ==
    [][\A s \in Slot :
         /\ Running(s) /\ tasks[s].kind = "select" /\ tasks[s].token = generation
         /\ tasks'[s] = None /\ loaded'[tasks[s].url[2]] = None
         => tasks[s].url[2] \in failures']_vars
============================================================================
