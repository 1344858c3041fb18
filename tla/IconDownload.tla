---------------------------- MODULE IconDownload ----------------------------
(***************************************************************************)
(* fvf saving icons: Fetch of fetcher.go with DownloadIconWithPolicy of    *)
(* download.go, run by several processes that share an output directory.   *)
(* A file is created exclusively under the icon's name, or under the first *)
(* of its numbered variants that is free, then written; another process    *)
(* may act between any two of these system calls, and a process may be     *)
(* killed between them.  What an icon's name is made of (host, rank, path, *)
(* sizes, hash) matters only for which icons share one.                    *)
(***************************************************************************)
EXTENDS Naturals, Sequences, SequencesExt

CONSTANTS
    Process,
    Ranked,     \* the candidates of the page, best first
    NameOf,     \* the name of each candidate's file
    MaxSuffix,  \* numbered variants that are tried (99 in the code)
    None

\* Preview lists each URL once (IconChoice), and so does its ranking.
ASSUME NamesAssumption ==
    /\ MaxSuffix \in Nat \ {0}
    /\ NameOf \in [ToSet(Ranked) -> STRING]
    /\ Ranked \in Seq(ToSet(Ranked)) /\ Ranked # <<>>
    /\ IsInjective(Ranked)

Candidate == ToSet(Ranked)
Path == {NameOf[c] : c \in Candidate} \X (1 .. MaxSuffix)
File == [by : Process, holds : Candidate \union {None}]

ASSUME NoneAssumption == None \notin Process \union Candidate \union File

VARIABLES
    files,      \* by path: None, or who created the file and what it holds
    fetchAll,   \* --all, by process
    rank,       \* the candidate at work on
    stage,
    suffix,     \* the variant of the name to be tried next; 1 is the name itself
    icons,      \* AllIcons: pairs of candidate and path
    failed,     \* history: candidates that could not be downloaded
    answer      \* pending, ok, error or killed

vars == <<files, fetchAll, rank, stage, suffix, icons, failed, answer>>

----------------------------------------------------------------------------

candidate(p) == Ranked[rank[p]]
path(p) == <<NameOf[candidate(p)], suffix[p]>>

Init ==
    /\ files = [f \in Path |-> None]
    /\ fetchAll \in [Process -> BOOLEAN]
    /\ rank = [p \in Process |-> 1]
    /\ stage = [p \in Process |-> "fetch"]
    /\ suffix = [p \in Process |-> 1]
    /\ icons = [p \in Process |-> <<>>]
    /\ failed = [p \in Process |-> {}]
    /\ answer = [p \in Process |-> "pending"]

Goes(p, s) == stage' = [stage EXCEPT ![p] = s]

\* ReadIcon and MkdirAll: the icon is in memory and the directory is there, or
\* the candidate has failed.
Fetched(p) ==
    /\ stage[p] = "fetch"
    /\ Goes(p, "create")
    /\ suffix' = [suffix EXCEPT ![p] = 1]
    /\ UNCHANGED <<files, fetchAll, rank, icons, failed, answer>>

\* The candidate is given up; the loop goes on to the next one.
GivenUp_AtOnce(p) ==
    /\ failed' = [failed EXCEPT ![p] = @ \union {candidate(p)}]
    /\ UNCHANGED <<rank, icons>>
    /\ Goes(p, "done")
    /\ answer' = [answer EXCEPT ![p] = "error"]

GivenUp(p) ==
    /\ failed' = [failed EXCEPT ![p] = @ \union {candidate(p)}]
    /\ UNCHANGED icons
    /\ IF rank[p] < Len(Ranked)
       THEN /\ rank' = [rank EXCEPT ![p] = @ + 1]
            /\ Goes(p, "fetch")
            /\ UNCHANGED answer
       ELSE /\ Goes(p, "done")
            /\ answer' = [answer EXCEPT ![p] = IF icons[p] = <<>> THEN "error" ELSE "ok"]
            /\ UNCHANGED rank

FetchFails(p) ==
    /\ stage[p] = "fetch"
    /\ GivenUp(p)
    /\ UNCHANGED <<files, fetchAll, suffix>>

\* OpenFile with O_CREATE and O_EXCL.
Free_OwnOnly(p) == files[path(p)] # None => files[path(p)].by # p
Free(p) == files[path(p)] = None

Create(p) ==
    /\ stage[p] = "create"
    /\ Free(p)
    /\ files' = [files EXCEPT ![path(p)] = [by |-> p, holds |-> None]]
    /\ Goes(p, "write")
    /\ UNCHANGED <<fetchAll, rank, suffix, icons, failed, answer>>

\* The name is taken, or cannot be created for another reason.
CreateFails_OffByOne(p) ==
    /\ stage[p] = "create"
    /\ IF suffix[p] <= MaxSuffix
       THEN /\ suffix' = [suffix EXCEPT ![p] = @ + 1]
            /\ UNCHANGED <<rank, stage, icons, failed, answer>>
       ELSE GivenUp(p) /\ UNCHANGED suffix
    /\ UNCHANGED <<files, fetchAll>>

CreateFails(p) ==
    /\ stage[p] = "create"
    /\ IF suffix[p] < MaxSuffix
       THEN /\ suffix' = [suffix EXCEPT ![p] = @ + 1]
            /\ UNCHANGED <<rank, stage, icons, failed, answer>>
       ELSE GivenUp(p) /\ UNCHANGED suffix
    /\ UNCHANGED <<files, fetchAll>>

\* One Write of all the data, and what the loop of Fetch does with its icon:
\* without --all the first one is the answer.
Written(p) ==
    /\ stage[p] = "write"
    /\ files' = [files EXCEPT ![path(p)].holds = candidate(p)]
    /\ icons' = [icons EXCEPT ![p] = Append(@, <<candidate(p), path(p)>>)]
    /\ IF fetchAll[p] /\ rank[p] < Len(Ranked)
       THEN /\ rank' = [rank EXCEPT ![p] = @ + 1]
            /\ Goes(p, "fetch")
            /\ UNCHANGED answer
       ELSE /\ Goes(p, "done")
            /\ answer' = [answer EXCEPT ![p] = "ok"]
            /\ UNCHANGED rank
    /\ UNCHANGED <<fetchAll, suffix, failed>>

\* A write that fails may have written a part; the file, which this process
\* has just created, is removed.  (The code ignores an error of the removal;
\* it is taken to succeed.)
WriteFails_Leaves(p) ==
    /\ stage[p] = "write"
    /\ GivenUp(p)
    /\ UNCHANGED <<files, fetchAll, suffix>>

WriteFails(p) ==
    /\ stage[p] = "write"
    /\ Goes(p, "remove")
    /\ UNCHANGED <<files, fetchAll, rank, suffix, icons, failed, answer>>

RemovePartial(p) ==
    /\ stage[p] = "remove"
    /\ files' = [files EXCEPT ![path(p)] = None]
    /\ GivenUp(p)
    /\ UNCHANGED <<fetchAll, suffix>>

Killed(p) ==
    /\ stage[p] # "done"
    /\ Goes(p, "done")
    /\ answer' = [answer EXCEPT ![p] = "killed"]
    /\ UNCHANGED <<files, fetchAll, rank, suffix, icons, failed>>

Step(p) ==
    \/ Fetched(p) \/ FetchFails(p)
    \/ Create(p) \/ CreateFails(p)
    \/ Written(p) \/ WriteFails(p) \/ RemovePartial(p)

Next == \E p \in Process : Step(p) \/ Killed(p)

Spec == Init /\ [][Next]_vars

----------------------------------------------------------------------------

TypeOK ==
    /\ files \in [Path -> File \union {None}]
    /\ fetchAll \in [Process -> BOOLEAN]
    /\ rank \in [Process -> 1 .. Len(Ranked)]
    /\ stage \in [Process -> {"fetch", "create", "write", "remove", "done"}]
    /\ suffix \in [Process -> 1 .. MaxSuffix]
    /\ icons \in [Process -> Seq(Candidate \X Path)]
    /\ failed \in [Process -> SUBSET Candidate]
    /\ answer \in [Process -> {"pending", "ok", "error", "killed"}]

\* A path that is reported holds that very icon, whole, for as long as nobody
\* else touches the directory: no other process, and no later candidate of the
\* same one, writes into it or removes it, though their names may be the same.
ReportedFilesAreKept ==
    \A p \in Process : \A i \in 1 .. Len(icons[p]) :
        files[icons[p][i][2]] = [by |-> p, holds |-> icons[p][i][1]]

\* A file without its icon is one that is being written this moment, or was
\* when its process was killed: no failure leaves an empty file behind.
NoEmptyFileLeft ==
    \A f \in Path : files[f] # None /\ files[f].holds = None =>
        LET p == files[f].by
        IN  path(p) = f /\ (stage[p] \in {"write", "remove"} \/ answer[p] = "killed")

\* One icon is as good as the ranking allows: whoever asked for the best gets
\* the first candidate that could be downloaded at all, and whoever asked for
\* all gets every one that could be; the first of them is the main result.
BestThatCouldBeHad ==
    \A p \in Process : answer[p] \in {"ok", "error"} =>
        LET got == {icons[p][i][1] : i \in 1 .. Len(icons[p])}
            tried == IF fetchAll[p] \/ got = {} THEN Candidate
                     ELSE {Ranked[r] : r \in 1 .. rank[p]}
        IN  /\ got \intersect failed[p] = {} /\ got \union failed[p] = tried
            /\ answer[p] = "ok" <=> got # {}
            /\ got # {} => \A r \in 1 .. Len(Ranked) :
                 Ranked[r] \in got => \E q \in 1 .. r : Ranked[q] = icons[p][1][1]
============================================================================
