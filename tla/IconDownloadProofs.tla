------------------------- MODULE IconDownloadProofs -------------------------
(***************************************************************************)
(* Theorems about IconDownload, for any number of processes, candidates    *)
(* and variants of a name, and any candidates sharing names.               *)
(***************************************************************************)
EXTENDS IconDownload, TLAPS

----------------------------------------------------------------------------
\* The inductive invariant.  A process between create and write owns an empty
\* file at its path: that is why what it writes or removes is never a file
\* that somebody has reported.

OwnsItsFile ==
    \A p \in Process : stage[p] \in {"write", "remove"} =>
        files[path(p)] = [by |-> p, holds |-> None]

KilledIsDone == \A p \in Process : answer[p] = "killed" => stage[p] = "done"

IInv == TypeOK /\ OwnsItsFile /\ KilledIsDone /\ ReportedFilesAreKept /\ NoEmptyFileLeft

----------------------------------------------------------------------------
LEMMA Ranks == Len(Ranked) \in Nat \ {0} /\ \A r \in 1 .. Len(Ranked) : Ranked[r] \in Candidate
<1>1. Ranked \in Seq(Candidate) /\ Ranked # <<>>
    BY NamesAssumption DEF Candidate
<1>. QED
    BY <1>1

LEMMA PathType ==
    ASSUME TypeOK, NEW p \in Process
    PROVE  candidate(p) \in Candidate /\ path(p) \in Path
<1>1. candidate(p) \in Candidate
    BY Ranks DEF TypeOK, candidate
<1>. QED
    BY <1>1 DEF TypeOK, path, Path, candidate

LEMMA InitIInv == Init => IInv
<1>. SUFFICES ASSUME Init PROVE IInv
    OBVIOUS
<1>1. TypeOK
    BY Ranks, NamesAssumption DEF Init, TypeOK
<1>2. OwnsItsFile /\ KilledIsDone
    BY DEF Init, OwnsItsFile, KilledIsDone
<1>3. ReportedFilesAreKept
    BY DEF Init, ReportedFilesAreKept
<1>4. NoEmptyFileLeft
    BY DEF Init, NoEmptyFileLeft
<1>. QED
    BY <1>1, <1>2, <1>3, <1>4 DEF IInv

LEMMA FetchedIInv == ASSUME IInv, NEW p \in Process, Fetched(p) PROVE IInv'
<1>1. TypeOK'
    BY NamesAssumption DEF IInv, TypeOK, Fetched, Goes
<1>2. OwnsItsFile'
    BY DEF IInv, OwnsItsFile, TypeOK, Fetched, Goes, path, candidate
<1>3. KilledIsDone'
    BY DEF IInv, KilledIsDone, TypeOK, Fetched, Goes
<1>4. ReportedFilesAreKept'
    BY DEF IInv, ReportedFilesAreKept, Fetched
<1>5. NoEmptyFileLeft'
    BY DEF IInv, NoEmptyFileLeft, KilledIsDone, TypeOK, Fetched, Goes, path, candidate
<1>. QED
    BY <1>1, <1>2, <1>3, <1>4, <1>5 DEF IInv

\* Giving a candidate up, whatever becomes of the files.
LEMMA GivenUpTypes ==
    ASSUME TypeOK, NEW p \in Process, GivenUp(p)
    PROVE  /\ rank' \in [Process -> 1 .. Len(Ranked)]
           /\ failed' \in [Process -> SUBSET Candidate]
           /\ icons' = icons
           /\ stage' \in [Process -> {"fetch", "create", "write", "remove", "done"}]
           /\ answer' \in [Process -> {"pending", "ok", "error", "killed"}]
           /\ \A q \in Process \ {p} :
                stage'[q] = stage[q] /\ answer'[q] = answer[q] /\ rank'[q] = rank[q]
           /\ stage'[p] \in {"fetch", "done"}
           /\ answer'[p] = "killed" => answer[p] = "killed"
           /\ answer'[p] # answer[p] => stage'[p] = "done"
<1>0. candidate(p) \in Candidate
    BY PathType
<1>1. failed' \in [Process -> SUBSET Candidate] /\ icons' = icons
    BY <1>0 DEF TypeOK, GivenUp
<1>2. CASE rank[p] < Len(Ranked)
  <2>1. /\ rank' = [rank EXCEPT ![p] = @ + 1] /\ rank[p] + 1 \in 1 .. Len(Ranked)
        /\ stage' = [stage EXCEPT ![p] = "fetch"] /\ answer' = answer
    BY <1>2, Ranks DEF TypeOK, GivenUp, Goes
  <2>. QED
    BY <2>1, <1>1 DEF TypeOK
<1>3. CASE ~(rank[p] < Len(Ranked))
  <2>1. /\ rank' = rank /\ stage' = [stage EXCEPT ![p] = "done"]
        /\ answer' = [answer EXCEPT ![p] = IF icons[p] = <<>> THEN "error" ELSE "ok"]
    BY <1>3 DEF GivenUp, Goes
  <2>. QED
    BY <2>1, <1>1 DEF TypeOK
<1>. QED
    BY <1>2, <1>3

LEMMA GivenUpIInv ==
    ASSUME IInv, NEW p \in Process, stage[p] \in {"fetch", "create"}, GivenUp(p),
           UNCHANGED <<files, fetchAll, suffix>>
    PROVE  IInv'
<1>0. TypeOK
    BY DEF IInv
<1>1. TypeOK'
    BY <1>0, GivenUpTypes DEF TypeOK
<1>2. OwnsItsFile'
    BY <1>0, GivenUpTypes DEF IInv, OwnsItsFile, path, candidate
<1>3. KilledIsDone'
    BY <1>0, GivenUpTypes DEF IInv, KilledIsDone
<1>4. ReportedFilesAreKept'
    BY <1>0, GivenUpTypes DEF IInv, ReportedFilesAreKept
<1>5. NoEmptyFileLeft'
  <2>. SUFFICES ASSUME NEW f \in Path, files[f] # None, files[f].holds = None,
                       NEW q, q = files[f].by
                PROVE  path(q)' = f /\ (stage'[q] \in {"write", "remove"} \/ answer'[q] = "killed")
    BY DEF NoEmptyFileLeft
  <2>1. /\ q \in Process /\ path(q) = f
        /\ stage[q] \in {"write", "remove"} \/ answer[q] = "killed"
    BY DEF IInv, NoEmptyFileLeft, TypeOK, File
  <2>2. q # p
    BY <2>1 DEF IInv, KilledIsDone
  <2>. QED
    BY <2>1, <2>2, <1>0, GivenUpTypes DEF path, candidate
<1>. QED
    BY <1>1, <1>2, <1>3, <1>4, <1>5 DEF IInv

LEMMA CreateIInv == ASSUME IInv, NEW p \in Process, Create(p) PROVE IInv'
<1>0. path(p) \in Path /\ path(p)' = path(p)
    BY PathType DEF IInv, Create, path, candidate
<1>. DEFINE empty == [by |-> p, holds |-> None]
<1>a. empty \in File
    BY DEF File
<1>b. /\ files[path(p)] = None
      /\ files' = [files EXCEPT ![path(p)] = empty]
      /\ stage' = [stage EXCEPT ![p] = "write"] /\ stage[p] = "create"
      /\ UNCHANGED <<fetchAll, rank, suffix, icons, failed, answer>>
    BY DEF Create, Goes, Free
<1>1. TypeOK'
    BY <1>0, <1>a, <1>b DEF IInv, TypeOK
<1>2. OwnsItsFile'
  <2>. SUFFICES ASSUME NEW q \in Process, stage'[q] \in {"write", "remove"}
                PROVE  files'[path(q)'] = [by |-> q, holds |-> None]
    BY DEF OwnsItsFile
  <2>1. path(q)' = path(q) /\ path(q) \in Path
    BY <1>b, PathType DEF IInv, path, candidate
  <2>2. CASE q = p
    BY <2>1, <2>2, <1>b, <1>0 DEF IInv, TypeOK
  <2>3. CASE q # p
    <3>1. stage[q] \in {"write", "remove"}
      BY <2>3, <1>b DEF IInv, TypeOK
    <3>2. files[path(q)] = [by |-> q, holds |-> None]
      BY <3>1 DEF IInv, OwnsItsFile
    <3>3. files[path(q)] # None
      BY <3>2, NoneAssumption DEF File
    <3>. QED
      BY <2>1, <3>2, <3>3, <1>b, <1>0 DEF IInv, TypeOK
  <2>. QED
    BY <2>2, <2>3
<1>3. KilledIsDone'
    BY <1>b DEF IInv, KilledIsDone, TypeOK
<1>4. ReportedFilesAreKept'
  <2>. SUFFICES ASSUME NEW q \in Process, NEW i \in 1 .. Len(icons[q])
                PROVE  files'[icons[q][i][2]] = [by |-> q, holds |-> icons[q][i][1]]
    BY <1>b DEF ReportedFilesAreKept
  <2>1. icons[q] \in Seq(Candidate \X Path)
    BY DEF IInv, TypeOK
  <2>2. icons[q][i] \in Candidate \X Path
    BY <2>1
  <2>3. files[icons[q][i][2]] = [by |-> q, holds |-> icons[q][i][1]]
    BY DEF IInv, ReportedFilesAreKept
  <2>4. files[icons[q][i][2]] # None
    BY <2>2, <2>3, NoneAssumption DEF File
  <2>. QED
    BY <2>2, <2>3, <2>4, <1>b, <1>0 DEF IInv, TypeOK
<1>5. NoEmptyFileLeft'
  <2>. SUFFICES ASSUME NEW f \in Path, files'[f] # None, files'[f].holds = None,
                       NEW q, q = files'[f].by
                PROVE  path(q)' = f /\ (stage'[q] \in {"write", "remove"} \/ answer'[q] = "killed")
    BY DEF NoEmptyFileLeft
  <2>1. CASE f = path(p)
    <3>1. q = p
      BY <2>1, <1>0, <1>b DEF IInv, TypeOK
    <3>. QED
      BY <2>1, <3>1, <1>0, <1>b DEF IInv, TypeOK
  <2>2. CASE f # path(p)
    <3>1. files'[f] = files[f] /\ files[f] \in File
      BY <2>2, <1>b, <1>0 DEF IInv, TypeOK
    <3>2. q \in Process /\ path(q) = f /\ (stage[q] \in {"write", "remove"} \/ answer[q] = "killed")
      BY <3>1 DEF IInv, NoEmptyFileLeft, File
    <3>3. path(q)' = path(q)
      BY <1>b DEF path, candidate
    <3>4. stage'[q] = stage[q] \/ stage'[q] = "write"
      BY <3>2, <1>b DEF IInv, TypeOK
    <3>. QED
      BY <3>2, <3>3, <3>4, <1>b
  <2>. QED
    BY <2>1, <2>2
<1>. QED
    BY <1>1, <1>2, <1>3, <1>4, <1>5 DEF IInv

LEMMA NextVariantIInv ==
    ASSUME IInv, NEW p \in Process, stage[p] = "create", suffix[p] < MaxSuffix,
           suffix' = [suffix EXCEPT ![p] = @ + 1],
           UNCHANGED <<files, fetchAll, rank, stage, icons, failed, answer>>
    PROVE  IInv'
<1>1. TypeOK'
    BY NamesAssumption DEF IInv, TypeOK
<1>2. OwnsItsFile'
    BY DEF IInv, OwnsItsFile, TypeOK, path, candidate
<1>3. KilledIsDone'
    BY DEF IInv, KilledIsDone
<1>4. ReportedFilesAreKept'
    BY DEF IInv, ReportedFilesAreKept
<1>5. NoEmptyFileLeft'
    BY DEF IInv, NoEmptyFileLeft, KilledIsDone, TypeOK, path, candidate
<1>. QED
    BY <1>1, <1>2, <1>3, <1>4, <1>5 DEF IInv

LEMMA WrittenIInv == ASSUME IInv, NEW p \in Process, Written(p) PROVE IInv'
<1>. DEFINE whole == [by |-> p, holds |-> candidate(p)]
<1>0. TypeOK /\ path(p) \in Path /\ candidate(p) \in Candidate
    BY PathType DEF IInv
<1>a. whole \in File /\ whole # None
    BY <1>0, NoneAssumption DEF File
<1>b. files[path(p)] = [by |-> p, holds |-> None]
    BY DEF IInv, OwnsItsFile, Written
<1>c. files' = [files EXCEPT ![path(p)] = whole]
  <2>1. files' = [files EXCEPT ![path(p)] = [files[path(p)] EXCEPT !.holds = candidate(p)]]
    BY DEF Written
  <2>2. [[by |-> p, holds |-> None] EXCEPT !.holds = candidate(p)] = whole
    OBVIOUS
  <2>. QED
    BY <2>1, <2>2, <1>b
<1>d. /\ icons' = [icons EXCEPT ![p] = Append(@, <<candidate(p), path(p)>>)]
      /\ UNCHANGED <<fetchAll, suffix, failed>>
      /\ stage[p] = "write"
    BY DEF Written
<1>e. /\ rank' \in [Process -> 1 .. Len(Ranked)]
      /\ stage' \in [Process -> {"fetch", "create", "write", "remove", "done"}]
      /\ answer' \in [Process -> {"pending", "ok", "error", "killed"}]
      /\ stage'[p] \in {"fetch", "done"}
      /\ answer'[p] = "killed" => answer[p] = "killed"
      /\ \A q \in Process \ {p} :
           stage'[q] = stage[q] /\ answer'[q] = answer[q] /\ rank'[q] = rank[q]
  <2>1. CASE fetchAll[p] /\ rank[p] < Len(Ranked)
    <3>1. /\ rank' = [rank EXCEPT ![p] = @ + 1] /\ rank[p] + 1 \in 1 .. Len(Ranked)
          /\ stage' = [stage EXCEPT ![p] = "fetch"] /\ answer' = answer
      BY <2>1, <1>0, Ranks DEF Written, TypeOK, Goes
    <3>. QED
      BY <3>1, <1>0 DEF TypeOK
  <2>2. CASE ~(fetchAll[p] /\ rank[p] < Len(Ranked))
    <3>1. /\ rank' = rank /\ stage' = [stage EXCEPT ![p] = "done"]
          /\ answer' = [answer EXCEPT ![p] = "ok"]
      BY <2>2 DEF Written, Goes
    <3>. QED
      BY <3>1, <1>0 DEF TypeOK
  <2>. QED
    BY <2>1, <2>2
<1>1. TypeOK'
  <2>1. files' \in [Path -> File \union {None}]
    BY <1>0, <1>a, <1>c DEF TypeOK
  <2>2. icons[p] \in Seq(Candidate \X Path) /\ <<candidate(p), path(p)>> \in Candidate \X Path
    BY <1>0 DEF TypeOK
  <2>3. icons' \in [Process -> Seq(Candidate \X Path)]
    BY <1>0, <1>d, <2>2 DEF TypeOK
  <2>. QED
    BY <2>1, <2>3, <1>0, <1>d, <1>e DEF TypeOK
\* Another process that owns an empty file owns another one.
<1>2. OwnsItsFile'
  <2>. SUFFICES ASSUME NEW q \in Process, stage'[q] \in {"write", "remove"}
                PROVE  files'[path(q)'] = [by |-> q, holds |-> None]
    BY DEF OwnsItsFile
  <2>1. q # p /\ stage[q] = stage'[q] /\ rank'[q] = rank[q]
    BY <1>e
  <2>2. path(q)' = path(q) /\ path(q) \in Path
    BY <2>1, <1>0, <1>d, PathType DEF path, candidate
  <2>3. files[path(q)] = [by |-> q, holds |-> None]
    BY <2>1 DEF IInv, OwnsItsFile
  <2>4. files[path(q)].by # files[path(p)].by
    BY <2>1, <2>3, <1>b
  <2>. QED
    BY <2>2, <2>3, <2>4, <1>0, <1>c DEF TypeOK
<1>3. KilledIsDone'
    BY <1>d, <1>e DEF IInv, KilledIsDone
\* A reported file is not the empty one that is filled now.
<1>4. ReportedFilesAreKept'
  <2>. SUFFICES ASSUME NEW q \in Process, NEW i \in 1 .. Len(icons'[q])
                PROVE  files'[icons'[q][i][2]] = [by |-> q, holds |-> icons'[q][i][1]]
    BY DEF ReportedFilesAreKept
  <2>0. icons[q] \in Seq(Candidate \X Path)
    BY <1>0 DEF TypeOK
  <2>1. CASE i \in 1 .. Len(icons[q]) /\ icons'[q][i] = icons[q][i]
    <3>1. icons[q][i] \in Candidate \X Path
      BY <2>0, <2>1
    <3>2. files[icons[q][i][2]] = [by |-> q, holds |-> icons[q][i][1]]
      BY <2>1 DEF IInv, ReportedFilesAreKept
    <3>3. files[icons[q][i][2]].holds # files[path(p)].holds
      BY <3>1, <3>2, <1>b, NoneAssumption
    <3>. QED
      BY <2>1, <3>1, <3>2, <3>3, <1>0, <1>c DEF TypeOK
  <2>2. CASE q = p /\ icons'[q][i] = <<candidate(p), path(p)>>
    BY <2>2, <1>0, <1>c DEF TypeOK
  <2>3. CASE q # p
    BY <2>1, <2>3, <1>0, <1>d DEF TypeOK
  <2>4. CASE q = p
    <3>1. icons'[q] = Append(icons[q], <<candidate(p), path(p)>>)
      BY <2>4, <1>0, <1>d DEF TypeOK
    <3>2. i \in 1 .. Len(icons[q]) \/ i = Len(icons[q]) + 1
      BY <3>1, <2>0
    <3>. QED
      BY <3>1, <3>2, <2>0, <2>1, <2>2, <2>4
  <2>. QED
    BY <2>3, <2>4
<1>5. NoEmptyFileLeft'
  <2>. SUFFICES ASSUME NEW f \in Path, files'[f] # None, files'[f].holds = None,
                       NEW q, q = files'[f].by
                PROVE  path(q)' = f /\ (stage'[q] \in {"write", "remove"} \/ answer'[q] = "killed")
    BY DEF NoEmptyFileLeft
  <2>1. f # path(p)
    BY <1>0, <1>c, NoneAssumption DEF TypeOK
  <2>2. files'[f] = files[f] /\ files[f] \in File
    BY <2>1, <1>0, <1>c DEF TypeOK
  <2>3. q \in Process /\ path(q) = f /\ (stage[q] \in {"write", "remove"} \/ answer[q] = "killed")
    BY <2>2 DEF IInv, NoEmptyFileLeft, File
  <2>4. q # p
    BY <2>1, <2>3
  <2>. QED
    BY <2>3, <2>4, <1>d, <1>e DEF path, candidate
<1>. QED
    BY <1>1, <1>2, <1>3, <1>4, <1>5 DEF IInv

LEMMA WriteFailsIInv == ASSUME IInv, NEW p \in Process, WriteFails(p) PROVE IInv'
<1>1. TypeOK'
    BY DEF IInv, TypeOK, WriteFails, Goes
<1>2. OwnsItsFile'
    BY DEF IInv, OwnsItsFile, TypeOK, WriteFails, Goes, path, candidate
<1>3. KilledIsDone'
    BY DEF IInv, KilledIsDone, TypeOK, WriteFails, Goes
<1>4. ReportedFilesAreKept'
    BY DEF IInv, ReportedFilesAreKept, WriteFails
<1>5. NoEmptyFileLeft'
    BY DEF IInv, NoEmptyFileLeft, TypeOK, File, WriteFails, Goes, path, candidate
<1>. QED
    BY <1>1, <1>2, <1>3, <1>4, <1>5 DEF IInv

LEMMA RemovePartialIInv == ASSUME IInv, NEW p \in Process, RemovePartial(p) PROVE IInv'
<1>0. TypeOK /\ path(p) \in Path
    BY PathType DEF IInv
<1>a. /\ files' = [files EXCEPT ![path(p)] = None]
      /\ GivenUp(p) /\ UNCHANGED <<fetchAll, suffix>> /\ stage[p] = "remove"
    BY DEF RemovePartial
<1>b. files[path(p)] = [by |-> p, holds |-> None]
    BY <1>a DEF IInv, OwnsItsFile
<1>1. TypeOK'
  <2>1. files' \in [Path -> File \union {None}]
    BY <1>0, <1>a DEF TypeOK
  <2>. QED
    BY <2>1, <1>0, <1>a, GivenUpTypes DEF TypeOK
<1>2. OwnsItsFile'
  <2>. SUFFICES ASSUME NEW q \in Process, stage'[q] \in {"write", "remove"}
                PROVE  files'[path(q)'] = [by |-> q, holds |-> None]
    BY DEF OwnsItsFile
  <2>1. q # p /\ stage[q] = stage'[q] /\ rank'[q] = rank[q]
    BY <1>0, <1>a, GivenUpTypes
  <2>2. path(q)' = path(q) /\ path(q) \in Path
    BY <2>1, <1>0, <1>a, PathType DEF path, candidate
  <2>3. files[path(q)] = [by |-> q, holds |-> None]
    BY <2>1 DEF IInv, OwnsItsFile
  <2>4. files[path(q)].by # files[path(p)].by
    BY <2>1, <2>3, <1>b
  <2>. QED
    BY <2>2, <2>3, <2>4, <1>0, <1>a DEF TypeOK
<1>3. KilledIsDone'
    BY <1>0, <1>a, GivenUpTypes DEF IInv, KilledIsDone
<1>4. ReportedFilesAreKept'
  <2>1. icons' = icons
    BY <1>0, <1>a, GivenUpTypes
  <2>. SUFFICES ASSUME NEW q \in Process, NEW i \in 1 .. Len(icons[q])
                PROVE  files'[icons[q][i][2]] = [by |-> q, holds |-> icons[q][i][1]]
    BY <2>1 DEF ReportedFilesAreKept
  <2>2. icons[q] \in Seq(Candidate \X Path)
    BY <1>0 DEF TypeOK
  <2>3. icons[q][i] \in Candidate \X Path
    BY <2>2
  <2>4. files[icons[q][i][2]] = [by |-> q, holds |-> icons[q][i][1]]
    BY DEF IInv, ReportedFilesAreKept
  <2>5. files[icons[q][i][2]].holds # files[path(p)].holds
    BY <2>3, <2>4, <1>b, NoneAssumption
  <2>. QED
    BY <2>3, <2>4, <2>5, <1>0, <1>a DEF TypeOK
<1>5. NoEmptyFileLeft'
  <2>. SUFFICES ASSUME NEW f \in Path, files'[f] # None, files'[f].holds = None,
                       NEW q, q = files'[f].by
                PROVE  path(q)' = f /\ (stage'[q] \in {"write", "remove"} \/ answer'[q] = "killed")
    BY DEF NoEmptyFileLeft
  <2>1. f # path(p)
    BY <1>0, <1>a DEF TypeOK
  <2>2. files'[f] = files[f] /\ files[f] \in File
    BY <2>1, <1>0, <1>a DEF TypeOK
  <2>3. q \in Process /\ path(q) = f /\ (stage[q] \in {"write", "remove"} \/ answer[q] = "killed")
    BY <2>2 DEF IInv, NoEmptyFileLeft, File
  <2>4. q # p
    BY <2>1, <2>3
  <2>. QED
    BY <2>3, <2>4, <1>0, <1>a, GivenUpTypes DEF path, candidate
<1>. QED
    BY <1>1, <1>2, <1>3, <1>4, <1>5 DEF IInv

LEMMA KilledIInv == ASSUME IInv, NEW p \in Process, Killed(p) PROVE IInv'
<1>1. TypeOK'
    BY DEF IInv, TypeOK, Killed, Goes
<1>2. OwnsItsFile'
    BY DEF IInv, OwnsItsFile, TypeOK, Killed, Goes, path, candidate
<1>3. KilledIsDone'
    BY DEF IInv, KilledIsDone, TypeOK, Killed, Goes
<1>4. ReportedFilesAreKept'
    BY DEF IInv, ReportedFilesAreKept, Killed
<1>5. NoEmptyFileLeft'
    BY DEF IInv, NoEmptyFileLeft, TypeOK, File, Killed, Goes, path, candidate
<1>. QED
    BY <1>1, <1>2, <1>3, <1>4, <1>5 DEF IInv

LEMMA NextIInv == ASSUME IInv, [Next]_vars PROVE IInv'
<1>1. ASSUME NEW p \in Process, Step(p) PROVE IInv'
  <2>1. CASE Fetched(p)
    BY <2>1, FetchedIInv
  <2>2. CASE FetchFails(p)
    BY <2>2, GivenUpIInv DEF FetchFails
  <2>3. CASE Create(p)
    BY <2>3, CreateIInv
  <2>4. CASE CreateFails(p)
    BY <2>4, NextVariantIInv, GivenUpIInv DEF CreateFails
  <2>5. CASE Written(p)
    BY <2>5, WrittenIInv
  <2>6. CASE WriteFails(p)
    BY <2>6, WriteFailsIInv
  <2>7. CASE RemovePartial(p)
    BY <2>7, RemovePartialIInv
  <2>. QED
    BY <1>1, <2>1, <2>2, <2>3, <2>4, <2>5, <2>6, <2>7 DEF Step
<1>2. ASSUME NEW p \in Process, Killed(p) PROVE IInv'
    BY <1>2, KilledIInv
<1>3. CASE UNCHANGED vars
    BY <1>3 DEF IInv, TypeOK, OwnsItsFile, KilledIsDone, ReportedFilesAreKept, NoEmptyFileLeft,
       vars, path, candidate
<1>. QED
    BY <1>1, <1>2, <1>3 DEF Next

LEMMA Invariance == Spec => []IInv
    BY InitIInv, NextIInv, PTL DEF Spec

----------------------------------------------------------------------------
\* The state of the invocations and of their directory stays well typed.
THEOREM TypeCorrect == Spec => []TypeOK
<1>1. IInv => TypeOK
    BY DEF IInv
<1>. QED
    BY <1>1, Invariance, PTL

\* What an invocation reported stays as it was written, however many others
\* save icons of the same names into the same directory.
THEOREM ReportsAreTrue == Spec => []ReportedFilesAreKept
<1>1. IInv => ReportedFilesAreKept
    BY DEF IInv
<1>. QED
    BY <1>1, Invariance, PTL

\* No failure leaves an empty file, only a kill in the middle of a save does.
THEOREM NothingEmptyIsLeft == Spec => []NoEmptyFileLeft
<1>1. IInv => NoEmptyFileLeft
    BY DEF IInv
<1>. QED
    BY <1>1, Invariance, PTL

----------------------------------------------------------------------------
\* The best icon.  Of the candidates a process is through with each has
\* either failed or is among its icons, and the first icon is the best.

Got(p) == {icons[p][i][1] : i \in 1 .. Len(icons[p])}
Through(p) == IF answer[p] \in {"ok", "error"} THEN rank[p] ELSE rank[p] - 1

\* An answer is given once, and only when there is nothing left to be done.
AnswerFits(p) ==
    /\ stage[p] = "done" <=> answer[p] # "pending"
    /\ answer[p] = "pending" /\ ~fetchAll[p] => icons[p] = <<>>
    /\ answer[p] \in {"ok", "error"} =>
         /\ answer[p] = "ok" <=> icons[p] # <<>>
         /\ fetchAll[p] \/ icons[p] = <<>> => rank[p] = Len(Ranked)

Sorted(p) ==
    /\ Got(p) \union failed[p] = {Ranked[r] : r \in 1 .. Through(p)}
    /\ Got(p) \intersect failed[p] = {}
    /\ icons[p] # <<>> => \A r \in 1 .. Len(Ranked) :
         Ranked[r] \in Got(p) => \E q \in 1 .. r : Ranked[q] = icons[p][1][1]

Tried == \A p \in Process : AnswerFits(p) /\ Sorted(p)

LEMMA Distinct ==
    ASSUME NEW i \in 1 .. Len(Ranked), NEW j \in 1 .. Len(Ranked), Ranked[i] = Ranked[j]
    PROVE  i = j
    BY Ranks, NamesAssumption DEF IsInjective

LEMMA InitTried == Init => Tried
<1>. SUFFICES ASSUME Init, NEW p \in Process PROVE AnswerFits(p) /\ Sorted(p)
    BY DEF Tried
<1>1. /\ icons[p] = <<>> /\ failed[p] = {} /\ rank[p] = 1 /\ answer[p] = "pending"
      /\ stage[p] = "fetch"
    BY DEF Init
<1>2. Got(p) = {} /\ Through(p) = 0
    BY <1>1 DEF Got, Through
<1>. QED
    BY <1>1, <1>2 DEF AnswerFits, Sorted

\* A process that is not at a decision, or killed there.
LEMMA SameTried ==
    ASSUME TypeOK, NEW p \in Process, AnswerFits(p), Sorted(p),
           rank'[p] = rank[p], icons'[p] = icons[p], failed'[p] = failed[p],
           fetchAll'[p] = fetchAll[p],
           \/ /\ answer'[p] = answer[p] /\ (stage'[p] = "done" <=> stage[p] = "done")
           \/ /\ answer[p] = "pending" /\ answer'[p] = "killed" /\ stage'[p] = "done"
    PROVE  AnswerFits(p)' /\ Sorted(p)'
<1>1. Got(p)' = Got(p) /\ Through(p)' = Through(p)
    BY DEF Got, Through
<1>2. AnswerFits(p)'
    BY DEF AnswerFits
<1>. QED
    BY <1>1, <1>2 DEF Sorted

LEMMA GivenUpTried ==
    ASSUME TypeOK, NEW p \in Process, stage[p] # "done", AnswerFits(p), Sorted(p), GivenUp(p),
           fetchAll'[p] = fetchAll[p]
    PROVE  AnswerFits(p)' /\ Sorted(p)'
<1>1. /\ answer[p] = "pending" /\ icons'[p] = icons[p]
      /\ failed'[p] = failed[p] \union {candidate(p)}
      /\ rank[p] \in 1 .. Len(Ranked) /\ Len(Ranked) \in Nat
    BY Ranks DEF AnswerFits, GivenUp, TypeOK
<1>2. Got(p)' = Got(p)
    BY <1>1 DEF Got
<1>3. ASSUME rank[p] < Len(Ranked) PROVE Through(p)' = rank[p] /\ AnswerFits(p)'
  <2>1. rank'[p] = rank[p] + 1 /\ answer'[p] = "pending" /\ stage'[p] = "fetch"
      BY <1>1, <1>3 DEF GivenUp, Goes, TypeOK
  <2>2. Through(p)' = rank[p] /\ AnswerFits(p)'
      BY <2>1, <1>1 DEF Through, AnswerFits
  <2>. QED
      BY <2>2
<1>4. ASSUME ~(rank[p] < Len(Ranked)) PROVE Through(p)' = rank[p] /\ AnswerFits(p)'
  <2>1. /\ rank'[p] = rank[p] /\ stage'[p] = "done" /\ rank[p] = Len(Ranked)
        /\ answer'[p] = IF icons[p] = <<>> THEN "error" ELSE "ok"
      BY <1>1, <1>4 DEF GivenUp, Goes, TypeOK
  <2>2. Through(p)' = rank[p] /\ AnswerFits(p)'
      BY <2>1, <1>1 DEF Through, AnswerFits
  <2>. QED
      BY <2>2
<1>5. Through(p)' = rank[p] /\ AnswerFits(p)'
    BY <1>3, <1>4
<1>6. Through(p) = rank[p] - 1 /\ candidate(p) = Ranked[rank[p]]
    BY <1>1 DEF Through, candidate
<1>7. Got(p)' \union failed'[p] = {Ranked[r] : r \in 1 .. rank[p]}
  <2>1. {Ranked[r] : r \in 1 .. rank[p]}
          = {Ranked[r] : r \in 1 .. (rank[p] - 1)} \union {Ranked[rank[p]]}
      BY <1>1
  <2>. QED
      BY <2>1, <1>1, <1>2, <1>6 DEF Sorted
<1>8. candidate(p) \notin Got(p)
    BY <1>1, <1>6, Distinct DEF Sorted
<1>. QED
    BY <1>1, <1>2, <1>5, <1>7, <1>8 DEF Sorted

LEMMA WrittenTried ==
    ASSUME TypeOK, NEW p \in Process, AnswerFits(p), Sorted(p), Written(p)
    PROVE  AnswerFits(p)' /\ Sorted(p)'
<1>. DEFINE icon == <<candidate(p), path(p)>>
<1>1. /\ answer[p] = "pending" /\ icons'[p] = Append(icons[p], icon)
      /\ failed'[p] = failed[p] /\ fetchAll'[p] = fetchAll[p]
      /\ rank[p] \in 1 .. Len(Ranked) /\ Len(Ranked) \in Nat
      /\ icons[p] \in Seq(Candidate \X Path)
    BY Ranks DEF AnswerFits, Written, TypeOK
<1>0. icon \in Candidate \X Path /\ icon[1] = candidate(p)
    BY PathType
<1>2. /\ Len(icons'[p]) = Len(icons[p]) + 1 /\ Len(icons[p]) \in Nat
      /\ \A i \in 1 .. Len(icons[p]) : icons'[p][i] = icons[p][i]
      /\ icons'[p][Len(icons[p]) + 1] = icon /\ icons'[p] # <<>>
    BY <1>0, <1>1
<1>3. Got(p)' = Got(p) \union {candidate(p)}
    BY <1>0, <1>2 DEF Got
<1>4. Through(p)' = rank[p] /\ AnswerFits(p)'
  <2>1. CASE fetchAll[p] /\ rank[p] < Len(Ranked)
    <3>1. rank'[p] = rank[p] + 1 /\ answer'[p] = "pending" /\ stage'[p] = "fetch"
        BY <1>1, <2>1 DEF Written, Goes, TypeOK
    <3>. QED
        BY <3>1, <1>1, <2>1 DEF Through, AnswerFits
  <2>2. CASE ~(fetchAll[p] /\ rank[p] < Len(Ranked))
    <3>1. rank'[p] = rank[p] /\ answer'[p] = "ok" /\ stage'[p] = "done"
        BY <1>1, <2>2 DEF Written, Goes, TypeOK
    <3>. QED
        BY <3>1, <1>1, <1>2, <2>2 DEF Through, AnswerFits
  <2>. QED
      BY <2>1, <2>2
<1>5. Through(p) = rank[p] - 1 /\ candidate(p) = Ranked[rank[p]]
    BY <1>1 DEF Through, candidate
<1>6. Got(p)' \union failed'[p] = {Ranked[r] : r \in 1 .. rank[p]}
  <2>1. {Ranked[r] : r \in 1 .. rank[p]}
          = {Ranked[r] : r \in 1 .. (rank[p] - 1)} \union {Ranked[rank[p]]}
      BY <1>1
  <2>. QED
      BY <2>1, <1>1, <1>3, <1>5 DEF Sorted
<1>7. candidate(p) \notin failed[p]
    BY <1>1, <1>5, Distinct DEF Sorted
<1>8. ASSUME NEW r \in 1 .. Len(Ranked), Ranked[r] \in Got(p)'
       PROVE  \E q \in 1 .. r : Ranked[q] = icons'[p][1][1]
  <2>1. CASE icons[p] = <<>>
    <3>1. Got(p) = {} /\ icons'[p][1][1] = candidate(p)
        BY <2>1, <1>0, <1>2 DEF Got
    <3>. QED
        BY <3>1, <1>3, <1>8
  <2>2. CASE icons[p] # <<>>
    <3>1. Len(icons[p]) >= 1 /\ icons'[p][1] = icons[p][1] /\ icons[p][1][1] \in Got(p)
        BY <2>2, <1>1, <1>2 DEF Got
    <3>2. CASE Ranked[r] \in Got(p)
        BY <2>2, <3>1, <3>2 DEF Sorted
    <3>3. CASE Ranked[r] = candidate(p)
      <4>1. r = rank[p]
          BY <3>3, <1>1, <1>5, Distinct
      <4>2. PICK q \in 1 .. (rank[p] - 1) : Ranked[q] = icons[p][1][1]
          BY <3>1, <1>5 DEF Sorted
      <4>. QED
          BY <4>1, <4>2, <3>1, <1>1
    <3>. QED
        BY <3>2, <3>3, <1>3, <1>8
  <2>. QED
      BY <2>1, <2>2
<1>. QED
    BY <1>1, <1>3, <1>4, <1>6, <1>7, <1>8 DEF Sorted

LEMMA NextTried == TypeOK /\ Tried /\ [Next]_vars => Tried'
<1>. SUFFICES ASSUME TypeOK, Tried, [Next]_vars, NEW p \in Process
              PROVE  AnswerFits(p)' /\ Sorted(p)'
    BY DEF Tried
<1>0. AnswerFits(p) /\ Sorted(p)
    BY DEF Tried
<1>1. CASE UNCHANGED vars
    BY <1>0, <1>1, SameTried DEF vars
<1>2. ASSUME NEW q \in Process, Step(q) \/ Killed(q), q # p
      PROVE  AnswerFits(p)' /\ Sorted(p)'
  <2>1. /\ rank'[p] = rank[p] /\ icons'[p] = icons[p] /\ failed'[p] = failed[p]
        /\ fetchAll' = fetchAll /\ answer'[p] = answer[p] /\ stage'[p] = stage[p]
      BY <1>2 DEF TypeOK, Step, Killed, Fetched, FetchFails, Create, CreateFails, Written,
         WriteFails, RemovePartial, GivenUp, Goes
  <2>. QED
      BY <2>1, <1>0, SameTried
<1>3. CASE Fetched(p) \/ Create(p) \/ WriteFails(p)
    BY <1>0, <1>3, SameTried DEF Fetched, Create, WriteFails, Goes, TypeOK
<1>4. CASE FetchFails(p) \/ RemovePartial(p)
    BY <1>0, <1>4, GivenUpTried DEF FetchFails, RemovePartial
<1>5. CASE CreateFails(p)
    BY <1>0, <1>5, SameTried, GivenUpTried DEF CreateFails
<1>6. CASE Written(p)
    BY <1>0, <1>6, WrittenTried
<1>7. CASE Killed(p)
    BY <1>0, <1>7, SameTried DEF Killed, Goes, TypeOK, AnswerFits
<1>. QED
    BY <1>1, <1>2, <1>3, <1>4, <1>5, <1>6, <1>7 DEF Next, Step

\* Whoever asks for the best gets the first candidate that could be
\* downloaded at all, whoever asks for all gets every one that could be.
THEOREM TheBestIsHad == Spec => []BestThatCouldBeHad
<1>1. TypeOK /\ Tried => BestThatCouldBeHad
  <2>. SUFFICES ASSUME TypeOK, Tried, NEW p \in Process, answer[p] \in {"ok", "error"}
       PROVE  LET tried == IF fetchAll[p] \/ Got(p) = {} THEN Candidate
                           ELSE {Ranked[r] : r \in 1 .. rank[p]}
              IN  /\ Got(p) \intersect failed[p] = {} /\ Got(p) \union failed[p] = tried
                  /\ answer[p] = "ok" <=> Got(p) # {}
                  /\ Got(p) # {} => \A r \in 1 .. Len(Ranked) :
                       Ranked[r] \in Got(p) => \E q \in 1 .. r : Ranked[q] = icons[p][1][1]
      BY DEF BestThatCouldBeHad, Got
  <2>1. AnswerFits(p) /\ Sorted(p) /\ Through(p) = rank[p]
      BY DEF Tried, Through
  <2>2. Got(p) = {} <=> icons[p] = <<>>
    <3>1. icons[p] \in Seq(Candidate \X Path)
        BY DEF TypeOK
    <3>2. ASSUME icons[p] # <<>> PROVE icons[p][1][1] \in Got(p)
        BY <3>1, <3>2 DEF Got
    <3>3. ASSUME icons[p] = <<>> PROVE Got(p) = {}
        BY <3>3 DEF Got
    <3>. QED
        BY <3>2, <3>3
  <2>3. Candidate = {Ranked[r] : r \in 1 .. Len(Ranked)}
      BY Ranks DEF Candidate, ToSet
  <2>. QED
      BY <2>1, <2>2, <2>3 DEF AnswerFits, Sorted
<1>2. TypeOK /\ Tried /\ [Next]_vars => Tried'
    BY NextTried
<1>. QED
    BY <1>1, <1>2, InitTried, TypeCorrect, PTL DEF Spec
=============================================================================
