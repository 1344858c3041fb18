--------------------------- MODULE EngineService ---------------------------
(***************************************************************************)
(* The fvf-engine processes of one panel and the cache directory they      *)
(* share.  Each helper serves one request: it reads it, obtains bytes (from *)
(* the site, or from an artifact it exports), and writes an artifact and   *)
(* its preview.  Between any two system calls the user may cancel, the     *)
(* deadline may pass, the helper or the app may die, and an app that is    *)
(* launched again may prune the directory.                                 *)
(***************************************************************************)
EXTENDS Formats

CONSTANTS
    Helper,   \* the helper processes that are ever started
    Name,     \* file names writeArtifact may draw; a drawn name may be taken
    Site,     \* what sites answer with
    None

ASSUME SiteAssumption == Site \subseteq Bytes

File == [owner : Helper, whole : BOOLEAN]

ASSUME NoneAssumption == None \notin Name \cup File

VARIABLES
    pc,             \* per helper: how far it is
    request,        \* per helper: what it was asked for
    ctx,            \* per helper: its context
    data,           \* per helper: the bytes it stores
    path, preview,  \* per helper: the names of the files it wrote
    received,       \* the helpers whose good answer the app got
    files, dir,     \* the directory's files, and whether it exists
    app             \* the app that started the helpers is running

writing == <<path, preview>>
vars == <<pc, request, ctx, data, writing, received, files, dir, app>>

Steps == {"input", "working", "hung", "creating", "writing", "thumbnail", "writingPreview",
          "answering"}
Requests == [op : {"none", "discover", "fetch"}]
            \cup [op : {"export"}, source : Name, format : {"original", "png", "jpg"}]
Garbage == [magic |-> "", sound |-> FALSE, small |-> FALSE, blank |-> FALSE, long |-> FALSE]

Running(h) == pc[h] \in Steps

Init ==
    /\ pc = [h \in Helper |-> "off"]
    /\ request = [h \in Helper |-> [op |-> "none"]]
    /\ ctx = [h \in Helper |-> "live"]
    /\ data = [h \in Helper |-> Garbage]
    /\ path = [h \in Helper |-> None] /\ preview = [h \in Helper |-> None]
    /\ received = {}
    /\ files = [n \in Name |-> None] /\ dir = TRUE
    /\ app = TRUE

Step(h, from, to) == pc[h] = from /\ pc' = [pc EXCEPT ![h] = to]

----------------------------------------------------------------------------
\* The app: FisherModel starts a helper for each operation.  It exports only
\* what the answer to a fetch named, in a format that answer offered.
Call(h) ==
    /\ app /\ Step(h, "off", "input")
    /\ \/ \E op \in {"discover", "fetch"} : request' = [request EXCEPT ![h] = [op |-> op]]
       \/ \E g \in received : \E f \in AllowedFormats(data[g]) :
             /\ request[g].op = "fetch"
             /\ request' = [request EXCEPT ![h] = [op |-> "export", source |-> path[g], format |-> f]]
    /\ UNCHANGED <<ctx, data, writing, received, files, dir, app>>

\* SIGTERM, from EngineProcess.cancel or its time limit.
Terminate(h) ==
    /\ Running(h) /\ ctx[h] = "live"
    /\ ctx' = [ctx EXCEPT ![h] = "cancelled"]
    /\ UNCHANGED <<pc, request, data, writing, received, files, dir, app>>

AppDies ==
    /\ app /\ app' = FALSE
    /\ UNCHANGED <<pc, request, ctx, data, writing, received, files, dir>>

\* Only the next launch prunes.  A file created meanwhile keeps the directory.
Prune_WhileInUse ==
    /\ dir
    /\ files' = [n \in Name |-> None] /\ dir' \in BOOLEAN
    /\ UNCHANGED <<pc, request, ctx, data, writing, received, app>>

Prune ==
    /\ ~app /\ dir
    /\ files' = [n \in Name |-> None] /\ dir' \in BOOLEAN
    /\ UNCHANGED <<pc, request, ctx, data, writing, received, app>>

----------------------------------------------------------------------------
\* A helper.  main reads one line; if the app died first, it finds EOF.
ReadRequest(h) ==
    /\ Step(h, "input", "working") \/ (~app /\ Step(h, "input", "failed"))
    /\ UNCHANGED <<request, ctx, data, writing, received, files, dir, app>>

\* The goroutine on stdin: EOF means the parent has gone away.
StdinCloses_Unheeded(h) ==
    /\ ~app /\ Running(h) /\ pc[h] # "input" /\ ctx[h] = "live"
    /\ UNCHANGED vars

StdinCloses(h) ==
    /\ ~app /\ Running(h) /\ pc[h] # "input" /\ ctx[h] = "live"
    /\ ctx' = [ctx EXCEPT ![h] = "cancelled"]
    /\ UNCHANGED <<pc, request, data, writing, received, files, dir, app>>

DeadlinePasses(h) ==
    /\ Running(h) /\ pc[h] # "input" /\ ctx[h] = "live"
    /\ ctx' = [ctx EXCEPT ![h] = "expired"]
    /\ UNCHANGED <<pc, request, data, writing, received, files, dir, app>>

Discover(h) ==
    /\ request[h].op = "discover"
    /\ (ctx[h] = "live" /\ Step(h, "working", "answering")) \/ Step(h, "working", "failed")
    /\ UNCHANGED <<request, ctx, data, writing, received, files, dir, app>>

\* The first half of artifact: an export reads, inspects and converts its
\* source, a fetch is ReadIcon.
SourceBytes(h) == data[files[request[h].source].owner]

SourceIsThere(h) ==
    /\ dir /\ files[request[h].source] # None
    /\ files[request[h].source].whole

Readable(h) == SourceIsThere(h) /\ Exports(SourceBytes(h), request[h].format)

Obtainable(h) ==
    IF request[h].op = "fetch" THEN {b \in Site : dir /\ Inspects(b)}
    ELSE IF Readable(h) THEN {Exported(SourceBytes(h), request[h].format)} ELSE {}

Obtain(h) ==
    /\ request[h].op # "discover" /\ Step(h, "working", "creating")
    /\ \E b \in Obtainable(h) : data' = [data EXCEPT ![h] = b]
    /\ UNCHANGED <<request, ctx, writing, received, files, dir, app>>

\* The site fails, the source cannot be exported, or a system call fails.
ObtainFails(h) ==
    /\ request[h].op # "discover" /\ Step(h, "working", "failed")
    /\ UNCHANGED <<request, ctx, data, writing, received, files, dir, app>>

\* A decoder that never returns looks at no context.
Hang(h) ==
    /\ request[h].op # "discover" /\ Step(h, "working", "hung")
    /\ UNCHANGED <<request, ctx, data, writing, received, files, dir, app>>

\* The names 12 random bytes may give: a taken one, or a free one (which are
\* all alike).
Drawn == {n \in Name : files[n] = None => n = CHOOSE m \in Name : files[m] = None}

\* writeArtifact creates the file exclusively, writes it, and removes it if
\* that failed.  The context is looked at once, before the first create.
Create(h, n) ==
    /\ dir /\ files[n] = None
    /\ files' = [files EXCEPT ![n] = [owner |-> h, whole |-> FALSE]]

CreateArtifact(h, n) ==
    /\ ctx[h] = "live"
    /\ Step(h, "creating", "writing") /\ Create(h, n)
    /\ path' = [path EXCEPT ![h] = n]
    /\ UNCHANGED <<request, ctx, data, preview, received, dir, app>>

CreatePreview(h, n) ==
    /\ IsRaster(data[h]) /\ Thumbnails(data[h])
    /\ Step(h, "thumbnail", "writingPreview") /\ Create(h, n)
    /\ preview' = [preview EXCEPT ![h] = n]
    /\ UNCHANGED <<request, ctx, data, path, received, dir, app>>

\* The name is taken, the disk is full, the directory is gone; the context
\* ended before the artifact; the thumbnail cannot be encoded.
CreateFails(h) ==
    /\ Step(h, "creating", "failed") \/ (IsRaster(data[h]) /\ Step(h, "thumbnail", "failed"))
    /\ UNCHANGED <<request, ctx, data, writing, received, files, dir, app>>

\* The file being written, unless it was pruned meanwhile.
Open(h) == {n \in {path[h], preview[h]} \ {None} : files[n] = [owner |-> h, whole |-> FALSE]}

Write(h) ==
    /\ Step(h, "writing", "thumbnail") \/ Step(h, "writingPreview", "answering")
    /\ files' = [n \in Name |-> IF n \in Open(h) THEN [owner |-> h, whole |-> TRUE] ELSE files[n]]
    /\ UNCHANGED <<request, ctx, data, writing, received, dir, app>>

WriteFails_Leaves(h) ==
    /\ Step(h, "writing", "failed") \/ Step(h, "writingPreview", "failed")
    /\ UNCHANGED <<request, ctx, data, writing, received, files, dir, app>>

WriteFails(h) ==
    /\ Step(h, "writing", "failed") \/ Step(h, "writingPreview", "failed")
    /\ files' = [n \in Name |-> IF n \in Open(h) THEN None ELSE files[n]]
    /\ UNCHANGED <<request, ctx, data, writing, received, dir, app>>

\* An SVG has no preview; an ICO is its own.
NoPreview(h) ==
    /\ ~IsRaster(data[h]) /\ Step(h, "thumbnail", "answering")
    /\ preview' = [preview EXCEPT ![h] = IF data[h].magic = "ico" THEN path[h] ELSE None]
    /\ UNCHANGED <<request, ctx, data, path, received, files, dir, app>>

\* The app takes the answer unless it died or gave the helper up.
Answer(h) ==
    /\ Step(h, "answering", "done")
    /\ received' \in {received} \cup (IF app /\ ctx[h] # "cancelled" THEN {received \cup {h}} ELSE {})
    /\ UNCHANGED <<request, ctx, data, writing, files, dir, app>>

\* SIGKILL half a second after SIGTERM, a crash, or main's own watchdog.
Killed(h) ==
    /\ Running(h) /\ pc' = [pc EXCEPT ![h] = "killed"]
    /\ UNCHANGED <<request, ctx, data, writing, received, files, dir, app>>

----------------------------------------------------------------------------
Obtains(h) == Discover(h) \/ Obtain(h) \/ ObtainFails(h)

Stores(h) ==
    \/ \E n \in Drawn : CreateArtifact(h, n) \/ CreatePreview(h, n)
    \/ CreateFails(h) \/ Write(h) \/ WriteFails(h) \/ NoPreview(h) \/ Answer(h)

Next ==
    \/ AppDies \/ Prune
    \/ \E h \in Helper :
        \/ Call(h) \/ Terminate(h) \/ StdinCloses(h) \/ DeadlinePasses(h) \/ Killed(h)
        \/ ReadRequest(h) \/ Obtains(h) \/ Hang(h) \/ Stores(h)

\* Processes run and system calls return; EOF is noticed; the network gives up
\* once the context has ended, and not necessarily before; the watchdog fires.
\* Deadlines are not needed, so none is assumed to pass.
Fairness ==
    \A h \in Helper :
        /\ WF_vars(ReadRequest(h)) /\ WF_vars(Stores(h)) /\ WF_vars(StdinCloses(h))
        /\ WF_vars(ctx[h] # "live" /\ Obtains(h))
        /\ WF_vars(pc[h] = "hung" /\ Killed(h))

Spec == Init /\ [][Next]_vars /\ Fairness

----------------------------------------------------------------------------
TypeOK ==
    /\ pc \in [Helper -> Steps \cup {"off", "done", "failed", "killed"}]
    /\ request \in [Helper -> Requests]
    /\ ctx \in [Helper -> {"live", "cancelled", "expired"}]
    /\ data \in [Helper -> Bytes]
    /\ path \in [Helper -> Name \cup {None}] /\ preview \in [Helper -> Name \cup {None}]
    /\ received \subseteq Helper
    /\ files \in [Name -> File \cup {None}] /\ dir \in BOOLEAN /\ app \in BOOLEAN

\* As long as the app lives, the files an answer named (which it shows, drags
\* out and exports from) stay in the directory, whole and unmixed, whatever
\* other helpers write, fail at or clean up.
ReceivedArtifactsStay ==
    app => \A h \in received : request[h].op # "discover" =>
        /\ dir /\ path[h] # None
        /\ \A n \in {path[h], preview[h]} \ {None} : files[n] = [owner |-> h, whole |-> TRUE]

\* Every file of the directory is accounted for.  The app was told of it; or
\* its helper is at work, or was killed; or answered, but the app had died or
\* did not take the answer; or failed, and then it is the whole artifact of a
\* raster icon whose preview failed.  A partial file is being written, or its
\* writer was killed.
LeftoversAreAccountedFor ==
    \A n \in Name : files[n] # None =>
        LET h == files[n].owner IN
        /\ n \in {path[h], preview[h]}
        /\ \/ h \in received
           \/ Running(h) \/ pc[h] = "killed"
           \/ pc[h] = "done" /\ h \notin received /\ files[n].whole
           \/ pc[h] = "failed" /\ files[n].whole /\ n = path[h] /\ IsRaster(data[h])
        /\ ~files[n].whole => pc[h] \in {"writing", "writingPreview", "killed"}

\* What the engine offered it delivers, but for one kind of icon: while the app
\* lives, an export that is about to read its source finds it whole, can convert
\* it, and can store the result.  A GIF without pixels whose thumbnail has some
\* is exported as the original only; it is offered as PNG and JPEG in vain.
OfferedIsExported ==
    \A h \in Helper : app /\ pc[h] = "working" /\ request[h].op = "export" =>
        /\ SourceIsThere(h)
        /\ (SourceBytes(h).blank => request[h].format = "original") =>
              /\ Exports(SourceBytes(h), request[h].format)
              /\ Stored(Exported(SourceBytes(h), request[h].format))

\* Helpers do not outlive their app for long, whatever they are doing.
NoOrphanHelper == ~app ~> \A h \in Helper : ~Running(h)
=============================================================================
