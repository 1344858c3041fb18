------------------------ MODULE EngineServiceProofs ------------------------
(***************************************************************************)
(* The helpers and their directory for any number of helpers, any names    *)
(* and any sites.                                                          *)
(***************************************************************************)
EXTENDS EngineService, TLAPS

----------------------------------------------------------------------------
\* A sound picture of any format.
LEMMA SoundImage ==
    ASSUME NEW m \in Sniffed
    PROVE  [magic |-> m, sound |-> TRUE, small |-> TRUE, blank |-> FALSE, long |-> FALSE] \in Bytes
  BY DEF Bytes

\* A conversion yields a file that passes the inspection itself.
LEMMA ConvertedInspects ==
    ASSUME NEW b \in Bytes, NEW e, NEW target, Converts(b, e, target), b.magic \in Raster, ~b.blank
    PROVE  /\ target \in {"png", "jpg"}
           /\ Converted(b, target) \in Bytes
           /\ Inspects(Converted(b, target)) /\ Thumbnails(Converted(b, target))
<1>1. SourceExt(b, e) = b.magic
  BY DEF SourceExt, Raster
<1>2. target \in {"png", "jpg"}
  BY <1>1 DEF Converts, PassesThrough, Passthrough, Raster
<1>3. Converted(b, target) = [magic |-> target, sound |-> TRUE, small |-> TRUE,
                             blank |-> FALSE, long |-> FALSE]
  BY <1>2 DEF Converted, Passthrough
<1>4. Converted(b, target) \in Bytes
  <2>1. target \in Sniffed
    BY <1>2 DEF Sniffed, Raster
  <2> QED BY <1>3, <2>1, SoundImage
<1> QED
  BY <1>2, <1>3, <1>4 DEF Inspects, Thumbnails, Decodes, Raster

\* An export yields bytes.
LEMMA ConvertedBytes ==
    ASSUME NEW b \in Bytes, NEW format \in {"original", "png", "jpg"}
    PROVE  Exported(b, format) \in Bytes
BY DEF Exported, Converted, Bytes, Sniffed, Raster, Passthrough

\* An icon the engine stored can be exported in a format the engine offers for
\* it, to something that can be stored in its turn, unless it is a picture
\* without pixels: of such a one the original can be exported, and no other
\* format although two more are offered.
THEOREM OfferedFormatsExport ==
    ASSUME NEW b \in Bytes, Stored(b), NEW format \in AllowedFormats(b)
    PROVE  /\ Exported(b, format) \in Bytes
           /\ Exports(b, format) /\ Stored(Exported(b, format)) <=> (b.blank => format = "original")
<1>1. CASE format = "original"
  BY <1>1 DEF Exports, Exported, Stored
<1>2. CASE format \in {"png", "jpg"} /\ b.blank
  <2>1. b.magic = "gif" /\ SourceExt(b, b.magic) = "gif" /\ format \notin Passthrough
    BY <1>2 DEF Bytes, SourceExt, Passthrough
  <2>2. /\ Exported(b, format) = Converted(b, format)
        /\ Converted(b, format) = [magic |-> format, sound |-> FALSE, small |-> TRUE,
                                   blank |-> FALSE, long |-> FALSE]
    BY <1>2, <2>1 DEF Exported, Converted
  <2>3. ~Stored(Exported(b, format))
    BY <1>2, <2>1, <2>2 DEF Stored, Inspects, Decodes
  <2>4. Exported(b, format) \in Bytes
    BY <1>2, ConvertedBytes
  <2> QED BY <1>2, <2>3, <2>4
<1>3. CASE format \in {"png", "jpg"} /\ IsRaster(b) /\ ~b.blank
  <2>1. Decodes(b) /\ ~b.blank /\ Inspects(b) /\ b.magic \in Raster
    BY <1>3 DEF Stored, Thumbnails, IsRaster, Inspects, Decodes
  <2>2. Converts(b, b.magic, format)
    BY <1>3, <2>1 DEF Converts, PassesThrough, SourceExt, Passthrough, Raster
  <2>3. /\ Converted(b, format) \in Bytes
        /\ Inspects(Converted(b, format)) /\ Thumbnails(Converted(b, format))
    BY <2>1, <2>2, ConvertedInspects
  <2>4. Exported(b, format) = Converted(b, format)
    BY <1>3 DEF Exported
  <2> QED
    BY <1>3, <2>1, <2>2, <2>3, <2>4 DEF Exports, Stored
<1> QED
  BY <1>1, <1>2, <1>3 DEF AllowedFormats

----------------------------------------------------------------------------
\* The inductive invariant.  What an answer promises has to hold from the step
\* that made it true, long before the answer: so the files of every helper
\* that has not failed are described, not only those of received answers.

Before == {"off", "input", "working", "hung", "creating"}
Storing == {"creating", "writing", "thumbnail", "writingPreview"}
Answering == {"answering", "done"}

\* A helper has written nothing before it creates a file, and the preview last.
WrittenSoFar ==
    \A h \in Helper :
        /\ pc[h] \in Before => path[h] = None
        /\ pc[h] \in Before \cup {"writing", "thumbnail"} => preview[h] = None

\* Every file was written by the helper it belongs to; which ones are partial.
Owned ==
    \A n \in Name : files[n] # None =>
        LET h == files[n].owner IN
        /\ n \in {path[h], preview[h]}
        /\ ~files[n].whole => \/ pc[h] = "writing" \/ pc[h] = "killed"
                              \/ pc[h] = "writingPreview" /\ n = preview[h]
        /\ pc[h] = "writing" => ~files[n].whole
        /\ pc[h] = "writingPreview" /\ n = preview[h] => ~files[n].whole
        /\ pc[h] = "failed" => n = path[h] /\ IsRaster(data[h])

\* Nothing is missing from the directory of a living app.
Present ==
    app => /\ dir
           /\ \A h \in Helper : pc[h] \notin {"failed", "killed"} =>
                /\ path[h] # None =>
                     files[path[h]] = [owner |-> h, whole |-> (pc[h] # "writing")]
                /\ preview[h] # None =>
                     files[preview[h]] = [owner |-> h, whole |-> (pc[h] # "writingPreview")]

\* What a helper knows of its bytes at each step, and what its answer means.
Known ==
    \A h \in Helper :
        /\ pc[h] \in Storing \cup {"hung"} => request[h].op # "discover"
        /\ pc[h] # "off" => request[h].op # "none"
        /\ pc[h] \in Storing \cup Answering /\ request[h].op # "discover" =>
             IsRaster(data[h]) \/ Inspects(data[h])
        /\ pc[h] = "writingPreview" => IsRaster(data[h]) /\ Thumbnails(data[h])
        /\ pc[h] \in {"writing", "thumbnail", "writingPreview"} => path[h] # None
        /\ pc[h] \in Answering /\ request[h].op # "discover" =>
             path[h] # None /\ Stored(data[h])

ReceivedAreDone == \A h \in received : pc[h] = "done"

\* Exports are asked for what fetches answered.
Requested ==
    \A h \in Helper : request[h].op = "export" =>
        \E g \in received : /\ request[g].op = "fetch"
                            /\ request[h].source = path[g]
                            /\ request[h].format \in AllowedFormats(data[g])

IInv ==
    /\ TypeOK /\ WrittenSoFar /\ Owned /\ Present /\ Known /\ ReceivedAreDone /\ Requested

\* A file a living app's helper has written, seen through Present.
LEMMA PresentFile ==
    ASSUME IInv, app, NEW h \in Helper, pc[h] \notin {"failed", "killed"},
           NEW n \in {path[h], preview[h]} \ {None}
    PROVE  /\ n \in Name /\ files[n] # None /\ files[n].owner = h
           /\ files[n] = [owner |-> h, whole |-> TRUE] \/ files[n] = [owner |-> h, whole |-> FALSE]
<1>1. files[n] = [owner |-> h, whole |-> TRUE] \/ files[n] = [owner |-> h, whole |-> FALSE]
  BY DEF IInv, Present
<1>2. [owner |-> h, whole |-> TRUE] \in File /\ [owner |-> h, whole |-> FALSE] \in File
  BY DEF File
<1> QED BY <1>1, <1>2, NoneAssumption DEF IInv, TypeOK

LEMMA CallKeeps ==
    ASSUME IInv, NEW h \in Helper, Call(h) PROVE IInv'
<1>1. TypeOK'
  <2>1. ASSUME NEW g \in received, NEW f \in AllowedFormats(data[g]), request[g].op = "fetch"
        PROVE  [op |-> "export", source |-> path[g], format |-> f] \in Requests
    <3>1. pc[g] = "done" /\ g \in Helper
      BY DEF IInv, TypeOK, ReceivedAreDone
    <3>2. path[g] \in Name
      BY <2>1, <3>1 DEF IInv, TypeOK, Known, Answering
    <3> QED BY <3>2 DEF Requests, AllowedFormats
  <2>2. \A o \in {"discover", "fetch"} : [op |-> o] \in Requests
    BY DEF Requests
  <2> QED BY <2>1, <2>2 DEF IInv, TypeOK, Call, Step, Steps, writing
<1>2. WrittenSoFar'
  BY DEF IInv, TypeOK, WrittenSoFar, Before, Call, Step, writing
<1>3. Owned'
  BY NoneAssumption DEF IInv, TypeOK, WrittenSoFar, Owned, Known, Before, File, Call,
     Step, writing
<1>4. Present'
  BY DEF IInv, TypeOK, WrittenSoFar, Owned, Present, Known, Before, Storing, Answering,
     File, Call, Step, writing
<1>5. Known'
  BY DEF IInv, TypeOK, Known, Storing, Answering, Call, Step, writing
<1>6. ReceivedAreDone'
  BY DEF IInv, TypeOK, ReceivedAreDone, Call, Step, writing
<1>7. Requested'
  BY DEF IInv, TypeOK, ReceivedAreDone, Requested, Call, Step, writing
<1> QED BY <1>1, <1>2, <1>3, <1>4, <1>5, <1>6, <1>7 DEF IInv

LEMMA TerminateKeeps ==
    ASSUME IInv, NEW h \in Helper, Terminate(h) PROVE IInv'
<1>1. TypeOK'
  BY DEF IInv, TypeOK, Terminate, Step, writing, Steps, File
<1>2. WrittenSoFar'
  BY DEF IInv, TypeOK, WrittenSoFar, Before, Terminate, Step, writing
<1>3. Owned'
  BY NoneAssumption DEF IInv, TypeOK, WrittenSoFar, Owned, Known, Before, File,
     Terminate, Step, writing
<1>4. Present'
  BY DEF IInv, TypeOK, WrittenSoFar, Owned, Present, Known, Before, Storing, Answering,
     File, Terminate, Step, writing
<1>5. Known'
  BY DEF IInv, TypeOK, Known, Storing, Answering, Terminate, Step, writing
<1>6. ReceivedAreDone'
  BY DEF IInv, TypeOK, ReceivedAreDone, Terminate, Step, writing
<1>7. Requested'
  BY DEF IInv, TypeOK, ReceivedAreDone, Requested, Terminate, Step, writing
<1> QED BY <1>1, <1>2, <1>3, <1>4, <1>5, <1>6, <1>7 DEF IInv

LEMMA AppDiesKeeps ==
    ASSUME IInv, AppDies PROVE IInv'
<1>1. TypeOK'
  BY DEF IInv, TypeOK, AppDies, Step, writing, Steps, File
<1>2. WrittenSoFar'
  BY DEF IInv, TypeOK, WrittenSoFar, Before, AppDies, Step, writing
<1>3. Owned'
  BY NoneAssumption DEF IInv, TypeOK, WrittenSoFar, Owned, Known, Before, File, AppDies,
     Step, writing
<1>4. Present'
  BY DEF IInv, TypeOK, WrittenSoFar, Owned, Present, Known, Before, Storing, Answering,
     File, AppDies, Step, writing
<1>5. Known'
  BY DEF IInv, TypeOK, Known, Storing, Answering, AppDies, Step, writing
<1>6. ReceivedAreDone'
  BY DEF IInv, TypeOK, ReceivedAreDone, AppDies, Step, writing
<1>7. Requested'
  BY DEF IInv, TypeOK, ReceivedAreDone, Requested, AppDies, Step, writing
<1> QED BY <1>1, <1>2, <1>3, <1>4, <1>5, <1>6, <1>7 DEF IInv

LEMMA PruneKeeps ==
    ASSUME IInv, Prune PROVE IInv'
<1>1. TypeOK'
  BY NoneAssumption DEF IInv, TypeOK, Prune, Step, writing, Steps, File
<1>2. WrittenSoFar'
  BY NoneAssumption DEF IInv, TypeOK, WrittenSoFar, Before, Prune, Step, writing
<1>3. Owned'
  BY NoneAssumption DEF IInv, TypeOK, WrittenSoFar, Owned, Known, Before, File, Prune,
     Step, writing
<1>4. Present'
  BY NoneAssumption DEF IInv, TypeOK, WrittenSoFar, Owned, Present, Known, Before,
     Storing, Answering, File, Prune, Step, writing
<1>5. Known'
  BY NoneAssumption DEF IInv, TypeOK, Known, Storing, Answering, Prune, Step, writing
<1>6. ReceivedAreDone'
  BY DEF IInv, TypeOK, ReceivedAreDone, Prune, Step, writing
<1>7. Requested'
  BY DEF IInv, TypeOK, ReceivedAreDone, Requested, Prune, Step, writing
<1> QED BY <1>1, <1>2, <1>3, <1>4, <1>5, <1>6, <1>7 DEF IInv

LEMMA ReadRequestKeeps ==
    ASSUME IInv, NEW h \in Helper, ReadRequest(h) PROVE IInv'
<1>1. TypeOK'
  BY DEF IInv, TypeOK, ReadRequest, Step, writing, Steps, File
<1>2. WrittenSoFar'
  BY DEF IInv, TypeOK, WrittenSoFar, Before, ReadRequest, Step, writing
<1>3. Owned'
  BY NoneAssumption DEF IInv, TypeOK, WrittenSoFar, Owned, Known, Before, File,
     ReadRequest, Step, writing
<1>4. Present'
  BY DEF IInv, TypeOK, WrittenSoFar, Owned, Present, Known, Before, Storing, Answering,
     File, ReadRequest, Step, writing
<1>5. Known'
  BY DEF IInv, TypeOK, Known, Storing, Answering, ReadRequest, Step, writing
<1>6. ReceivedAreDone'
  BY DEF IInv, TypeOK, ReceivedAreDone, ReadRequest, Step, writing
<1>7. Requested'
  BY DEF IInv, TypeOK, ReceivedAreDone, Requested, ReadRequest, Step, writing
<1> QED BY <1>1, <1>2, <1>3, <1>4, <1>5, <1>6, <1>7 DEF IInv

LEMMA StdinClosesKeeps ==
    ASSUME IInv, NEW h \in Helper, StdinCloses(h) PROVE IInv'
<1>1. TypeOK'
  BY DEF IInv, TypeOK, StdinCloses, Step, writing, Steps, File
<1>2. WrittenSoFar'
  BY DEF IInv, TypeOK, WrittenSoFar, Before, StdinCloses, Step, writing
<1>3. Owned'
  BY NoneAssumption DEF IInv, TypeOK, WrittenSoFar, Owned, Known, Before, File,
     StdinCloses, Step, writing
<1>4. Present'
  BY DEF IInv, TypeOK, WrittenSoFar, Owned, Present, Known, Before, Storing, Answering,
     File, StdinCloses, Step, writing
<1>5. Known'
  BY DEF IInv, TypeOK, Known, Storing, Answering, StdinCloses, Step, writing
<1>6. ReceivedAreDone'
  BY DEF IInv, TypeOK, ReceivedAreDone, StdinCloses, Step, writing
<1>7. Requested'
  BY DEF IInv, TypeOK, ReceivedAreDone, Requested, StdinCloses, Step, writing
<1> QED BY <1>1, <1>2, <1>3, <1>4, <1>5, <1>6, <1>7 DEF IInv

LEMMA DeadlinePassesKeeps ==
    ASSUME IInv, NEW h \in Helper, DeadlinePasses(h) PROVE IInv'
<1>1. TypeOK'
  BY DEF IInv, TypeOK, DeadlinePasses, Step, writing, Steps, File
<1>2. WrittenSoFar'
  BY DEF IInv, TypeOK, WrittenSoFar, Before, DeadlinePasses, Step, writing
<1>3. Owned'
  BY NoneAssumption DEF IInv, TypeOK, WrittenSoFar, Owned, Known, Before, File,
     DeadlinePasses, Step, writing
<1>4. Present'
  BY DEF IInv, TypeOK, WrittenSoFar, Owned, Present, Known, Before, Storing, Answering,
     File, DeadlinePasses, Step, writing
<1>5. Known'
  BY DEF IInv, TypeOK, Known, Storing, Answering, DeadlinePasses, Step, writing
<1>6. ReceivedAreDone'
  BY DEF IInv, TypeOK, ReceivedAreDone, DeadlinePasses, Step, writing
<1>7. Requested'
  BY DEF IInv, TypeOK, ReceivedAreDone, Requested, DeadlinePasses, Step, writing
<1> QED BY <1>1, <1>2, <1>3, <1>4, <1>5, <1>6, <1>7 DEF IInv

LEMMA DiscoverKeeps ==
    ASSUME IInv, NEW h \in Helper, Discover(h) PROVE IInv'
<1>1. TypeOK'
  BY DEF IInv, TypeOK, Discover, Step, writing, Steps, File
<1>2. WrittenSoFar'
  BY DEF IInv, TypeOK, WrittenSoFar, Before, Discover, Step, writing
<1>3. Owned'
  BY NoneAssumption DEF IInv, TypeOK, WrittenSoFar, Owned, Known, Before, File,
     Discover, Step, writing
<1>4. Present'
  BY DEF IInv, TypeOK, WrittenSoFar, Owned, Present, Known, Before, Storing, Answering,
     File, Discover, Step, writing
<1>5. Known'
  BY DEF IInv, TypeOK, Known, Storing, Answering, Discover, Step, writing
<1>6. ReceivedAreDone'
  BY DEF IInv, TypeOK, ReceivedAreDone, Discover, Step, writing
<1>7. Requested'
  BY DEF IInv, TypeOK, ReceivedAreDone, Requested, Discover, Step, writing
<1> QED BY <1>1, <1>2, <1>3, <1>4, <1>5, <1>6, <1>7 DEF IInv

LEMMA ObtainKeeps ==
    ASSUME IInv, NEW h \in Helper, Obtain(h) PROVE IInv'
<1>1. TypeOK'
  <2>1. request[h].op = "fetch" => Obtainable(h) \subseteq Bytes
    BY SiteAssumption DEF Obtainable
  <2>2. ASSUME request[h].op = "export", Readable(h) PROVE Exported(SourceBytes(h), request[h].format) \in Bytes
    <3>1. request[h].source \in Name /\ request[h].format \in {"original", "png", "jpg"}
      BY <2>2 DEF IInv, TypeOK, Requests
    <3>2. files[request[h].source].owner \in Helper
      BY <2>2, <3>1 DEF IInv, TypeOK, Readable, SourceIsThere, File
    <3> QED BY <3>1, <3>2, ConvertedBytes DEF IInv, TypeOK, SourceBytes
  <2>3. request[h].op \in {"fetch", "export"}
    <3>1. request[h].op \in {"none", "discover", "fetch", "export"}
      BY DEF IInv, TypeOK, Requests
    <3> QED BY <3>1 DEF Obtain, Step, IInv, Known
  <2>4. Obtainable(h) \subseteq Bytes
    BY <2>1, <2>2, <2>3 DEF Obtainable
  <2> QED BY <2>4 DEF IInv, TypeOK, Obtain, Step, Steps, writing
<1>2. WrittenSoFar'
  BY DEF IInv, TypeOK, WrittenSoFar, Before, Obtain, Step, Obtainable, Readable,
     SourceBytes, writing
<1>3. Owned'
  BY NoneAssumption DEF IInv, TypeOK, WrittenSoFar, Owned, Known, Before, File, Obtain,
     Step, Obtainable, Readable, SourceBytes, writing
<1>4. Present'
  BY DEF IInv, TypeOK, WrittenSoFar, Owned, Present, Known, Before, Storing, Answering,
     File, Obtain, Step, Obtainable, Readable, SourceBytes, writing
<1>5. Known'
  <2>1. ASSUME NEW b \in Obtainable(h) PROVE IsRaster(b) \/ Inspects(b)
    <3>1. request[h].op # "none"
      BY DEF Obtain, Step, IInv, Known
    <3>2. CASE request[h].op = "fetch"
      BY <3>2 DEF Obtainable
    <3>3. CASE request[h].op # "fetch"
      <4>1. Readable(h) /\ b = Exported(SourceBytes(h), request[h].format)
        BY <2>1, <3>3 DEF Obtainable
      <4> QED BY <4>1 DEF Readable, Exports, Exported, Converted, IsRaster, Passthrough
    <3> QED BY <3>2, <3>3
  <2> QED BY <2>1 DEF IInv, TypeOK, Known, Storing, Answering, Obtain, Step, writing
<1>6. ReceivedAreDone'
  BY DEF IInv, TypeOK, ReceivedAreDone, Obtain, Step, Obtainable, Readable, SourceBytes,
     writing
<1>7. Requested'
  BY DEF IInv, TypeOK, ReceivedAreDone, Requested, Obtain, Step, Obtainable, Readable,
     SourceBytes, writing
<1> QED BY <1>1, <1>2, <1>3, <1>4, <1>5, <1>6, <1>7 DEF IInv

LEMMA ObtainFailsKeeps ==
    ASSUME IInv, NEW h \in Helper, ObtainFails(h) PROVE IInv'
<1>1. TypeOK'
  BY DEF IInv, TypeOK, ObtainFails, Step, writing, Steps, File
<1>2. WrittenSoFar'
  BY DEF IInv, TypeOK, WrittenSoFar, Before, ObtainFails, Step, writing
<1>3. Owned'
  BY NoneAssumption DEF IInv, TypeOK, WrittenSoFar, Owned, Known, Before, File,
     ObtainFails, Step, writing
<1>4. Present'
  BY DEF IInv, TypeOK, WrittenSoFar, Owned, Present, Known, Before, Storing, Answering,
     File, ObtainFails, Step, writing
<1>5. Known'
  BY DEF IInv, TypeOK, Known, Storing, Answering, ObtainFails, Step, writing
<1>6. ReceivedAreDone'
  BY DEF IInv, TypeOK, ReceivedAreDone, ObtainFails, Step, writing
<1>7. Requested'
  BY DEF IInv, TypeOK, ReceivedAreDone, Requested, ObtainFails, Step, writing
<1> QED BY <1>1, <1>2, <1>3, <1>4, <1>5, <1>6, <1>7 DEF IInv

LEMMA HangKeeps ==
    ASSUME IInv, NEW h \in Helper, Hang(h) PROVE IInv'
<1>1. TypeOK'
  BY DEF IInv, TypeOK, Hang, Step, writing, Steps, File
<1>2. WrittenSoFar'
  BY DEF IInv, TypeOK, WrittenSoFar, Before, Hang, Step, writing
<1>3. Owned'
  BY NoneAssumption DEF IInv, TypeOK, WrittenSoFar, Owned, Known, Before, File, Hang,
     Step, writing
<1>4. Present'
  BY DEF IInv, TypeOK, WrittenSoFar, Owned, Present, Known, Before, Storing, Answering,
     File, Hang, Step, writing
<1>5. Known'
  BY DEF IInv, TypeOK, Known, Storing, Answering, Hang, Step, writing
<1>6. ReceivedAreDone'
  BY DEF IInv, TypeOK, ReceivedAreDone, Hang, Step, writing
<1>7. Requested'
  BY DEF IInv, TypeOK, ReceivedAreDone, Requested, Hang, Step, writing
<1> QED BY <1>1, <1>2, <1>3, <1>4, <1>5, <1>6, <1>7 DEF IInv

LEMMA CreateArtifactKeeps ==
    ASSUME IInv, NEW h \in Helper, NEW n \in Name, CreateArtifact(h, n) PROVE IInv'
<1>1. TypeOK'
  BY NoneAssumption DEF IInv, TypeOK, CreateArtifact, Step, Create, writing, Steps, File
<1>2. WrittenSoFar'
  BY NoneAssumption DEF IInv, TypeOK, WrittenSoFar, Before, CreateArtifact, Step, writing
<1>3. Owned'
  BY NoneAssumption DEF IInv, TypeOK, WrittenSoFar, Owned, Known, Before, File,
     CreateArtifact, Step, Create, writing
<1>4. Present'
  <2> SUFFICES ASSUME app, NEW j \in Helper, pc'[j] \notin {"failed", "killed"}
               PROVE  /\ path'[j] # None =>
                           files'[path'[j]] = [owner |-> j, whole |-> (pc'[j] # "writing")]
                      /\ preview'[j] # None =>
                           files'[preview'[j]] = [owner |-> j, whole |-> (pc'[j] # "writingPreview")]
    BY DEF CreateArtifact, Create, IInv, Present
  <2>1. CASE j = h
    <3>1. files'[n] = [owner |-> h, whole |-> FALSE] /\ path'[h] = n /\ pc'[h] = "writing"
      BY DEF CreateArtifact, Create, Step, IInv, TypeOK
    <3>2. preview'[h] = None
      BY DEF CreateArtifact, Step, IInv, WrittenSoFar, Before
    <3> QED BY <2>1, <3>1, <3>2
  <2>2. CASE j # h
    <3>1. pc'[j] = pc[j] /\ path'[j] = path[j] /\ preview'[j] = preview[j]
      BY <2>2 DEF CreateArtifact, Step, IInv, TypeOK
    <3>2. ASSUME NEW m \in {path[j], preview[j]} \ {None} PROVE files'[m] = files[m]
      <4>1. m \in Name /\ files[m] # None
        BY <3>1, PresentFile DEF CreateArtifact
      <4> QED BY <4>1 DEF CreateArtifact, Create, IInv, TypeOK
    <3>3. /\ path[j] # None => files'[path[j]] = files[path[j]]
          /\ preview[j] # None => files'[preview[j]] = files[preview[j]]
      BY <3>2
    <3> QED BY <3>1, <3>2, <3>3 DEF CreateArtifact, IInv, Present
  <2> QED BY <2>1, <2>2
<1>5. Known'
  BY NoneAssumption DEF IInv, TypeOK, Known, Storing, Answering, CreateArtifact, Step,
     writing
<1>6. ReceivedAreDone'
  BY DEF IInv, TypeOK, ReceivedAreDone, CreateArtifact, Step, writing
<1>7. Requested'
  BY DEF IInv, TypeOK, ReceivedAreDone, Requested, CreateArtifact, Step, writing
<1> QED BY <1>1, <1>2, <1>3, <1>4, <1>5, <1>6, <1>7 DEF IInv

LEMMA CreatePreviewKeeps ==
    ASSUME IInv, NEW h \in Helper, NEW n \in Name, CreatePreview(h, n) PROVE IInv'
<1>1. TypeOK'
  BY NoneAssumption DEF IInv, TypeOK, CreatePreview, Step, Create, writing, Steps, File
<1>2. WrittenSoFar'
  BY NoneAssumption DEF IInv, TypeOK, WrittenSoFar, Before, CreatePreview, Step, writing
<1>3. Owned'
  BY NoneAssumption DEF IInv, TypeOK, WrittenSoFar, Owned, Known, Before, File,
     CreatePreview, Step, Create, writing
<1>4. Present'
  <2> SUFFICES ASSUME app, NEW j \in Helper, pc'[j] \notin {"failed", "killed"}
               PROVE  /\ path'[j] # None =>
                           files'[path'[j]] = [owner |-> j, whole |-> (pc'[j] # "writing")]
                      /\ preview'[j] # None =>
                           files'[preview'[j]] = [owner |-> j, whole |-> (pc'[j] # "writingPreview")]
    BY DEF CreatePreview, Create, IInv, Present
  <2>1. CASE j = h
    <3>1. files'[n] = [owner |-> h, whole |-> FALSE] /\ preview'[h] = n /\ pc'[h] = "writingPreview"
      BY DEF CreatePreview, Create, Step, IInv, TypeOK
    <3>2. path'[h] # None => files'[path'[h]] = [owner |-> h, whole |-> TRUE]
      <4>1. path'[h] = path[h] /\ pc[h] = "thumbnail"
        BY DEF CreatePreview, Step
      <4>2. path[h] # None => path[h] \in Name /\ files[path[h]] # None
                              /\ files[path[h]] = [owner |-> h, whole |-> TRUE]
        BY <4>1, PresentFile DEF CreatePreview, IInv, Present
      <4> QED BY <4>1, <4>2 DEF CreatePreview, Create, IInv, TypeOK
    <3> QED BY <2>1, <3>1, <3>2
  <2>2. CASE j # h
    <3>1. pc'[j] = pc[j] /\ path'[j] = path[j] /\ preview'[j] = preview[j]
      BY <2>2 DEF CreatePreview, Step, IInv, TypeOK
    <3>2. ASSUME NEW m \in {path[j], preview[j]} \ {None} PROVE files'[m] = files[m]
      <4>1. m \in Name /\ files[m] # None
        BY <3>1, PresentFile DEF CreatePreview
      <4> QED BY <4>1 DEF CreatePreview, Create, IInv, TypeOK
    <3>3. /\ path[j] # None => files'[path[j]] = files[path[j]]
          /\ preview[j] # None => files'[preview[j]] = files[preview[j]]
      BY <3>2
    <3> QED BY <3>1, <3>2, <3>3 DEF CreatePreview, IInv, Present
  <2> QED BY <2>1, <2>2
<1>5. Known'
  BY NoneAssumption DEF IInv, TypeOK, Known, Storing, Answering, CreatePreview, Step,
     writing
<1>6. ReceivedAreDone'
  BY DEF IInv, TypeOK, ReceivedAreDone, CreatePreview, Step, writing
<1>7. Requested'
  BY DEF IInv, TypeOK, ReceivedAreDone, Requested, CreatePreview, Step, writing
<1> QED BY <1>1, <1>2, <1>3, <1>4, <1>5, <1>6, <1>7 DEF IInv

LEMMA CreateFailsKeeps ==
    ASSUME IInv, NEW h \in Helper, CreateFails(h) PROVE IInv'
<1>1. TypeOK'
  BY DEF IInv, TypeOK, CreateFails, Step, writing, Steps, File
<1>2. WrittenSoFar'
  BY DEF IInv, TypeOK, WrittenSoFar, Before, CreateFails, Step, writing
<1>3. Owned'
  BY NoneAssumption DEF IInv, TypeOK, WrittenSoFar, Owned, Known, Before, File,
     CreateFails, Step, writing
<1>4. Present'
  BY DEF IInv, TypeOK, WrittenSoFar, Owned, Present, Known, Before, Storing, Answering,
     File, CreateFails, Step, writing
<1>5. Known'
  BY DEF IInv, TypeOK, Known, Storing, Answering, CreateFails, Step, writing
<1>6. ReceivedAreDone'
  BY DEF IInv, TypeOK, ReceivedAreDone, CreateFails, Step, writing
<1>7. Requested'
  BY DEF IInv, TypeOK, ReceivedAreDone, Requested, CreateFails, Step, writing
<1> QED BY <1>1, <1>2, <1>3, <1>4, <1>5, <1>6, <1>7 DEF IInv

LEMMA WriteKeeps ==
    ASSUME IInv, NEW h \in Helper, Write(h) PROVE IInv'
<1>1. TypeOK'
  BY NoneAssumption DEF IInv, TypeOK, Write, Step, Open, writing, Steps, File
<1>2. WrittenSoFar'
  BY NoneAssumption DEF IInv, TypeOK, WrittenSoFar, Before, Write, Step, writing
<1>3. Owned'
  BY NoneAssumption DEF IInv, TypeOK, WrittenSoFar, Owned, Known, Before, File, Write,
     Step, Open, writing
<1>4. Present'
  <2> SUFFICES ASSUME app, NEW j \in Helper, pc'[j] \notin {"failed", "killed"}
               PROVE  /\ path[j] # None =>
                           files'[path[j]] = [owner |-> j, whole |-> (pc'[j] # "writing")]
                      /\ preview[j] # None =>
                           files'[preview[j]] = [owner |-> j, whole |-> (pc'[j] # "writingPreview")]
    BY DEF Write, IInv, Present, writing
  <2>1. CASE j = h
    <3>1. pc'[h] \notin {"writing", "writingPreview"} /\ pc[h] \notin {"failed", "killed"}
      BY DEF Write, Step, IInv, TypeOK
    <3>2. ASSUME NEW n \in {path[h], preview[h]} \ {None}
          PROVE  files'[n] = [owner |-> h, whole |-> TRUE]
      <4>1. n \in Name /\ files[n] \in {[owner |-> h, whole |-> TRUE], [owner |-> h, whole |-> FALSE]}
        BY <3>1, <3>2, PresentFile DEF Write
      <4> QED BY <3>2, <4>1 DEF Write, Open
    <3> QED BY <2>1, <3>1, <3>2
  <2>2. CASE j # h
    <3>1. pc'[j] = pc[j]
      BY <2>2 DEF Write, Step, IInv, TypeOK
    <3>2. ASSUME NEW n \in {path[j], preview[j]} \ {None} PROVE files'[n] = files[n]
      <4>1. n \in Name /\ files[n].owner = j
        BY <3>1, <3>2, PresentFile DEF Write
      <4> QED BY <2>2, <4>1 DEF Write, Open
    <3>3. path[j] # None => files'[path[j]] = files[path[j]]
      BY <3>2
    <3>4. preview[j] # None => files'[preview[j]] = files[preview[j]]
      BY <3>2
    <3> QED BY <3>1, <3>3, <3>4 DEF IInv, Present, Write
  <2> QED BY <2>1, <2>2
<1>5. Known'
  <2>1. pc[h] = "writingPreview" => Stored(data[h])
    BY DEF IInv, Known, Stored, Thumbnails, Inspects
  <2> QED BY <2>1 DEF IInv, TypeOK, Known, Storing, Answering, Write, Step, writing
<1>6. ReceivedAreDone'
  BY DEF IInv, TypeOK, ReceivedAreDone, Write, Step, writing
<1>7. Requested'
  BY DEF IInv, TypeOK, ReceivedAreDone, Requested, Write, Step, writing
<1> QED BY <1>1, <1>2, <1>3, <1>4, <1>5, <1>6, <1>7 DEF IInv

LEMMA WriteFailsKeeps ==
    ASSUME IInv, NEW h \in Helper, WriteFails(h) PROVE IInv'
<1>1. TypeOK'
  BY NoneAssumption DEF IInv, TypeOK, WriteFails, Step, Open, writing, Steps, File
<1>2. WrittenSoFar'
  BY NoneAssumption DEF IInv, TypeOK, WrittenSoFar, Before, WriteFails, Step, writing
<1>3. Owned'
  BY NoneAssumption DEF IInv, TypeOK, WrittenSoFar, Owned, Known, Before, File,
     WriteFails, Step, Open, writing
<1>4. Present'
  BY NoneAssumption DEF IInv, TypeOK, WrittenSoFar, Owned, Present, Known, Before,
     Storing, Answering, File, WriteFails, Step, Open, writing
<1>5. Known'
  BY NoneAssumption DEF IInv, TypeOK, Known, Storing, Answering, WriteFails, Step, writing
<1>6. ReceivedAreDone'
  BY DEF IInv, TypeOK, ReceivedAreDone, WriteFails, Step, writing
<1>7. Requested'
  BY DEF IInv, TypeOK, ReceivedAreDone, Requested, WriteFails, Step, writing
<1> QED BY <1>1, <1>2, <1>3, <1>4, <1>5, <1>6, <1>7 DEF IInv

LEMMA NoPreviewKeeps ==
    ASSUME IInv, NEW h \in Helper, NoPreview(h) PROVE IInv'
<1>1. TypeOK'
  BY NoneAssumption DEF IInv, TypeOK, NoPreview, Step, writing, Steps, File
<1>2. WrittenSoFar'
  BY NoneAssumption DEF IInv, TypeOK, WrittenSoFar, Before, NoPreview, Step, writing
<1>3. Owned'
  BY NoneAssumption DEF IInv, TypeOK, WrittenSoFar, Owned, Known, Before, File,
     NoPreview, Step, writing
<1>4. Present'
  BY NoneAssumption DEF IInv, TypeOK, WrittenSoFar, Owned, Present, Known, Before,
     Storing, Answering, File, NoPreview, Step, writing
<1>5. Known'
  <2>1. request[h].op # "discover" => Stored(data[h])
    BY DEF IInv, Known, Stored, NoPreview, Step, Storing
  <2> QED BY <2>1 DEF IInv, TypeOK, Known, Storing, Answering, NoPreview, Step, writing
<1>6. ReceivedAreDone'
  BY DEF IInv, TypeOK, ReceivedAreDone, NoPreview, Step, writing
<1>7. Requested'
  BY DEF IInv, TypeOK, ReceivedAreDone, Requested, NoPreview, Step, writing
<1> QED BY <1>1, <1>2, <1>3, <1>4, <1>5, <1>6, <1>7 DEF IInv

LEMMA AnswerKeeps ==
    ASSUME IInv, NEW h \in Helper, Answer(h) PROVE IInv'
<1>1. TypeOK'
  BY DEF IInv, TypeOK, Answer, Step, writing, Steps, File
<1>2. WrittenSoFar'
  BY DEF IInv, TypeOK, WrittenSoFar, Before, Answer, Step, writing
<1>3. Owned'
  BY NoneAssumption DEF IInv, TypeOK, WrittenSoFar, Owned, Known, Before, File, Answer,
     Step, writing
<1>4. Present'
  BY DEF IInv, TypeOK, WrittenSoFar, Owned, Present, Known, Before, Storing, Answering,
     File, Answer, Step, writing
<1>5. Known'
  BY DEF IInv, TypeOK, Known, Storing, Answering, Answer, Step, writing
<1>6. ReceivedAreDone'
  BY DEF IInv, TypeOK, ReceivedAreDone, Answer, Step, writing
<1>7. Requested'
  BY DEF IInv, TypeOK, ReceivedAreDone, Requested, Answer, Step, writing
<1> QED BY <1>1, <1>2, <1>3, <1>4, <1>5, <1>6, <1>7 DEF IInv

LEMMA KilledKeeps ==
    ASSUME IInv, NEW h \in Helper, Killed(h) PROVE IInv'
<1>1. TypeOK'
  BY DEF IInv, TypeOK, Killed, Step, Running, Steps, writing, Steps, File
<1>2. WrittenSoFar'
  BY DEF IInv, TypeOK, WrittenSoFar, Before, Killed, Step, Running, Steps, writing
<1>3. Owned'
  BY NoneAssumption DEF IInv, TypeOK, WrittenSoFar, Owned, Known, Before, File, Killed,
     Step, Running, Steps, writing
<1>4. Present'
  BY DEF IInv, TypeOK, WrittenSoFar, Owned, Present, Known, Before, Storing, Answering,
     File, Killed, Step, Running, Steps, writing
<1>5. Known'
  BY DEF IInv, TypeOK, Known, Storing, Answering, Killed, Step, Running, Steps, writing
<1>6. ReceivedAreDone'
  BY DEF IInv, TypeOK, ReceivedAreDone, Killed, Step, Running, Steps, writing
<1>7. Requested'
  BY DEF IInv, TypeOK, ReceivedAreDone, Requested, Killed, Step, Running, Steps, writing
<1> QED BY <1>1, <1>2, <1>3, <1>4, <1>5, <1>6, <1>7 DEF IInv

LEMMA InitKeeps == Init => IInv
<1> SUFFICES ASSUME Init PROVE IInv
  OBVIOUS
<1>1. [op |-> "none"] \in Requests /\ Garbage \in Bytes
  BY DEF Requests, Garbage, Bytes
<1>2. TypeOK
  BY <1>1 DEF Init, TypeOK
<1> QED BY <1>2 DEF Init, IInv, WrittenSoFar, Owned, Present, Known, ReceivedAreDone, Requested,
   Before, Storing, Answering

LEMMA NextKeeps == IInv /\ [Next]_vars => IInv'
<1> SUFFICES ASSUME IInv, [Next]_vars PROVE IInv'
  OBVIOUS
<1>1. CASE UNCHANGED vars
  BY <1>1 DEF vars, writing, IInv, TypeOK, WrittenSoFar, Owned, Present, Known,
     ReceivedAreDone,
     Requested
<1>2. CASE AppDies \/ Prune
  BY <1>2, AppDiesKeeps, PruneKeeps
<1>3. ASSUME NEW h \in Helper,
             \/ Call(h) \/ Terminate(h) \/ StdinCloses(h) \/ DeadlinePasses(h) \/ Killed(h)
             \/ ReadRequest(h) \/ Hang(h)
      PROVE  IInv'
  BY <1>3, CallKeeps, TerminateKeeps, StdinClosesKeeps, DeadlinePassesKeeps, KilledKeeps,
     ReadRequestKeeps, HangKeeps
<1>4. ASSUME NEW h \in Helper, Obtains(h) PROVE IInv'
  BY <1>4, DiscoverKeeps, ObtainKeeps, ObtainFailsKeeps DEF Obtains
<1>5. ASSUME NEW h \in Helper, Stores(h) PROVE IInv'
  BY <1>5, CreateArtifactKeeps, CreatePreviewKeeps, CreateFailsKeeps, WriteKeeps,
     WriteFailsKeeps,
     NoPreviewKeeps, AnswerKeeps DEF Stores, Drawn
<1> QED BY <1>1, <1>2, <1>3, <1>4, <1>5 DEF Next

LEMMA Invariance == Spec => []IInv
BY InitKeeps, NextKeeps, PTL DEF Spec

----------------------------------------------------------------------------
\* The state stays well typed for any helpers, names and sites.
THEOREM ServiceTypeCorrect == Spec => []TypeOK
<1>1. IInv => TypeOK
  BY DEF IInv
<1> QED BY <1>1, Invariance, PTL

\* Whatever else happens in the shared directory, what a living app was told
\* of stays there, whole.
THEOREM ArtifactsStay == Spec => []ReceivedArtifactsStay
<1>1. IInv => ReceivedArtifactsStay
  BY DEF IInv, TypeOK, Present, Known, ReceivedAreDone, ReceivedArtifactsStay, Answering
<1> QED BY <1>1, Invariance, PTL

\* Every file is one the app was told of, or of a helper at work, killed or not
\* heard, or the artifact of a failed preview; no failure leaves a partial one.
THEOREM LeftoversAccounted == Spec => []LeftoversAreAccountedFor
<1>1. IInv => LeftoversAreAccountedFor
  <2> SUFFICES ASSUME IInv, NEW n \in Name, files[n] # None, NEW h, h = files[n].owner
               PROVE  /\ n \in {path[h], preview[h]}
                      /\ \/ h \in received \/ Running(h) \/ pc[h] = "killed"
                         \/ pc[h] = "done" /\ h \notin received /\ files[n].whole
                         \/ /\ pc[h] = "failed" /\ files[n].whole
                            /\ n = path[h] /\ IsRaster(data[h])
                      /\ ~files[n].whole => pc[h] \in {"writing", "writingPreview", "killed"}
    BY DEF LeftoversAreAccountedFor
  <2>1. h \in Helper /\ files[n].whole \in BOOLEAN
    BY DEF IInv, TypeOK, File
  <2>2. /\ n \in {path[h], preview[h]}
        /\ ~files[n].whole => pc[h] \in {"writing", "writingPreview", "killed"}
        /\ pc[h] = "failed" => n = path[h] /\ IsRaster(data[h])
    BY DEF IInv, Owned
  <2>3. pc[h] # "off"
    BY <2>1, <2>2, NoneAssumption DEF IInv, WrittenSoFar, Before
  <2>4. pc[h] \in Steps \cup {"done", "failed", "killed"}
    BY <2>1, <2>3 DEF IInv, TypeOK
  <2> QED BY <2>1, <2>2, <2>4 DEF Running
<1> QED BY <1>1, Invariance, PTL

\* An export of what was offered finds its source and, unless that is a picture
\* without pixels wanted in another format, can be done.
THEOREM OffersAreKept == Spec => []OfferedIsExported
<1>1. IInv => OfferedIsExported
  <2> SUFFICES ASSUME IInv, NEW h \in Helper, app, pc[h] = "working", request[h].op = "export"
               PROVE  /\ SourceIsThere(h)
                      /\ (SourceBytes(h).blank => request[h].format = "original") =>
                            /\ Exports(SourceBytes(h), request[h].format)
                            /\ Stored(Exported(SourceBytes(h), request[h].format))
    BY DEF OfferedIsExported
  <2>1. PICK g \in received : /\ request[g].op = "fetch" /\ request[h].source = path[g]
                             /\ request[h].format \in AllowedFormats(data[g])
    BY DEF IInv, Requested
  <2>2. g \in Helper /\ pc[g] = "done" /\ path[g] # None /\ Stored(data[g]) /\ data[g] \in Bytes
    BY <2>1 DEF IInv, TypeOK, ReceivedAreDone, Known, Answering
  <2>3. dir /\ files[path[g]] = [owner |-> g, whole |-> TRUE]
    BY <2>2 DEF IInv, Present
  <2>4. SourceBytes(h) = data[g]
    BY <2>1, <2>3 DEF SourceBytes
  <2>5. files[request[h].source] # None /\ files[request[h].source].whole
    <3>1. files[path[g]] # None
      BY <2>2, PresentFile
    <3> QED BY <2>1, <2>3, <3>1
  <2> QED BY <2>1, <2>2, <2>3, <2>4, <2>5, OfferedFormatsExport DEF SourceIsThere
<1> QED BY <1>1, Invariance, PTL
============================================================================
