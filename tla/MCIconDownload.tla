--------------------------- MODULE MCIconDownload ---------------------------
(* Two invocations for the same page; its two candidates share one name,   *)
(* the worst case (names cut at 180 bytes lose the part that tells them    *)
(* apart), and there are fewer variants of it than files to be saved.      *)
EXTENDS IconDownload

Candidates == <<"best", "second">>
SharedName == [c \in ToSet(Candidates) |-> "name"]
============================================================================
