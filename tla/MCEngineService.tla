-------------------------- MODULE MCEngineService --------------------------
(***************************************************************************)
(* Sites that answer with one icon of each kind the engine treats          *)
(* differently, with a GIF without pixels of either length, and with an    *)
(* icon that is refused.                                                   *)
(***************************************************************************)
EXTENDS EngineService

Icon(magic) == [magic |-> magic, sound |-> TRUE, small |-> TRUE, blank |-> FALSE, long |-> FALSE]
Empty(long) == [Icon("gif") EXCEPT !.blank = TRUE, !.long = long]

Icons == {Icon("webp"), Icon("ico"), Empty(FALSE), Empty(TRUE),
          [Icon("png") EXCEPT !.small = FALSE]}
============================================================================
