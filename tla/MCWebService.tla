---------------------------- MODULE MCWebService ----------------------------
(* Three icon URLs: a bitmap by its suffix, a vector image by its content  *)
(* type, and one of which nothing is known and for which nothing is offered. *)
EXTENDS WebService

CONSTANTS bitmap, vector, unknown

URLs == {bitmap, vector, unknown}
Claims3 == (bitmap :> [suffix |-> "png", type |-> "image"])
           @@ (vector :> [suffix |-> "none", type |-> "svg"])
           @@ (unknown :> [suffix |-> "none", type |-> "none"])
============================================================================
