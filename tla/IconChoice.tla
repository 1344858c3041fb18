----------------------------- MODULE IconChoice -----------------------------
(***************************************************************************)
(* What a preview promises to whoever asked for a page's icons, with no    *)
(* word on links, manifests, probes or caps along the way: one answer, an  *)
(* error or a list, and once the request's time is over an error.  The     *)
(* list offers each URL once, is no longer than the limit, always has the  *)
(* page's /favicon.ico, is headed by the recommended icon, and has the     *)
(* icons the page declares before guesses.                                 *)
(***************************************************************************)
EXTENDS Naturals, Sequences

CONSTANTS Limit, Fallback, NoAnswer

VARIABLES
    answer,  \* [ok, best, icons]; an icon is its URL and whether it is a guess
    late     \* the request's time is over

Promised(a) ==
    IF ~a.ok THEN a.icons = <<>>
    ELSE /\ Len(a.icons) \in 1 .. Limit
         /\ a.best = a.icons[1].url
         /\ \E i \in DOMAIN a.icons : a.icons[i].url = Fallback
         /\ \A i, j \in DOMAIN a.icons : i < j =>
                /\ a.icons[i].url # a.icons[j].url
                /\ a.icons[i].guess => a.icons[j].guess

Init == answer = NoAnswer /\ ~late

Expire == ~late /\ late' /\ UNCHANGED answer

Answer ==
    /\ answer = NoAnswer /\ answer' # NoAnswer
    /\ Promised(answer')
    /\ late => ~answer'.ok
    /\ UNCHANGED late

Next == Expire \/ Answer

Spec == Init /\ [][Next]_<<answer, late>> /\ <>(answer # NoAnswer)
=============================================================================
