------------------------------- MODULE Panel -------------------------------
(***************************************************************************)
(* What a user may rely on of the app's panel, without its tasks, tokens   *)
(* and cancellation: it does at most one thing at a time, on the page and  *)
(* the icon that are on show, and ends it.  The icons on show are replaced *)
(* by those of a newer page only, and what was saved is the selected icon. *)
(***************************************************************************)
EXTENDS Naturals

CONSTANTS
    Page,   \* the discoveries, in order
    Index,  \* positions of icons on a page
    None

VARIABLES
    doing,     \* "nothing", "reading", "loading", "fetching" or "exporting"
    page,      \* the page on show, 0 before any
    shown,     \* its icons that are there
    selected, saved

vars == <<doing, page, shown, selected, saved>>

OfPage == {page} \X Index

Init ==
    /\ doing = "nothing" /\ page = 0 /\ shown = {}
    /\ selected = None /\ saved = None

\* A discovery may begin at any time and ends whatever else was going on.
Discover ==
    /\ doing' = "reading"
    /\ saved' = None
    /\ UNCHANGED <<page, shown, selected>>

\* Something fails, brings nothing, or is cancelled: all stays as it was.
Stop ==
    /\ doing # "nothing"
    /\ doing' = "nothing"
    /\ UNCHANGED <<page, shown, selected, saved>>

\* The page was read, and has icons to load or none.
Read ==
    /\ doing = "reading"
    /\ \E p \in Page : page < p /\ page' = p
    /\ shown' = {} /\ selected' = None
    /\ doing' \in {"loading", "nothing"}
    /\ UNCHANGED saved

\* The first icons of the page arrive together, and one becomes selected.
Load ==
    /\ doing = "loading"
    /\ shown = {}
    /\ shown' \in SUBSET OfPage
    /\ selected' \in shown'
    /\ doing' = "nothing"
    /\ UNCHANGED <<page, saved>>

\* A click selects an icon of the page, which is fetched if it is not there.
Click(i) ==
    /\ doing = "nothing"
    /\ selected' = <<page, i>>
    /\ doing' = IF <<page, i>> \in shown THEN "nothing" ELSE "fetching"
    /\ saved' = None
    /\ UNCHANGED <<page, shown>>

Fetch ==
    /\ doing = "fetching"
    /\ shown' = shown \union {selected}
    /\ doing' = "nothing"
    /\ UNCHANGED <<page, selected, saved>>

Export ==
    /\ doing = "nothing"
    /\ selected \in shown
    /\ doing' = "exporting"
    /\ UNCHANGED <<page, shown, selected, saved>>

Save ==
    /\ doing = "exporting"
    /\ saved' = selected
    /\ doing' = "nothing"
    /\ UNCHANGED <<page, shown, selected>>

Next ==
    \/ Discover \/ Stop \/ Read \/ Load \/ Fetch \/ Export \/ Save
    \/ \E i \in Index : Click(i)

\* Whatever it does ends, in one way or another: the panel is idle again and
\* again.
Fairness == WF_vars(Stop)

Spec == Init /\ [][Next]_vars /\ Fairness
============================================================================
