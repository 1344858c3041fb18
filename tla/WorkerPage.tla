----------------------------- MODULE WorkerPage -----------------------------
(***************************************************************************)
(* The page the Cloudflare Worker serves (worker/public/app.ts).  Unlike   *)
(* the Go page it converts in the browser: a download fetches the icon's   *)
(* bytes, may draw them on a canvas, and saves the result, awaiting each   *)
(* step while the user goes on using the page.                             *)
(***************************************************************************)
EXTENDS FiniteSets, SequencesExt

CONSTANTS
    Svg, Ico, Raster,  \* icon URLs by what their type or suffix says they are
    None

URL == Svg \union Ico \union Raster

VARIABLES
    icons,          \* previewState.icons
    selectedIcon, format, shown,
    iconCache,      \* URLs whose bytes were fetched
    previewDisabled, downloadDisabled,
    download,       \* the listener of the download button, where it awaits
    saved           \* the file saved last

vars == <<icons, selectedIcon, format, shown, iconCache, previewDisabled,
          downloadDisabled, download, saved>>

AllowedTypes(u) ==
    IF u \in Svg THEN {"svg"} ELSE {"png", "jpg", "webp", "ico"}

\* What the list of them starts with: a bitmap's own format, or PNG.
FirstTypes(u) ==
    IF u \in Svg THEN {"svg"} ELSE IF u \in Ico THEN {"ico"} ELSE {"png", "jpg", "webp"}

Init ==
    /\ icons = <<>> /\ selectedIcon = None /\ format = None /\ shown = FALSE
    /\ iconCache = {}
    /\ previewDisabled = FALSE /\ downloadDisabled = FALSE
    /\ download = None /\ saved = None

----------------------------------------------------------------------------
\* The form.

Submit ==
    /\ ~previewDisabled
    /\ previewDisabled' = TRUE
    /\ shown' = FALSE
    /\ UNCHANGED <<icons, selectedIcon, format, iconCache, downloadDisabled, download, saved>>

\* The choices are listed anew, so the first is selected.
RenderPreview(u) ==
    /\ selectedIcon' = u
    /\ format' \in FirstTypes(u)

\* The service recommends the first icon of its answer.
PreviewArrives(answer) ==
    /\ previewDisabled
    /\ previewDisabled' = FALSE
    /\ icons' = answer
    /\ RenderPreview(answer[1])
    /\ shown' = TRUE
    /\ UNCHANGED <<iconCache, downloadDisabled, download, saved>>

\* An error, or an answer without icons.
PreviewFails ==
    /\ previewDisabled
    /\ previewDisabled' = FALSE
    /\ UNCHANGED <<icons, selectedIcon, format, shown, iconCache, downloadDisabled, download, saved>>

Choose(u) ==
    /\ shown /\ u \in ToSet(icons)
    /\ RenderPreview(u)
    /\ UNCHANGED <<icons, shown, iconCache, previewDisabled, downloadDisabled, download, saved>>

PickFormat(f) ==
    /\ shown /\ f \in AllowedTypes(selectedIcon)
    /\ format' = f
    /\ UNCHANGED <<icons, selectedIcon, shown, iconCache, previewDisabled, downloadDisabled,
                   download, saved>>

----------------------------------------------------------------------------
\* The download button.

\* A canvas has no SVG encoder: toBlob falls back to PNG.
Encoding(fmt) == IF fmt = "svg" THEN "png" ELSE fmt

\* The file is named after what is selected when it is saved.
Save(content, encoding, fmt) ==
    /\ saved' = [content |-> content, encoding |-> encoding, name |-> selectedIcon, ext |-> fmt]
    /\ download' = None
    /\ downloadDisabled' = FALSE

\* An icon that is wanted as it is is saved as it is, any other is drawn.
AsItIs(fmt) ==
    \/ fmt = "svg" /\ selectedIcon \in Svg
    \/ fmt = "ico" /\ selectedIcon \in Ico

BytesAtHand(u, fmt) ==
    IF AsItIs(fmt) THEN Save(u, fmt, fmt)
    ELSE /\ download' = [stage |-> "drawing", url |-> selectedIcon, format |-> fmt]
         /\ downloadDisabled' = TRUE
         /\ UNCHANGED saved

\* Bytes in the cache are there without the user getting a turn.
Download ==
    /\ shown /\ ~downloadDisabled
    /\ IF selectedIcon \in iconCache THEN BytesAtHand(selectedIcon, format)
       ELSE /\ download' = [stage |-> "fetching", url |-> selectedIcon, format |-> format]
            /\ downloadDisabled' = TRUE
            /\ UNCHANGED saved
    /\ UNCHANGED <<icons, selectedIcon, format, shown, iconCache, previewDisabled>>

At(stage) == download # None /\ download.stage = stage

BytesArrive ==
    /\ At("fetching")
    /\ iconCache' = iconCache \union {download.url}
    /\ BytesAtHand(download.url, download.format)
    /\ UNCHANGED <<icons, selectedIcon, format, shown, previewDisabled>>

Drawn ==
    /\ At("drawing")
    /\ Save(download.url, Encoding(download.format), download.format)
    /\ UNCHANGED <<icons, selectedIcon, format, shown, iconCache, previewDisabled>>

DownloadFails ==
    /\ download # None
    /\ download' = None
    /\ downloadDisabled' = FALSE
    /\ UNCHANGED <<icons, selectedIcon, format, shown, iconCache, previewDisabled, saved>>

----------------------------------------------------------------------------

Answers == {a \in SeqOf(URL, Cardinality(URL)) : a # <<>> /\ IsInjective(a)}

Next ==
    \/ Submit \/ PreviewFails \/ \E a \in Answers : PreviewArrives(a)
    \/ \E u \in URL : Choose(u)
    \/ \E f \in {"svg", "png", "jpg", "webp", "ico"} : PickFormat(f)
    \/ Download \/ BytesArrive \/ Drawn \/ DownloadFails

Spec == Init /\ [][Next]_vars

----------------------------------------------------------------------------

\* A saved file holds the icon it is named after, in the format of its
\* extension: "lets you download the one you want" (README.md).
FileIsWhatItsNameSays ==
    saved # None => saved.content = saved.name /\ saved.encoding = saved.ext
============================================================================
