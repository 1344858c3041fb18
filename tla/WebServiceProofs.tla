------------------------- MODULE WebServiceProofs -------------------------
(***************************************************************************)
(* Theorems about WebService, for any icons and claims, any lifetime of    *)
(* tokens and any limit.                                                   *)
(***************************************************************************)
EXTENDS WebService, TLAPS

----------------------------------------------------------------------------
\* Convert never depends on the extension of the file name (taken from the
\* URL, which the site chooses): the bytes alone decide.
THEOREM ExtensionIsIrrelevant ==
    ASSUME NEW b \in Bytes, NEW e, NEW f, NEW target
    PROVE  Converts(b, e, target) = Converts(b, f, target)
<1>1. CASE b.magic # ""
  BY <1>1 DEF Converts, PassesThrough, SourceExt
<1>2. CASE b.magic = ""
  <2>1. ~Decodes(b)
    BY <1>2 DEF Decodes, Raster
  <2>2. target \in {"png", "jpg", "svg", "ico"} => b.magic # target
    BY <1>2
  <2>3. ~Converts(b, e, target) /\ ~Converts(b, f, target)
    BY <2>1, <2>2 DEF Converts
  <2>4. Converts(b, e, target) \in BOOLEAN /\ Converts(b, f, target) \in BOOLEAN
    BY DEF Converts, PassesThrough, Decodes
  <2> QED BY <2>3, <2>4
<1> QED BY <1>1, <1>2

\* What the web service offers for an icon that is what its URL or its
\* content type says, Convert delivers, and something is offered for every
\* such icon.
THEOREM HonestOffersConvert ==
    ASSUME NEW claim \in Claims, NEW b \in Bytes, Honest(claim, b), Inspects(b), ~b.blank,
           NEW e
    PROVE  /\ AllowedTypesFor(claim) # {}
           /\ \A target \in AllowedTypesFor(claim) : Converts(b, e, target)
<1>1. b.magic \in Sniffed
  BY DEF Inspects, Decodes, Sniffed
<1>2. b.magic \in {claim.suffix, claim.type}
      /\ {claim.suffix, claim.type} \subseteq {b.magic, "image", "none"}
  BY DEF Honest
<1>3. SourceExt(b, e) = b.magic
  BY <1>1 DEF SourceExt, Sniffed, Raster, Passthrough
<1>4. CASE b.magic = "svg"
  <2>1. AllowedTypesFor(claim) = {"svg"}
    BY <1>2, <1>4 DEF AllowedTypesFor, Names
  <2> QED BY <1>4, <2>1 DEF Converts, PassesThrough, Passthrough
<1>5. CASE b.magic = "ico"
  <2>1. AllowedTypesFor(claim) = {"ico"}
    BY <1>2, <1>5 DEF AllowedTypesFor, Names
  <2> QED BY <1>5, <2>1 DEF Converts, PassesThrough, Passthrough
<1>6. CASE b.magic \in Raster
  <2>1. ~Names(claim, "svg") /\ ~Names(claim, "ico")
    BY <1>2, <1>6 DEF Names, Raster
  <2>2. \E f \in Raster \cup {"image"} : Names(claim, f)
    BY <1>2, <1>6 DEF Names
  <2>3. AllowedTypesFor(claim) = {"png", "jpg"}
    BY <2>1, <2>2 DEF AllowedTypesFor
  <2>4. Decodes(b)
    BY <1>6 DEF Inspects, Passthrough, Raster
  <2> QED BY <1>3, <1>6, <2>3, <2>4 DEF Converts, PassesThrough, Passthrough, Raster
<1> QED BY <1>1, <1>4, <1>5, <1>6 DEF Sniffed, Passthrough

----------------------------------------------------------------------------
\* The inductive invariant.

\* What a token carries and what became of it agree.
TokenIsHonest(t) ==
    t # None =>
        /\ t.left >= 0 => t.age = TTL - t.left
        /\ t.left < 0 => t.age > TTL
        /\ t.known <=> (t.restarted => persistent)

\* A good answer has all that the page takes from it.
PreviewInv ==
    /\ preview \in Request \union Response \union {None}
    /\ preview # None => TokenIsHonest(preview.token)
    /\ preview # None /\ preview.stage = "answered" /\ preview.status = 200 =>
         preview.token \in Token /\ preview.recommended \in preview.icons

\* A download in flight asks for a format that was offered, or for none, and
\* then it never comes to the conversion.
Waiting == {"sent", "handling", "fetching"}

IconInv ==
    /\ icon \in Request \union Response \union {None}
    /\ icon # None => TokenIsHonest(icon.token)
    /\ icon # None /\ icon.kind = "download" /\ icon.stage \in Waiting =>
         /\ icon.stage = "fetching" => icon.format # None
         /\ icon.format # None => icon.url \in URL /\ icon.format \in AllowedTypes(icon.url)
    /\ OfferedDownloadsConvert

\* What is on show can be asked for.
PageInv ==
    /\ page \in Page \union {None}
    /\ page # None => page.recommended \in page.icons /\ TokenIsHonest(page.token)
    /\ selectedIcon \in URL \union {None}
    /\ format \in Format \union {None}
    /\ shown \in BOOLEAN /\ previewDisabled \in BOOLEAN /\ downloadDisabled \in BOOLEAN
    /\ shown => page # None /\ selectedIcon \in URL /\ format \in AllowedTypes(selectedIcon)

IInv == persistent \in BOOLEAN /\ PreviewInv /\ IconInv /\ PageInv

----------------------------------------------------------------------------
\* Tokens.

LEMMA SignIsHonest == Sign \in Token /\ TokenIsHonest(Sign)
  BY ServiceAssumption DEF Sign, Token, TokenIsHonest

LEMMA AgedIsHonest ==
    ASSUME NEW t \in Token \union {None}, TokenIsHonest(t)
    PROVE  /\ Aged(t) \in Token \union {None} /\ TokenIsHonest(Aged(t))
           /\ t # None => Aged(t) \in Token
<1>1. CASE t = None
  BY <1>1 DEF Aged, TokenIsHonest
<1>2. CASE t # None
  <2>1. t \in Token /\ t.left \in -1 .. TTL /\ t.age \in 0 .. (TTL + 1)
    BY <1>2 DEF Token
  <2>2. Aged(t) \in Token
    <3>1. /\ (IF t.left >= 0 THEN t.left - 1 ELSE t.left) \in -1 .. TTL
          /\ (IF t.age <= TTL THEN t.age + 1 ELSE t.age) \in 0 .. (TTL + 1)
      BY <2>1, ServiceAssumption
    <3> QED BY <1>2, <2>1, <3>1 DEF Aged, Token
  <2>3. TokenIsHonest(Aged(t))
    BY <1>2, <2>1, ServiceAssumption DEF Aged, TokenIsHonest, Token
  <2> QED BY <2>2, <2>3
<1> QED BY <1>1, <1>2

LEMMA RekeyedIsHonest ==
    ASSUME NEW t \in Token \union {None}, TokenIsHonest(t), persistent \in BOOLEAN
    PROVE  /\ Rekeyed(t) \in Token \union {None} /\ TokenIsHonest(Rekeyed(t))
           /\ t # None => Rekeyed(t) \in Token
<1>1. CASE t = None
  BY <1>1 DEF Rekeyed, TokenIsHonest
<1>2. CASE t # None
  <2>1. Rekeyed(t) \in Token
    BY <1>2 DEF Rekeyed, Token
  <2>2. TokenIsHonest(Rekeyed(t))
    BY <1>2 DEF Rekeyed, TokenIsHonest, Token
  <2> QED BY <2>1, <2>2
<1> QED BY <1>1, <1>2


----------------------------------------------------------------------------
\* The messages.

LEMMA RequestTypes ==
    ASSUME NEW r \in Request \union Response, r.stage \in {"sent", "handling", "fetching"}
    PROVE  r \in Request
  BY DEF Request, Response

LEMMA ResponseTypes ==
    ASSUME NEW r \in Request \union Response, r.stage \in {"answered", "lost"}
    PROVE  r \in Response
  BY DEF Request, Response

LEMMA AtTypes ==
    ASSUME NEW r \in Request \union Response \union {None}, NEW s \in {"sent", "handling", "fetching"},
           At(r, s)
    PROVE  r \in Request /\ r # None /\ r.stage = s
  BY RequestTypes DEF At

LEMMA SettledTypes ==
    ASSUME NEW r \in Request \union Response \union {None}, Settled(r)
    PROVE  r \in Response /\ r # None
  BY ResponseTypes DEF Settled

LEMMA RetokenedRequest ==
    ASSUME NEW r \in Request, NEW t \in Token \union {None}
    PROVE  /\ [r EXCEPT !.token = t] \in Request
           /\ [r EXCEPT !.token = t].token = t
           /\ [r EXCEPT !.token = t].stage = r.stage
           /\ [r EXCEPT !.token = t].kind = r.kind
           /\ [r EXCEPT !.token = t].url = r.url
           /\ [r EXCEPT !.token = t].format = r.format
  BY DEF Request

LEMMA RetokenedResponse ==
    ASSUME NEW r \in Response, NEW t \in Token \union {None}
    PROVE  /\ [r EXCEPT !.token = t] \in Response
           /\ [r EXCEPT !.token = t].token = t
           /\ [r EXCEPT !.token = t].stage = r.stage
           /\ [r EXCEPT !.token = t].kind = r.kind
           /\ [r EXCEPT !.token = t].status = r.status
           /\ [r EXCEPT !.token = t].icons = r.icons
           /\ [r EXCEPT !.token = t].recommended = r.recommended
           /\ [r EXCEPT !.token = t].genuine = r.genuine
  BY DEF Response

LEMMA FoundTypes ==
    ASSUME NEW r \in Request, NEW t \in Token, NEW u \in URL, NEW S \in SUBSET URL, NEW a,
           a = [kind |-> r.kind, stage |-> "answered", status |-> 200, secure |-> TRUE,
                icons |-> S, recommended |-> u, token |-> t, genuine |-> FALSE]
    PROVE  a \in Response
<1>1. r.kind \in {"preview", "download", "proxy"}
  BY DEF Request
<1>2. u \in URL \union {None} /\ t \in Token \union {None}
  OBVIOUS
<1> QED
  BY <1>1, <1>2 DEF Response

----------------------------------------------------------------------------
\* How each part of the state moves.

LEMMA PreviewStays ==
    ASSUME PreviewInv, UNCHANGED <<persistent, preview>> PROVE PreviewInv'
  BY DEF PreviewInv, TokenIsHonest

LEMMA IconStays ==
    ASSUME IconInv, UNCHANGED <<persistent, icon>> PROVE IconInv'
  BY DEF IconInv, TokenIsHonest, OfferedDownloadsConvert

LEMMA PageStays ==
    ASSUME PageInv, UNCHANGED <<persistent, pageVars>> PROVE PageInv'
  BY DEF PageInv, TokenIsHonest, pageVars

LEMMA PreviewAdvances ==
    ASSUME PreviewInv, preview # None, persistent' = persistent,
           preview' \in Request, preview'.token = preview.token
    PROVE  PreviewInv'
<1>1. preview'.stage # "answered"
  BY DEF Request
<1> QED
  BY <1>1 DEF PreviewInv, TokenIsHonest

LEMMA PreviewIsRefused ==
    ASSUME preview' \in Response, preview'.token = None, preview'.status # 200
    PROVE  PreviewInv'
  BY DEF PreviewInv, TokenIsHonest

LEMMA IconAdvances ==
    ASSUME IconInv, icon # None, icon.stage \in Waiting, persistent' = persistent,
           icon' \in Request, icon'.token = icon.token, icon'.kind = icon.kind,
           icon'.url = icon.url, icon'.format = icon.format,
           icon.kind = "download" /\ icon'.stage = "fetching" => icon.format # None
    PROVE  IconInv'
<1>1. icon'.stage \in Waiting /\ icon'.stage # "answered"
  BY DEF Request, Waiting
<1> QED
  BY <1>1 DEF IconInv, TokenIsHonest, OfferedDownloadsConvert

LEMMA IconIsAnswered ==
    ASSUME icon' \in Response, icon'.token = None,
           icon'.kind = "download" /\ icon'.genuine => icon'.status # 400
    PROVE  IconInv'
<1>1. icon'.stage \notin Waiting
  BY DEF Response, Waiting
<1> QED
  BY <1>1 DEF IconInv, TokenIsHonest, OfferedDownloadsConvert

LEMMA IconIsSent ==
    ASSUME persistent' = persistent, icon' \in Request, icon'.stage = "sent",
           TokenIsHonest(icon'.token),
           icon'.format # None => icon'.url \in URL /\ icon'.format \in AllowedTypes(icon'.url)
    PROVE  IconInv'
  BY DEF IconInv, TokenIsHonest, OfferedDownloadsConvert

LEMMA Rendering ==
    ASSUME NEW u \in URL, Render(u)
    PROVE  selectedIcon' \in URL /\ format' \in AllowedTypes(selectedIcon') /\ format' \in Format
  BY DEF Render, Format

----------------------------------------------------------------------------
\* Every action preserves the invariant.

LEMMA AdmitPreviewIInv == ASSUME IInv, AdmitPreview PROVE IInv'
<1>1. preview \in Request /\ preview # None
  BY AtTypes DEF AdmitPreview, IInv, PreviewInv
<1>2. UNCHANGED <<persistent, icon, pageVars>>
  BY DEF AdmitPreview
<1>3. CASE preview' = [preview EXCEPT !.stage = "handling"]
  <2>1. preview' \in Request /\ preview'.token = preview.token
    BY <1>1, <1>3 DEF Request
  <2> QED BY <1>1, <1>2, <2>1, PreviewAdvances, IconStays, PageStays DEF IInv
<1>4. CASE preview' = TooManyRequests(preview)
  <2>1. preview' \in Response /\ preview'.token = None /\ preview'.status # 200
    BY <1>1, <1>4 DEF Request, Response, TooManyRequests, Back
  <2> QED BY <1>2, <2>1, PreviewIsRefused, IconStays, PageStays DEF IInv
<1> QED
  BY <1>3, <1>4 DEF AdmitPreview, Handling

LEMMA AdmitIconIInv == ASSUME IInv, AdmitIcon PROVE IInv'
<1>1. icon \in Request /\ icon # None /\ icon.stage \in Waiting
  BY AtTypes DEF AdmitIcon, IInv, IconInv, Waiting
<1>2. UNCHANGED <<persistent, preview, pageVars>>
  BY DEF AdmitIcon
<1>3. CASE icon' = [icon EXCEPT !.stage = "handling"]
  <2>1. /\ icon' \in Request /\ icon'.token = icon.token /\ icon'.kind = icon.kind
        /\ icon'.url = icon.url /\ icon'.format = icon.format
    BY <1>1, <1>3 DEF Request
  <2>2. icon'.stage # "fetching"
    BY <1>1, <1>3 DEF Request, Blank
  <2> QED BY <1>1, <1>2, <2>1, <2>2, IconAdvances, PreviewStays, PageStays DEF IInv
<1>4. CASE icon' = TooManyRequests(icon)
  <2>1. icon' \in Response /\ icon'.token = None /\ icon'.genuine = FALSE
    BY <1>1, <1>4 DEF Request, Response, TooManyRequests, Back
  <2> QED BY <1>2, <2>1, IconIsAnswered, PreviewStays, PageStays DEF IInv
<1> QED
  BY <1>3, <1>4 DEF AdmitIcon, Handling

LEMMA HandlePreviewIInv == ASSUME IInv, HandlePreview PROVE IInv'
<1>1. preview \in Request /\ preview # None
  BY AtTypes DEF HandlePreview, IInv, PreviewInv
<1>2. UNCHANGED <<persistent, icon, pageVars>>
  BY DEF HandlePreview
<1>3. CASE preview' = [preview EXCEPT !.stage = "fetching"]
  <2>1. preview' \in Request /\ preview'.token = preview.token
    BY <1>1, <1>3 DEF Request
  <2> QED BY <1>1, <1>2, <2>1, PreviewAdvances, IconStays, PageStays DEF IInv
<1>4. CASE preview' = Answered(preview, 400)
  <2>1. preview' \in Response /\ preview'.token = None /\ preview'.status # 200
    BY <1>1, <1>4 DEF Request, Response, Answered, Back
  <2> QED BY <1>2, <2>1, PreviewIsRefused, IconStays, PageStays DEF IInv
<1> QED
  BY <1>3, <1>4 DEF HandlePreview

LEMMA PreviewFetchedIInv == ASSUME IInv, NEW c \in Ranking, PreviewFetched(c) PROVE IInv'
<1>1. preview \in Request /\ preview # None
  BY AtTypes DEF PreviewFetched, IInv, PreviewInv
<1>2. UNCHANGED <<persistent, icon, pageVars>>
  BY DEF PreviewFetched
<1>3. ASSUME preview' = Answered(preview, 502) PROVE PreviewInv'
  <2>1. preview' \in Response /\ preview'.token = None /\ preview'.status # 200
    BY <1>1, <1>3 DEF Request, Response, Answered, Back
  <2> QED BY <2>1, PreviewIsRefused
<1>4. ASSUME NEW u \in URL, IsRecommended(u, c),
             preview' = [Answered(preview, 200) EXCEPT !.token = Sign, !.recommended = u,
                                                      !.icons = Offered(c)]
      PROVE  PreviewInv'
  <2>1. u \in Offered(c)
    BY <1>4 DEF IsRecommended
  <2>2. ToSet(c) \subseteq URL
    BY DEF Ranking, SeqOf, ToSet
  <2>3. Offered(c) \in SUBSET URL
    BY <2>2 DEF Offered
  <2>4. preview' = [kind |-> preview.kind, stage |-> "answered", status |-> 200, secure |-> TRUE,
                    icons |-> Offered(c), recommended |-> u, token |-> Sign, genuine |-> FALSE]
    BY <1>4 DEF Answered, Back
  <2>6. preview' \in Response
    BY <1>1, <2>3, <2>4, SignIsHonest, FoundTypes
  <2>5. TokenIsHonest(Sign)'
    BY <1>2, SignIsHonest DEF TokenIsHonest, Sign
  <2> QED
    BY <2>1, <2>4, <2>5, <2>6, SignIsHonest DEF PreviewInv, TokenIsHonest
<1>5. PreviewInv'
  <2>1. \/ preview' = Answered(preview, 502)
        \/ \E u \in URL :
             /\ IsRecommended(u, c)
             /\ preview' = [Answered(preview, 200) EXCEPT !.token = Sign, !.recommended = u,
                                                         !.icons = Offered(c)]
    BY DEF PreviewFetched
  <2> QED BY <1>3, <1>4, <2>1
<1> QED
  BY <1>2, <1>5, IconStays, PageStays DEF IInv

LEMMA PreviewFailsIInv == ASSUME IInv, PreviewFails PROVE IInv'
<1>1. preview \in Request /\ preview # None
  BY AtTypes DEF PreviewFails, IInv, PreviewInv
<1>2. UNCHANGED <<persistent, icon, pageVars>>
  BY DEF PreviewFails
<1>3. CASE preview' = Answered(preview, 502)
  <2>1. preview' \in Response /\ preview'.token = None /\ preview'.status # 200
    BY <1>1, <1>3 DEF Request, Response, Answered, Back
  <2> QED BY <1>2, <2>1, PreviewIsRefused, IconStays, PageStays DEF IInv
<1> QED
  BY <1>3 DEF PreviewFails

LEMMA HandleIconIInv == ASSUME IInv, HandleIcon PROVE IInv'
<1>1. icon \in Request /\ icon # None /\ icon.stage \in Waiting
  BY AtTypes DEF HandleIcon, IInv, IconInv, Waiting
<1>2. UNCHANGED <<persistent, preview, pageVars>>
  BY DEF HandleIcon
<1>3. CASE ~Blank(icon) /\ icon' = [icon EXCEPT !.stage = "fetching"]
  <2>1. /\ icon' \in Request /\ icon'.token = icon.token /\ icon'.kind = icon.kind
        /\ icon'.url = icon.url /\ icon'.format = icon.format
    BY <1>1, <1>3 DEF Request
  <2>2. icon.kind = "download" => icon.format # None
    BY <1>1, <1>3 DEF Request, Blank
  <2> QED BY <1>1, <1>2, <2>1, <2>2, IconAdvances, PreviewStays, PageStays DEF IInv
<1>4. CASE icon' = Answered(icon, 400)
  <2>1. icon' \in Response /\ icon'.token = None /\ icon'.genuine = FALSE
    BY <1>1, <1>4 DEF Request, Response, Answered, Back
  <2> QED BY <1>2, <2>1, IconIsAnswered, PreviewStays, PageStays DEF IInv
<1>5. CASE icon' = Answered(icon, 403)
  <2>1. icon' \in Response /\ icon'.token = None /\ icon'.genuine = FALSE
    BY <1>1, <1>5 DEF Request, Response, Answered, Back
  <2> QED BY <1>2, <2>1, IconIsAnswered, PreviewStays, PageStays DEF IInv
<1> QED
  BY <1>3, <1>4, <1>5 DEF HandleIcon

LEMMA IconFetchedIInv == ASSUME IInv, NEW b \in Bytes, IconFetched(b) PROVE IInv'
<1>1. icon \in Request /\ icon.stage = "fetching" /\ icon # None
  BY AtTypes DEF IconFetched, IInv, IconInv
<1>2. UNCHANGED <<persistent, preview, pageVars>>
  BY DEF IconFetched
<1>3. ASSUME icon.kind = "proxy" PROVE IconInv'
  <2>1. icon' \in Response /\ icon'.token = None /\ icon'.genuine = FALSE
    BY <1>1, <1>3 DEF IconFetched, Request, Response, Answered, Back
  <2> QED BY <2>1, IconIsAnswered
<1>4. ASSUME icon.kind # "proxy" PROVE IconInv'
  <2> DEFINE good == Converts(b, Claim[icon.url].suffix, icon.format)
             n == IF good THEN 200 ELSE 400
             g == Genuine(icon.url, b)
  <2>1. icon' = [kind |-> icon.kind, stage |-> "answered", status |-> n, secure |-> TRUE,
                 icons |-> {}, recommended |-> None, token |-> None, genuine |-> g]
    <3>1. icon' = [Answered(icon, n) EXCEPT !.genuine = g]
      BY <1>4 DEF IconFetched
    <3> HIDE DEF n, g
    <3> QED BY <3>1 DEF Answered, Back
  <2>2. g \in BOOLEAN /\ n \in {200, 400} /\ icon.kind \in {"preview", "download", "proxy"}
    BY <1>1 DEF Genuine, Request
  <2>3. icon' \in Response
    <3> HIDE DEF n, g
    <3> QED BY <2>1, <2>2 DEF Response
  <2>4. ASSUME icon.kind = "download", g PROVE good
    <3>1. icon.url \in URL /\ icon.format \in AllowedTypes(icon.url)
      BY <1>1, <2>4 DEF IInv, IconInv, Waiting
    <3>2. Claim[icon.url] \in Claims /\ icon.format \in AllowedTypesFor(Claim[icon.url])
      BY <3>1, ServiceAssumption DEF AllowedTypes
    <3>3. Honest(Claim[icon.url], b) /\ Inspects(b) /\ ~b.blank
      BY <2>4 DEF Genuine
    <3> QED
      BY <3>2, <3>3, HonestOffersConvert
  <2>5. icon'.kind = "download" /\ icon'.genuine => icon'.status # 400
    BY <2>1, <2>4
  <2>6. icon'.token = None
    BY <2>1
  <2> QED
    BY <2>3, <2>5, <2>6, IconIsAnswered
<1>5. IconInv'
  BY <1>3, <1>4
<1> QED
  BY <1>2, <1>5, PreviewStays, PageStays DEF IInv

LEMMA IconFailsIInv == ASSUME IInv, IconFails PROVE IInv'
<1>1. icon \in Request /\ icon # None /\ icon.stage \in Waiting
  BY AtTypes DEF IconFails, IInv, IconInv, Waiting
<1>2. UNCHANGED <<persistent, preview, pageVars>>
  BY DEF IconFails
<1>3. CASE icon' = Answered(icon, 502)
  <2>1. icon' \in Response /\ icon'.token = None /\ icon'.genuine = FALSE
    BY <1>1, <1>3 DEF Request, Response, Answered, Back
  <2> QED BY <1>2, <2>1, IconIsAnswered, PreviewStays, PageStays DEF IInv
<1> QED
  BY <1>3 DEF IconFails

LEMMA SubmitIInv == ASSUME IInv, NEW url \in {"page", None}, Submit(url) PROVE IInv'
<1>1. preview' = Sent("preview", url, None, None, None)
  BY DEF Submit
<1>2. preview' \in Request
  BY <1>1 DEF Sent, Request
<1>3. preview'.stage = "sent" /\ preview'.token = None
  BY <1>1 DEF Sent
<1>4. PreviewInv'
  BY <1>2, <1>3 DEF PreviewInv, TokenIsHonest
<1>5. IconInv'
  BY IconStays DEF Submit, IInv
<1>6. PageInv'
  BY DEF Submit, IInv, PageInv, TokenIsHonest
<1> QED
  BY <1>4, <1>5, <1>6 DEF Submit, IInv

LEMMA ReceivePreviewIInv == ASSUME IInv, ReceivePreview PROVE IInv'
<1>1. preview \in Response /\ preview # None
  BY SettledTypes DEF ReceivePreview, IInv, PreviewInv
<1>2. UNCHANGED <<persistent, icon, downloadDisabled>> /\ preview' = None /\ previewDisabled' = FALSE
  BY DEF ReceivePreview
<1>3. PreviewInv'
  BY <1>2 DEF PreviewInv
<1>4. ASSUME preview.stage = "answered", preview.status = 200 PROVE PageInv'
  <2>1. PICK u \in preview.icons : Render(u)
    BY <1>4 DEF ReceivePreview
  <2>2. page' = [icons |-> preview.icons, recommended |-> preview.recommended,
                 token |-> preview.token] /\ shown' = TRUE
    BY <1>4 DEF ReceivePreview
  <2>3. preview.token \in Token /\ preview.recommended \in URL /\ preview.icons \in SUBSET URL
    BY <1>1, <1>4 DEF IInv, PreviewInv, Response
  <2>4. page' \in Page /\ page'.token = preview.token /\ page'.recommended \in page'.icons
    BY <1>1, <1>4, <2>2, <2>3 DEF Page, IInv, PreviewInv
  <2>5. page' # None
    BY <2>4, NoneAssumption
  <2>6. selectedIcon' \in URL /\ format' \in AllowedTypes(selectedIcon') /\ format' \in Format
    BY <2>1, <2>3, Rendering
  <2>7. TokenIsHonest(preview.token)
    BY <1>1 DEF IInv, PreviewInv
  <2>8. TokenIsHonest(page.token)'
    BY <1>2, <2>4, <2>7 DEF TokenIsHonest
  <2>9. previewDisabled' \in BOOLEAN /\ downloadDisabled' \in BOOLEAN
    BY <1>2 DEF IInv, PageInv
  <2> QED
    BY <2>2, <2>4, <2>5, <2>6, <2>8, <2>9 DEF PageInv
<1>5. ASSUME ~(preview.stage = "answered" /\ preview.status = 200) PROVE PageInv'
  <2>1. UNCHANGED <<page, selectedIcon, format, shown>>
    BY <1>5 DEF ReceivePreview
  <2>2. previewDisabled' \in BOOLEAN /\ downloadDisabled' \in BOOLEAN
    BY <1>2 DEF IInv, PageInv
  <2> QED
    BY <1>2, <2>1, <2>2 DEF IInv, PageInv, TokenIsHonest
<1> QED
  BY <1>2, <1>3, <1>4, <1>5, IconStays DEF IInv

LEMMA ChooseIInv == ASSUME IInv, NEW u \in URL, Choose(u) PROVE IInv'
<1>1. selectedIcon' \in URL /\ format' \in AllowedTypes(selectedIcon') /\ format' \in Format
  BY Rendering DEF Choose
<1>2. PageInv'
  BY <1>1 DEF Choose, IInv, PageInv, TokenIsHonest
<1> QED
  BY <1>2, PreviewStays, IconStays DEF Choose, IInv

LEMMA PickFormatIInv == ASSUME IInv, NEW f, PickFormat(f) PROVE IInv'
<1>1. selectedIcon \in URL /\ f \in AllowedTypes(selectedIcon)
  BY DEF PickFormat, IInv, PageInv
<1>2. f \in Format
  BY <1>1 DEF Format
<1>3. PageInv'
  BY <1>1, <1>2 DEF PickFormat, IInv, PageInv, TokenIsHonest
<1> QED
  BY <1>3, PreviewStays, IconStays DEF PickFormat, IInv

LEMMA LoadImageIInv == ASSUME IInv, NEW u \in URL, LoadImage(u) PROVE IInv'
<1>1. page.token \in Token /\ TokenIsHonest(page.token)
  BY DEF LoadImage, IInv, PageInv, Page
<1>2. UNCHANGED <<persistent, preview, pageVars>> /\ icon' = Sent("proxy", u, page.token, u, None)
  BY DEF LoadImage
<1>3. icon' \in Request
  BY <1>1, <1>2 DEF Sent, Request
<1>4. icon'.stage = "sent" /\ icon'.token = page.token /\ icon'.format = None
  BY <1>2 DEF Sent
<1>5. IconInv'
  BY <1>1, <1>2, <1>3, <1>4, IconIsSent
<1> QED
  BY <1>2, <1>5, PreviewStays, PageStays DEF IInv

LEMMA DownloadIInv == ASSUME IInv, Download PROVE IInv'
<1>1. page # None /\ selectedIcon \in URL /\ format \in AllowedTypes(selectedIcon) /\ format \in Format
  BY DEF Download, IInv, PageInv, Format
<1>2. page.token \in Token /\ TokenIsHonest(page.token)
  BY <1>1 DEF IInv, PageInv, Page
<1>3. icon' = Sent("download", selectedIcon, page.token, selectedIcon, format) /\ persistent' = persistent
  BY DEF Download
<1>6. icon' \in Request
  BY <1>1, <1>2, <1>3 DEF Sent, Request
<1>7. /\ icon'.stage = "sent" /\ icon'.token = page.token /\ icon'.format = format
      /\ icon'.url = selectedIcon
  BY <1>3 DEF Sent
<1>4. IconInv'
  BY <1>1, <1>2, <1>3, <1>6, <1>7, IconIsSent
<1>5. PageInv'
  BY DEF Download, IInv, PageInv, TokenIsHonest
<1> QED
  BY <1>4, <1>5, PreviewStays DEF Download, IInv

LEMMA CallAPIIInv ==
    ASSUME IInv, NEW k \in {"download", "proxy"}, NEW u \in URL \union {None},
           NEW t \in Token \union {None}, TokenIsHonest(t), NEW v \in URL \union {None},
           CallAPI(k, u, t, v)
    PROVE  IInv'
<1>1. UNCHANGED <<persistent, preview, pageVars>> /\ icon' = Sent(k, u, t, v, None)
  BY DEF CallAPI
<1>2. icon' \in Request
  BY <1>1 DEF Sent, Request
<1>3. icon'.stage = "sent" /\ icon'.token = t /\ icon'.format = None
  BY <1>1 DEF Sent
<1>4. IconInv'
  BY <1>1, <1>2, <1>3, IconIsSent
<1> QED
  BY <1>1, <1>4, PreviewStays, PageStays DEF IInv

LEMMA ReceiveIconIInv == ASSUME IInv, ReceiveIcon PROVE IInv'
<1>1. IconInv'
  BY DEF ReceiveIcon, IconInv, OfferedDownloadsConvert
<1>2. downloadDisabled' \in BOOLEAN
  BY DEF ReceiveIcon, IInv, PageInv
<1>3. PageInv'
  BY <1>2 DEF ReceiveIcon, IInv, PageInv, TokenIsHonest
<1> QED
  BY <1>1, <1>3, PreviewStays DEF ReceiveIcon, IInv

----------------------------------------------------------------------------
\* Time and restarts change every token, and a restart loses what was not
\* answered yet.

\* t is what time or a restart makes of the token.
LEMMA PreviewRetokened ==
    ASSUME PreviewInv, preview # None, persistent' = persistent, NEW t \in Token \union {None},
           TokenIsHonest(t), preview.token \in Token => t \in Token,
           preview' = [preview EXCEPT !.token = t]
    PROVE  PreviewInv'
<1>1. CASE preview \in Request
  <2>1. preview' \in Request /\ preview'.token = t /\ preview'.stage \in Waiting
    BY <1>1, RetokenedRequest DEF Request, Waiting
  <2> QED
    BY <2>1 DEF PreviewInv, TokenIsHonest, Waiting
<1>2. CASE preview \in Response
  <2>1. /\ preview' \in Response /\ preview'.token = t /\ preview'.stage = preview.stage
        /\ preview'.status = preview.status /\ preview'.icons = preview.icons
        /\ preview'.recommended = preview.recommended
    BY <1>2, RetokenedResponse
  <2> QED
    BY <2>1 DEF PreviewInv, TokenIsHonest
<1> QED
  BY <1>1, <1>2 DEF PreviewInv

LEMMA IconRetokened ==
    ASSUME IconInv, icon # None, persistent' = persistent, NEW t \in Token \union {None},
           TokenIsHonest(t), icon' = [icon EXCEPT !.token = t]
    PROVE  IconInv'
<1>1. CASE icon \in Request
  <2>1. /\ icon' \in Request /\ icon'.token = t /\ icon'.stage = icon.stage
        /\ icon'.kind = icon.kind /\ icon'.url = icon.url /\ icon'.format = icon.format
        /\ icon.stage \in Waiting
    BY <1>1, RetokenedRequest DEF Request, Waiting
  <2> QED
    BY <2>1 DEF IconInv, TokenIsHonest, Waiting, OfferedDownloadsConvert
<1>2. CASE icon \in Response
  <2>1. /\ icon' \in Response /\ icon'.token = t /\ icon'.stage = icon.stage
        /\ icon'.kind = icon.kind /\ icon'.status = icon.status /\ icon'.genuine = icon.genuine
        /\ icon.stage \notin Waiting
    BY <1>2, RetokenedResponse DEF Response, Waiting
  <2> QED
    BY <2>1 DEF IconInv, TokenIsHonest, Waiting, OfferedDownloadsConvert
<1> QED
  BY <1>1, <1>2 DEF IconInv

LEMMA PageRetokened ==
    ASSUME PageInv, page # None, NEW t \in Token, TokenIsHonest(t),
           page' = [page EXCEPT !.token = t],
           UNCHANGED <<persistent, selectedIcon, format, shown, previewDisabled, downloadDisabled>>
    PROVE  PageInv'
<1>1. page' \in Page /\ page'.token = t /\ page'.recommended \in page'.icons
  BY DEF PageInv, Page
<1> QED
  BY <1>1, NoneAssumption DEF PageInv, TokenIsHonest

LEMMA TickIInv == ASSUME IInv, Tick PROVE IInv'
<1>1. UNCHANGED <<persistent, selectedIcon, format, shown, previewDisabled, downloadDisabled>>
  BY DEF Tick
<1>2. PreviewInv'
  <2>1. CASE preview = None
    BY <2>1 DEF Tick, OfToken, PreviewInv
  <2>2. CASE preview # None
    <3>1. preview.token \in Token \union {None} /\ TokenIsHonest(preview.token)
      BY <2>2 DEF IInv, PreviewInv, Request, Response
    <3>2. preview' = [preview EXCEPT !.token = Aged(preview.token)]
      BY <2>2 DEF Tick, OfToken
    <3> QED
      BY <1>1, <2>2, <3>1, <3>2, AgedIsHonest, PreviewRetokened, NoneAssumption DEF IInv
  <2> QED BY <2>1, <2>2
<1>3. IconInv'
  <2>1. CASE icon = None
    BY <2>1 DEF Tick, OfToken, IconInv, OfferedDownloadsConvert
  <2>2. CASE icon # None
    <3>1. icon.token \in Token \union {None} /\ TokenIsHonest(icon.token)
      BY <2>2 DEF IInv, IconInv, Request, Response
    <3>2. icon' = [icon EXCEPT !.token = Aged(icon.token)]
      BY <2>2 DEF Tick, OfToken
    <3> QED
      BY <1>1, <2>2, <3>1, <3>2, AgedIsHonest, IconRetokened DEF IInv
  <2> QED BY <2>1, <2>2
<1>4. PageInv'
  <2>1. CASE page = None
    BY <1>1, <2>1 DEF Tick, OfToken, IInv, PageInv
  <2>2. CASE page # None
    <3>1. page.token \in Token /\ page.token # None /\ TokenIsHonest(page.token)
      BY <2>2, NoneAssumption DEF IInv, PageInv, Page
    <3>2. page' = [page EXCEPT !.token = Aged(page.token)]
      BY <2>2 DEF Tick, OfToken
    <3> QED
      BY <1>1, <2>2, <3>1, <3>2, AgedIsHonest, PageRetokened DEF IInv
  <2> QED BY <2>1, <2>2
<1> QED
  BY <1>1, <1>2, <1>3, <1>4 DEF IInv

LEMMA RestartIInv == ASSUME IInv, Restart PROVE IInv'
<1>1. UNCHANGED <<persistent, selectedIcon, format, shown, previewDisabled, downloadDisabled>>
  BY DEF Restart
<1>2. PreviewInv'
  <2>1. CASE preview = None
    BY <2>1 DEF Restart, OfToken, Lost, PreviewInv
  <2>2. CASE preview # None
    <3> DEFINE r == [preview EXCEPT !.token = Rekeyed(preview.token)]
    <3>1. preview.token \in Token \union {None} /\ TokenIsHonest(preview.token)
      BY <2>2 DEF IInv, PreviewInv, Request, Response
    <3>2. preview' = r \/ preview' = Back(r, "lost", 0, FALSE)
      BY <2>2 DEF Restart, OfToken, Lost
    <3>3. CASE preview' = r
      BY <1>1, <2>2, <3>1, <3>3, RekeyedIsHonest, PreviewRetokened, NoneAssumption DEF IInv
    <3>4. CASE preview' = Back(r, "lost", 0, FALSE)
      <4>1. r \in Request \union Response
        BY <2>2, <3>1, RekeyedIsHonest, RetokenedRequest, RetokenedResponse DEF IInv, PreviewInv
      <4>2. preview' \in Response /\ preview'.token = None /\ preview'.status # 200
        <5> HIDE DEF r
        <5> QED BY <3>4, <4>1 DEF Back, Request, Response
      <4> QED BY <4>2, PreviewIsRefused
    <3> QED BY <3>2, <3>3, <3>4
  <2> QED BY <2>1, <2>2
<1>3. IconInv'
  <2>1. CASE icon = None
    BY <2>1 DEF Restart, OfToken, Lost, IconInv, OfferedDownloadsConvert
  <2>2. CASE icon # None
    <3> DEFINE r == [icon EXCEPT !.token = Rekeyed(icon.token)]
    <3>1. icon.token \in Token \union {None} /\ TokenIsHonest(icon.token)
      BY <2>2 DEF IInv, IconInv, Request, Response
    <3>2. icon' = r \/ icon' = Back(r, "lost", 0, FALSE)
      BY <2>2 DEF Restart, OfToken, Lost
    <3>3. CASE icon' = r
      BY <1>1, <2>2, <3>1, <3>3, RekeyedIsHonest, IconRetokened DEF IInv
    <3>4. CASE icon' = Back(r, "lost", 0, FALSE)
      <4>1. r \in Request \union Response
        BY <2>2, <3>1, RekeyedIsHonest, RetokenedRequest, RetokenedResponse DEF IInv, IconInv
      <4>2. icon' \in Response /\ icon'.token = None /\ icon'.genuine = FALSE
        <5> HIDE DEF r
        <5> QED BY <3>4, <4>1 DEF Back, Request, Response
      <4> QED BY <4>2, IconIsAnswered
    <3> QED BY <3>2, <3>3, <3>4
  <2> QED BY <2>1, <2>2
<1>4. PageInv'
  <2>1. CASE page = None
    BY <1>1, <2>1 DEF Restart, OfToken, IInv, PageInv
  <2>2. CASE page # None
    <3>1. page.token \in Token /\ page.token # None /\ TokenIsHonest(page.token)
      BY <2>2, NoneAssumption DEF IInv, PageInv, Page
    <3>2. page' = [page EXCEPT !.token = Rekeyed(page.token)]
      BY <2>2 DEF Restart, OfToken
    <3> QED
      BY <1>1, <2>2, <3>1, <3>2, RekeyedIsHonest, PageRetokened DEF IInv
  <2> QED BY <2>1, <2>2
<1> QED
  BY <1>1, <1>2, <1>3, <1>4 DEF IInv

LEMMA StutterIInv == ASSUME IInv, UNCHANGED vars PROVE IInv'
  BY PreviewStays, IconStays, PageStays DEF vars, IInv

LEMMA InitIInv == ASSUME Init PROVE IInv
<1>1. PreviewInv
  BY DEF Init, PreviewInv
<1>2. IconInv
  BY DEF Init, IconInv, OfferedDownloadsConvert
<1>3. PageInv
  BY DEF Init, PageInv
<1> QED
  BY <1>1, <1>2, <1>3 DEF Init, IInv

----------------------------------------------------------------------------

LEMMA NextIInv == ASSUME IInv, [Next]_vars PROVE IInv'
<1>1. CASE Serve
  BY <1>1, AdmitPreviewIInv, AdmitIconIInv, HandlePreviewIInv, HandleIconIInv, PreviewFailsIInv,
     IconFailsIInv, IconFetchedIInv, PreviewFetchedIInv DEF Serve
<1>2. CASE Receive
  BY <1>2, ReceivePreviewIInv, ReceiveIconIInv DEF Receive
<1>3. CASE Restart \/ Tick
  BY <1>3, RestartIInv, TickIInv
<1>4. CASE Submit(None) \/ Submit("page")
  BY <1>4, SubmitIInv
<1>5. CASE \E u \in URL : Choose(u) \/ LoadImage(u)
  BY <1>5, ChooseIInv, LoadImageIInv
<1>6. CASE (\E f \in Format : PickFormat(f)) \/ Download
  BY <1>6, PickFormatIInv, DownloadIInv
<1>7. SomeURL \in URL
  BY ServiceAssumption DEF SomeURL
<1>8. CASE \E k \in {"proxy", "download"}, u \in {SomeURL, None} : CallAPI(k, u, None, None)
  BY <1>7, <1>8, CallAPIIInv DEF TokenIsHonest
<1>9. CASE page # None /\ \E v \in page.icons \ {SomeURL} : CallAPI("proxy", SomeURL, page.token, v)
  <2>1. page \in Page /\ TokenIsHonest(page.token)
    BY <1>9 DEF IInv, PageInv
  <2>2. page.token \in Token /\ page.icons \subseteq URL
    BY <2>1 DEF Page
  <2> QED
    BY <1>7, <1>9, <2>1, <2>2, CallAPIIInv
<1>10. CASE UNCHANGED vars
  BY <1>10, StutterIInv
<1> QED
  BY <1>1, <1>2, <1>3, <1>4, <1>5, <1>6, <1>8, <1>9, <1>10 DEF Next

THEOREM Invariant == Spec => []IInv
<1>1. Init => IInv
  BY InitIInv
<1>2. IInv /\ [Next]_vars => IInv'
  BY NextIInv
<1> QED
  BY <1>1, <1>2, PTL DEF Spec

\* Only HandleIcon decides on a request, and only then is a token looked at.
LEMMA OnlyHandleIconDecides ==
    ASSUME IInv, [Next]_vars, At(icon, "handling"),
           At(icon', "fetching") \/ (At(icon', "answered") /\ icon'.status = 403)
    PROVE  HandleIcon
<1>1. icon \in Request /\ icon # None /\ icon.stage = "handling"
  BY AtTypes DEF IInv, IconInv
<1>2. icon' # icon
  BY <1>1 DEF At
<1>3. CASE Serve
  BY <1>1, <1>2, <1>3 DEF Serve, AdmitPreview, AdmitIcon, HandlePreview, PreviewFetched,
     PreviewFails, IconFetched, IconFails, At
<1>4. CASE Receive
  BY <1>1, <1>2, <1>4 DEF Receive, ReceivePreview, ReceiveIcon, Settled
<1>5. CASE Tick
  <2>1. icon' = [icon EXCEPT !.token = Aged(icon.token)]
    BY <1>1, <1>5 DEF Tick, OfToken
  <2>2. icon'.stage = icon.stage
    BY <1>1, <2>1 DEF Request
  <2> QED BY <1>1, <2>2 DEF At
<1>6. CASE Restart
  <2>1. \/ icon' = [icon EXCEPT !.token = Rekeyed(icon.token)]
        \/ icon' = Back([icon EXCEPT !.token = Rekeyed(icon.token)], "lost", 0, FALSE)
    BY <1>1, <1>6 DEF Restart, OfToken, Lost
  <2>2. icon'.stage = icon.stage \/ icon'.stage = "lost"
    BY <1>1, <2>1 DEF Request, Back
  <2> QED BY <1>1, <2>2 DEF At
<1>7. CASE \/ Submit(None) \/ Submit("page")
           \/ \E u \in URL : Choose(u) \/ LoadImage(u)
           \/ \E f \in Format : PickFormat(f)
           \/ Download
           \/ \E k \in {"proxy", "download"}, u \in {SomeURL, None} : CallAPI(k, u, None, None)
           \/ /\ page # None
              /\ \E v \in page.icons \ {SomeURL} : CallAPI("proxy", SomeURL, page.token, v)
  BY <1>1, <1>2, <1>7 DEF Submit, Choose, LoadImage, PickFormat, Download, CallAPI
<1> QED
  BY <1>2, <1>3, <1>4, <1>5, <1>6, <1>7 DEF Next, vars

LEMMA HonestDecisions ==
    ASSUME IInv, HandleIcon
    PROVE  /\ At(icon', "answered") /\ icon'.status = 403 =>
                \/ icon.token = None \/ icon.tokenURL # icon.url
                \/ icon.token.age > TTL
                \/ icon.token.restarted /\ ~persistent
           /\ At(icon', "fetching") =>
                /\ icon.token # None /\ icon.tokenURL = icon.url
                /\ icon.token.age <= TTL
                /\ icon.token.restarted => persistent
<1>1. icon \in Request /\ icon # None
  BY AtTypes DEF HandleIcon, IInv, IconInv
<1>2. TokenIsHonest(icon.token)
  BY <1>1 DEF IInv, IconInv
<1>3. ASSUME At(icon', "answered"), icon'.status = 403 PROVE ~Verify(icon)
  BY <1>1, <1>3 DEF HandleIcon, Answered, Back, At, Request
<1>4. ASSUME At(icon', "fetching") PROVE Verify(icon)
  BY <1>1, <1>4 DEF HandleIcon, Answered, Back, At
<1>5. CASE icon.token = None
  BY <1>4, <1>5 DEF Verify
<1>6. CASE icon.token # None
  <2>1. /\ icon.token.left \in -1 .. TTL /\ icon.token.age \in 0 .. (TTL + 1)
        /\ icon.token.known \in BOOLEAN /\ icon.token.restarted \in BOOLEAN
    BY <1>1, <1>6 DEF Request, Token
  <2>2. icon.token.left >= 0 => icon.token.age <= TTL
    BY <1>2, <1>6, <2>1, ServiceAssumption DEF TokenIsHonest
  <2>3. icon.token.left < 0 => icon.token.age > TTL
    BY <1>2, <1>6 DEF TokenIsHonest
  <2>4. icon.token.left >= 0 \/ icon.token.left < 0
    BY <2>1, ServiceAssumption
  <2>5. icon.token.known <=> (icon.token.restarted => persistent)
    BY <1>2, <1>6 DEF TokenIsHonest
  <2> QED
    BY <1>3, <1>4, <1>6, <2>2, <2>3, <2>4, <2>5 DEF Verify
<1> QED
  BY <1>5, <1>6

----------------------------------------------------------------------------
\* The theorems.

\* Requests, answers and what the page keeps always have their shape: what is
\* recommended is an icon, and what the page kept came with a token.
THEOREM TypeCorrect == Spec => []TypeOK
<1>1. IInv => TypeOK
  BY DEF IInv, PreviewInv, IconInv, PageInv, TypeOK
<1> QED
  BY <1>1, Invariant, PTL

\* Convert never refuses what the page asks it for, as long as the site did
\* not lie about the icon.
THEOREM OffersConvert == Spec => []OfferedDownloadsConvert
<1>1. IInv => OfferedDownloadsConvert
  BY DEF IInv, IconInv
<1> QED
  BY <1>1, Invariant, PTL

\* Neither the middleware nor a restart that keeps the secret costs a valid
\* token its icon.
THEOREM Honoured == Spec => TokensAreHonoured
<1>1. ASSUME IInv, [Next]_vars, At(icon, "handling"), At(icon', "answered"), icon'.status = 403
      PROVE  \/ icon.token = None \/ icon.tokenURL # icon.url
             \/ icon.token.age > TTL
             \/ icon.token.restarted /\ ~persistent
  BY <1>1, OnlyHandleIconDecides, HonestDecisions
<1>2. IInv /\ [Next]_vars =>
        [At(icon, "handling") /\ At(icon', "answered") /\ icon'.status = 403 =>
           \/ icon.token = None \/ icon.tokenURL # icon.url
           \/ icon.token.age > TTL
           \/ icon.token.restarted /\ ~persistent]_vars
  BY <1>1
<1> QED
  BY <1>2, Invariant, PTL DEF Spec, TokensAreHonoured

\* No request reaches the fetcher without a token that is valid now.
THEOREM Authorised == Spec => FetchesAreAuthorised
<1>1. ASSUME IInv, [Next]_vars, At(icon, "handling"), At(icon', "fetching")
      PROVE  /\ icon.token # None /\ icon.tokenURL = icon.url
             /\ icon.token.age <= TTL
             /\ icon.token.restarted => persistent
  BY <1>1, OnlyHandleIconDecides, HonestDecisions
<1>2. IInv /\ [Next]_vars =>
        [At(icon, "handling") /\ At(icon', "fetching") =>
           /\ icon.token # None /\ icon.tokenURL = icon.url
           /\ icon.token.age <= TTL
           /\ icon.token.restarted => persistent]_vars
  BY <1>1
<1> QED
  BY <1>2, Invariant, PTL DEF Spec, FetchesAreAuthorised
=============================================================================
