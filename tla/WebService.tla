----------------------------- MODULE WebService -----------------------------
(***************************************************************************)
(* The Go web service with the page it serves (static/app.ts).  The page   *)
(* previews a site, shows the icons of the answer and asks for them with   *)
(* the tokens that came along; the service limits, verifies, fetches and   *)
(* answers.  Each request passes the middleware and its handler in steps   *)
(* of its own, between which time passes, other requests are served, and   *)
(* the service may be restarted: that loses what was not answered, the     *)
(* limiter's memory and, unless FVF_SIGNING_SECRET is set, the secret.     *)
(*                                                                         *)
(* The limiter is what RateLimiter.tla was shown to implement; one client  *)
(* address is enough, as windows of different clients are independent.     *)
(* A token's expiry is stored as the seconds it has left.                  *)
(***************************************************************************)
EXTENDS Integers, SequencesExt, Formats

CONSTANTS
    URL,             \* icon URLs
    Claim,           \* what the suffix and the content type of each say it is
    TTL,             \* seconds a token is valid
    MaxHits, Window, \* of the limiter; a tick is a second
    None

ASSUME ServiceAssumption ==
    /\ Claim \in [URL -> Claims]
    /\ TTL \in Nat
    /\ URL # {}

AllowedTypes(u) == AllowedTypesFor(Claim[u])

Format == UNION {AllowedTypes(u) : u \in URL}

\* left and known are the token; age and restarted record its history.
Token == [left : -1 .. TTL, known : BOOLEAN, age : 0 .. (TTL + 1), restarted : BOOLEAN]

\* The URL of a preview is only "page": which site it is makes no difference.
\* A request on its way through the service, and what comes back: the answer,
\* or the news that the connection is gone.  genuine records whether the icon
\* fetched was sound and what it was claimed to be.
Request == [kind : {"preview", "download", "proxy"},
            stage : {"sent", "handling", "fetching"},
            url : URL \union {"page", None}, token : Token \union {None},
            tokenURL : URL \union {None}, format : Format \union {None}]

Response == [kind : {"preview", "download", "proxy"},
             stage : {"answered", "lost"},
             status : {0, 200, 400, 403, 429, 502}, secure : BOOLEAN,
             icons : SUBSET URL, recommended : URL \union {None},
             token : Token \union {None}, genuine : BOOLEAN]

Page == [icons : SUBSET URL, recommended : URL, token : Token]

ASSUME NoneAssumption ==
    None \notin URL \union Format \union Token \union Request \union Response \union Page

VARIABLES
    persistent,    \* FVF_SIGNING_SECRET is set
    window, limited,  \* the limiter's state and its last answer
    preview, icon,    \* the requests in flight, one of each sort at most
    page,          \* previewState, and the token its icons came with
    selectedIcon, format, shown,
    previewDisabled, downloadDisabled

limiterVars == <<window, limited>>
pageVars == <<page, selectedIcon, format, shown, previewDisabled, downloadDisabled>>
vars == <<persistent, limiterVars, preview, icon, pageVars>>

Limiter == INSTANCE WindowLimiter WITH Key <- {"page"}, Closed <- None, reply <- limited

----------------------------------------------------------------------------
\* The signer.

Sign_Short == [left |-> TTL - 1, known |-> TRUE, age |-> 0, restarted |-> FALSE]
Sign == [left |-> TTL, known |-> TRUE, age |-> 0, restarted |-> FALSE]

Verify_AnyURL(r) == r.token # None /\ r.token.left >= 0 /\ r.token.known
Verify(r) ==
    /\ r.token # None
    /\ r.token.left >= 0
    /\ r.token.known /\ r.url = r.tokenURL

Aged(t) ==
    IF t = None THEN None
    ELSE [t EXCEPT !.left = IF @ >= 0 THEN @ - 1 ELSE @,
                   !.age = IF @ <= TTL THEN @ + 1 ELSE @]

Rekeyed(t) ==
    IF t = None THEN None
    ELSE [t EXCEPT !.known = @ /\ persistent, !.restarted = TRUE]

OfToken(r, Op(_)) == IF r = None THEN None ELSE [r EXCEPT !.token = Op(@)]

----------------------------------------------------------------------------

Init ==
    /\ persistent \in BOOLEAN
    /\ Limiter!Init
    /\ preview = None /\ icon = None
    /\ page = None /\ selectedIcon = None /\ format = None /\ shown = FALSE
    /\ previewDisabled = FALSE /\ downloadDisabled = FALSE

Sent(kind, url, token, tokenURL, wanted) ==
    [kind |-> kind, stage |-> "sent", url |-> url, token |-> token, tokenURL |-> tokenURL,
     format |-> wanted]

Back(r, stage, status, secure) ==
    [kind |-> r.kind, stage |-> stage, status |-> status, secure |-> secure,
     icons |-> {}, recommended |-> None, token |-> None, genuine |-> FALSE]

\* An answer of a handler; SecurityHeaders wraps every handler.
Answered(r, status) == Back(r, "answered", status, TRUE)

At(r, stage) == r # None /\ r.stage = stage
Settled(r) == r # None /\ r.stage \in {"answered", "lost"}

\* The middleware: a denied request is answered by the limiter itself.
Handling(r) == [r EXCEPT !.stage = "handling"]
TooManyRequests(r) == Back(r, "answered", 429, FALSE)

AdmitPreview ==
    /\ At(preview, "sent")
    /\ \/ Limiter!Grant("page") /\ preview' = Handling(preview)
       \/ Limiter!Deny("page") /\ preview' = TooManyRequests(preview)
    /\ UNCHANGED <<persistent, icon, pageVars>>

AdmitIcon ==
    /\ At(icon, "sent")
    /\ \/ Limiter!Grant("page") /\ icon' = Handling(icon)
       \/ Limiter!Deny("page") /\ icon' = TooManyRequests(icon)
    /\ UNCHANGED <<persistent, preview, pageVars>>

\* Preview: a blank URL is refused, any other is fetched.
HandlePreview ==
    /\ At(preview, "handling")
    /\ preview' = IF preview.url = None THEN Answered(preview, 400)
                  ELSE [preview EXCEPT !.stage = "fetching"]
    /\ UNCHANGED <<persistent, limiterVars, icon, pageVars>>

\* The candidates came, best first.  Those without a format are left out, and
\* the best of the others is recommended.
Offered(candidates) == {u \in ToSet(candidates) : AllowedTypes(u) # {}}

IsRecommended_Unfound(u, candidates) == u = candidates[1]
IsRecommended(u, candidates) ==
    \E i \in DOMAIN candidates :
        /\ u = candidates[i] /\ u \in Offered(candidates)
        /\ \A j \in 1 .. (i - 1) : candidates[j] \notin Offered(candidates)

PreviewFetched(candidates) ==
    /\ At(preview, "fetching")
    /\ \/ /\ Offered(candidates) = {}
          /\ preview' = Answered(preview, 502)
       \/ \E u \in URL :
          /\ IsRecommended(u, candidates)
          /\ preview' = [Answered(preview, 200) EXCEPT !.token = Sign, !.recommended = u,
                                                      !.icons = Offered(candidates)]
    /\ UNCHANGED <<persistent, limiterVars, icon, pageVars>>

PreviewFails ==
    /\ At(preview, "fetching")
    /\ preview' = Answered(preview, 502)
    /\ UNCHANGED <<persistent, limiterVars, icon, pageVars>>

\* Download and Proxy: no URL, no format, no valid token, or a fetch.
Blank(r) == r.url = None \/ (r.kind = "download" /\ r.format = None)

HandleIcon ==
    /\ At(icon, "handling")
    /\ icon' = IF Blank(icon) THEN Answered(icon, 400)
               ELSE IF ~Verify(icon) THEN Answered(icon, 403)
               ELSE [icon EXCEPT !.stage = "fetching"]
    /\ UNCHANGED <<persistent, limiterVars, preview, pageVars>>

\* The icon came, whatever the site sends as it; a download is converted.
Genuine(u, b) == Honest(Claim[u], b) /\ Inspects(b) /\ ~b.blank

IconFetched(b) ==
    /\ At(icon, "fetching")
    /\ icon' = IF icon.kind = "proxy" THEN Answered(icon, 200)
               ELSE [Answered(icon, IF Converts(b, Claim[icon.url].suffix, icon.format)
                                    THEN 200 ELSE 400) EXCEPT !.genuine = Genuine(icon.url, b)]
    /\ UNCHANGED <<persistent, limiterVars, preview, pageVars>>

IconFails ==
    /\ At(icon, "fetching")
    /\ icon' = Answered(icon, 502)
    /\ UNCHANGED <<persistent, limiterVars, preview, pageVars>>

Lost(r) == IF r = None \/ Settled(r) THEN r ELSE Back(r, "lost", 0, FALSE)

Restart ==
    /\ window' = [k \in {"page"} |-> None]
    /\ limited' = [key |-> None, allowed |-> TRUE]
    /\ preview' = Lost(OfToken(preview, Rekeyed))
    /\ icon' = Lost(OfToken(icon, Rekeyed))
    /\ page' = OfToken(page, Rekeyed)
    /\ UNCHANGED <<persistent, selectedIcon, format, shown, previewDisabled, downloadDisabled>>

Tick ==
    /\ Limiter!Tick
    /\ preview' = OfToken(preview, Aged)
    /\ icon' = OfToken(icon, Aged)
    /\ page' = OfToken(page, Aged)
    /\ UNCHANGED <<persistent, selectedIcon, format, shown, previewDisabled, downloadDisabled>>

----------------------------------------------------------------------------
\* The page.

Submit(url) ==
    /\ ~previewDisabled
    /\ preview' = Sent("preview", url, None, None, None)
    /\ shown' = FALSE
    /\ previewDisabled' = TRUE
    /\ UNCHANGED <<persistent, limiterVars, icon, page, selectedIcon, format, downloadDisabled>>

\* renderPreview lists the formats of the selected icon anew.
Render_KeepsFormat(u) ==
    /\ selectedIcon' = u
    /\ format' \in IF format = None THEN AllowedTypes(u) ELSE {format}
Render(u) ==
    /\ selectedIcon' = u
    /\ format' \in AllowedTypes(u)

ReceivePreview_NoFinally ==
    /\ Settled(preview)
    /\ preview' = None
    /\ IF preview.stage = "answered" /\ preview.status = 200
       THEN /\ page' = [icons |-> preview.icons, recommended |-> preview.recommended,
                        token |-> preview.token]
            /\ Render(preview.recommended)
            /\ shown' = TRUE
            /\ previewDisabled' = FALSE
       ELSE UNCHANGED <<page, selectedIcon, format, shown, previewDisabled>>
    /\ UNCHANGED <<persistent, limiterVars, icon, downloadDisabled>>

ReceivePreview ==
    /\ Settled(preview)
    /\ preview' = None
    /\ previewDisabled' = FALSE
    /\ IF preview.stage = "answered" /\ preview.status = 200
       THEN /\ page' = [icons |-> preview.icons, recommended |-> preview.recommended,
                        token |-> preview.token]
            /\ \E u \in preview.icons :
                 /\ preview.recommended \in preview.icons => u = preview.recommended
                 /\ Render(u)
            /\ shown' = TRUE
       ELSE UNCHANGED <<page, selectedIcon, format, shown>>
    /\ UNCHANGED <<persistent, limiterVars, icon, downloadDisabled>>

\* A click on an icon of the list.
Choose(u) ==
    /\ shown /\ u \in page.icons
    /\ Render(u)
    /\ UNCHANGED <<persistent, limiterVars, preview, icon, page, shown,
                   previewDisabled, downloadDisabled>>

PickFormat(f) ==
    /\ shown /\ f \in AllowedTypes(selectedIcon)
    /\ format' = f
    /\ UNCHANGED <<persistent, limiterVars, preview, icon, page, selectedIcon, shown,
                   previewDisabled, downloadDisabled>>

\* An image of the page loads through the proxy.
LoadImage(u) ==
    /\ icon = None /\ page # None /\ u \in page.icons
    /\ icon' = Sent("proxy", u, page.token, u, None)
    /\ UNCHANGED <<persistent, limiterVars, preview, pageVars>>

Download ==
    /\ icon = None /\ shown /\ ~downloadDisabled
    /\ icon' = Sent("download", selectedIcon, page.token, selectedIcon, format)
    /\ downloadDisabled' = TRUE
    /\ UNCHANGED <<persistent, limiterVars, preview, page, selectedIcon, format, shown,
                   previewDisabled>>

\* Another client of the API, which may pair any URL with any token it has
\* and leave out the format.
CallAPI(kind, u, token, tokenURL) ==
    /\ icon = None
    /\ icon' = Sent(kind, u, token, tokenURL, None)
    /\ UNCHANGED <<persistent, limiterVars, preview, pageVars>>

ReceiveIcon ==
    /\ Settled(icon)
    /\ icon' = None
    /\ downloadDisabled' = (downloadDisabled /\ icon.kind # "download")
    /\ UNCHANGED <<persistent, limiterVars, preview, page, selectedIcon, format, shown,
                   previewDisabled>>

----------------------------------------------------------------------------

\* What a preview finds: distinct candidates in some order, one at least.
Ranking == {c \in SeqOf(URL, Cardinality(URL)) : c # <<>> /\ IsInjective(c)}

\* One URL of another client's is as good as any: Verify compares them only.
SomeURL == CHOOSE u \in URL : TRUE

Serve ==
    \/ AdmitPreview \/ AdmitIcon \/ HandlePreview \/ HandleIcon
    \/ PreviewFails \/ IconFails \/ \E b \in Bytes : IconFetched(b)
    \/ \E c \in Ranking : PreviewFetched(c)

Receive == ReceivePreview \/ ReceiveIcon

Next ==
    \/ Serve \/ Receive \/ Restart \/ Tick
    \/ Submit(None) \/ Submit("page")
    \/ \E u \in URL : Choose(u) \/ LoadImage(u)
    \/ \E f \in Format : PickFormat(f)
    \/ Download
    \/ \E kind \in {"proxy", "download"}, u \in {SomeURL, None} : CallAPI(kind, u, None, None)
    \/ /\ page # None
       /\ \E v \in page.icons \ {SomeURL} : CallAPI("proxy", SomeURL, page.token, v)

\* The server serves every request: a fetch ends, if only in the failure its
\* timeout brings.  The browser settles every request.
PreviewProgress == AdmitPreview \/ HandlePreview \/ PreviewFails
IconProgress == AdmitIcon \/ HandleIcon \/ IconFails

Spec == /\ Init /\ [][Next]_vars
        /\ WF_vars(PreviewProgress) /\ WF_vars(IconProgress)
        /\ WF_vars(ReceivePreview) /\ WF_vars(ReceiveIcon)

----------------------------------------------------------------------------

\* What the page shows has the form it relies on; the icon it marks as
\* recommended is one of those it lists.
TypeOK ==
    /\ persistent \in BOOLEAN
    /\ preview \in Request \union Response \union {None}
    /\ icon \in Request \union Response \union {None}
    /\ page \in Page \union {None} /\ (page # None => page.recommended \in page.icons)
    /\ selectedIcon \in URL \union {None}
    /\ format \in Format \union {None}
    /\ shown \in BOOLEAN /\ previewDisabled \in BOOLEAN /\ downloadDisabled \in BOOLEAN

\* A token opens the icon it came with until it expires, for the proxy and
\* for downloads, whatever happens in between: it is refused only when older
\* than TTL, or when an ephemeral secret was lost in a restart.
TokensAreHonoured ==
    [][At(icon, "handling") /\ At(icon', "answered") /\ icon'.status = 403 =>
         \/ icon.token = None \/ icon.tokenURL # icon.url
         \/ icon.token.age > TTL
         \/ icon.token.restarted /\ ~persistent]_vars

\* The service fetches an icon only for a token that a preview issued for that
\* very URL, no longer than TTL ago and under the present secret.
FetchesAreAuthorised ==
    [][At(icon, "handling") /\ At(icon', "fetching") =>
         /\ icon.token # None /\ icon.tokenURL = icon.url
         /\ icon.token.age <= TTL
         /\ icon.token.restarted => persistent]_vars

\* What the page asks for is not refused as inconvertible when the icon is
\* sound and what its URL and content type said: the formats offered from the
\* claim alone, the choice rendered anew for each icon and the conversion of
\* what arrives later fit together.
OfferedDownloadsConvert ==
    icon # None /\ icon.kind = "download" /\ icon.stage = "answered" /\ icon.genuine =>
        icon.status # 400

\* A button that was disabled for a request is enabled again, also when the
\* service is restarted under it.
ButtonsComeBack ==
    /\ previewDisabled ~> ~previewDisabled
    /\ downloadDisabled ~> ~downloadDisabled

\* "Security headers are set on every response" (docs/api.md).
SecurityHeadersOnEveryResponse ==
    \A r \in {preview, icon} \ {None} : r.stage = "answered" => r.secure
============================================================================
