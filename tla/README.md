# Favicon Fisher in TLA+

Favicon Fisher finds the icons of a web site and saves them.  The same Go core
serves a command line tool (`fvf`), a web service with a page (`fvf-web`) and,
as a helper process (`fvf-engine`), a macOS menu-bar app; a Cloudflare Worker
re-implements the web service in TypeScript.  This directory holds TLA+ models
of the parts where steps of several actors, failures and limits meet, the TLC
configurations that check them on small instances, and TLAPS proofs of the most
important properties for every instance.

Run from this directory:

    tlc -workers 2 -config Picker.cfg FisherModel      # any run of the table below
    tlapm FisherModelProofs.tla                        # any of the *Proofs modules

The longest run (`WebService`) takes about two minutes, the proofs a few.

`PROJECT.json` lists, per definition, the source lines it models (`map`), the
runs, a mutated definition for every property that the property must catch
(`mutants`), the hazards of the code and the properties about them, and the
disagreements between the code and its documents that were met (`findings`).

## 1. Inventory

| Component | Source | State it keeps | Operations | What is hard | Correct when |
| --- | --- | --- | --- | --- | --- |
| View model of the app | `macos/Sources/FaviconFisher/FisherModel.swift` | busy, candidates, loaded icons, failures, selection, format, generation, the running task | discover, select, copy, save, cancel, copy link | code between awaits is atomic, anything can happen at an await; cancelled tasks resume later | late results are silent; icons belong to the page shown; busy is true exactly while something runs |
| Engine client | `macos/Sources/FisherCore/EngineClient.swift` | one child process, two pipes, flags under a lock, two timers | call, cancel | threads, full pipes, timeouts against exits, a helper that ignores SIGTERM | every call returns once; output is whole; no helper survives |
| Engine helper | `cmd/fvf-engine`, `internal/engine` | a cache directory, shared by the helpers of one panel | discover, fetch, export | partial artifacts, cancelled, timed out or killed between system calls, parent gone, a decoder that hangs | answered files stay; what is offered can be exported; no orphan |
| Image inspection and conversion | `internal/convert`, `internal/engine`, `internal/web/dto.go` | none | inspect, convert, thumbnail, offer | offers are made in one place and honoured in another | what is offered can be had |
| Rate limiter | `internal/security/ratelimit.go` | hits and window start per client address | allow, sweep, stop | window boundaries, rounding, sweeper against requests, forged headers | a window's limit holds; advice to retry is never too short; memory is given back |
| Guarded HTTP client | `internal/security/ssrf.go` | connection pool | request, redirect | DNS answers change between check and dial; chains of redirects | connects to permitted addresses only; ends |
| Preview | `internal/fetcher/fetcher.go`, `discovery.go` | candidate list, probe budget | discover, merge, probe, cap, rank | caps at several places, a deadline in the middle | distinct, bounded, best first, fallback kept; after the deadline an error |
| Icon download | `internal/fetcher/fetcher.go`, `download.go`, `cmd/fvf` | the output directory, shared with other processes | fetch one, fetch all | name collisions, crash between create and write, failed writes | a reported file is that icon; the best that could be had |
| Web service | `internal/web`, `internal/security/sign.go`, `headers.go`, `cmd/fvf-web` | limiter memory, signing secret | preview, download, proxy | tokens against time and restarts, order of middlewares, formats offered before the bytes are seen | only signed icons are fetched; tokens and offers keep their promise |
| Page of the service | `internal/web/static/app.ts` | answer shown, selection, format | submit, choose, download | answers may be errors, late or lost | offers only what can be had; buttons come back |
| Worker page | `worker/public/app.ts` | the same, and a byte cache | the same, converting in the browser | the selection is read again after an await | a file is the icon it is named after |
| Worker | `worker/src` | limiter map | the same API | no sweeper | as the web service |
| History | `macos/Sources/FisherCore/HistoryStore.swift` | list of pages in user defaults | load, record, clear, enable | the cap, duplicates, the switch | newest first, no duplicates, nothing while disabled |
| Tap and release scripts | `scripts/`, `.github/workflows` | a git clone | update, push | concurrent pushes | last release wins |

Interaction: the view model awaits one engine call (or a batch of them) per
operation; each call is one `EngineProcess` talking to one `fvf-engine` over
pipes; the helper, the CLI and the web handlers run the same preview and icon
reading over the guarded HTTP client; the web handlers sit behind the access
log, the limiter and the security headers, in that order; the page talks to them over
HTTP and carries tokens from a preview to the requests for icons.

## 2. Modules

| Module | Models | Built on |
| --- | --- | --- |
| `Panel` | abstract: one operation at a time, to the page and the icon on show, and each ends | |
| `FisherModel` | the app's view model | refines `Panel` |
| `EngineCall` | abstract: a call returns once, and not a value once cancelled | |
| `EngineProcess` | the engine client with an arbitrary helper | refines `EngineCall` |
| `Formats` | which bytes are accepted, converted and offered (pure) | |
| `EngineService`, `MCEngineService` | the helpers of a panel over their cache directory | `Formats` |
| `WindowLimiter` | abstract: at most MaxHits grants per window and client | |
| `RateLimiter` | the limiter's map, headers, clock arithmetic and sweeper | refines `WindowLimiter` |
| `SafeFetch` | the guarded HTTP client | |
| `IconChoice` | abstract: what a preview promises | |
| `Preview`, `MCPreview` | candidate discovery and probing | refines `IconChoice` |
| `IconDownload`, `MCIconDownload` | `fvf` processes saving into a directory | |
| `WebService`, `MCWebService` | page, middleware, handlers, signer, conversion, restarts | `WindowLimiter`, `Formats` |
| `WorkerPage` | the Worker's page | |
| `FisherModelProofs`, `EngineProcessProofs`, `EngineServiceProofs`, `RateLimiterProofs`, `SafeFetchProofs`, `PreviewProofs`, `IconDownloadProofs`, `WebServiceProofs` | theorems about the module of that name | |

The parts of the app compose by assume and guarantee.  `FisherModel` takes an
awaited call to be a task that resumes at some time with an answer or an error;
`EngineProcess` shows that a call is one (`ImplementsEngineCall`) and
leaves the helper arbitrary; `EngineService` says what the helpers leave in the
directory that `FisherModel`'s icons point into.  `WebService` uses the limiter
by its abstract specification, which `RateLimiter` implements.

### FisherModel

The class is `@MainActor`: what runs between two awaits is one action.  A
button's handler is one action (`Discover`, `Select`, `Export`, `Cancel`,
`CopyLink`, `PickFormat`) and so is each way its `Task` can resume: `PageRead`,
`BatchDone`, `IconFetched`, `Exported`, the catch clauses `DiscoverThrows`,
`SelectThrows`, `ExportThrows`, and `SupersededResumes` for a task whose token
is no longer the generation.  A task cancelled by the user stays in `tasks`
until it resumes, any time later.  The generation UUID is a natural; the cache
directory of a discovery is named by its token; a candidate is the pair of its
discovery and its id, since ids repeat from page to page.  The outcomes of one
fetch (`Fetched`) are those that lead to different states: an error, an unusable
path, a bitmap with or without a thumbnail, an ICO with one, a file without one.
The modal save panel runs its own event loop, but the tasks of the main actor
wait meanwhile; saving is one action.  History is
write-only for the rest of the class and left out; so are texts and dragging.
`pruneCache`, which runs at launch only, is `Prune` of `EngineService`.

`ImplementsPanel` hides tasks, tokens, flags, failures and formats: `Activity` is what the newest
task does while the panel is busy, `Shown` the icons loaded, `Selected` the icon whose card is
selected.  A superseded or cancelled task then does nothing, and a failure is an end.  What
`Panel` promises and no invariant says: a page is read after and because of a discovery that was
the newest to the end and is newer than the page on show, its first icons arrive together with
the selection of one of them, a click on an icon that is there costs no fetch, and a fetch adds
the selected icon to those on show and changes no other.

### EngineProcess

One `call` with all its threads: the runner (`Launch` to `CallReturns`, one
action per locked section or blocking call), the two collectors, the watchdog in
two steps (a work item that has begun cannot be cancelled any more), the delayed
`SIGKILL`, and the task's cancellation handler.  The helper is arbitrary: it
writes what it likes to both pipes, blocks when one is full, ignores `SIGTERM`,
exits with any status or never.  `ReadFails` and a failed `WriteRequest` are the
error paths that cancel.  `ImplementsEngineCall` maps the abstract outcome to
`outcome` and `cancelled` to the awaiting task's flag.

### Formats

The decisions of `internal/convert`, `engine.go` and `dto.go` as operators over
the five things they look at in an icon's bytes: what `SniffFormat` makes of the
magic bytes, whether the rest parses, whether the picture is within the limits,
whether it is a GIF whose first frame has no pixels (`blank`: it decodes and
cannot be encoded as PNG), and whether such a frame has one side over 512 (`long`:
`Thumbnail` then scales it, with sides of at least 1, to something that can).  `Inspects`,
`Converts` and `Thumbnails` are the three
entry points; `AllowedFormats` is what the engine offers once it has the bytes,
`AllowedTypesFor` what the web service offers from the URL's suffix and the content
type alone.  `EngineServiceProofs` and
`WebServiceProofs` relate them.

### EngineService

Each helper serves one request, as the app starts a new process per call.  Its
steps are its system calls on the shared directory: read the request, obtain
bytes (`ReadIcon` from the site, or the artifact an export names), create the
artifact exclusively, write it, create and write the preview, answer.  Between
any two the app may send `SIGTERM` (`Terminate`), die (`AppDies`, after which the
goroutine on stdin sees EOF: `StdinCloses`), the deadline may pass, a read or write may fail
(`ObtainFails`, of an export as of a fetch; `CreateFails`, `WriteFails`), and the process
may be killed, by the app's delayed `SIGKILL`, by `main`'s watchdog or otherwise.
`Hang` is a decoder that never returns; only the watchdog helps.  The context is
looked at before the artifact is created and not afterwards, as in `writeArtifact`.
A name drawn may be taken (`Drawn`), although twelve random bytes make that
improbable.  What is left behind (`LeftoversAreAccountedFor`) is the partial file of a killed
writer, the artifact of a failed preview, and the whole files of an answer that came after the
app's death or cancellation and that nobody took.  `Prune` deletes the directory when the app is launched again, while
orphans of the former one may still write into it.

### RateLimiter

`now - start` is kept as an age that `Tick` increments and that saturates once
it makes no difference.  `OpenWindow`, `Deny` and `CountHit` are the three
returns of `AllowWithRetry`, which holds the lock throughout; `RetryAfter` truncates to seconds
and adds one, which is never too short and, where a whole number of seconds is left, one too many; `Sweep` is the body
of the ticker's case, with the ticker's phase independent of the windows.  `Stop`
and `CleanerReturns` end the goroutine, which may still take a waiting tick.
`ClientIP` chooses the key from the peer and the three headers: a client may send any,
and a trusted proxy is assumed to name its client in one of them and to remove
those that outrank it, an assumption about the deployment that `FVF_TRUSTED_PROXIES` leaves to
its operator.  Replies and grants are recorded by the client a request really came from, so
a header that bought a second window would break the refinement.
`recent` is history: the grants to each client in the last one, two, and so on up to a
window's ticks.  `WindowLimiter` has no headers and no sweeper.

### SafeFetch

A request is validated (`Validate`: form, then every address of the lookup),
connected (`Dial`: a new lookup, the first permitted address that answers, or
`Reuse` of a pooled connection), answered, and possibly redirected (`Redirect`:
hop limit first, then validation).  Each lookup returns any set of addresses.
The pool starts with any connections other requests of the same client may have
left.  `TooMany` keeps the code's comparison: with the limit 5, four redirects
are followed and the fifth is refused, one fewer than the comment in `limits.go`
suggests.  Not modelled: an HTTP proxy (`--proxy`, `HTTP_PROXY`), with which the
address checked at dialling is the proxy's.

### Preview

`PageRead` is the page's response with `DiscoverFromHTML`, `ManifestRead` the
manifest with the merge; `ProbeCandidate` and `SkipCandidate` are one iteration
of the probe loop, `LoopEnds`, `Capped` and `Ranked` what follows; `Expire` is the
context's deadline at any time, after which the loop and the ranking give up (`LoopExpired`,
`RankExpired`).
Links, manifest icons and types are members of small sets; a URL that does not
resolve is `None`.  The code's loops over links and icons are recursive functions over the
length (`Collect`), its stable sort is a candidate's rank (`Rank`): how many come before it.
`ImplementsIconChoice` hides all of it and keeps the answer and the deadline: an error,
and nothing else once the deadline has passed, or a list of distinct URLs within the limit,
headed by the recommended one, with the fallback in it and no guess before a declared icon.

### IconDownload

`Create` and `CreateFails` are one `OpenFile` with `O_EXCL`; the suffix counts the
names tried.  `Written`, `WriteFails` and `RemovePartial` follow.  `Killed` may happen
between any two of them.  Which parts make a name matters only for which icons
share one; the instance lets both candidates share it.  Removing the file just
created is assumed to succeed.  `downloadedURLs` never skips anything, because
the candidates of a preview have distinct URLs (`ImplementsIconChoice` of `Preview`).

### WebService

A request is sent, admitted or denied by the limiter (the abstract one), handled,
and answered; the answers are then received by the page.  `Restart` loses requests
in flight, the limiter's memory and, without `FVF_SIGNING_SECRET`, the secret.  A
token is the number of seconds it has left, whether the secret still knows it and
two history fields.  Formats are offered from `Claim`, what an icon's URL and
content type say; a download then fetches any bytes at all (`IconFetched`) and
converts them.  `genuine` is history: the icon was sound and what it was claimed to
be.  `CallAPI` lets other clients send requests that the page
would not: without a URL, a format or a token, and with a token of another icon (of one
URL, as `Verify` only compares them).  A blank URL or format is answered 400
before the token is looked at.  The page's images
load independently in the browser; one icon request at a time is in flight here.

### WorkerPage

The form, the choice of icon and format, and the download listener with its two
awaits (the bytes, unless cached, and the canvas), between which the user goes on
using the page.  Choosing an icon lists its formats anew and selects the first (`FirstTypes`).
`Save` names the file after what is selected then.

## 3. Runs

| Run | Instance | Shows |
| --- | --- | --- |
| `Picker` | 2 generations, 3 candidates in batches of 2, 2 task slots | late tasks are silent; icons belong to the page; busy is honest; formats are offered; exports are of what is shown; a card is loaded or failed, not both; results last until a newer page was read; refinement of `Panel`, which becomes idle again and again |
| `PickerUnusable` | 1 generation, 2 candidates in batches of 1 | violated: an unusable clicked icon is not marked |
| `EngineService` | 2 helpers, 4 file names, sites that send WebP, ICO, a GIF without pixels of either length, or an oversized PNG | answered files stay; leftovers are accounted for; offers are exported, of GIFs without pixels the original only; no orphan |
| `EngineProcess` | pipes of 1 chunk, limit 1, up to 2 chunks per pipe | no helper left, only whole output of pipes read to their end, pipes drained, refinement of `EngineCall` with liveness |
| `RateLimiter` | a client and a trusted proxy, 2 hits, window of 3 ticks, 2 ticks to the second | two windows' burst bound, Retry-After never too short and at most a second too long, sweeping, refinement of `WindowLimiter` |
| `Preview` | up to 3 links and 3 manifest icons, caps of 2, 2 and 4 candidates, 2 probes | refinement of `IconChoice`, the error after the deadline and termination included |
| `PreviewProbes` | the same | violated: probes go to extensionless URLs first |
| `SafeFetch` | 1 name, 3 addresses of every kind, limit 3 | permitted connections, validated hops, termination |
| `WebService` | 3 icons (a bitmap by suffix, a vector by type, one unknown), TTL 1, 1 request per 1 second window | offers convert, tokens are honoured, fetches are authorised, buttons come back |
| `WebHeaders` | the same | violated: headers on every response |
| `WorkerPage` | 1 SVG and 2 bitmaps | violated: a file is what its name says |
| `IconDownload` | 2 processes, 2 candidates sharing a name, 3 variants of it | kept files, no empty files, best icon |

**Bounds.**  Two task slots hold one live task and one that is still unwinding,
and two generations let results of one page arrive while the next is read or on
show; more of either only add superseded tasks, whose silence is proved for any
number of them (`StaleSilence`), as are all invariants of that run.
Three candidates in batches of two cover a first, a last and a short batch.  One chunk of pipe and of limit with two to write reaches full
pipes, exact fits and overflow.  Two helpers are a fetch and an export of what it
answered, or two that draw the same name; each writes two files, hence four names.
The sites' answers are one of each kind the engine treats differently.  A window of three ticks at two to the second
makes Retry-After round both ways, and the age saturates only past the age at which
an entry is swept.  The caps of `Preview` are below what pages offer, so each cuts.
Three variants of a name suffice for two processes with two icons each to
collide and to run out.  Deadlock checking is off where a model really ends (a
call, a request, a preview, a command, the helpers that are ever started) and in `FisherModel`, whose generations
are used up in the end; it is on for the limiter, the service and the Worker's page.

**Fairness.**  `FisherModel`: every unfinished task eventually resumes, which is
what `EngineCall`'s liveness, shown of `EngineProcess`, gives; nothing is assumed of
the user.  `EngineProcess`: threads and timers run; nothing of the helper.
`EngineService`: processes are scheduled and system calls return, EOF on stdin is
noticed, the network gives up once the context has ended (and not necessarily
before), and the watchdog fires where a decoder hangs; that a deadline passes is not
needed and not assumed.
`RateLimiter`: time passes and the cleanup goroutine is scheduled.  `SafeFetch` and
`Preview`: an operation does not stop by itself, as timeouts bound each wait
(10 s dial, 15 s request, 15 s preview).  `WebService`: requests are
served or fail (server timeouts, `cmd/fvf-web/main.go`) and the browser settles
each fetch; restarts, ticks and the user are free.  `IconDownload` and `WorkerPage` have
no liveness property and state none.

**Every property is about something that can break.**  For each one `PROJECT.json` names a
plausible slip in a mapped definition (a dropped guard, an off-by-one, a missing reset)
with which TLC finds it violated.  These variants stand in the modules next to
the definition, with a suffix after an underscore, and are used nowhere else.

## 4. Disagreements between code and documents

1. `FisherModel.swift:124` takes a clicked candidate off the failures right after
   `install` (line 133) may have put it there, and reports it as ready; the plan of the app
   says a failed candidate's card is marked (`docs/macos-menubar-plan.zh.md:105`).
2. `fetcher.go:169` probes candidates with an image extension while half of the
   budget is unspent, whether or not extensionless ones follow; the comment above it
   says extensionless ones are preferred.
3. The limiter's 429 (`ratelimit.go:179`) is written outside `SecurityHeaders`
   (`router.go:24`), while `docs/api.md:5` promises the headers on every response.
4. The Worker's page (`worker/public/app.ts:77`) reads the format before it awaits the
   icon's bytes and the selection again after it.  When the selection changes meanwhile
   (the user chooses another icon, or a new page's preview arrives), a bitmap is saved as PNG with
   the extension `.svg`, or one icon's picture
   under the other's name; `README.md:20` lets you "download the one you want".

Noticed and not made into runs:

- The redirect limit (above); `POST /api/preview`
  answers 502 where `docs/api.md:53` lists 400 for a URL that is not allowed
  (`handler.go:78`).
- A call the app cancels itself, on too much output for
  instance, ends a discovery without a message (`FisherModel.swift:109`).
- The web service offers PNG and JPEG for every `image/...` type (`dto.go:61-64`), AVIF and
  BMP included, which `Convert` then refuses; a PNG served at an `.ico` URL is offered as
  `ico` only and refused too.  `OfferedDownloadsConvert` and `HonestOffersConvert`
  therefore speak of icons that are what they are claimed to be.
- A GIF whose first frame has no pixels, and no side over 512, passes `Inspect` and fails the
  thumbnail, which leaves its artifact behind an error answer (`engine.go:211`);
  `LeftoversAreAccountedFor` names that case.
- With a side over 512 such a frame gets a thumbnail of some pixels (`thumbnail.go:21-31`), so the
  icon is stored and offered PNG and JPEG (`engine.go:208-211`); converting it to PNG fails, and
  the JPEG it yields has no pixels and is refused when stored.  `OfferedIsExported` and
  `OfferedFormatsExport` name that exception.
- Where exactly a whole number of seconds is left of a window, Retry-After is one second more than
  needed, as the seconds are truncated and then incremented (`ratelimit.go:162`);
  `RetryAfterSuffices` says so.
- Copy clears the clipboard before it reads the file (`FisherModel.swift:172`);
  `EngineClient.swift:129` tests `isRunning` and then kills the pid, which may have
  been reaped in between; `Stop` of the limiter is not atomic (`ratelimit.go:114`) but
  called once.

## 5. Proofs

All statements below hold for every value of the constants that satisfies the
named assumptions (`BoundsAssumption` and `NoneAssumption` of `FisherModel`,
`SizesAssumption` of `EngineProcess`, `SiteAssumption` and `NoneAssumption` of `EngineService`,
`LimiterAssumption` and `AbsentAssumption` of `RateLimiter`, `AddressAssumption` of `SafeFetch`,
`LimitsAssumption`, `CandidateAssumption` and `NoneAssumption` of `Preview`,
`NamesAssumption` and `NoneAssumption` of `IconDownload`, `ServiceAssumption` and
`NoneAssumption` of `WebService`), which TLC evaluates in the runs.

Each invariant is proved with a lemma per action and, under it, a step per
conjunct the action can disturb; the theorems are listed with their properties in
`PROJECT.json`.

`FisherModelProofs`: all invariants of `Picker`, `StaleTasksAreSilent` and `ResultsKeptUntilPageRead`.  The
inductive invariant is `TypeOK /\ TaskInv /\ PageInv /\ SelectionInv`.

- `TaskInv`: no task has a token from the future (`TokensPast`), so a new
  generation makes every existing task stale; the task held in `task` is of the
  present generation (`NewestTaskIsCurrent`), so what `cancel` flags is the one that
  counts; and `BusyWhileOneTaskWorks`, which is not inductive without the other two.
- `PageInv`: a live task that will install icons refers to the page on show and
  its directory (`LiveTaskOnShownPage`), without which `IconsOfShownPage` would not
  survive the resumption of a batch.
- `SelectionInv`: a task that counts has the selection to itself
  (`TaskFitsSelection`): until the first icon is there a discovery shows nothing, a
  click waits for the icon it selected, an export is of the selected one.  With it
  `FormatIsOffered`, `ExportsWhatIsShown`, `FailedNotLoaded` and
  `LoadedIconIsSelected` are preserved, and the icon a task installs was not there before
  (`ResultsAreKept`).

That `StaleSilence` holds needs the tokens only: each resumption is either of the present
generation or `SupersededResumes`.  `FirstIsLeast` shows what `First` chooses, by
well-foundedness of `<`.

`SafelyImplementsPanel` is the refinement of `Panel` without its fairness, with one lemma per action.
It adds `PageIsPast` to the invariant: a discovery that counts is newer than the page on
show.  `ActivityOfTask` and `EndIsStop` turn what a task is into what the panel does,
`FirstUsableIsThere` says that the icon a batch selects is among those it brought.

`EngineProcessProofs`: `NothingLeftBehind`, `OutputIsWhole`, types, and
`SafelyImplementsEngineCall`, the refinement without its fairness.  `RunnerInv` says what the
runner knows of the helper at each point; `OutputInv` that a good exit status comes
after the last write and the end of a pipe after the end of its only writer, which
together make collected output whole, and that a collector that gave up before the end of its
pipe has cancelled the process, which costs the value.

`EngineServiceProofs`: `OfferedFormatsExport` (what the engine stores can be exported in a
format it offers, and the export can be stored in turn, exactly when it has pixels or the
original is wanted), by cases on the magic bytes, and all invariants of its run.  An answer
promises what has to hold from the step that made it true, long before the answer:
the invariant describes the files of every helper that has not failed
(`Present`), what each helper wrote so far (`WrittenSoFar`), whose each file is and
which are partial (`Owned`), what a helper knows of its bytes (`Known`), and that exports
are asked for what fetches answered (`Requested`).  `OffersAreKept` then
follows from `OfferedFormatsExport`.

`RateLimiterProofs`: `TypeCorrect`, `RetryAfterIsRight` (never too short, and a second too
long only where a whole number of seconds is left), from what a truncating division loses,
`Implementation`: the whole refinement of `WindowLimiter`,
which has no fairness, and `TwoWindows`.  `KeyIsClient` is the lemma about headers.
The burst bound needs `WindowsInv`, which says of each client's entry what it tells about the
past: while its window is open, `hits` are the grants since it opened and a window's length
before now holds at most `MaxHits` more; once it is over, there was no grant since and at most
`MaxHits` in the last window's length; without an entry (never made, or swept) there was none.
A grant in a new window is therefore counted on top of one window's grants only.

`SafeFetchProofs`: `TypeCorrect`, `ConnectionsArePermitted`, `HopsAreValidated`.
The invariant adds that pooled connections are permitted, that the URL being
connected to or awaited was validated, and that an awaited answer has a
connection.  Permission does not follow from validation, as the lookup at dialling may
answer differently: the proof uses `Dial`'s own test alone.

`PreviewProofs`: `PreviewTypeCorrect` and `SafelyImplementsIconChoice`, the refinement of `IconChoice`
without its fairness, from `IInv`.  A loop over a list is a recursive function over its length: that
there is one (`LoopExists`) and what it keeps (`LoopKeeps`) follows by the least
counterexample, as induction is not at hand; `LinksCollected` and `UsableCollected` then
say that lists stay distinct and within their caps.  The sort is handled by counting:
ranks are distinct (`RankFollowsOrder`), an injection of `1..n` into itself is onto
(`RankSorts`), so `RankedList` is a permutation in order.  `CandidatesInv` carries distinct URLs,
the cap and the fallback from the merge to the answer.
`ProbesAreSpent` bounds what a preview asks of a site: each probe goes to a URL of its own, as what the
loop has not come to has not been probed (`Ahead`), and at most half of them to URLs with
an image's extension.

`IconDownloadProofs`: `ReportsAreTrue`, `NothingEmptyIsLeft`, `TheBestIsHad` and types.  A process
between create and write owns an empty file at its path (`OwnsItsFile`); that is why what
it writes or removes is never a file somebody reported.  `Tried` partitions the candidates a
process is through with into its icons and its failures; it rests on their being
distinct, which `NamesAssumption` takes from the preview.

`WebServiceProofs`: `ExtensionIsIrrelevant` (whether `Convert` accepts an icon never depends
on the extension of its file name), `HonestOffersConvert` (what the service offers for an
honest icon converts), `OffersConvert`, `Honoured`, `Authorised` and types.  What a token
carries agrees with its history (`TokenIsHonest`), wherever it is: in an answer, on
the page or in a request.  `PageInv` and `IconInv` say that a download in flight asks
for a format that was offered for its icon, or for none, in which case it never
comes to the conversion; `OffersConvert` then is `HonestOffersConvert`.

Model-checked only: the liveness properties (`FullPipesAreDrained`, `NoOrphanHelper`,
`StaleEntriesGo`, `RequestEnds`, `ButtonsComeBack`) and the liveness parts of `ImplementsPanel`, of
`ImplementsEngineCall` and of `ImplementsIconChoice`, as fairness and `ENABLED` are beyond the
proof system.

## 6. Not modelled

- Image decoding and scaling, HTML, XML, ICO, URL, DNS and JSON parsing and HMAC: pure
  functions, represented by what they yield (a token is what it proves, an icon what
  is said of it).
- The history store: sequential, each operation one step of the main actor on the user
  defaults, never read back by the modelled state; its unit tests reach all of it.
- The Worker's routes: the API that `WebService` models, in isolates that share
  nothing; its limiter decides as `RateLimiter` does, without a sweeper.
- Error wording, access logs, layout and styling, the app's window shell: no state
  that is read back.
- Packaging, containers, CI and the tap scripts: shell around git and `gh`.

## 7. Plan

Done, most important behaviour first: `FisherModel` over `Panel`, `EngineProcess` over `EngineCall`,
`RateLimiter` over `WindowLimiter`, `SafeFetch`, `Preview` over `IconChoice`,
`WebService` over `WindowLimiter`, `IconDownload`, `Formats`, `EngineService`, `WorkerPage`, and
the proofs above.

Left, in this order:

1. The Worker's service beside its page, with a limiter map per isolate; the history
   store with the switch thrown while a discovery runs; the tap update's retry.
