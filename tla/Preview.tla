------------------------------ MODULE Preview ------------------------------
(***************************************************************************)
(* Icon discovery: Fetcher.Preview with DiscoverFromHTML, the manifest,    *)
(* the content-type probes and the ranking.  One request is followed from  *)
(* the page to the result; its 15 second context can expire between any    *)
(* two steps, and every network call can fail.                             *)
(*                                                                         *)
(* A link is the record of its resolved URL, rel, declared size (the score *)
(* of the sizes attribute) and declared type ("" when there is none).      *)
(***************************************************************************)
EXTENDS Naturals, SequencesExt

CONSTANTS
    Url,          \* what links and manifests can resolve to
    Link,         \* <link> elements a page may carry; url None: does not resolve
    ManifestIcon, \* icons a manifest may list, as links with rel "manifest"
    ImageUrl,     \* URLs whose path ends in .png, .ico, ...
    Fallback,     \* the page's /favicon.ico
    None,
    MaxLinks,     \* bound: links in a page, icons in a manifest
    MaxHTMLIconCandidates, MaxManifestIcons, MaxTotalCandidates, MaxContentTypeProbes

\* 32 + 1 <= 48: a page's links never crowd out the fallback.
ASSUME LimitsAssumption ==
    /\ MaxHTMLIconCandidates \in Nat /\ MaxManifestIcons \in Nat
    /\ MaxTotalCandidates \in Nat /\ MaxContentTypeProbes \in Nat
    /\ MaxHTMLIconCandidates < MaxTotalCandidates

ASSUME CandidateAssumption ==
    /\ \A c \in Link \union ManifestIcon :
           c \in [url : Url \union {None}, rel : {c.rel}, size : Nat, type : {c.type}]
    /\ Fallback \in Url /\ None \notin Url

VARIABLES
    skipProbes,  \* the desktop engine does not probe
    expired,     \* the request's context
    stage,       \* what Preview does next
    candidates, next, probes,
    probed,      \* history: URLs a probe was spent on
    result

vars == <<skipProbes, expired, stage, candidates, next, probes, probed, result>>

----------------------------------------------------------------------------

Urls(list) == {list[i].url : i \in DOMAIN list}

IsIconRel(rel) == rel # "stylesheet"

RelPriority(rel) ==
    CASE rel = "icon" -> 10 [] rel = "manifest" -> 15 [] rel = "apple-touch-icon" -> 20
      [] rel = "mask-icon" -> 30 [] rel = "fallback" -> 100
      [] rel = "fluid icon" -> 40 [] OTHER -> 90

\* The walk over the links in document order.
AddLink(list, link) ==
    IF /\ link.url # None /\ IsIconRel(link.rel)
       /\ Len(list) < MaxHTMLIconCandidates
       /\ link.url \notin Urls(list)
    THEN Append(list, link) ELSE list

FallbackLink == [url |-> Fallback, rel |-> "fallback", size |-> 0, type |-> ""]

WithFallback(list) ==
    IF Fallback \notin Urls(list) /\ Len(list) < MaxTotalCandidates
    THEN Append(list, FallbackLink) ELSE list

\* A loop over items that may add each of them to a list.
Collect(Add(_, _), list, items) ==
    LET after[n \in 0 .. Len(items)] == IF n = 0 THEN list ELSE Add(after[n - 1], items[n])
    IN  after[Len(items)]

DiscoverFromHTML(links) == WithFallback(Collect(AddLink, <<>>, links))

\* mergeCandidates; the loop breaks at the cap, so what follows is dropped.
AddIcon_Uncapped(list, icon) ==
    IF icon.url \notin Urls(list) THEN Append(list, icon) ELSE list
AddIcon(list, icon) ==
    IF icon.url \notin Urls(list) /\ Len(list) < MaxTotalCandidates
    THEN Append(list, icon) ELSE list

\* fetchManifestIcons: the cap counts the icons whose URL resolves.
AddUsable(list, icon) ==
    IF icon.url # None /\ Len(list) < MaxManifestIcons THEN Append(list, icon) ELSE list

ManifestIcons(icons) == Collect(AddUsable, <<>>, icons)

MergeCandidates(list, icons) == Collect(AddIcon, list, icons)

\* sort.SliceStable by priority, then by size, largest first.
Before(list, i, j) ==
    LET p == RelPriority(list[i].rel)
        q == RelPriority(list[j].rel)
    IN  \/ p < q
        \/ p = q /\ list[i].size > list[j].size
        \/ p = q /\ list[i].size = list[j].size /\ i < j

Rank(list, i) == Cardinality({j \in DOMAIN list : Before(list, j, i)}) + 1

RankCandidates(list) ==
    [k \in DOMAIN list |-> list[CHOOSE i \in DOMAIN list : Rank(list, i) = k]]

Capped(list) ==
    IF Len(list) > MaxTotalCandidates THEN SubSeq(RankCandidates(list), 1, MaxTotalCandidates) ELSE list

----------------------------------------------------------------------------

Init ==
    /\ skipProbes \in BOOLEAN
    /\ expired = FALSE
    /\ stage = "page"
    /\ candidates = <<>> /\ next = 1 /\ probes = 0 /\ probed = {}
    /\ result = None

Expire ==
    /\ ~expired /\ stage # "done"
    /\ expired' = TRUE
    /\ UNCHANGED <<skipProbes, stage, candidates, next, probes, probed, result>>

Fail ==
    /\ stage' = "done"
    /\ result' = [ok |-> FALSE, icons |-> <<>>, best |-> None]
    /\ UNCHANGED <<skipProbes, expired, candidates, next, probes, probed>>

\* The page cannot be fetched, or the context expired while it was.
PageFails == stage = "page" /\ Fail

PageRead(links, manifest) ==
    /\ stage = "page" /\ ~expired
    /\ candidates' = DiscoverFromHTML(links)
    /\ stage' = IF manifest THEN "manifest" ELSE "probe"
    /\ UNCHANGED <<skipProbes, expired, next, probes, probed, result>>

\* A manifest that cannot be fetched or parsed is passed over.
ManifestRead(icons) ==
    /\ stage = "manifest"
    /\ expired => icons = <<>>
    /\ candidates' = MergeCandidates(candidates, ManifestIcons(icons))
    /\ stage' = "probe"
    /\ UNCHANGED <<skipProbes, expired, next, probes, probed, result>>

\* The probing loop.
Probing == stage = "probe" /\ ~skipProbes /\ next <= Len(candidates)
HasImageExtension(url) == url \in ImageUrl
Unknown(c) == c.type = ""
WorthProbing(c) == ~HasImageExtension(c.url) \/ probes < MaxContentTypeProbes \div 2

LoopExpired == Probing /\ expired /\ Fail

SkipCandidate ==
    /\ Probing /\ ~expired
    /\ \/ ~Unknown(candidates[next])
       \/ probes < MaxContentTypeProbes /\ ~WorthProbing(candidates[next])
    /\ next' = next + 1
    /\ UNCHANGED <<skipProbes, expired, stage, candidates, probes, probed, result>>

\* A HEAD and then a small GET; nothing is learnt when both fail.
ProbedType == {"", "image"}

ProbeCandidate(type) ==
    /\ Probing /\ ~expired /\ Unknown(candidates[next])
    /\ probes < MaxContentTypeProbes
    /\ WorthProbing(candidates[next])
    /\ candidates' = [candidates EXCEPT ![next].type = type]
    /\ probes' = probes + 1
    /\ probed' = probed \union {candidates[next].url}
    /\ next' = next + 1
    /\ UNCHANGED <<skipProbes, expired, stage, result>>

LoopEnds ==
    /\ stage = "probe"
    /\ Probing => ~expired /\ Unknown(candidates[next]) /\ probes >= MaxContentTypeProbes
    /\ stage' = "rank"
    /\ UNCHANGED <<skipProbes, expired, candidates, next, probes, probed, result>>

RankExpired == stage = "rank" /\ expired /\ Fail

\* BestCandidate and RankCandidates of what is left after the cap.
Ranked_EvenLate ==
    /\ stage = "rank"
    /\ stage' = "done"
    /\ LET ranked == RankCandidates(Capped(candidates))
       IN  result' = [ok |-> TRUE, icons |-> ranked, best |-> ranked[1].url]
    /\ UNCHANGED <<skipProbes, expired, candidates, next, probes, probed>>

Ranked ==
    /\ stage = "rank" /\ ~expired
    /\ stage' = "done"
    /\ LET ranked == RankCandidates(Capped(candidates))
       IN  result' = [ok |-> TRUE, icons |-> ranked, best |-> ranked[1].url]
    /\ UNCHANGED <<skipProbes, expired, candidates, next, probes, probed>>

Step ==
    \/ PageFails
    \/ \E links \in BoundedSeq(Link, MaxLinks), manifest \in BOOLEAN : PageRead(links, manifest)
    \/ \E icons \in BoundedSeq(ManifestIcon, MaxLinks) : ManifestRead(icons)
    \/ LoopExpired \/ SkipCandidate
    \/ \E type \in ProbedType : ProbeCandidate(type)
    \/ LoopEnds \/ RankExpired \/ Ranked

Next == Expire \/ Step

Spec == Init /\ [][Next]_vars /\ WF_vars(Step)

----------------------------------------------------------------------------

\* What a page and its manifest offer, and what it is after a probe.
Candidate == {c \in Link \union ManifestIcon : c.url # None} \union {FallbackLink}
Known == Candidate \union {[c EXCEPT !.type = t] : c \in {d \in Candidate : Unknown(d)}, t \in ProbedType}

Result == [ok : BOOLEAN, icons : Seq(Known), best : Url \union {None}]

ASSUME NoneAssumption ==
    /\ None \notin Result
    /\ None \notin [ok : BOOLEAN, icons : Seq([url : Url, guess : BOOLEAN]), best : Url \union {None}]

TypeOK ==
    /\ skipProbes \in BOOLEAN /\ expired \in BOOLEAN
    /\ stage \in {"page", "manifest", "probe", "rank", "done"}
    /\ candidates \in Seq(Known)
    /\ next \in 1 .. (MaxTotalCandidates + 1)
    /\ probes \in 0 .. MaxContentTypeProbes
    /\ probed \subseteq Url
    /\ result \in Result \union {None}

\* The answer as IconChoice has it: URLs, and whether they are guesses.
Seen(c) == [url |-> c.url, guess |-> c.rel = "fallback"]

Answered ==
    IF result = None THEN None
    ELSE [result EXCEPT !.icons = [i \in DOMAIN result.icons |-> Seen(result.icons[i])]]

Promise == INSTANCE IconChoice WITH
    Limit <- MaxTotalCandidates,
    NoAnswer <- None,
    answer <- Answered,
    late <- expired

\* Every preview ends with what IconChoice promises, however links, manifest and
\* fallback overlap and whatever the caps cut off; and after an expiry between
\* any two steps it ends with an error, never with part of a list nor a late one.
ImplementsIconChoice == Promise!Spec

\* "Prefer probing extensionless URLs": no probe goes to a URL whose
\* extension tells the type while an extensionless one goes without.
ExtensionlessFirst ==
    stage = "rank" /\ ~skipProbes =>
        ~ \E i, j \in DOMAIN candidates :
              /\ candidates[i].url \in probed /\ HasImageExtension(candidates[i].url)
              /\ Unknown(candidates[j]) /\ candidates[j].url \notin probed
              /\ ~HasImageExtension(candidates[j].url)
============================================================================
