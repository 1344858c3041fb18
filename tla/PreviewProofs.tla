--------------------------- MODULE PreviewProofs ---------------------------
(***************************************************************************)
(* Icon discovery for any pages, manifests, URLs and caps: its state stays *)
(* well typed, and but for its liveness it keeps the promise of IconChoice.*)
(***************************************************************************)
EXTENDS Preview, FiniteSetTheorems, SequenceTheorems, WellFoundedInduction, TLAPS

----------------------------------------------------------------------------
\* Loops.

\* A set that has 0 and with each number the next has every natural number.
LEMMA EveryNat ==
    ASSUME NEW T, 0 \in T, \A n \in Nat : n \in T => n + 1 \in T
    PROVE  Nat \subseteq T
<1> DEFINE R == {p \in Nat \X Nat : p[1] < p[2]}
           D == Nat \ T
<1> SUFFICES ASSUME D # {} PROVE FALSE
  OBVIOUS
<1>1. IsWellFoundedOn(R, Nat)
  BY NatLessThanWellFounded DEF OpToRel
<1>2. D \subseteq Nat
  OBVIOUS
<1>3. \E m \in D : \A j \in D : <<j, m>> \notin R
  <2> HIDE DEF D, R
  <2> QED BY <1>1, <1>2, WFMin, Zenon
<1>4. PICK m \in D : \A j \in D : <<j, m>> \notin R
  BY <1>3
<1>5. m \in Nat /\ m # 0
  OBVIOUS
<1>6. m - 1 \in Nat /\ (m - 1) + 1 = m
  BY <1>5
<1>7. m - 1 \in D
  BY <1>6
<1>8. <<m - 1, m>> \in R
  BY <1>5, <1>6
<1> QED BY <1>4, <1>7, <1>8

IsRun(f, S, base, N, step) ==
    /\ f \in [0 .. N -> S]
    /\ f = [n \in 0 .. N |-> IF n = 0 THEN base ELSE step[<<f[n - 1], n>>]]

\* A loop of N rounds that stays within S has a state in S after each of them.
LEMMA LoopExists ==
    ASSUME NEW S, NEW base \in S, NEW N \in Nat, NEW step \in [S \X (1 .. N) -> S]
    PROVE  \E f : IsRun(f, S, base, N, step)
<1> DEFINE Good(m, f) == f[0] = base /\ \A n \in 1 .. m : f[n] = step[<<f[n - 1], n>>]
           T == {m \in Nat : m <= N => \E f \in [0 .. m -> S] : Good(m, f)}
<1>1. 0 \in T
  <2>1. [n \in 0 .. 0 |-> base] \in [0 .. 0 -> S] /\ Good(0, [n \in 0 .. 0 |-> base])
    OBVIOUS
  <2> QED BY <2>1
<1>2. ASSUME NEW m \in Nat, m \in T PROVE m + 1 \in T
  <2> SUFFICES ASSUME m + 1 <= N PROVE \E g \in [0 .. (m + 1) -> S] : Good(m + 1, g)
    OBVIOUS
  <2>1. PICK f \in [0 .. m -> S] : Good(m, f)
    BY <1>2
  <2> DEFINE g == [n \in 0 .. (m + 1) |-> IF n <= m THEN f[n] ELSE step[<<f[m], m + 1>>]]
  <2>2. step[<<f[m], m + 1>>] \in S
    <3>1. f[m] \in S /\ m + 1 \in 1 .. N
      BY <2>1
    <3> QED BY <3>1
  <2>3. g \in [0 .. (m + 1) -> S]
    BY <2>1, <2>2
  <2>4. g[0] = base
    BY <2>1
  <2>5. ASSUME NEW n \in 1 .. (m + 1) PROVE g[n] = step[<<g[n - 1], n>>]
    <3>1. CASE n = m + 1
      <4>1. ~ (n <= m) /\ n - 1 = m /\ m <= m /\ m \in 0 .. (m + 1) /\ n \in 0 .. (m + 1)
        BY <3>1
      <4>2. g[n] = step[<<f[m], m + 1>>] /\ g[m] = f[m]
        BY <4>1
      <4> HIDE DEF g
      <4> QED BY <3>1, <4>1, <4>2
    <3>2. CASE n # m + 1
      <4>1. n <= m /\ n - 1 <= m /\ n - 1 \in 0 .. (m + 1) /\ n \in 0 .. (m + 1) /\ n \in 1 .. m
        BY <3>2
      <4>2. g[n] = f[n] /\ g[n - 1] = f[n - 1]
        BY <4>1
      <4>3. f[n] = step[<<f[n - 1], n>>]
        BY <2>1, <4>1
      <4> HIDE DEF g
      <4> QED BY <4>2, <4>3
    <3> QED BY <3>1, <3>2
  <2> HIDE DEF g
  <2> QED BY <2>3, <2>4, <2>5
<1>3. N \in T
  <2> HIDE DEF T
  <2> QED BY <1>1, <1>2, EveryNat
<1>4. PICK f \in [0 .. N -> S] : Good(N, f)
  BY <1>3
<1>5. \A n \in 0 .. N : n = 0 \/ n \in 1 .. N
  OBVIOUS
<1> QED BY <1>4, <1>5 DEF IsRun

\* What the rounds of a loop keep is true after each of them.
LEMMA LoopKeeps ==
    ASSUME NEW S, NEW N \in Nat, NEW f, f[0] \in S,
           \A n \in 1 .. N : f[n - 1] \in S => f[n] \in S
    PROVE  \A n \in 0 .. N : f[n] \in S
<1> DEFINE T == {n \in Nat : n <= N => f[n] \in S}
<1>1. 0 \in T
  OBVIOUS
<1>2. ASSUME NEW n \in Nat, n \in T PROVE n + 1 \in T
  <2>1. CASE n + 1 <= N
    <3>1. n + 1 \in 1 .. N /\ (n + 1) - 1 = n /\ f[n] \in S
      BY <1>2, <2>1
    <3>2. f[n + 1] \in S
      BY <3>1
    <3> QED BY <3>2
  <2> QED BY <2>1
<1>3. Nat \subseteq T
  <2> HIDE DEF T
  <2> QED BY <1>1, <1>2, EveryNat
<1> QED BY <1>3

\* What AddLink keeps, the walk over the page keeps.
LEMMA LinksCollected ==
    ASSUME NEW S, NEW list \in S, NEW X, NEW items \in Seq(X),
           \A l \in S, x \in X : AddLink(l, x) \in S
    PROVE  Collect(AddLink, list, items) \in S
<1> DEFINE N == Len(items)
           step == [p \in S \X (1 .. N) |-> AddLink(p[1], items[p[2]])]
           Run(f) == f = [n \in 0 .. N |-> IF n = 0 THEN list ELSE AddLink(f[n - 1], items[n])]
           g == CHOOSE f : Run(f)
<1>1. N \in Nat /\ \A n \in 1 .. N : items[n] \in X
  OBVIOUS
<1>2. step \in [S \X (1 .. N) -> S]
  BY <1>1
<1>3. \E f : IsRun(f, S, list, N, step)
  <2> HIDE DEF step, N
  <2> QED BY <1>1, <1>2, LoopExists
<1>4. PICK f : IsRun(f, S, list, N, step)
  BY <1>3
<1>5. ASSUME NEW n \in 1 .. N PROVE step[<<f[n - 1], n>>] = AddLink(f[n - 1], items[n])
  <2>1. f[n - 1] \in S
    <3>1. f \in [0 .. N -> S]
      <4> HIDE DEF N, step
      <4> QED BY <1>4 DEF IsRun
    <3>2. n - 1 \in 0 .. N
      BY <1>1
    <3> QED BY <3>1, <3>2
  <2> QED BY <2>1
<1>6. Run(f)
  <2>1. \A n \in 0 .. N : n # 0 => n \in 1 .. N
    BY <1>1
  <2> HIDE DEF step, N
  <2> QED BY <1>4, <1>5, <2>1 DEF IsRun
<1>7. Run(g)
  BY <1>6
<1>8. Collect(AddLink, list, items) = g[N]
  BY DEF Collect
<1> HIDE DEF g
<1>9. \A n \in 0 .. N : g[n] \in S
  <2>1. 0 \in 0 .. N /\ \A n \in 1 .. N : n # 0 /\ n \in 0 .. N
    BY <1>1
  <2>2. g[0] \in S
    BY <1>7, <2>1
  <2>3. ASSUME NEW n \in 1 .. N, g[n - 1] \in S PROVE g[n] \in S
    <3>1. g[n] = AddLink(g[n - 1], items[n])
      BY <1>7, <2>1
    <3> QED BY <1>1, <2>3, <3>1
  <2> HIDE DEF N
  <2> QED BY <1>1, <2>2, <2>3, LoopKeeps
<1> QED BY <1>1, <1>8, <1>9

\* And AddUsable the loop over the manifest.
LEMMA UsableCollected ==
    ASSUME NEW S, NEW list \in S, NEW X, NEW items \in Seq(X),
           \A l \in S, x \in X : AddUsable(l, x) \in S
    PROVE  Collect(AddUsable, list, items) \in S
<1> DEFINE N == Len(items)
           step == [p \in S \X (1 .. N) |-> AddUsable(p[1], items[p[2]])]
           Run(f) == f = [n \in 0 .. N |-> IF n = 0 THEN list ELSE AddUsable(f[n - 1], items[n])]
           g == CHOOSE f : Run(f)
<1>1. N \in Nat /\ \A n \in 1 .. N : items[n] \in X
  OBVIOUS
<1>2. step \in [S \X (1 .. N) -> S]
  BY <1>1
<1>3. \E f : IsRun(f, S, list, N, step)
  <2> HIDE DEF step, N
  <2> QED BY <1>1, <1>2, LoopExists
<1>4. PICK f : IsRun(f, S, list, N, step)
  BY <1>3
<1>5. ASSUME NEW n \in 1 .. N PROVE step[<<f[n - 1], n>>] = AddUsable(f[n - 1], items[n])
  <2>1. f[n - 1] \in S
    <3>1. f \in [0 .. N -> S]
      <4> HIDE DEF N, step
      <4> QED BY <1>4 DEF IsRun
    <3>2. n - 1 \in 0 .. N
      BY <1>1
    <3> QED BY <3>1, <3>2
  <2> QED BY <2>1
<1>6. Run(f)
  <2>1. \A n \in 0 .. N : n # 0 => n \in 1 .. N
    BY <1>1
  <2> HIDE DEF step, N
  <2> QED BY <1>4, <1>5, <2>1 DEF IsRun
<1>7. Run(g)
  BY <1>6
<1>8. Collect(AddUsable, list, items) = g[N]
  BY DEF Collect
<1> HIDE DEF g
<1>9. \A n \in 0 .. N : g[n] \in S
  <2>1. 0 \in 0 .. N /\ \A n \in 1 .. N : n # 0 /\ n \in 0 .. N
    BY <1>1
  <2>2. g[0] \in S
    BY <1>7, <2>1
  <2>3. ASSUME NEW n \in 1 .. N, g[n - 1] \in S PROVE g[n] \in S
    <3>1. g[n] = AddUsable(g[n - 1], items[n])
      BY <1>7, <2>1
    <3> QED BY <1>1, <2>3, <3>1
  <2> HIDE DEF N
  <2> QED BY <1>1, <2>2, <2>3, LoopKeeps
<1> QED BY <1>1, <1>8, <1>9

\* And AddIcon the merge.
LEMMA IconsCollected ==
    ASSUME NEW S, NEW list \in S, NEW X, NEW items \in Seq(X),
           \A l \in S, x \in X : AddIcon(l, x) \in S
    PROVE  Collect(AddIcon, list, items) \in S
<1> DEFINE N == Len(items)
           step == [p \in S \X (1 .. N) |-> AddIcon(p[1], items[p[2]])]
           Run(f) == f = [n \in 0 .. N |-> IF n = 0 THEN list ELSE AddIcon(f[n - 1], items[n])]
           g == CHOOSE f : Run(f)
<1>1. N \in Nat /\ \A n \in 1 .. N : items[n] \in X
  OBVIOUS
<1>2. step \in [S \X (1 .. N) -> S]
  BY <1>1
<1>3. \E f : IsRun(f, S, list, N, step)
  <2> HIDE DEF step, N
  <2> QED BY <1>1, <1>2, LoopExists
<1>4. PICK f : IsRun(f, S, list, N, step)
  BY <1>3
<1>5. ASSUME NEW n \in 1 .. N PROVE step[<<f[n - 1], n>>] = AddIcon(f[n - 1], items[n])
  <2>1. f[n - 1] \in S
    <3>1. f \in [0 .. N -> S]
      <4> HIDE DEF N, step
      <4> QED BY <1>4 DEF IsRun
    <3>2. n - 1 \in 0 .. N
      BY <1>1
    <3> QED BY <3>1, <3>2
  <2> QED BY <2>1
<1>6. Run(f)
  <2>1. \A n \in 0 .. N : n # 0 => n \in 1 .. N
    BY <1>1
  <2> HIDE DEF step, N
  <2> QED BY <1>4, <1>5, <2>1 DEF IsRun
<1>7. Run(g)
  BY <1>6
<1>8. Collect(AddIcon, list, items) = g[N]
  BY DEF Collect
<1> HIDE DEF g
<1>9. \A n \in 0 .. N : g[n] \in S
  <2>1. 0 \in 0 .. N /\ \A n \in 1 .. N : n # 0 /\ n \in 0 .. N
    BY <1>1
  <2>2. g[0] \in S
    BY <1>7, <2>1
  <2>3. ASSUME NEW n \in 1 .. N, g[n - 1] \in S PROVE g[n] \in S
    <3>1. g[n] = AddIcon(g[n - 1], items[n])
      BY <1>7, <2>1
    <3> QED BY <1>1, <2>3, <3>1
  <2> HIDE DEF N
  <2> QED BY <1>1, <2>2, <2>3, LoopKeeps
<1> QED BY <1>1, <1>8, <1>9

----------------------------------------------------------------------------
\* Lists of candidates.

Distinct(list) == \A i, j \in DOMAIN list : list[i].url = list[j].url => i = j

Lists(K, max) == {l \in Seq(K) : Distinct(l) /\ Len(l) <= max}

IsIcon(c) == c \in [url : Url, rel : {c.rel}, size : Nat, type : {c.type}]

\* A candidate, probed or not, has a URL to show.
LEMMA KnownAreIcons ==
    /\ Candidate \subseteq Known
    /\ \A c \in Known : IsIcon(c)
<1>1. IsIcon(FallbackLink)
  BY CandidateAssumption DEF FallbackLink, IsIcon
<1>2. \A c \in Link \cup ManifestIcon : c.url # None => IsIcon(c)
  BY CandidateAssumption DEF IsIcon
<1>3. \A c \in Candidate : IsIcon(c)
  BY <1>1, <1>2 DEF Candidate
<1>4. ASSUME NEW c, IsIcon(c), NEW t PROVE IsIcon([c EXCEPT !.type = t])
  BY <1>4 DEF IsIcon
<1> QED BY <1>3, <1>4 DEF Known

\* A list stays one when an icon with a new URL is appended.
LEMMA AppendNew ==
    ASSUME NEW K, NEW max \in Nat, NEW l \in Lists(K, max), NEW x \in K, x.url \notin Urls(l)
    PROVE  /\ Append(l, x) \in Seq(K) /\ Distinct(Append(l, x)) /\ Len(Append(l, x)) = Len(l) + 1
           /\ Urls(l) \cup {x.url} \subseteq Urls(Append(l, x))
<1> DEFINE m == Append(l, x)
           n == Len(l)
<1>1. l \in Seq(K) /\ n \in Nat /\ DOMAIN l = 1 .. n
  BY DEF Lists
<1>2. m \in Seq(K) /\ Len(m) = n + 1 /\ DOMAIN m = 1 .. (n + 1)
  BY <1>1
<1>3. m[n + 1] = x /\ \A i \in 1 .. n : m[i] = l[i]
  BY <1>1
<1>4. \A i \in 1 .. n : l[i].url # x.url
  BY <1>1 DEF Urls
<1>5. Distinct(m)
  <2> SUFFICES ASSUME NEW i \in 1 .. (n + 1), NEW j \in 1 .. (n + 1), m[i].url = m[j].url
               PROVE  i = j
    BY <1>2 DEF Distinct
  <2>1. CASE i = n + 1 /\ j # n + 1
    <3>1. j \in 1 .. n
      BY <1>1, <2>1
    <3> HIDE DEF m
    <3> QED BY <1>3, <1>4, <2>1, <3>1
  <2>2. CASE j = n + 1 /\ i # n + 1
    <3>1. i \in 1 .. n
      BY <1>1, <2>2
    <3> HIDE DEF m
    <3> QED BY <1>3, <1>4, <2>2, <3>1
  <2>3. CASE i # n + 1 /\ j # n + 1
    <3>1. i \in 1 .. n /\ j \in 1 .. n
      BY <1>1, <2>3
    <3>2. l[i].url = l[j].url
      <4> HIDE DEF m
      <4> QED BY <1>3, <3>1
    <3> QED BY <1>1, <3>1, <3>2 DEF Lists, Distinct
  <2> QED BY <2>1, <2>2, <2>3
<1>6. Urls(l) \cup {x.url} \subseteq Urls(m)
  <2>1. x.url \in Urls(m)
    <3> HIDE DEF m
    <3> QED BY <1>1, <1>2, <1>3 DEF Urls
  <2>2. ASSUME NEW i \in 1 .. n PROVE l[i].url \in Urls(m)
    <3>1. i \in 1 .. (n + 1)
      BY <1>1
    <3> HIDE DEF m
    <3> QED BY <1>2, <1>3, <3>1 DEF Urls
  <2> QED BY <1>1, <2>1, <2>2 DEF Urls
<1> QED BY <1>2, <1>5, <1>6

\* What a page gives: distinct candidates within the cap, one of them the
\* fallback, which the cap of the walk leaves room for.
LEMMA Discovered ==
    ASSUME NEW links \in Seq(Link)
    PROVE  /\ DiscoverFromHTML(links) \in Lists(Known, MaxTotalCandidates)
           /\ Fallback \in Urls(DiscoverFromHTML(links))
<1> USE LimitsAssumption
<1> DEFINE S == Lists(Known, MaxHTMLIconCandidates)
           found == Collect(AddLink, <<>>, links)
<1>1. <<>> \in S
  BY DEF Lists, Distinct
<1>2. ASSUME NEW l \in S, NEW link \in Link PROVE AddLink(l, link) \in S
  <2>1. CASE link.url # None /\ Len(l) < MaxHTMLIconCandidates /\ link.url \notin Urls(l)
    <3>1. link \in Known
      BY <2>1, KnownAreIcons DEF Candidate
    <3>2. /\ Append(l, link) \in Seq(Known) /\ Distinct(Append(l, link))
          /\ Len(Append(l, link)) = Len(l) + 1
      BY <2>1, <3>1, AppendNew
    <3>3. Len(l) + 1 <= MaxHTMLIconCandidates
      BY <2>1 DEF Lists
    <3>4. Append(l, link) \in S
      BY <3>2, <3>3 DEF Lists
    <3> HIDE DEF S
    <3> QED BY <3>4 DEF AddLink
  <2>2. CASE ~(link.url # None /\ Len(l) < MaxHTMLIconCandidates /\ link.url \notin Urls(l))
    <3> HIDE DEF S
    <3> QED BY <2>2 DEF AddLink
  <2> QED BY <2>1, <2>2
<1>3. found \in S
  <2> HIDE DEF S
  <2> QED BY <1>1, <1>2, LinksCollected
<1> HIDE DEF found
<1>4. /\ found \in Lists(Known, MaxTotalCandidates)
      /\ Len(found) < MaxTotalCandidates
  BY <1>3 DEF Lists
<1>5. CASE Fallback \in Urls(found)
  BY <1>4, <1>5 DEF DiscoverFromHTML, WithFallback, found
<1>6. CASE Fallback \notin Urls(found)
  <2>1. FallbackLink \in Known /\ FallbackLink.url = Fallback
    BY KnownAreIcons DEF Candidate, FallbackLink
  <2> DEFINE all == Append(found, FallbackLink)
  <2>2. /\ all \in Seq(Known) /\ Distinct(all) /\ Len(all) = Len(found) + 1
        /\ Fallback \in Urls(all)
    BY <1>4, <1>6, <2>1, AppendNew
  <2>3. Len(all) <= MaxTotalCandidates
    BY <1>4, <2>2 DEF Lists
  <2>4. DiscoverFromHTML(links) = all
    BY <1>4, <1>6 DEF DiscoverFromHTML, WithFallback, found
  <2> HIDE DEF all
  <2> QED BY <2>2, <2>3, <2>4 DEF Lists
<1> QED BY <1>5, <1>6

\* What a manifest gives: icons that resolve.
LEMMA ManifestUsable ==
    ASSUME NEW icons \in Seq(ManifestIcon)
    PROVE  ManifestIcons(icons) \in Seq({c \in ManifestIcon : c.url # None})
<1> DEFINE U == {c \in ManifestIcon : c.url # None}
           S == Seq(U)
<1>1. <<>> \in S
  OBVIOUS
<1>2. ASSUME NEW l \in S, NEW icon \in ManifestIcon PROVE AddUsable(l, icon) \in S
  BY DEF AddUsable
<1>3. Collect(AddUsable, <<>>, icons) \in S
  <2> HIDE DEF S
  <2> QED BY <1>1, <1>2, UsableCollected
<1> QED BY <1>3 DEF ManifestIcons

\* A merge keeps the URLs distinct and their number within the cap, and drops
\* nothing that was there.
LEMMA Merged ==
    ASSUME NEW list \in Lists(Known, MaxTotalCandidates), Fallback \in Urls(list),
           NEW icons \in Seq(ManifestIcon)
    PROVE  /\ MergeCandidates(list, ManifestIcons(icons)) \in Lists(Known, MaxTotalCandidates)
           /\ Fallback \in Urls(MergeCandidates(list, ManifestIcons(icons)))
<1> USE LimitsAssumption
<1> DEFINE U == {c \in ManifestIcon : c.url # None}
           S == {l \in Lists(Known, MaxTotalCandidates) : Fallback \in Urls(l)}
<1>1. ASSUME NEW l \in S, NEW icon \in U PROVE AddIcon(l, icon) \in S
  <2>1. CASE icon.url \notin Urls(l) /\ Len(l) < MaxTotalCandidates
    <3>1. icon \in Known /\ l \in Lists(Known, MaxTotalCandidates)
      BY KnownAreIcons DEF Candidate
    <3>2. /\ Append(l, icon) \in Seq(Known) /\ Distinct(Append(l, icon))
          /\ Len(Append(l, icon)) = Len(l) + 1
          /\ Fallback \in Urls(Append(l, icon))
      BY <2>1, <3>1, AppendNew
    <3>3. Len(l) + 1 <= MaxTotalCandidates
      BY <2>1 DEF Lists
    <3>4. Append(l, icon) \in S
      BY <3>2, <3>3 DEF Lists
    <3> HIDE DEF S
    <3> QED BY <2>1, <3>4 DEF AddIcon
  <2>2. CASE ~(icon.url \notin Urls(l) /\ Len(l) < MaxTotalCandidates)
    <3> HIDE DEF S
    <3> QED BY <2>2 DEF AddIcon
  <2> QED BY <2>1, <2>2
<1>2. ManifestIcons(icons) \in Seq(U)
  BY ManifestUsable
<1>3. Collect(AddIcon, list, ManifestIcons(icons)) \in S
  <2>1. list \in S
    OBVIOUS
  <2> HIDE DEF S, U
  <2> QED BY <1>1, <1>2, <2>1, IconsCollected
<1> QED BY <1>3 DEF MergeCandidates

----------------------------------------------------------------------------
\* Ranking.

\* A guess has a priority of its own, behind that of every other icon.
LEMMA Priorities ==
    ASSUME NEW rel
    PROVE  /\ RelPriority(rel) \in {10, 15, 20, 30, 40, 90, 100}
           /\ RelPriority(rel) = 100 <=> rel = "fallback"
<1>1. rel = "icon" => RelPriority(rel) = 10
  BY DEF RelPriority
<1>2. rel = "manifest" => RelPriority(rel) = 15
  BY DEF RelPriority
<1>3. rel = "apple-touch-icon" => RelPriority(rel) = 20
  BY DEF RelPriority
<1>4. rel = "mask-icon" => RelPriority(rel) = 30
  BY DEF RelPriority
<1>5. rel = "fallback" => RelPriority(rel) = 100
  BY DEF RelPriority
<1>6. rel = "fluid icon" => RelPriority(rel) = 40
  BY DEF RelPriority
<1>7. rel \notin {"icon", "manifest", "apple-touch-icon",
               "mask-icon", "fallback", "fluid icon"} => RelPriority(rel) = 90
  BY DEF RelPriority
<1> DEFINE p == RelPriority(rel)
<1> HIDE DEF p
<1>8. p \in {10, 15, 20, 30, 40, 90, 100}
  BY <1>1, <1>2, <1>3, <1>4, <1>5, <1>6, <1>7 DEF p
<1>9. rel # "fallback" => p \in {10, 15, 20, 30, 40, 90}
  BY <1>1, <1>2, <1>3, <1>4, <1>6, <1>7 DEF p
<1> QED BY <1>5, <1>8, <1>9 DEF p

\* Before orders the positions of a list strictly and totally.
LEMMA BeforeIsOrder ==
    ASSUME NEW list \in Seq(Known), NEW i \in DOMAIN list, NEW j \in DOMAIN list
    PROVE  /\ ~ Before(list, i, i)
           /\ i # j => Before(list, i, j) \/ Before(list, j, i)
           /\ \A k \in DOMAIN list : Before(list, i, j) /\ Before(list, j, k) => Before(list, i, k)
<1> DEFINE p(x) == RelPriority(list[x].rel)
           z(x) == list[x].size
<1>1. \A x \in DOMAIN list : p(x) \in Nat /\ z(x) \in Nat /\ x \in Nat
  <2> SUFFICES ASSUME NEW x \in DOMAIN list PROVE p(x) \in Nat /\ z(x) \in Nat /\ x \in Nat
    OBVIOUS
  <2>1. x \in Nat /\ list[x] \in Known
    OBVIOUS
  <2>2. z(x) \in Nat
    BY <2>1, KnownAreIcons DEF IsIcon
  <2>3. p(x) \in {10, 15, 20, 30, 40, 90, 100}
    BY Priorities
  <2> QED BY <2>1, <2>2, <2>3
<1>2. \A x, y : Before(list, x, y) <=>
          (p(x) < p(y) \/ (p(x) = p(y) /\ (z(x) > z(y) \/ (z(x) = z(y) /\ x < y))))
  BY DEF Before
<1> HIDE DEF p, z
<1>3. ~ Before(list, i, i) /\ (i # j => Before(list, i, j) \/ Before(list, j, i))
  BY <1>1, <1>2
<1>4. ASSUME NEW k \in DOMAIN list, Before(list, i, j), Before(list, j, k)
      PROVE  Before(list, i, k)
  <2>1. /\ p(i) \in Nat /\ p(j) \in Nat /\ p(k) \in Nat
        /\ z(i) \in Nat /\ z(j) \in Nat /\ z(k) \in Nat
        /\ i \in Nat /\ j \in Nat /\ k \in Nat
    BY <1>1
  <2>2. p(i) < p(j) \/ (p(i) = p(j) /\ (z(i) > z(j) \/ (z(i) = z(j) /\ i < j)))
    BY <1>2, <1>4
  <2>3. p(j) < p(k) \/ (p(j) = p(k) /\ (z(j) > z(k) \/ (z(j) = z(k) /\ j < k)))
    BY <1>2, <1>4
  <2>4. p(i) < p(k) \/ (p(i) = p(k) /\ (z(i) > z(k) \/ (z(i) = z(k) /\ i < k)))
    BY <2>1, <2>2, <2>3
  <2> QED BY <1>2, <2>4
<1> QED BY <1>3, <1>4

\* The rank of a position is one of the list's, and positions that come later
\* in the order have larger ranks.
LEMMA RankFollowsOrder ==
    ASSUME NEW list \in Seq(Known), NEW i \in DOMAIN list
    PROVE  /\ Rank(list, i) \in DOMAIN list
           /\ \A j \in DOMAIN list : Before(list, i, j) => Rank(list, i) < Rank(list, j)
<1> DEFINE D == DOMAIN list
           Ahead(j) == {k \in D : Before(list, k, j)}
           n == Len(list)
<1>1. n \in Nat /\ D = 1 .. n
  OBVIOUS
<1>2. IsFiniteSet(D) /\ Cardinality(D) = n
  <2>1. IsFiniteSet(1 .. n) /\ Cardinality(1 .. n) = IF 1 > n THEN 0 ELSE n - 1 + 1
    <3> HIDE DEF n
    <3> QED BY <1>1, FS_Interval
  <2> HIDE DEF n, D
  <2> QED BY <1>1, <2>1
<1>3. ASSUME NEW j \in D
      PROVE  IsFiniteSet(Ahead(j)) /\ Cardinality(Ahead(j)) \in Nat /\ Cardinality(Ahead(j)) < n
  <2>1. Ahead(j) \in SUBSET D /\ j \notin Ahead(j)
    BY BeforeIsOrder
  <2>2. /\ IsFiniteSet(Ahead(j)) /\ Cardinality(Ahead(j)) <= Cardinality(D)
        /\ (Cardinality(D) = Cardinality(Ahead(j)) => D = Ahead(j))
    <3> HIDE DEF Ahead, D
    <3> QED BY <1>2, <2>1, FS_Subset
  <2>3. Cardinality(Ahead(j)) \in Nat
    BY <2>2, FS_CardinalityType
  <2>4. D # Ahead(j)
    BY <2>1
  <2> HIDE DEF Ahead, D
  <2> QED BY <1>1, <1>2, <2>2, <2>3, <2>4
<1>4. \A j \in D : Rank(list, j) = Cardinality(Ahead(j)) + 1
  BY DEF Rank
<1>5. Rank(list, i) \in D
  <2>1. Cardinality(Ahead(i)) \in Nat /\ Cardinality(Ahead(i)) < n
    BY <1>3
  <2>2. Rank(list, i) = Cardinality(Ahead(i)) + 1
    BY <1>4
  <2>3. Rank(list, i) \in 1 .. n
    <3> HIDE DEF Ahead, n, D
    <3> QED BY <1>1, <2>1, <2>2
  <2> QED BY <1>1, <2>3
<1>6. ASSUME NEW j \in D, Before(list, i, j) PROVE Rank(list, i) < Rank(list, j)
  <2>1. Ahead(i) \subseteq Ahead(j)
    BY <1>6, BeforeIsOrder
  <2>2. i \in Ahead(j) /\ i \notin Ahead(i)
    BY <1>6, BeforeIsOrder
  <2>3. Ahead(i) # Ahead(j) /\ Ahead(i) \in SUBSET Ahead(j)
    BY <2>1, <2>2
  <2>4. /\ IsFiniteSet(Ahead(j)) /\ Cardinality(Ahead(j)) \in Nat /\ Cardinality(Ahead(i)) \in Nat
    BY <1>3
  <2> HIDE DEF Ahead, D
  <2>5. Cardinality(Ahead(i)) <= Cardinality(Ahead(j)) /\ Cardinality(Ahead(i)) # Cardinality(Ahead(j))
    BY <2>3, <2>4, FS_Subset
  <2>6. Rank(list, i) = Cardinality(Ahead(i)) + 1 /\ Rank(list, j) = Cardinality(Ahead(j)) + 1
    BY <1>4 DEF D
  <2> QED BY <2>4, <2>5, <2>6
<1> QED BY <1>5, <1>6

\* RankCandidates rearranges: every candidate is there, once, and the list is
\* in order.
LEMMA RankSorts ==
    ASSUME NEW list \in Seq(Known)
    PROVE  \E order \in [DOMAIN list -> DOMAIN list] :
               /\ RankCandidates(list) = [k \in DOMAIN list |-> list[order[k]]]
               /\ \A i \in DOMAIN list : \E k \in DOMAIN list : order[k] = i
               /\ \A k, m \in DOMAIN list : k < m => Before(list, order[k], order[m])
<1> DEFINE D == DOMAIN list
           n == Len(list)
           rank == [i \in D |-> Rank(list, i)]
           order == [k \in D |-> CHOOSE i \in D : Rank(list, i) = k]
<1>1. n \in Nat /\ D = 1 .. n
  OBVIOUS
<1>2. IsFiniteSet(D)
  BY <1>1, FS_Interval
<1>3. ASSUME NEW i \in D, NEW j \in D, Rank(list, i) = Rank(list, j) PROVE i = j
  <2>1. Rank(list, i) \in Nat
    BY <1>1, RankFollowsOrder
  <2>2. ~ Before(list, i, j) /\ ~ Before(list, j, i)
    BY <1>3, <2>1, RankFollowsOrder
  <2> QED BY <2>2, BeforeIsOrder
<1>4. rank \in Injection(D, D)
  <2>1. rank \in [D -> D]
    BY RankFollowsOrder
  <2> QED BY <1>3, <2>1 DEF Injection, IsInjective
<1>5. rank \in Surjection(D, D)
  <2> HIDE DEF rank, D
  <2> QED BY <1>2, <1>4, FS_Injection
<1>6. \A k \in D : \E i \in D : Rank(list, i) = k
  BY <1>5 DEF Surjection
<1>7. \A k \in D : order[k] \in D /\ Rank(list, order[k]) = k
  BY <1>6
<1>8. order \in [D -> D]
  BY <1>7
<1>9. RankCandidates(list) = [k \in D |-> list[order[k]]]
  BY DEF RankCandidates
<1> HIDE DEF order
<1>10. ASSUME NEW i \in D PROVE \E k \in D : order[k] = i
  <2>1. Rank(list, i) \in D
    BY RankFollowsOrder
  <2>2. order[Rank(list, i)] = i
    BY <1>3, <1>7, <2>1
  <2> QED BY <2>1, <2>2
<1>11. ASSUME NEW k \in D, NEW m \in D, k < m PROVE Before(list, order[k], order[m])
  <2>1. order[k] \in D /\ order[m] \in D /\ Rank(list, order[k]) = k /\ Rank(list, order[m]) = m
    BY <1>7
  <2>2. k # m /\ ~ (m < k)
    BY <1>1, <1>11
  <2>3. order[k] # order[m] /\ ~ Before(list, order[m], order[k])
    BY <2>1, <2>2, RankFollowsOrder
  <2> QED BY <2>1, <2>3, BeforeIsOrder
<1> QED BY <1>8, <1>9, <1>10, <1>11

\* What ranking makes of the candidates of a page: the cap cuts none of them,
\* and what is left is the list IconChoice promises.
LEMMA RankedList ==
    ASSUME NEW list \in Lists(Known, MaxTotalCandidates), Fallback \in Urls(list),
           NEW ranked, ranked = RankCandidates(Capped(list))
    PROVE  /\ ranked \in Seq(Known) /\ Len(ranked) \in 1 .. MaxTotalCandidates
           /\ \E i \in DOMAIN ranked : ranked[i].url = Fallback
           /\ \A i, j \in DOMAIN ranked : i < j =>
                  /\ ranked[i].url # ranked[j].url
                  /\ ranked[i].rel = "fallback" => ranked[j].rel = "fallback"
<1> USE LimitsAssumption
<1>1. list \in Seq(Known) /\ Len(list) \in Nat /\ DOMAIN list = 1 .. Len(list)
  BY DEF Lists
<1>2. Capped(list) = list
  <2>1. ~ (Len(list) > MaxTotalCandidates)
    BY <1>1 DEF Lists
  <2> QED BY <2>1 DEF Capped
<1>3. PICK order \in [DOMAIN list -> DOMAIN list] :
          /\ ranked = [k \in DOMAIN list |-> list[order[k]]]
          /\ \A i \in DOMAIN list : \E k \in DOMAIN list : order[k] = i
          /\ \A k, m \in DOMAIN list : k < m => Before(list, order[k], order[m])
  BY <1>1, <1>2, RankSorts
<1>4. \A k \in DOMAIN list : order[k] \in DOMAIN list /\ list[order[k]] \in Known
  BY <1>1, <1>3
<1>5. ranked \in Seq(Known) /\ Len(ranked) = Len(list) /\ DOMAIN ranked = DOMAIN list
  BY <1>1, <1>3, <1>4
<1>6. PICK f \in DOMAIN list : list[f].url = Fallback
  BY DEF Urls
<1>7. PICK k \in DOMAIN list : order[k] = f
  BY <1>3
<1>8. \E i \in DOMAIN ranked : ranked[i].url = Fallback
  BY <1>3, <1>5, <1>6, <1>7
<1>9. Len(ranked) \in 1 .. MaxTotalCandidates
  BY <1>1, <1>5, <1>6 DEF Lists
<1>10. ASSUME NEW i \in DOMAIN list, NEW j \in DOMAIN list, i < j
       PROVE  /\ ranked[i].url # ranked[j].url
              /\ ranked[i].rel = "fallback" => ranked[j].rel = "fallback"
  <2>1. Before(list, order[i], order[j])
    BY <1>3, <1>10
  <2>2. order[i] \in DOMAIN list /\ order[j] \in DOMAIN list
    BY <1>4
  <2>3. order[i] # order[j]
    BY <1>1, <2>1, <2>2, BeforeIsOrder
  <2>4. list[order[i]].url # list[order[j]].url
    BY <2>2, <2>3 DEF Lists, Distinct
  <2>5. RelPriority(list[order[i]].rel) <= RelPriority(list[order[j]].rel)
    <3> DEFINE p == RelPriority(list[order[i]].rel)
               q == RelPriority(list[order[j]].rel)
    <3>1. p < q \/ p = q
      BY <2>1 DEF Before
    <3>2. p \in Nat /\ q \in Nat
      BY Priorities
    <3>3. p <= q
      <4> HIDE DEF p, q
      <4> QED BY <3>1, <3>2
    <3> QED BY <3>3
  <2>6. list[order[i]].rel = "fallback" => list[order[j]].rel = "fallback"
    <3> DEFINE q == RelPriority(list[order[j]].rel)
    <3>1. ASSUME list[order[i]].rel = "fallback" PROVE 100 <= q
      BY <2>5, <3>1, Priorities
    <3>2. q \in {10, 15, 20, 30, 40, 90, 100} /\ (q = 100 => list[order[j]].rel = "fallback")
      BY Priorities
    <3> HIDE DEF q
    <3> QED BY <3>1, <3>2
  <2> QED BY <1>3, <2>4, <2>6
<1> QED BY <1>5, <1>8, <1>9, <1>10

----------------------------------------------------------------------------
\* The inductive invariant.

CandidatesInv ==
    /\ candidates \in Lists(Known, MaxTotalCandidates)
    /\ stage \in {"manifest", "probe", "rank"} => Fallback \in Urls(candidates)

LoopInv ==
    /\ stage \in {"page", "manifest"} => next = 1
    /\ next <= Len(candidates) + 1

ResultInv == result = None <=> stage # "done"

IInv == TypeOK /\ CandidatesInv /\ LoopInv /\ ResultInv

\* What pages and manifests list are sequences.
LEMMA BoundedAreSequences ==
    ASSUME NEW X, NEW s \in BoundedSeq(X, MaxLinks)
    PROVE  s \in Seq(X)
BY DEF BoundedSeq, SeqOf

\* A probe changes the type of one candidate and nothing else.
LEMMA ProbeKeepsList ==
    ASSUME NEW list \in Lists(Known, MaxTotalCandidates), NEW n \in DOMAIN list,
           Unknown(list[n]), NEW t \in ProbedType
    PROVE  /\ [list EXCEPT ![n].type = t] \in Lists(Known, MaxTotalCandidates)
           /\ Urls([list EXCEPT ![n].type = t]) = Urls(list)
           /\ Len([list EXCEPT ![n].type = t]) = Len(list)
<1> DEFINE x == [list[n] EXCEPT !.type = t]
           new == [list EXCEPT ![n].type = t]
<1>1. list \in Seq(Known) /\ list[n] \in Known /\ DOMAIN list = 1 .. Len(list) /\ n \in 1 .. Len(list)
  BY DEF Lists
<1>2. IsIcon(list[n])
  BY <1>1, KnownAreIcons
<1>3. x \in Known
  <2>1. CASE list[n] \in Candidate
    BY <2>1 DEF Known
  <2>2. CASE list[n] \notin Candidate
    <3>1. PICK c \in Candidate, u \in ProbedType : Unknown(c) /\ list[n] = [c EXCEPT !.type = u]
      BY <1>1, <2>2 DEF Known
    <3>2. IsIcon(c)
      BY KnownAreIcons
    <3>3. x = [c EXCEPT !.type = t]
      BY <3>1, <3>2 DEF IsIcon
    <3> HIDE DEF x
    <3> QED BY <3>1, <3>3 DEF Known
  <2> QED BY <2>1, <2>2
<1>4. x.url = list[n].url
  BY <1>2 DEF IsIcon
<1>5. new = [list EXCEPT ![n] = x]
  OBVIOUS
<1> HIDE DEF x, new
<1>6. /\ new \in Seq(Known) /\ Len(new) = Len(list) /\ DOMAIN new = DOMAIN list
      /\ \A i \in DOMAIN list : new[i] = IF i = n THEN x ELSE list[i]
  <2>1. /\ new \in Seq(Known) /\ Len(new) = Len(list)
        /\ \A i \in 1 .. Len(list) : new[i] = IF i = n THEN x ELSE list[i]
    BY <1>1, <1>3, <1>5, ExceptSeq
  <2> QED BY <1>1, <2>1
<1>7. \A i \in DOMAIN list : new[i].url = list[i].url
  BY <1>4, <1>6
<1>8. Distinct(new) /\ Urls(new) = Urls(list)
  BY <1>6, <1>7 DEF Lists, Distinct, Urls
<1>9. new \in Lists(Known, MaxTotalCandidates)
  BY <1>6, <1>8 DEF Lists
<1> QED BY <1>6, <1>8, <1>9 DEF new

\* The invariant holds before the page is read ...
LEMMA InitInv == Init => IInv
<1> SUFFICES ASSUME Init PROVE IInv
  OBVIOUS
<1> USE LimitsAssumption
<1>1. <<>> \in Lists(Known, MaxTotalCandidates) /\ Len(<<>>) = 0 /\ <<>> \in Seq(Known)
  BY DEF Lists, Distinct
<1>2. TypeOK
  <2>1. next \in 1 .. (MaxTotalCandidates + 1) /\ probes \in 0 .. MaxContentTypeProbes
    BY DEF Init
  <2>2. candidates \in Seq(Known) /\ probed \subseteq Url /\ result \in Result \union {None}
    BY <1>1 DEF Init
  <2> QED BY <2>1, <2>2 DEF Init, TypeOK
<1> QED BY <1>1, <1>2 DEF Init, IInv, CandidatesInv, LoopInv, ResultInv

\* An error carries no list.
LEMMA FailedResult == [ok |-> FALSE, icons |-> <<>>, best |-> None] \in Result
BY DEF Result

\* The answer of a preview that is not too late is one.
LEMMA RankedResult ==
    ASSUME NEW list \in Lists(Known, MaxTotalCandidates), Fallback \in Urls(list)
    PROVE  LET ranked == RankCandidates(Capped(list))
           IN  [ok |-> TRUE, icons |-> ranked, best |-> ranked[1].url] \in Result
<1> DEFINE ranked == RankCandidates(Capped(list))
<1>1. ranked \in Seq(Known) /\ Len(ranked) \in 1 .. MaxTotalCandidates
  BY RankedList
<1>2. ranked[1] \in Known
  <2> HIDE DEF ranked
  <2> QED BY <1>1, LimitsAssumption
<1>3. ranked[1].url \in Url
  <2> HIDE DEF ranked
  <2> QED BY <1>2, KnownAreIcons DEF IsIcon
<1> HIDE DEF ranked
<1>4. [ok |-> TRUE, icons |-> ranked, best |-> ranked[1].url] \in Result
  BY <1>1, <1>3 DEF Result
<1> QED BY <1>4 DEF ranked

\* ... and every step preserves it.
LEMMA StepInv == IInv /\ [Next]_vars => IInv'
<1> SUFFICES ASSUME IInv, [Next]_vars PROVE IInv'
  OBVIOUS
<1> USE LimitsAssumption DEF IInv, TypeOK, CandidatesInv, LoopInv, ResultInv
<1>1. CASE Expire
  BY <1>1 DEF Expire
<1>2. CASE PageFails \/ LoopExpired \/ RankExpired
  <2>1. Fail /\ stage \in {"page", "probe", "rank"}
    BY <1>2 DEF PageFails, LoopExpired, RankExpired, Probing
  <2>2. result' \in Result /\ result' # None
    BY <2>1, FailedResult, NoneAssumption DEF Fail
  <2> QED BY <2>1, <2>2 DEF Fail
<1>3. ASSUME NEW links \in BoundedSeq(Link, MaxLinks), NEW manifest \in BOOLEAN,
             PageRead(links, manifest)
      PROVE  IInv'
  <2>1. candidates' \in Lists(Known, MaxTotalCandidates) /\ Fallback \in Urls(candidates')
    BY <1>3, BoundedAreSequences, Discovered DEF PageRead
  <2>2. candidates' \in Seq(Known) /\ Len(candidates') \in Nat
    BY <2>1 DEF Lists
  <2> QED BY <1>3, <2>1, <2>2 DEF PageRead
<1>4. ASSUME NEW icons \in BoundedSeq(ManifestIcon, MaxLinks), ManifestRead(icons)
      PROVE  IInv'
  <2>1. candidates' \in Lists(Known, MaxTotalCandidates) /\ Fallback \in Urls(candidates')
    BY <1>4, BoundedAreSequences, Merged DEF ManifestRead
  <2>2. candidates' \in Seq(Known) /\ Len(candidates') \in Nat
    BY <2>1 DEF Lists
  <2> QED BY <1>4, <2>1, <2>2 DEF ManifestRead
<1>5. CASE SkipCandidate
  <2>1. next + 1 <= Len(candidates) + 1 /\ Len(candidates) <= MaxTotalCandidates /\ Len(candidates) \in Nat
    BY <1>5 DEF SkipCandidate, Probing, Lists
  <2> QED BY <1>5, <2>1 DEF SkipCandidate, Probing
<1>6. ASSUME NEW type \in ProbedType, ProbeCandidate(type) PROVE IInv'
  <2>1. /\ next \in DOMAIN candidates /\ Unknown(candidates[next])
        /\ Len(candidates) <= MaxTotalCandidates /\ Len(candidates) \in Nat
    BY <1>6 DEF ProbeCandidate, Probing, Lists
  <2>2. /\ candidates' \in Lists(Known, MaxTotalCandidates)
        /\ Urls(candidates') = Urls(candidates) /\ Len(candidates') = Len(candidates)
    BY <1>6, <2>1, ProbeKeepsList DEF ProbeCandidate
  <2>3. candidates' \in Seq(Known)
    BY <2>2 DEF Lists
  <2>4. candidates[next].url \in Url
    BY <2>1, KnownAreIcons DEF IsIcon
  <2>5. probes' \in 0 .. MaxContentTypeProbes /\ probed' \subseteq Url
    BY <1>6, <2>4 DEF ProbeCandidate
  <2>6. next' \in 1 .. (MaxTotalCandidates + 1) /\ next' <= Len(candidates') + 1
    BY <1>6, <2>1, <2>2 DEF ProbeCandidate
  <2> QED BY <1>6, <2>2, <2>3, <2>5, <2>6 DEF ProbeCandidate, Probing
<1>7. CASE LoopEnds
  BY <1>7 DEF LoopEnds
<1>8. CASE Ranked
  <2>1. result' \in Result
    BY <1>8, RankedResult DEF Ranked
  <2>2. result' # None
    BY <2>1, NoneAssumption
  <2> QED BY <1>8, <2>1, <2>2 DEF Ranked
<1>9. CASE UNCHANGED vars
  BY <1>9 DEF vars
<1> QED
  BY <1>1, <1>2, <1>3, <1>4, <1>5, <1>6, <1>7, <1>8, <1>9 DEF Next, Step

\* Whatever a page and its manifest list: the candidates stay candidates, and
\* loop, probes and result stay within their bounds.
THEOREM PreviewTypeCorrect == Spec => []TypeOK
<1>1. IInv => TypeOK
  BY DEF IInv
<1> QED BY <1>1, InitInv, StepInv, PTL DEF Spec

\* An answer of the abstract specification.
LEMMA AnswerOfResult ==
    ASSUME NEW r \in Result, result' = r, \A i \in DOMAIN r.icons : r.icons[i].url \in Url
    PROVE  LET icons == [i \in DOMAIN r.icons |-> Seen(r.icons[i])]
           IN  /\ Answered' = [ok |-> r.ok, icons |-> icons, best |-> r.best]
               /\ Answered' # None
               /\ Len(icons) = Len(r.icons) /\ DOMAIN icons = DOMAIN r.icons
<1> DEFINE icons == [i \in DOMAIN r.icons |-> Seen(r.icons[i])]
           answer == [ok |-> r.ok, icons |-> icons, best |-> r.best]
<1>1. /\ r.icons \in Seq(Known) /\ r.ok \in BOOLEAN /\ r.best \in Url \cup {None}
      /\ r = [ok |-> r.ok, icons |-> r.icons, best |-> r.best]
  BY DEF Result
<1>2. icons \in Seq([url : Url, guess : BOOLEAN]) /\ Len(icons) = Len(r.icons)
  <2> DEFINE G == [url : Url, guess : BOOLEAN]
  <2>1. ASSUME NEW i \in DOMAIN r.icons PROVE Seen(r.icons[i]) \in G
    <3>1. r.icons[i].url \in Url /\ (r.icons[i].rel = "fallback") \in BOOLEAN
      OBVIOUS
    <3> QED BY <3>1 DEF Seen
  <2>2. DOMAIN r.icons = 1 .. Len(r.icons) /\ Len(r.icons) \in Nat
    BY <1>1
  <2> HIDE DEF G
  <2>3. icons \in [1 .. Len(r.icons) -> G]
    BY <2>1, <2>2
  <2>4. icons \in Seq(G) /\ Len(icons) = Len(r.icons)
    BY <2>2, <2>3
  <2> QED BY <2>4 DEF G
<1>3. Answered' = answer
  <2>1. r # None
    BY NoneAssumption
  <2>2. Answered' = [r EXCEPT !.icons = icons]
    BY <2>1 DEF Answered
  <2> HIDE DEF icons
  <2> QED BY <1>1, <2>2
<1>4. answer # None
  <2> HIDE DEF icons
  <2> QED BY <1>1, <1>2, NoneAssumption
<1> QED BY <1>1, <1>2, <1>3, <1>4

\* Failing is the abstract answer that is an error.
LEMMA FailAnswers ==
    ASSUME Fail
    PROVE  Answered' # None /\ Promise!Promised(Answered') /\ ~Answered'.ok
<1> DEFINE r == [ok |-> FALSE, icons |-> <<>>, best |-> None]
           icons == [i \in DOMAIN r.icons |-> Seen(r.icons[i])]
<1>1. r \in Result /\ result' = r /\ \A i \in DOMAIN r.icons : r.icons[i].url \in Url
  BY FailedResult DEF Fail
<1>2. /\ Answered' = [ok |-> r.ok, icons |-> icons, best |-> r.best]
      /\ Answered' # None
  <2> HIDE DEF r
  <2> QED BY <1>1, AnswerOfResult
<1>3. icons = <<>>
  OBVIOUS
<1> HIDE DEF icons
<1> QED BY <1>2, <1>3 DEF Promise!Promised

\* Ranking is the abstract answer that keeps the promise.
LEMMA RankedAnswers ==
    ASSUME IInv, Ranked
    PROVE  Answered' # None /\ Promise!Promised(Answered')
<1> DEFINE ranked == RankCandidates(Capped(candidates))
           r == [ok |-> TRUE, icons |-> ranked, best |-> ranked[1].url]
           icons == [i \in DOMAIN ranked |-> Seen(ranked[i])]
<1>1. candidates \in Lists(Known, MaxTotalCandidates) /\ Fallback \in Urls(candidates)
  BY DEF IInv, CandidatesInv, Ranked
<1>2. r \in Result /\ result' = r
  BY <1>1, RankedResult DEF Ranked
<1>3. /\ ranked \in Seq(Known) /\ Len(ranked) \in 1 .. MaxTotalCandidates
      /\ \E i \in DOMAIN ranked : ranked[i].url = Fallback
      /\ \A i, j \in DOMAIN ranked : i < j =>
             /\ ranked[i].url # ranked[j].url
             /\ ranked[i].rel = "fallback" => ranked[j].rel = "fallback"
  BY <1>1, RankedList
<1> HIDE DEF ranked
<1>4. \A i \in DOMAIN ranked : ranked[i].url \in Url
  BY <1>3, KnownAreIcons DEF IsIcon
<1>5. /\ Answered' = [ok |-> TRUE, icons |-> icons, best |-> ranked[1].url]
      /\ Answered' # None
      /\ Len(icons) = Len(ranked) /\ DOMAIN icons = DOMAIN ranked
  <2>1. r.icons = ranked /\ r.ok = TRUE /\ r.best = ranked[1].url
    OBVIOUS
  <2> HIDE DEF r
  <2> QED BY <1>2, <1>4, <2>1, AnswerOfResult
<1>6. \A i \in DOMAIN ranked : icons[i].url = ranked[i].url /\ (icons[i].guess <=> ranked[i].rel = "fallback")
  BY DEF Seen
<1>7. 1 \in DOMAIN ranked
  BY <1>3
<1> HIDE DEF icons, r
<1>8. Promise!Promised(Answered')
  <2>1. Len(icons) \in 1 .. MaxTotalCandidates /\ ranked[1].url = icons[1].url
    BY <1>3, <1>5, <1>6, <1>7
  <2>2. \E i \in DOMAIN icons : icons[i].url = Fallback
    BY <1>3, <1>5, <1>6
  <2>3. \A i, j \in DOMAIN icons : i < j =>
            icons[i].url # icons[j].url /\ (icons[i].guess => icons[j].guess)
    BY <1>3, <1>5, <1>6
  <2> QED BY <1>5, <2>1, <2>2, <2>3 DEF Promise!Promised
<1> QED BY <1>5, <1>8

\* Apart from its promise to answer, which is a matter of fairness, a preview
\* keeps the promise of IconChoice, for every page, manifest and cap: it answers
\* once, with an error and nothing, or, if its time was not over, with a list that
\* offers each URL once, has the fallback, is headed by the recommended icon, and
\* puts guesses last.
THEOREM SafelyImplementsIconChoice ==
    Spec => Promise!Init /\ [][Promise!Next]_<<Answered, expired>>
<1>1. Init => Promise!Init
  BY DEF Init, Promise!Init, Answered
<1>2. IInv /\ [Next]_vars => [Promise!Next]_<<Answered, expired>>
  <2> SUFFICES ASSUME IInv, [Next]_vars PROVE [Promise!Next]_<<Answered, expired>>
    OBVIOUS
  <2>1. CASE UNCHANGED <<result, expired>>
    BY <2>1 DEF Answered
  <2>2. CASE Expire
    <3>1. Answered' = Answered
      BY <2>2 DEF Expire, Answered
    <3> QED BY <2>2, <3>1 DEF Expire, Promise!Next, Promise!Expire
  <2>3. CASE Fail /\ stage \in {"page", "probe", "rank"}
    <3>1. Answered = None
      BY <2>3 DEF IInv, ResultInv, Answered
    <3>2. ~Answered'.ok /\ UNCHANGED expired
      BY <2>3, FailAnswers DEF Fail
    <3> QED BY <2>3, <3>1, <3>2, FailAnswers DEF Promise!Next, Promise!Answer
  <2>4. CASE Ranked
    <3>1. Answered = None
      BY <2>4 DEF IInv, ResultInv, Answered, Ranked
    <3>2. ~expired /\ UNCHANGED expired
      BY <2>4 DEF Ranked
    <3> QED BY <2>4, <3>1, <3>2, RankedAnswers DEF Promise!Next, Promise!Answer
  <2> QED
    BY <2>1, <2>2, <2>3, <2>4
    DEF Next, Step, vars, PageFails, PageRead, ManifestRead, LoopExpired, Probing,
        SkipCandidate, ProbeCandidate, LoopEnds, RankExpired
<1> QED BY <1>1, <1>2, InitInv, StepInv, PTL DEF Spec

-----------------------------------------------------------------------------
\* The budget of probes.

ProbedImages == {u \in probed : HasImageExtension(u)}

\* Every probe is spent on a URL of its own, and no more than half of them on
\* URLs whose extension tells the type anyway.
ProbesAreSpread ==
    /\ Cardinality(probed) = probes /\ probes <= MaxContentTypeProbes
    /\ Cardinality(ProbedImages) <= MaxContentTypeProbes \div 2

\* What the loop has not come to has not been probed.
Ahead == \A i \in DOMAIN candidates : i >= next => candidates[i].url \notin probed

ProbeInv ==
    /\ IsFiniteSet(probed) /\ ProbesAreSpread
    /\ stage \in {"page", "manifest"} => probed = {}
    /\ stage = "probe" => Ahead

LEMMA InitProbeInv == Init => ProbeInv
<1> SUFFICES ASSUME Init PROVE ProbeInv
  OBVIOUS
<1>1. probed = {} /\ ProbedImages = {} /\ probes = 0
  BY DEF Init, ProbedImages
<1>2. 0 <= MaxContentTypeProbes /\ 0 <= MaxContentTypeProbes \div 2
  BY LimitsAssumption
<1> QED BY <1>1, <1>2, FS_EmptySet DEF Init, ProbeInv, ProbesAreSpread

LEMMA StepProbeInv == IInv /\ ProbeInv /\ [Next]_vars => ProbeInv'
<1> SUFFICES ASSUME IInv, ProbeInv, [Next]_vars PROVE ProbeInv'
  OBVIOUS
<1> USE DEF ProbeInv
<1>1. CASE /\ UNCHANGED <<probes, probed>>
           /\ stage' \in {"page", "manifest"} => stage \in {"page", "manifest"}
           /\ stage' = "probe" => stage \in {"page", "manifest"} \/ Ahead'
  <2>1. ProbesAreSpread'
    BY <1>1 DEF ProbesAreSpread, ProbedImages
  <2>2. probed = {} => Ahead'
    BY <1>1 DEF Ahead
  <2> QED BY <1>1, <2>1, <2>2
<1>2. ASSUME NEW type \in ProbedType, ProbeCandidate(type) PROVE ProbeInv'
  <2> DEFINE url == candidates[next].url
  <2>1. /\ next \in DOMAIN candidates /\ Unknown(candidates[next]) /\ stage = "probe"
        /\ candidates \in Lists(Known, MaxTotalCandidates) /\ next \in Nat
    BY <1>2, LimitsAssumption DEF IInv, TypeOK, CandidatesInv, ProbeCandidate, Probing, Lists
  <2>2. url \notin probed /\ probed' = probed \union {url} /\ probes' = probes + 1
    BY <1>2, <2>1 DEF Ahead, ProbeCandidate
  <2>3. IsFiniteSet(probed') /\ Cardinality(probed') = probes'
    BY <2>2, FS_AddElement DEF ProbesAreSpread
  <2>4. probes' <= MaxContentTypeProbes
    BY <1>2, LimitsAssumption DEF ProbeCandidate, IInv, TypeOK
  <2>5. Cardinality(ProbedImages)' <= MaxContentTypeProbes \div 2
    <3>1. /\ IsFiniteSet(ProbedImages) /\ Cardinality(ProbedImages) \in Nat
          /\ Cardinality(ProbedImages) <= Cardinality(probed)
      BY FS_Subset, FS_CardinalityType DEF ProbedImages
    <3>2. CASE HasImageExtension(url)
      <4>1. ProbedImages' = ProbedImages \union {url} /\ url \notin ProbedImages
        BY <2>2, <3>2 DEF ProbedImages, HasImageExtension
      <4>2. Cardinality(ProbedImages') = Cardinality(ProbedImages) + 1
        BY <3>1, <4>1, FS_AddElement
      <4>3. probes < MaxContentTypeProbes \div 2 /\ MaxContentTypeProbes \div 2 \in Nat /\ probes \in Nat
        BY <1>2, <3>2, LimitsAssumption DEF ProbeCandidate, WorthProbing, IInv, TypeOK
      <4> QED BY <3>1, <4>2, <4>3 DEF ProbesAreSpread
    <3>3. CASE ~HasImageExtension(url)
      <4>1. ProbedImages' = ProbedImages
        BY <2>2, <3>3 DEF ProbedImages, HasImageExtension
      <4> QED BY <4>1 DEF ProbesAreSpread
    <3> QED BY <3>2, <3>3
  <2>6. Ahead'
    <3>1. DOMAIN candidates' = DOMAIN candidates /\ DOMAIN candidates \subseteq Nat
      BY <1>2, <2>1 DEF ProbeCandidate, Lists
    <3>2. ASSUME NEW i \in DOMAIN candidates, i >= next + 1
          PROVE  candidates'[i].url \notin probed'
      <4>1. candidates'[i] = candidates[i] /\ i > next /\ i # next
        BY <1>2, <2>1, <3>1, <3>2 DEF ProbeCandidate
      <4>2. candidates[i].url # url
        BY <2>1, <4>1 DEF Lists, Distinct
      <4>3. candidates[i].url \notin probed
        BY <2>1, <3>1, <3>2, <4>1 DEF Ahead
      <4> QED BY <2>2, <4>1, <4>2, <4>3
    <3>3. next' = next + 1
      BY <1>2 DEF ProbeCandidate
    <3> QED BY <3>1, <3>2, <3>3 DEF Ahead
  <2> QED BY <1>2, <2>1, <2>3, <2>4, <2>5, <2>6 DEF ProbesAreSpread, ProbeCandidate
<1>3. CASE SkipCandidate
  <2>1. DOMAIN candidates \subseteq Nat /\ next \in Nat
    BY LimitsAssumption DEF IInv, TypeOK, CandidatesInv, Lists
  <2>2. Ahead'
    BY <1>3, <2>1 DEF SkipCandidate, Probing, Ahead
  <2> QED BY <1>1, <1>3, <2>2 DEF SkipCandidate, Probing
<1>4. CASE Expire \/ UNCHANGED vars
  <2>1. UNCHANGED <<stage, candidates, next, probes, probed>>
    BY <1>4 DEF Expire, vars
  <2> QED BY <1>1, <2>1 DEF Ahead
<1>5. CASE PageFails \/ LoopExpired \/ RankExpired \/ LoopEnds \/ Ranked
  <2>1. UNCHANGED <<probes, probed>> /\ stage' \in {"rank", "done"}
    BY <1>5 DEF PageFails, LoopExpired, RankExpired, Fail, LoopEnds, Ranked
  <2> QED BY <1>1, <2>1
<1>6. ASSUME NEW links, NEW manifest, PageRead(links, manifest) PROVE ProbeInv'
  BY <1>1, <1>6 DEF PageRead
<1>7. ASSUME NEW icons, ManifestRead(icons) PROVE ProbeInv'
  BY <1>1, <1>7 DEF ManifestRead
<1> QED
  BY <1>2, <1>3, <1>4, <1>5, <1>6, <1>7 DEF Next, Step

\* A site is probed at most MaxContentTypeProbes times in a preview, each time for
\* another URL, and at most half of that for URLs with an image's extension.
THEOREM ProbesAreSpent == Spec => []ProbesAreSpread
<1>1. IInv /\ ProbeInv /\ [Next]_vars => (IInv /\ ProbeInv)'
  BY StepInv, StepProbeInv
<1>2. Init => IInv /\ ProbeInv
  BY InitInv, InitProbeInv
<1>3. ProbeInv => ProbesAreSpread
  BY DEF ProbeInv
<1> QED BY <1>1, <1>2, <1>3, PTL DEF Spec

=============================================================================
