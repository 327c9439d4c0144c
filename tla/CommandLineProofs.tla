-------------------------- MODULE CommandLineProofs --------------------------
(***************************************************************************)
(* What holds of a walk over any tree, of the listing of any space, of an  *)
(* output directory that any runs share, of bundles of any directories,    *)
(* and of any publications, however what they read changes; and of the     *)
(* commands together: each behaves as it does alone.                       *)
(***************************************************************************)
EXTENDS CommandLine, RepositoryProofs, PackageVerifierProofs, ConfigRunProofs, Induction

-----------------------------------------------------------------------------
(* A walk.                                                                 *)

\* A walk goes on only above the greatest depth.
Shallow == walk.at \in {"list", "fetch"} => walk.depth < MaxDepth

\* No page that is still to be fetched has been fetched.
Unfetched == walk.ids \cap walk.fetched = {}

WalkInv == WalkTypeOK /\ Shallow /\ Unfetched

LEMMA NoWalkType ==
    /\ Nothing \in Listings /\ NoWalk \in Walk /\ NoTreeCache \in TreeCache
    /\ NoWalk.at = "idle" /\ NoWalk.ids = {} /\ NoWalk.fetched = {}
<1>1. Nothing \in Listings
  BY DEF Nothing, Listings
<1>2. QED
  BY <1>1, TraversalAssumption DEF NoWalk, Walk, NoTreeCache, TreeCache

LEMMA WalkInvInit == WalkInit => WalkInv
BY NoWalkType, TraversalAssumption
   DEF WalkInit, WalkInv, WalkTypeOK, Shallow, Unfetched, NoTreeCache

\* The next level of a walk, which no page awaits yet.
LEMMA NextLevelType ==
    ASSUME NEW w \in Walk, NEW depth \in 0..MaxDepth, NEW level \in SUBSET WikiPages
    PROVE  /\ NextLevel(w, depth, level) \in Walk
           /\ NextLevel(w, depth, level).ids = {}
           /\ NextLevel(w, depth, level).at \in {"list", "fetch"} =>
                  NextLevel(w, depth, level).depth < MaxDepth
<1> DEFINE w1 == [w EXCEPT !.depth = depth, !.level = level, !.ids = {}, !.next = {}]
           at == IF DeepEnough(depth) THEN "done" ELSE "list"
<1>1. NextLevel(w, depth, level) = [w1 EXCEPT !.at = at]
  BY DEF NextLevel, Walk
<1>2. w1 \in Walk /\ w1.ids = {} /\ w1.depth = depth
  BY DEF Walk
<1>3. at \in {"list", "done"} /\ (at = "list" => depth < MaxDepth)
  BY TraversalAssumption DEF DeepEnough
<1> HIDE DEF w1, at
<1>4. QED
  BY <1>1, <1>2, <1>3 DEF Walk

\* An answer has some of the children, and those that it has in any case.
LEMMA AnswersType ==
    ASSUME NEW all \in SUBSET WikiPages
    PROVE  /\ Answers(all) \subseteq SUBSET all /\ Sure(all) \subseteq all
           /\ \A answer \in Answers(all) : Sure(all) \subseteq answer
BY DEF Answers, Sure

LEMMA ListingType ==
    ASSUME WalkTypeOK, NEW p \in WikiPages, NEW answer \in ListingsOf(p)
    PROVE  answer \subseteq WikiPages /\ Stored(p, answer) \subseteq TreeCache
<1>1. children[p] \subseteq WikiPages /\ treeCache.listing[p] \subseteq WikiPages
  BY DEF WalkTypeOK, Listings, TreeCache
<1>2. answer \subseteq WikiPages
  BY <1>1, AnswersType DEF ListingsOf
<1>3. [treeCache.listing EXCEPT ![p] = answer] \in Listings
  BY <1>2 DEF WalkTypeOK, Listings, TreeCache
<1>4. treeCache.pages \cup {p} \subseteq WikiPages
  BY DEF WalkTypeOK, TreeCache
<1>5. QED
  BY <1>2, <1>3, <1>4 DEF Stored, WalkTypeOK, TreeCache

\* A change of the tree.
LEMMA ChangedType ==
    ASSUME WalkInv, NEW new \in Listings, Changed(new), exists' \subseteq WikiPages
    PROVE  WalkInv'
<1> USE DEF WalkInv, WalkTypeOK
<1>1. children' \in Listings /\ treeCache' \in TreeCache
  BY DEF Changed
<1>2. moveQuota' \in 0..MoveQuota
  BY TraversalAssumption DEF Changed
<1> DEFINE firm == [p \in WikiPages |-> IF Cached(p) THEN walk.firm[p]
                                                     ELSE walk.firm[p] \cap Sure(new[p])]
           loose == [p \in WikiPages |-> IF Cached(p) THEN walk.loose[p]
                                                      ELSE walk.loose[p] \cup new[p]]
<1>3. firm \in Listings /\ loose \in Listings
  BY DEF Listings, Walk
<1>4. walk' = walk \/ walk' = [walk EXCEPT !.firm = firm, !.loose = loose]
  BY DEF Changed
<1> HIDE DEF firm, loose
<1>5. walk' \in Walk /\ walk'.at = walk.at /\ walk'.depth = walk.depth
      /\ walk'.ids = walk.ids /\ walk'.fetched = walk.fetched
  BY <1>3, <1>4 DEF Walk
<1>6. QED
  BY <1>1, <1>2, <1>5 DEF Shallow, Unfetched

LEMMA WalkStep == WalkInv /\ [WalkNext]_walkVars => WalkInv'
<1>0. SUFFICES ASSUME WalkInv, [WalkNext]_walkVars PROVE WalkInv'
  OBVIOUS
<1>t. WalkTypeOK /\ Shallow /\ Unfetched
  BY <1>0 DEF WalkInv
<1>w. ASSUME walk' = NoWalk, children' = children, exists' = exists, treeCache' = treeCache,
             moveQuota' = moveQuota
      PROVE  WalkInv'
  BY <1>t, <1>w, NoWalkType DEF WalkInv, WalkTypeOK, Shallow, Unfetched
<1>1. ASSUME NEW cache \in CacheChoices, StartWalk(cache) PROVE WalkInv'
  <2> DEFINE mode == IF cache = "clear" THEN "use" ELSE cache
             cached == IF mode = "use" THEN treeCache'.pages ELSE {}
             firm == [p \in WikiPages |-> IF p \in cached THEN treeCache.listing[p]
                                          ELSE Sure(children[p])]
             loose == [p \in WikiPages |-> IF p \in cached THEN treeCache.listing[p]
                                           ELSE children[p]]
  <2>1. treeCache' \in TreeCache
    BY <1>1, <1>t, NoWalkType DEF StartWalk, WalkTypeOK
  <2>2. mode \in {"none", "use", "refresh", "clear"}
    BY TraversalAssumption
  <2>3. firm \in Listings /\ loose \in Listings
    BY <1>t, AnswersType DEF WalkTypeOK, Listings, TreeCache
  <2>4. walk' = [NoWalk EXCEPT !.at = "root", !.cache = mode, !.firm = firm, !.loose = loose]
    BY <1>1 DEF StartWalk
  <2> HIDE DEF mode, cached, firm, loose
  <2>5. walk' \in Walk /\ walk'.at = "root" /\ walk'.ids = {}
    BY <2>2, <2>3, <2>4, NoWalkType DEF Walk
  <2>6. QED
    BY <1>1, <1>t, <2>1, <2>5 DEF StartWalk, WalkInv, WalkTypeOK, Shallow, Unfetched
<1>2. CASE FetchRoot
  <2>1. [walk EXCEPT !.fetched = {Root}] \in Walk /\ 0 \in 0..MaxDepth /\ {Root} \subseteq WikiPages
    BY <1>t, TraversalAssumption DEF WalkTypeOK, Walk
  <2>2. QED
    BY <1>2, <1>t, <2>1, NextLevelType DEF FetchRoot, WalkInv, WalkTypeOK, Shallow, Unfetched
<1>3. CASE FetchChildren
  BY <1>3, <1>t DEF FetchChildren, WalkInv, WalkTypeOK, Walk, Shallow, Unfetched
<1>4. CASE EndLevel
  <2>1. walk.depth + 1 \in 0..MaxDepth /\ walk.next \subseteq WikiPages
    BY <1>4, <1>t, TraversalAssumption DEF EndLevel, Shallow, WalkTypeOK, Walk
  <2>2. QED
    BY <1>4, <1>t, <2>1, NextLevelType DEF EndLevel, WalkInv, WalkTypeOK, Shallow, Unfetched
<1>5. CASE EndWalk
  BY <1>5, <1>w DEF EndWalk
<1>6. CASE FailWalk
  BY <1>6, <1>w DEF FailWalk
<1>7. ASSUME NEW p \in WikiPages, ListChildren(p) PROVE WalkInv'
  <2>1. PICK answer \in ListingsOf(p) :
            /\ walk' = [walk EXCEPT !.level = @ \ {p}, !.ids = @ \cup (answer \ walk.fetched)]
            /\ treeCache' \in Stored(p, answer)
    BY <1>7 DEF ListChildren
  <2>2. treeCache' \in TreeCache /\ answer \subseteq WikiPages
    BY <1>t, <2>1, ListingType
  <2>3. QED
    BY <1>7, <1>t, <2>1, <2>2 DEF ListChildren, Awaited, WalkInv, WalkTypeOK, Walk, Shallow, Unfetched
<1>8. ASSUME NEW p \in WikiPages, FetchChild(p) PROVE WalkInv'
  BY <1>8, <1>t DEF FetchChild, WalkInv, WalkTypeOK, Walk, Shallow, Unfetched
<1>9. ASSUME NEW p \in WikiPages, RemovePage(p) PROVE WalkInv'
  <2>1. Without(p) \in Listings /\ exists' \subseteq WikiPages
    BY <1>9, <1>t DEF RemovePage, Without, WalkTypeOK, Listings
  <2>2. QED
    BY <1>0, <1>9, <2>1, ChangedType DEF RemovePage
<1>10. ASSUME NEW p \in WikiPages, NEW to \in WikiPages, MovePage(p, to) PROVE WalkInv'
  <2>1. Without(p) \in Listings /\ exists' \subseteq WikiPages
    BY <1>10, <1>t DEF MovePage, Without, WalkTypeOK, Listings
  <2>2. [Without(p) EXCEPT ![to] = Without(p)[to] \cup {p}] \in Listings
    BY <2>1 DEF Listings
  <2>3. QED
    BY <1>0, <1>10, <2>1, <2>2, ChangedType DEF MovePage
<1>11. CASE UNCHANGED walkVars
  BY <1>11, <1>t DEF walkVars, WalkInv, WalkTypeOK, Shallow, Unfetched
<1>12. QED
  BY <1>0, <1>1, <1>2, <1>3, <1>4, <1>5, <1>6, <1>7, <1>8, <1>9, <1>10, <1>11 DEF WalkNext

\* The inductive invariant of a walk.
THEOREM WalkInvariant == WalkSpec => []WalkInv
BY WalkInvInit, WalkStep, PTL DEF WalkSpec

\* walk_pages fetches no page twice in one walk, of whatever shape the tree is
\* and however pages are moved in it meanwhile.
THEOREM PagesAreFetchedOnce == WalkSpec => FetchedOnce
<1>1. WalkInv /\ [WalkNext]_walkVars =>
          [\A p \in WikiPages : FetchChild(p) => p \notin walk.fetched]_walkVars
  BY DEF WalkInv, Unfetched, FetchChild
<1>2. QED
  BY <1>1, WalkInvariant, PTL DEF WalkSpec, FetchedOnce

\* The pages within a number of steps, step by step.
LEMMA WithinRecurs ==
    ASSUME NEW links \in Listings, NEW from \in WikiPages
    PROVE  /\ Within(links, from, 0) = {from}
           /\ \A d \in Nat : /\ Within(links, from, d) \in SUBSET WikiPages
                             /\ Within(links, from, d + 1) =
                                    Within(links, from, d) \cup
                                    UNION {links[p] : p \in Within(links, from, d)}
<1> DEFINE wider(s) == s \cup UNION {links[p] : p \in s}
           step == [a \in Nat \X SUBSET WikiPages |-> wider(a[2])]
           onwards(g) == [k \in Nat |-> IF k = 0 THEN {from} ELSE wider(g[k - 1])]
           reach == CHOOSE g : g = onwards(g)
<1>1. ASSUME NEW s \in SUBSET WikiPages PROVE wider(s) \in SUBSET WikiPages
  BY DEF Listings
<1> HIDE DEF wider
<1>2. step \in [Nat \X SUBSET WikiPages -> SUBSET WikiPages]
  BY <1>1
<1>s. \A n \in Nat, s \in SUBSET WikiPages : step[<<n, s>>] = wider(s)
  OBVIOUS
<1> HIDE DEF step
<1>3. PICK f : RecursOnNat(f, SUBSET WikiPages, {from}, step)
  <2>1. {from} \in SUBSET WikiPages
    OBVIOUS
  <2>2. QED
    BY <1>2, <2>1, RecursionOnNat
<1>f. /\ f \in [Nat -> SUBSET WikiPages] /\ f[0] = {from}
      /\ \A n \in Nat \ {0} : f[n] = step[<<n, f[n - 1]>>]
  BY <1>3 DEF RecursOnNat
<1>4. ASSUME NEW k \in Nat PROVE f[k] = IF k = 0 THEN {from} ELSE wider(f[k - 1])
  <2>1. CASE k = 0
    BY <1>f, <2>1
  <2>2. CASE k # 0
    <3>1. k - 1 \in Nat /\ f[k - 1] \in SUBSET WikiPages
      BY <1>f, <2>2
    <3>2. QED
      BY <1>s, <1>f, <2>2, <3>1
  <2>3. QED
    BY <2>1, <2>2
<1>5. f = onwards(f)
  BY <1>f, <1>4
<1> HIDE DEF onwards
<1>6. reach = onwards(reach)
  BY <1>5
<1> HIDE DEF reach
<1>7. ASSUME NEW k \in Nat PROVE reach[k] = IF k = 0 THEN {from} ELSE wider(reach[k - 1])
  BY <1>6 DEF onwards
<1>8. \A d \in Nat : Within(links, from, d) = reach[d]
  BY DEF Within, reach, onwards, wider
<1>9. ASSUME NEW d \in Nat PROVE reach[d] \in SUBSET WikiPages
  <2> DEFINE s == {k \in 0..d : reach[k] \in SUBSET WikiPages}
  <2>1. 0 \in s
    BY <1>7
  <2>2. ASSUME NEW k \in 0..(d - 1), k \in s PROVE k + 1 \in s
    <3>1. reach[k + 1] = wider(reach[k])
      BY <1>7
    <3>2. QED
      BY <1>1, <2>2, <3>1
  <2> HIDE DEF s
  <2>3. \A k \in 0..d : k \in s
    BY <2>1, <2>2, UpTo
  <2>4. d \in 0..d
    OBVIOUS
  <2>5. QED
    BY <2>3, <2>4 DEF s
<1>10. \A d \in Nat : reach[d + 1] = wider(reach[d])
  BY <1>7
<1>11. reach[0] = {from}
  BY <1>7
<1>12. QED
  BY <1>8, <1>9, <1>10, <1>11 DEF wider

\* More is within reach by listings that have more.
LEMMA WithinGrows ==
    ASSUME NEW some \in Listings, NEW more \in Listings, NEW from \in WikiPages, NEW d \in Nat,
           \A p \in WikiPages : some[p] \subseteq more[p]
    PROVE  /\ Within(some, from, d) \subseteq Within(more, from, d)
           /\ Within(some, from, d) \subseteq Within(some, from, d + 1)
<1> DEFINE s == {k \in 0..d : Within(some, from, k) \subseteq Within(more, from, k)}
<1>1. 0 \in s
  BY WithinRecurs
<1>2. ASSUME NEW k \in 0..(d - 1), k \in s PROVE k + 1 \in s
  <2>1. k \in Nat /\ k + 1 \in 0..d
    OBVIOUS
  <2>2. /\ Within(some, from, k) \in SUBSET WikiPages
        /\ Within(some, from, k) \subseteq Within(more, from, k)
        /\ Within(some, from, k + 1) = Within(some, from, k) \cup
                                       UNION {some[p] : p \in Within(some, from, k)}
        /\ Within(more, from, k + 1) = Within(more, from, k) \cup
                                       UNION {more[p] : p \in Within(more, from, k)}
    BY <1>2, <2>1, WithinRecurs
  <2>3. QED
    BY <2>1, <2>2
<1> HIDE DEF s
<1>3. \A k \in 0..d : k \in s
  BY <1>1, <1>2, UpTo
<1>4. d \in s
  BY <1>3
<1>5. QED
  BY <1>4, WithinRecurs DEF s

\* The listings of a walk are about what it would find.
LooksHold ==
    walk.at # "idle" =>
        \A p \in WikiPages : \A answer \in ListingsOf(p) :
            walk.firm[p] \subseteq answer /\ answer \subseteq walk.loose[p]

Unstarted == walk.at = "root" => /\ walk.level = {} /\ walk.ids = {} /\ walk.next = {}
                                 /\ walk.fetched = {}

\* The pages of the levels so far, without those fetched for the next one.
Reached == walk.fetched \ walk.next

\* Those that have been listed, have all their children fetched or about to be.
LevelsHold ==
    walk.at \in {"list", "fetch", "done"} =>
        /\ walk.level \subseteq Reached /\ walk.next \subseteq walk.fetched
        /\ walk.at = "fetch" => walk.level = {}
        /\ walk.at \in {"list", "done"} => walk.next = {}
        /\ walk.at = "done" => walk.depth = MaxDepth
        /\ Within(walk.firm, Root, walk.depth) \subseteq Reached
        /\ Reached \subseteq Within(walk.loose, Root, walk.depth)
        /\ walk.ids \cup walk.next \subseteq Within(walk.loose, Root, walk.depth + 1)
        /\ \A p \in Reached \ walk.level : walk.firm[p] \subseteq walk.fetched \cup walk.ids

WalkFinds == WalkInv /\ LooksHold /\ Unstarted /\ LevelsHold

\* What a walk takes along to its next level.
LEMMA NextLevelFields ==
    ASSUME NEW w \in Walk, NEW depth \in 0..MaxDepth, NEW level \in SUBSET WikiPages
    PROVE  LET n == NextLevel(w, depth, level) IN
           /\ n.at \in {"list", "done"}
           /\ n.at = "done" => depth = MaxDepth
           /\ n.depth = depth /\ n.level = level /\ n.ids = {} /\ n.next = {}
           /\ n.cache = w.cache /\ n.fetched = w.fetched
           /\ n.firm = w.firm /\ n.loose = w.loose
<1> DEFINE at == IF DeepEnough(depth) THEN "done" ELSE "list"
<1>1. NextLevel(w, depth, level) =
          [w EXCEPT !.at = at, !.depth = depth, !.level = level, !.ids = {}, !.next = {}]
  BY DEF NextLevel, Walk
<1>2. at \in {"list", "done"} /\ (at = "done" => depth = MaxDepth)
  BY TraversalAssumption DEF DeepEnough
<1> HIDE DEF at
<1>3. QED
  BY <1>1, <1>2 DEF Walk

\* The wiki and the walk's cache are as they were.
LEMMA LooksStay ==
    ASSUME LooksHold, walk.at # "idle", walk'.cache = walk.cache,
           walk'.firm = walk.firm, walk'.loose = walk.loose,
           children' = children, treeCache' = treeCache
    PROVE  LooksHold'
BY DEF LooksHold, ListingsOf, Cached

\* A change of the tree takes from what is firm, and adds to what is loose.
LEMMA ChangedFinds ==
    ASSUME WalkFinds, WalkInv', NEW new \in Listings, Changed(new)
    PROVE  WalkFinds'
<1> DEFINE firm == [p \in WikiPages |-> IF Cached(p) THEN walk.firm[p]
                                                     ELSE walk.firm[p] \cap Sure(new[p])]
           loose == [p \in WikiPages |-> IF Cached(p) THEN walk.loose[p]
                                                      ELSE walk.loose[p] \cup new[p]]
<1>0. WalkTypeOK /\ WalkTypeOK' /\ LooksHold /\ Unstarted /\ LevelsHold
  BY DEF WalkFinds, WalkInv
<1>1. CASE walk.at = "idle"
  <2>1. walk'.at = "idle"
    BY <1>1 DEF Changed
  <2>2. QED
    BY <2>1 DEF WalkFinds, LooksHold, Unstarted, LevelsHold
<1>2. CASE walk.at # "idle"
  <2>1. walk' = [walk EXCEPT !.firm = firm, !.loose = loose]
    BY <1>2 DEF Changed
  <2>2. /\ walk.firm \in Listings /\ walk.loose \in Listings /\ walk.depth \in Nat
        /\ walk'.firm \in Listings /\ walk'.loose \in Listings
    BY <1>0, TraversalAssumption DEF WalkTypeOK, Walk
  <2>3. \A p \in WikiPages :
            /\ firm[p] = IF Cached(p) THEN walk.firm[p] ELSE walk.firm[p] \cap Sure(new[p])
            /\ loose[p] = IF Cached(p) THEN walk.loose[p] ELSE walk.loose[p] \cup new[p]
    OBVIOUS
  <2> HIDE DEF firm, loose
  <2>4. /\ walk'.at = walk.at /\ walk'.cache = walk.cache /\ walk'.depth = walk.depth
        /\ walk'.level = walk.level /\ walk'.ids = walk.ids /\ walk'.next = walk.next
        /\ walk'.fetched = walk.fetched /\ walk'.firm = firm /\ walk'.loose = loose
    BY <1>0, <2>1 DEF WalkTypeOK, Walk
  <2>5. LooksHold'
    <3>1. ASSUME NEW p \in WikiPages PROVE Cached(p)' <=> Cached(p)
      BY <2>4 DEF Cached, Changed
    <3>2. children' = new /\ treeCache' = treeCache
      BY DEF Changed
    <3>3. \A p \in WikiPages : new[p] \subseteq WikiPages
      BY DEF Listings
    <3>4. ASSUME NEW p \in WikiPages, NEW answer \in ListingsOf(p)'
          PROVE  firm[p] \subseteq answer /\ answer \subseteq loose[p]
      <4>1. CASE Cached(p)
        BY <1>0, <1>2, <2>3, <3>1, <3>2, <3>4, <4>1 DEF LooksHold, ListingsOf
      <4>2. CASE ~Cached(p)
        <5>1. answer \in Answers(new[p])
          BY <3>1, <3>2, <3>4, <4>2 DEF ListingsOf
        <5>2. Sure(new[p]) \subseteq answer /\ answer \subseteq new[p]
          BY <3>3, <5>1, AnswersType
        <5>3. QED
          BY <2>3, <4>2, <5>2
      <4>3. QED
        BY <4>1, <4>2
    <3>5. QED
      BY <2>4, <3>4 DEF LooksHold
  <2>6. Unstarted'
    BY <1>0, <2>4 DEF Unstarted
  <2>7. \A p \in WikiPages : firm[p] \subseteq walk.firm[p] /\ walk.loose[p] \subseteq loose[p]
    BY <2>3
  <2>8. firm \in Listings /\ loose \in Listings /\ Root \in WikiPages /\ walk.depth + 1 \in Nat
    BY <2>2, <2>4, TraversalAssumption
  <2>9. /\ Within(firm, Root, walk.depth) \subseteq Within(walk.firm, Root, walk.depth)
        /\ Within(walk.loose, Root, walk.depth) \subseteq Within(loose, Root, walk.depth)
        /\ Within(walk.loose, Root, walk.depth + 1) \subseteq Within(loose, Root, walk.depth + 1)
    BY <2>2, <2>7, <2>8, WithinGrows
  <2>10. walk.fetched \subseteq WikiPages
    BY <1>0 DEF WalkTypeOK, Walk
  <2>11. LevelsHold'
    BY <1>0, <2>4, <2>7, <2>9, <2>10 DEF LevelsHold, Reached
  <2>12. QED
    BY <2>5, <2>6, <2>11 DEF WalkFinds
<1>3. QED
  BY <1>1, <1>2

\* A walk that starts would find what the wiki, or its cache, now has.
LEMMA StartFinds ==
    ASSUME WalkFinds, WalkInv', NEW cache \in CacheChoices, StartWalk(cache)
    PROVE  WalkFinds'
<1> DEFINE mode == IF cache = "clear" THEN "use" ELSE cache
           cached == IF mode = "use" THEN treeCache'.pages ELSE {}
           firm == [p \in WikiPages |-> IF p \in cached THEN treeCache.listing[p]
                                        ELSE Sure(children[p])]
           loose == [p \in WikiPages |-> IF p \in cached THEN treeCache.listing[p]
                                         ELSE children[p]]
<1>1. walk' = [NoWalk EXCEPT !.at = "root", !.cache = mode, !.firm = firm, !.loose = loose]
  BY DEF StartWalk
<1>2. /\ children' = children
      /\ treeCache' = treeCache \/ treeCache'.pages = {}
  BY DEF StartWalk, NoTreeCache
<1>3. \A p \in WikiPages :
          /\ firm[p] = IF p \in cached THEN treeCache.listing[p] ELSE Sure(children[p])
          /\ loose[p] = IF p \in cached THEN treeCache.listing[p] ELSE children[p]
  OBVIOUS
<1> HIDE DEF firm, loose
<1>4. /\ walk'.at = "root" /\ walk'.cache = mode /\ walk'.firm = firm /\ walk'.loose = loose
      /\ walk'.level = {} /\ walk'.ids = {} /\ walk'.next = {} /\ walk'.fetched = {}
  BY <1>1 DEF NoWalk
<1>5. ASSUME NEW p \in WikiPages, NEW answer \in ListingsOf(p)'
      PROVE  firm[p] \subseteq answer /\ answer \subseteq loose[p]
  <2>1. children[p] \in SUBSET WikiPages
    BY DEF WalkFinds, WalkInv, WalkTypeOK, Listings
  <2>2. Cached(p)' <=> p \in cached
    BY <1>4 DEF Cached
  <2> HIDE DEF mode, cached
  <2>3. CASE p \in cached
    <3>1. treeCache' = treeCache
      BY <1>2, <2>3 DEF cached
    <3>2. QED
      BY <1>3, <1>5, <2>2, <2>3, <3>1 DEF ListingsOf
  <2>4. CASE p \notin cached
    BY <1>2, <1>3, <1>5, <2>1, <2>2, <2>4, AnswersType DEF ListingsOf
  <2>5. QED
    BY <2>3, <2>4
<1>6. LooksHold'
  BY <1>4, <1>5 DEF LooksHold
<1>7. QED
  BY <1>4, <1>6 DEF WalkFinds, Unstarted, LevelsHold

\* It fetches the root, and is at the first level.
LEMMA RootFinds ==
    ASSUME WalkFinds, WalkInv', FetchRoot
    PROVE  WalkFinds'
<1>0. WalkTypeOK /\ LooksHold
  BY DEF WalkFinds, WalkInv
<1> DEFINE w == [walk EXCEPT !.fetched = {Root}]
<1>1. /\ walk' = NextLevel(w, 0, {Root}) /\ walk.at = "root"
      /\ children' = children /\ treeCache' = treeCache
  BY DEF FetchRoot
<1>2. /\ w \in Walk /\ w.fetched = {Root} /\ w.cache = walk.cache
      /\ w.firm = walk.firm /\ w.loose = walk.loose
  BY <1>0, TraversalAssumption DEF WalkTypeOK, Walk
<1> HIDE DEF w
<1>3. 0 \in 0..MaxDepth /\ {Root} \in SUBSET WikiPages /\ Root \in WikiPages
  BY TraversalAssumption
<1>4. /\ walk'.at \in {"list", "done"}
      /\ walk'.at = "done" => MaxDepth = 0
      /\ walk'.depth = 0 /\ walk'.level = {Root} /\ walk'.ids = {} /\ walk'.next = {}
      /\ walk'.cache = walk.cache /\ walk'.fetched = {Root}
      /\ walk'.firm = walk.firm /\ walk'.loose = walk.loose
  BY <1>1, <1>2, <1>3, NextLevelFields
<1>5. LooksHold'
  BY <1>0, <1>1, <1>4, LooksStay
<1>6. walk.firm \in Listings /\ walk.loose \in Listings
  BY <1>0 DEF WalkTypeOK, Walk
<1>7. Within(walk.firm, Root, 0) = {Root} /\ Within(walk.loose, Root, 0) = {Root}
  BY <1>3, <1>6, WithinRecurs
<1>8. LevelsHold'
  BY <1>4, <1>7 DEF LevelsHold, Reached
<1>9. QED
  BY <1>4, <1>5, <1>8 DEF WalkFinds, Unstarted

\* It lists the children of a page: they are new, or have been fetched.
LEMMA ListFinds ==
    ASSUME WalkFinds, WalkInv', NEW p \in WikiPages, ListChildren(p)
    PROVE  WalkFinds'
<1>0. WalkTypeOK /\ LooksHold /\ LevelsHold
  BY DEF WalkFinds, WalkInv
<1>1. walk.at = "list" /\ p \in walk.level /\ children' = children
  BY DEF ListChildren, Awaited
<1>a. PICK answer \in ListingsOf(p) :
          /\ walk' = [walk EXCEPT !.level = @ \ {p}, !.ids = @ \cup (answer \ walk.fetched)]
          /\ treeCache' \in Stored(p, answer)
  BY DEF ListChildren
<1>2. /\ walk'.at = walk.at /\ walk'.cache = walk.cache /\ walk'.depth = walk.depth
      /\ walk'.level = walk.level \ {p}
      /\ walk'.ids = walk.ids \cup (answer \ walk.fetched)
      /\ walk'.next = walk.next /\ walk'.fetched = walk.fetched
      /\ walk'.firm = walk.firm /\ walk'.loose = walk.loose
  BY <1>0, <1>a DEF WalkTypeOK, Walk
<1>3. LooksHold'
  <2>1. treeCache \in TreeCache
    BY <1>0 DEF WalkTypeOK
  <2>2. ASSUME NEW q \in WikiPages PROVE ListingsOf(q)' \subseteq ListingsOf(q)
    <3>1. CASE treeCache' = treeCache
      BY <1>1, <1>2, <3>1 DEF ListingsOf, Cached
    <3>2. CASE /\ ~ Cached(p)
               /\ treeCache' = [pages |-> treeCache.pages \cup {p},
                                listing |-> [treeCache.listing EXCEPT ![p] = answer]]
      <4>1. /\ treeCache'.pages = treeCache.pages \cup {p}
            /\ treeCache'.listing[q] = IF q = p THEN answer ELSE treeCache.listing[q]
        BY <2>1, <3>2 DEF TreeCache, Listings
      <4>2. CASE q = p
        BY <1>1, <1>2, <1>a, <3>2, <4>1, <4>2 DEF ListingsOf, Cached
      <4>3. CASE q # p
        BY <1>1, <1>2, <3>2, <4>1, <4>3 DEF ListingsOf, Cached
      <4>4. QED
        BY <4>2, <4>3
    <3>3. QED
      BY <1>a, <3>1, <3>2 DEF Stored
  <2>3. QED
    BY <1>0, <1>1, <1>2, <2>2 DEF LooksHold
<1>4. walk.firm[p] \subseteq answer /\ answer \subseteq walk.loose[p]
  BY <1>0, <1>1, <1>a DEF LooksHold
<1>5. /\ Root \in WikiPages /\ walk.loose \in Listings /\ walk.depth \in Nat
  BY <1>0, TraversalAssumption DEF WalkTypeOK, Walk
<1>6. p \in Within(walk.loose, Root, walk.depth)
  BY <1>0, <1>1 DEF LevelsHold
<1>7. answer \subseteq Within(walk.loose, Root, walk.depth + 1)
  <2>1. Within(walk.loose, Root, walk.depth + 1) = Within(walk.loose, Root, walk.depth) \cup
            UNION {walk.loose[q] : q \in Within(walk.loose, Root, walk.depth)}
    BY <1>5, WithinRecurs
  <2>2. QED
    BY <1>4, <1>6, <2>1
<1>8. LevelsHold'
  BY <1>0, <1>1, <1>2, <1>4, <1>7 DEF LevelsHold, Reached
<1>9. QED
  BY <1>1, <1>2, <1>3, <1>8 DEF WalkFinds, Unstarted

\* It fetches a child, which is then of the next level.
LEMMA FetchFinds ==
    ASSUME WalkFinds, WalkInv', FetchChildren \/ \E p \in WikiPages : FetchChild(p)
    PROVE  WalkFinds'
<1>0. WalkTypeOK /\ LooksHold /\ LevelsHold
  BY DEF WalkFinds, WalkInv
<1>1. CASE FetchChildren
  <2>1. /\ walk.at = "list" /\ walk.level = {} /\ walk' = [walk EXCEPT !.at = "fetch"]
        /\ children' = children /\ treeCache' = treeCache
    BY <1>1 DEF FetchChildren
  <2>2. /\ walk'.at = "fetch" /\ walk'.cache = walk.cache /\ walk'.depth = walk.depth
        /\ walk'.level = walk.level /\ walk'.ids = walk.ids
        /\ walk'.next = walk.next /\ walk'.fetched = walk.fetched
        /\ walk'.firm = walk.firm /\ walk'.loose = walk.loose
    BY <1>0, <2>1 DEF WalkTypeOK, Walk
  <2>3. LooksHold'
    BY <1>0, <2>1, <2>2, LooksStay
  <2>4. LevelsHold'
    BY <1>0, <2>1, <2>2 DEF LevelsHold, Reached
  <2>5. QED
    BY <2>2, <2>3, <2>4 DEF WalkFinds, Unstarted
<1>2. ASSUME NEW p \in WikiPages, FetchChild(p) PROVE WalkFinds'
  <2>1. /\ walk.at = "fetch" /\ p \in walk.ids
        /\ walk' = [walk EXCEPT !.ids = @ \ {p}, !.next = @ \cup ({p} \ walk.fetched),
                                !.fetched = @ \cup {p}]
        /\ children' = children /\ treeCache' = treeCache
    BY <1>2 DEF FetchChild
  <2>2. /\ walk'.at = "fetch" /\ walk'.cache = walk.cache /\ walk'.depth = walk.depth
        /\ walk'.level = walk.level /\ walk'.ids = walk.ids \ {p}
        /\ walk'.next = walk.next \cup ({p} \ walk.fetched)
        /\ walk'.fetched = walk.fetched \cup {p}
        /\ walk'.firm = walk.firm /\ walk'.loose = walk.loose
    BY <1>0, <2>1 DEF WalkTypeOK, Walk
  <2>3. LooksHold'
    BY <1>0, <2>1, <2>2, LooksStay
  <2>4. Reached' = Reached
    BY <1>0, <2>1, <2>2 DEF LevelsHold, Reached
  <2>5. LevelsHold'
    BY <1>0, <2>1, <2>2, <2>4 DEF LevelsHold
  <2>6. QED
    BY <2>2, <2>3, <2>5 DEF WalkFinds, Unstarted
<1>3. QED
  BY <1>1, <1>2

\* It goes on to the next level when no child is left to be fetched.
LEMMA LevelFinds ==
    ASSUME WalkFinds, WalkInv', EndLevel
    PROVE  WalkFinds'
<1>0. WalkTypeOK /\ LooksHold /\ LevelsHold /\ Shallow
  BY DEF WalkFinds, WalkInv
<1>1. /\ walk.at = "fetch" /\ walk.ids = {} /\ children' = children /\ treeCache' = treeCache
      /\ walk' = NextLevel(walk, walk.depth + 1, walk.next)
  BY DEF EndLevel
<1>2. /\ walk \in Walk /\ walk.depth \in Nat /\ walk.depth + 1 \in 0..MaxDepth
      /\ walk.next \in SUBSET WikiPages /\ walk.fetched \in SUBSET WikiPages
      /\ Root \in WikiPages
      /\ walk.firm \in Listings /\ walk.loose \in Listings
  BY <1>0, <1>1, TraversalAssumption DEF WalkTypeOK, Walk, Shallow
<1>3. /\ walk'.at \in {"list", "done"}
      /\ walk'.at = "done" => walk.depth + 1 = MaxDepth
      /\ walk'.depth = walk.depth + 1 /\ walk'.level = walk.next /\ walk'.ids = {}
      /\ walk'.next = {} /\ walk'.cache = walk.cache /\ walk'.fetched = walk.fetched
      /\ walk'.firm = walk.firm /\ walk'.loose = walk.loose
  BY <1>1, <1>2, NextLevelFields
<1>4. LooksHold'
  BY <1>0, <1>1, <1>3, LooksStay
<1>5. Within(walk.firm, Root, walk.depth + 1) =
          Within(walk.firm, Root, walk.depth) \cup
          UNION {walk.firm[q] : q \in Within(walk.firm, Root, walk.depth)}
  BY <1>2, WithinRecurs
<1>6. ASSUME NEW q \in Within(walk.firm, Root, walk.depth)
      PROVE  walk.firm[q] \subseteq walk.fetched /\ q \in walk.fetched
  BY <1>0, <1>1 DEF LevelsHold, Reached
<1>7. Within(walk.firm, Root, walk.depth + 1) \subseteq walk.fetched
  BY <1>5, <1>6
<1>8. walk.fetched \subseteq Within(walk.loose, Root, walk.depth + 1)
  <2>1. Within(walk.loose, Root, walk.depth) \subseteq Within(walk.loose, Root, walk.depth + 1)
    BY <1>2, WithinGrows
  <2>2. QED
    BY <1>0, <1>1, <2>1 DEF LevelsHold, Reached
<1>9. \A p \in walk.fetched \ walk.next : walk.firm[p] \subseteq walk.fetched
  BY <1>0, <1>1 DEF LevelsHold, Reached
<1>10. LevelsHold'
  BY <1>0, <1>1, <1>3, <1>7, <1>8, <1>9 DEF LevelsHold, Reached
<1>11. QED
  BY <1>3, <1>4, <1>10 DEF WalkFinds, Unstarted

\* A step of the walk or of the wiki keeps the invariant.
LEMMA WalkFindsStep == WalkFinds /\ [WalkNext]_walkVars => WalkFinds'
<1>0. SUFFICES ASSUME WalkFinds, [WalkNext]_walkVars PROVE WalkFinds'
  OBVIOUS
<1>t. WalkInv' /\ WalkTypeOK
  BY <1>0, WalkStep DEF WalkFinds, WalkInv
<1>w. ASSUME walk' = NoWalk PROVE WalkFinds'
  BY <1>t, <1>w, NoWalkType DEF WalkFinds, LooksHold, Unstarted, LevelsHold
<1>1. ASSUME NEW cache \in CacheChoices, StartWalk(cache) PROVE WalkFinds'
  BY <1>0, <1>t, <1>1, StartFinds
<1>2. ASSUME NEW p \in WikiPages, RemovePage(p) PROVE WalkFinds'
  <2>1. Without(p) \in Listings
    BY <1>t DEF Without, WalkTypeOK, Listings
  <2>2. QED
    BY <1>0, <1>t, <1>2, <2>1, ChangedFinds DEF RemovePage
<1>3. ASSUME NEW p \in WikiPages, NEW to \in WikiPages, MovePage(p, to) PROVE WalkFinds'
  <2>1. Without(p) \in Listings
    BY <1>t DEF Without, WalkTypeOK, Listings
  <2>2. [Without(p) EXCEPT ![to] = Without(p)[to] \cup {p}] \in Listings
    BY <2>1 DEF Listings
  <2>3. QED
    BY <1>0, <1>t, <1>3, <2>2, ChangedFinds DEF MovePage
<1>4. ASSUME NEW p \in WikiPages, ListChildren(p) PROVE WalkFinds'
  BY <1>0, <1>t, <1>4, ListFinds
<1>5. CASE EndWalk \/ FailWalk
  BY <1>5, <1>w DEF EndWalk, FailWalk
<1>6. CASE UNCHANGED walkVars
  <2>1. children' = children /\ treeCache' = treeCache /\ walk' = walk
    BY <1>6 DEF walkVars
  <2>2. LooksHold' /\ Unstarted' /\ LevelsHold'
    BY <1>0, <2>1 DEF WalkFinds, LooksHold, ListingsOf, Cached, Unstarted, LevelsHold, Reached
  <2>3. QED
    BY <1>t, <2>2 DEF WalkFinds
<1>7. QED
  BY <1>0, <1>t, <1>1, <1>2, <1>3, <1>4, <1>5, <1>6, RootFinds, FetchFinds, LevelFinds
     DEF WalkNext

\* The inductive invariant of what a walk finds: the pages that it has reached are
\* at least those within its depth by the links that were there all the time and
\* fit the one answer it asks for, and at most those by the links that were there
\* at some time.
THEOREM WalksFind == WalkSpec => []WalkFinds
<1>1. WalkInit => WalkFinds
  BY WalkInvInit, NoWalkType DEF WalkInit, WalkFinds, LooksHold, Unstarted, LevelsHold
<1>2. QED
  BY <1>1, WalkFindsStep, PTL DEF WalkSpec

\* A walk that ends has fetched each page that its depth allows, and no other, but
\* for those whose links came or went meanwhile and those below a page with more
\* children than one answer holds: whatever the tree, its cycles, its depth and
\* the size of an answer.
THEOREM WalksAreExact == WalkSpec => []WalkIsExact
<1>1. WalkFinds => WalkIsExact
  BY DEF WalkFinds, LevelsHold, Reached, WalkIsExact
<1>2. QED
  BY <1>1, WalksFind, PTL

-----------------------------------------------------------------------------
(* A space.                                                                *)

\* The pages that were there all the time and that the listing has passed.
PassedOver == {p \in enumerating.stayed \ enumerating.ids : PagesBefore(p) < enumerating.start}

ListedSoFar ==
    /\ enumerating.stayed \subseteq space /\ space \subseteq enumerating.seen
    /\ enumerating.ids \subseteq enumerating.seen
    /\ enumerating.at = "list" => Cardinality(PassedOver) <= enumerating.gone
    /\ enumerating.at = "done" =>
          Cardinality(enumerating.stayed \ enumerating.ids) <= enumerating.gone

SpaceInv == /\ SpaceTypeOK
            /\ enumerating.gone + spaceQuota <= SpaceQuota
            /\ enumerating.at # "idle" => ListedSoFar

LEMMA PagesAreFinite ==
    ASSUME NEW pages \in SUBSET SpacePages
    PROVE  /\ IsFiniteSet(pages) /\ Cardinality(pages) \in Nat
           /\ \A some \in SUBSET pages : IsFiniteSet(some) /\ Cardinality(some) <= Cardinality(pages)
<1>1. IsFiniteSet(SpacePages)
  BY SpaceAssumption, FS_Interval DEF SpacePages
<1>2. QED
  BY <1>1, FS_Subset, FS_CardinalityType

LEMMA PlaceType ==
    ASSUME space \in SUBSET SpacePages, NEW p \in SpacePages
    PROVE  /\ PagesBefore(p) \in Nat
           /\ p \in space => PagesBefore(p) < Cardinality(space)
<1> DEFINE before == {q \in space : q < p}
<1>1. before \in SUBSET space /\ PagesBefore(p) = Cardinality(before)
  BY DEF PagesBefore
<1>2. PagesBefore(p) \in Nat
  BY <1>1, PagesAreFinite
<1>3. ASSUME p \in space PROVE PagesBefore(p) < Cardinality(space)
  <2>1. p \notin before
    BY SpaceAssumption DEF SpacePages
  <2>2. before \cup {p} \in SUBSET space /\ IsFiniteSet(before)
    BY <1>1, <1>3, PagesAreFinite
  <2>3. Cardinality(before \cup {p}) = Cardinality(before) + 1
    BY <2>1, <2>2, FS_AddElement
  <2>4. Cardinality(before \cup {p}) <= Cardinality(space) /\ Cardinality(space) \in Nat
    BY <2>2, PagesAreFinite
  <2>5. QED
    BY <1>1, <1>2, <2>3, <2>4
<1>4. QED
  BY <1>2, <1>3

\* No two pages have one place.
LEMMA PlacesDiffer ==
    ASSUME space \in SUBSET SpacePages, NEW p \in space, NEW q \in space,
           PagesBefore(p) = PagesBefore(q)
    PROVE  p = q
<1>1. ASSUME NEW r \in space, NEW s \in space, r < s PROVE PagesBefore(r) < PagesBefore(s)
  <2> DEFINE before == {t \in space : t < r}
             more == {t \in space : t < s}
  <2>1. r \in Nat /\ s \in Nat /\ \A t \in space : t \in Nat
    BY SpaceAssumption DEF SpacePages
  <2>2. before \cup {r} \in SUBSET more /\ r \notin before /\ more \in SUBSET SpacePages
    <3>1. \A t \in before : t \in Nat /\ t < s /\ t # r
      BY <1>1, <2>1
    <3>2. before \subseteq more /\ r \in more /\ more \subseteq space
      BY <1>1, <3>1
    <3>3. QED
      BY <3>1, <3>2
  <2>3. before \in SUBSET SpacePages
    OBVIOUS
  <2> HIDE DEF before, more
  <2>4. IsFiniteSet(before) /\ Cardinality(before) \in Nat
    BY <2>3, PagesAreFinite
  <2>5. Cardinality(before \cup {r}) = Cardinality(before) + 1
    BY <2>2, <2>4, FS_AddElement
  <2>6. Cardinality(before \cup {r}) <= Cardinality(more) /\ Cardinality(more) \in Nat
    BY <2>2, PagesAreFinite
  <2>7. QED
    BY <2>4, <2>5, <2>6 DEF PagesBefore, before, more
<1>2. p \in Nat /\ q \in Nat /\ PagesBefore(p) \in Nat /\ PagesBefore(q) \in Nat
  BY PlaceType, SpaceAssumption DEF SpacePages
<1>3. ~(p < q) /\ ~(q < p)
  BY <1>1, <1>2
<1>4. QED
  BY <1>2, <1>3

LEMMA SpaceInvInit == SpaceInit => SpaceInv
BY SpaceAssumption
   DEF SpaceInit, SpaceInv, SpaceTypeOK, NotEnumerating, Enumerating

LEMMA SpaceEnters ==
    ASSUME SpaceInv, NEW p \in SpacePages, EnterSpace(p)
    PROVE  SpaceInv'
<1>1. /\ space \in SUBSET SpacePages /\ enumerating \in Enumerating
      /\ spaceQuota \in 0..SpaceQuota /\ SpaceQuota \in Nat
      /\ space' = space \cup {p} /\ space' \in SUBSET SpacePages
      /\ spaceQuota' = spaceQuota - 1 /\ spaceQuota > 0 /\ spaceQuota' \in 0..SpaceQuota
  BY SpaceAssumption DEF EnterSpace, SpaceInv, SpaceTypeOK
<1>2. /\ enumerating.start \in Nat /\ enumerating.gone \in Nat
      /\ enumerating.stayed \in SUBSET SpacePages /\ enumerating.ids \in SUBSET SpacePages
  BY <1>1 DEF Enumerating
<1>3. CASE enumerating.at = "idle"
  BY <1>1, <1>2, <1>3 DEF EnterSpace, SpaceInv, SpaceTypeOK
<1>4. CASE enumerating.at # "idle"
  <2>1. enumerating' = [enumerating EXCEPT !.seen = @ \cup {p}]
    BY <1>4 DEF EnterSpace
  <2>2. /\ enumerating' \in Enumerating /\ enumerating'.at = enumerating.at
        /\ enumerating'.stayed = enumerating.stayed /\ enumerating'.ids = enumerating.ids
        /\ enumerating'.start = enumerating.start /\ enumerating'.gone = enumerating.gone
        /\ enumerating'.seen = enumerating.seen \cup {p}
    BY <1>1, <2>1 DEF Enumerating
  <2>3. ASSUME NEW q \in SpacePages PROVE PagesBefore(q) <= PagesBefore(q)'
    <3> DEFINE before == {r \in space : r < q}
               after == {r \in space' : r < q}
    <3>1. before \in SUBSET after /\ after \in SUBSET SpacePages
      BY <1>1
    <3> HIDE DEF before, after
    <3>2. Cardinality(before) <= Cardinality(after)
      BY <3>1, PagesAreFinite
    <3>3. QED
      BY <3>2 DEF PagesBefore, before, after
  <2>4. PassedOver' \subseteq PassedOver
    <3> SUFFICES ASSUME NEW q \in PassedOver' PROVE q \in PassedOver
      OBVIOUS
    <3>1. q \in SpacePages /\ q \in enumerating.stayed \ enumerating.ids
          /\ PagesBefore(q)' < enumerating.start
      BY <1>2, <2>2 DEF PassedOver
    <3>2. PagesBefore(q) \in Nat /\ PagesBefore(q)' \in Nat
      <4>1. {r \in space' : r < q} \in SUBSET SpacePages
        BY <1>1
      <4>2. Cardinality({r \in space' : r < q}) \in Nat
        BY <4>1, PagesAreFinite
      <4>3. QED
        BY <1>1, <3>1, <4>2, PlaceType DEF PagesBefore
    <3>3. PagesBefore(q) < enumerating.start
      BY <1>2, <2>3, <3>1, <3>2
    <3>4. QED
      BY <3>1, <3>3 DEF PassedOver
  <2>5. PassedOver \in SUBSET SpacePages /\ PassedOver' \in SUBSET SpacePages
    BY <1>2, <2>2 DEF PassedOver
  <2>6. Cardinality(PassedOver') <= Cardinality(PassedOver) /\ Cardinality(PassedOver) \in Nat
        /\ Cardinality(PassedOver') \in Nat
    BY <2>4, <2>5, PagesAreFinite
  <2>7. enumerating.at = "list" => Cardinality(PassedOver)' <= enumerating'.gone
    BY <1>2, <1>4, <2>2, <2>6 DEF SpaceInv, ListedSoFar
  <2>8. ListedSoFar'
    BY <1>1, <1>4, <2>2, <2>7 DEF SpaceInv, ListedSoFar
  <2>9. QED
    BY <1>1, <1>2, <2>2, <2>8 DEF SpaceInv, SpaceTypeOK
<1>5. QED
  BY <1>3, <1>4

LEMMA SpaceLeaves ==
    ASSUME SpaceInv, NEW p \in SpacePages, LeaveSpace(p)
    PROVE  SpaceInv'
<1>1. /\ space \in SUBSET SpacePages /\ enumerating \in Enumerating
      /\ spaceQuota \in 0..SpaceQuota /\ SpaceQuota \in Nat /\ p \in space
      /\ space' = space \ {p} /\ space' \in SUBSET SpacePages
      /\ spaceQuota' = spaceQuota - 1 /\ spaceQuota > 0 /\ spaceQuota' \in 0..SpaceQuota
      /\ enumerating.gone + spaceQuota <= SpaceQuota
  BY SpaceAssumption DEF LeaveSpace, SpaceInv, SpaceTypeOK
<1>2. /\ enumerating.start \in Nat /\ enumerating.gone \in Nat
      /\ enumerating.stayed \in SUBSET SpacePages /\ enumerating.ids \in SUBSET SpacePages
  BY <1>1 DEF Enumerating
<1>3. CASE enumerating.at = "idle"
  <2>1. enumerating' = enumerating
    BY <1>3 DEF LeaveSpace
  <2>2. enumerating.gone + (spaceQuota - 1) <= SpaceQuota
    BY <1>1, <1>2
  <2>3. QED
    BY <1>1, <1>3, <2>1, <2>2 DEF SpaceInv, SpaceTypeOK
<1>4. CASE enumerating.at # "idle"
  <2>1. enumerating' = [enumerating EXCEPT !.stayed = @ \ {p}, !.gone = @ + 1]
    BY <1>4 DEF LeaveSpace
  <2>2. enumerating.gone + 1 \in 0..SpaceQuota
        /\ (enumerating.gone + 1) + spaceQuota' <= SpaceQuota
    BY <1>1, <1>2
  <2>3. /\ enumerating' \in Enumerating /\ enumerating'.at = enumerating.at
        /\ enumerating'.stayed = enumerating.stayed \ {p} /\ enumerating'.ids = enumerating.ids
        /\ enumerating'.start = enumerating.start /\ enumerating'.gone = enumerating.gone + 1
        /\ enumerating'.seen = enumerating.seen
    BY <1>1, <2>1, <2>2 DEF Enumerating
  <2>4. enumerating.stayed \subseteq space
    BY <1>4 DEF SpaceInv, ListedSoFar
  <2>5. ASSUME NEW q \in SpacePages
        PROVE  /\ PagesBefore(q) <= PagesBefore(q)' + 1
               /\ PagesBefore(q) \in Nat /\ PagesBefore(q)' \in Nat
    <3> DEFINE before == {r \in space : r < q}
               after == {r \in space' : r < q}
    <3>1. before \in SUBSET (after \cup {p}) /\ after \in SUBSET SpacePages
          /\ before \in SUBSET SpacePages /\ p \notin after /\ after \cup {p} \in SUBSET SpacePages
      BY <1>1
    <3> HIDE DEF before, after
    <3>2. IsFiniteSet(after) /\ Cardinality(after) \in Nat /\ Cardinality(before) \in Nat
          /\ Cardinality(before) <= Cardinality(after \cup {p})
      BY <3>1, PagesAreFinite
    <3>3. Cardinality(after \cup {p}) = Cardinality(after) + 1
      BY <3>1, <3>2, FS_AddElement
    <3>4. QED
      BY <3>2, <3>3 DEF PagesBefore, before, after
  <2> DEFINE next == {q \in space : PagesBefore(q) = enumerating.start}
  <2>6. PassedOver' \subseteq PassedOver \cup next
    <3> SUFFICES ASSUME NEW q \in PassedOver' PROVE q \in PassedOver \cup next
      OBVIOUS
    <3>1. q \in SpacePages /\ q \in enumerating.stayed \ enumerating.ids /\ q \in space
          /\ PagesBefore(q)' < enumerating.start
      BY <1>2, <2>3, <2>4 DEF PassedOver
    <3>2. PagesBefore(q) < enumerating.start \/ PagesBefore(q) = enumerating.start
      BY <1>2, <2>5, <3>1
    <3>3. QED
      BY <3>1, <3>2 DEF PassedOver
  <2>7. next = {} \/ \E q \in SpacePages : next = {q}
    BY <1>1, PlacesDiffer
  <2>8. PassedOver \in SUBSET SpacePages /\ PassedOver' \in SUBSET SpacePages
    BY <1>2, <2>3 DEF PassedOver
  <2> HIDE DEF next
  <2>9. /\ Cardinality(PassedOver') <= Cardinality(PassedOver) + 1
        /\ Cardinality(PassedOver) \in Nat /\ Cardinality(PassedOver') \in Nat
    <3>1. IsFiniteSet(PassedOver) /\ Cardinality(PassedOver) \in Nat
          /\ Cardinality(PassedOver') \in Nat
      BY <2>8, PagesAreFinite
    <3>2. CASE PassedOver' \subseteq PassedOver
      BY <2>8, <3>1, <3>2, PagesAreFinite
    <3>3. ASSUME NEW q \in SpacePages, next = {q}, q \notin PassedOver
          PROVE  Cardinality(PassedOver') <= Cardinality(PassedOver) + 1
      <4>1. Cardinality(PassedOver \cup {q}) = Cardinality(PassedOver) + 1
        BY <3>1, <3>3, FS_AddElement
      <4>2. PassedOver \cup {q} \in SUBSET SpacePages
            /\ PassedOver' \in SUBSET (PassedOver \cup {q})
        BY <2>6, <2>8, <3>3
      <4>3. Cardinality(PassedOver') <= Cardinality(PassedOver \cup {q})
        BY <4>2, PagesAreFinite
      <4>4. QED
        BY <4>1, <4>3
    <3>4. QED
      BY <2>6, <2>7, <3>1, <3>2, <3>3
  <2>10. enumerating.at = "list" => Cardinality(PassedOver)' <= enumerating'.gone
    BY <1>2, <1>4, <2>3, <2>9 DEF SpaceInv, ListedSoFar
  <2>11. enumerating.at = "done" =>
            Cardinality(enumerating'.stayed \ enumerating'.ids) <= enumerating'.gone
    <3> DEFINE missed == enumerating.stayed \ enumerating.ids
    <3>1. enumerating'.stayed \ enumerating'.ids \in SUBSET missed /\ missed \in SUBSET SpacePages
      BY <1>2, <2>3
    <3>2. /\ Cardinality(enumerating'.stayed \ enumerating'.ids) \in Nat
          /\ Cardinality(enumerating'.stayed \ enumerating'.ids) <= Cardinality(missed)
          /\ Cardinality(missed) \in Nat
      BY <3>1, PagesAreFinite
    <3>3. enumerating.at = "done" => Cardinality(missed) <= enumerating.gone
      BY <1>4 DEF SpaceInv, ListedSoFar
    <3> HIDE DEF missed
    <3>4. QED
      BY <1>2, <2>3, <3>2, <3>3
  <2>12. ListedSoFar'
    BY <1>1, <1>4, <2>3, <2>10, <2>11 DEF SpaceInv, ListedSoFar
  <2>13. QED
    BY <1>1, <2>2, <2>3, <2>12 DEF SpaceInv, SpaceTypeOK
<1>5. QED
  BY <1>3, <1>4

LEMMA SpaceReads ==
    ASSUME SpaceInv, ReadResults
    PROVE  SpaceInv'
<1> DEFINE results == Results(enumerating.start)
           at == IF NextStart >= Cardinality(space) THEN "done" ELSE "list"
           run == [enumerating EXCEPT !.ids = @ \cup results, !.start = NextStart, !.at = at]
<1>1. /\ space \in SUBSET SpacePages /\ enumerating \in Enumerating
      /\ spaceQuota \in 0..SpaceQuota /\ ResultLimit \in Nat
      /\ space' = space /\ spaceQuota' = spaceQuota
      /\ enumerating.at = "list" /\ enumerating' = run
      /\ enumerating.gone + spaceQuota <= SpaceQuota
  BY SpaceAssumption DEF ReadResults, SpaceInv, SpaceTypeOK
<1>2. /\ enumerating.start \in Nat /\ enumerating.gone \in Nat
      /\ enumerating.stayed \in SUBSET SpacePages /\ enumerating.ids \in SUBSET SpacePages
      /\ NextStart \in Nat /\ NextStart = enumerating.start + ResultLimit
      /\ results \subseteq space /\ at \in {"done", "list"}
  BY <1>1 DEF Enumerating, NextStart, Results
<1>3. at = "done" => Cardinality(space) <= NextStart
  <2>1. Cardinality(space) \in Nat
    BY <1>1, PagesAreFinite
  <2>2. QED
    BY <1>2, <2>1
<1>4. \A q \in space \ results : PagesBefore(q) < NextStart => PagesBefore(q) < enumerating.start
  BY <1>1, <1>2, PlaceType DEF Results
<1> HIDE DEF results, at
<1>5. /\ run \in Enumerating /\ run.at = at /\ run.start = NextStart
      /\ run.ids = enumerating.ids \cup results /\ run.stayed = enumerating.stayed
      /\ run.gone = enumerating.gone /\ run.seen = enumerating.seen
  BY <1>1, <1>2 DEF Enumerating
<1> HIDE DEF run
<1>6. /\ enumerating.stayed \subseteq space /\ space \subseteq enumerating.seen
      /\ enumerating.ids \subseteq enumerating.seen
      /\ Cardinality(PassedOver) <= enumerating.gone
  BY <1>1 DEF SpaceInv, ListedSoFar
<1>7. PassedOver' \in SUBSET PassedOver /\ PassedOver \in SUBSET SpacePages
  <2>1. \A q \in SpacePages : PagesBefore(q)' = PagesBefore(q)
    BY <1>1 DEF PagesBefore
  <2>2. QED
    BY <1>1, <1>2, <1>4, <1>5, <1>6, <2>1 DEF PassedOver
<1>8. Cardinality(PassedOver)' <= enumerating.gone
  BY <1>2, <1>6, <1>7, PagesAreFinite
<1>9. at = "done" => enumerating'.stayed \ enumerating'.ids = PassedOver'
  <2>1. ASSUME at = "done", NEW q \in enumerating.stayed PROVE PagesBefore(q)' < enumerating'.start
    <3>1. PagesBefore(q) < Cardinality(space) /\ PagesBefore(q) \in Nat
          /\ Cardinality(space) \in Nat
      BY <1>1, <1>2, <1>6, <2>1, PlaceType, PagesAreFinite
    <3>2. PagesBefore(q)' = PagesBefore(q)
      BY <1>1 DEF PagesBefore
    <3>3. QED
      BY <1>1, <1>2, <1>3, <1>5, <2>1, <3>1, <3>2
  <2>2. QED
    BY <1>1, <1>5, <2>1 DEF PassedOver
<1>10. ListedSoFar'
  BY <1>1, <1>2, <1>5, <1>6, <1>8, <1>9 DEF ListedSoFar
<1>11. QED
  BY <1>1, <1>5, <1>10 DEF SpaceInv, SpaceTypeOK

LEMMA SpaceStep == SpaceInv /\ [SpaceNext]_spaceVars => SpaceInv'
<1> SUFFICES ASSUME SpaceInv, [SpaceNext]_spaceVars PROVE SpaceInv'
  OBVIOUS
<1>1. /\ space \in SUBSET SpacePages /\ spaceQuota \in 0..SpaceQuota /\ SpaceQuota \in Nat
  BY SpaceAssumption DEF SpaceInv, SpaceTypeOK
<1>2. NotEnumerating \in Enumerating /\ NotEnumerating.at = "idle" /\ NotEnumerating.gone = 0
  BY SpaceAssumption DEF NotEnumerating, Enumerating
<1>3. CASE BeginEnumerating
  <2> DEFINE run == [NotEnumerating EXCEPT !.at = "list", !.stayed = space, !.seen = space]
  <2>1. /\ run \in Enumerating /\ run.at = "list" /\ run.stayed = space /\ run.seen = space
        /\ run.ids = {} /\ run.gone = 0 /\ run.start = 0
    BY <1>1, <1>2 DEF Enumerating, NotEnumerating
  <2>2. enumerating' = run /\ space' = space /\ spaceQuota' = spaceQuota
    BY <1>3 DEF BeginEnumerating
  <2> HIDE DEF run
  <2>3. PassedOver' = {}
    <3>1. \A q \in space : PagesBefore(q)' \in Nat
      BY <1>1, <2>2, PlaceType DEF PagesBefore
    <3>2. QED
      BY <2>1, <2>2, <3>1 DEF PassedOver
  <2>4. ListedSoFar'
    BY <2>1, <2>2, <2>3, FS_EmptySet DEF ListedSoFar
  <2>5. QED
    BY <1>1, <2>1, <2>2, <2>4 DEF SpaceInv, SpaceTypeOK
<1>4. CASE ReturnPageIds \/ FailEnumerating
  BY <1>1, <1>2, <1>4 DEF ReturnPageIds, FailEnumerating, SpaceInv, SpaceTypeOK
<1>5. CASE UNCHANGED spaceVars
  BY <1>5 DEF spaceVars, SpaceInv, SpaceTypeOK, ListedSoFar, PassedOver, PagesBefore
<1>6. QED
  BY <1>3, <1>4, <1>5, SpaceEnters, SpaceLeaves, SpaceReads DEF SpaceNext

\* The inductive invariant of a listing: those passed over are no more than were
\* taken away.
THEOREM SpaceInvariant == SpaceSpec => []SpaceInv
BY SpaceInvInit, SpaceStep, PTL DEF SpaceSpec

\* A listing of a space misses no more of the pages that stay than are taken away
\* meanwhile, of whatever size they and the results of a request are.
THEOREM SpacesAreListed == SpaceSpec => []SpaceIsListed
<1>1. SpaceInv => SpaceIsListed
  BY DEF SpaceInv, ListedSoFar, SpaceIsListed
<1>2. QED
  BY <1>1, SpaceInvariant, PTL

-----------------------------------------------------------------------------
(* An output directory.                                                    *)

\* A run that has been alone with its directory so far.
Lone(w) == writing[w].at # "idle" /\ writing[w].alone

WhileLoneOthersRest == \A w, u \in Writers : Lone(w) /\ u # w => writing[u].at = "idle"

\* What such a run has written so far, and what it still has to.
ToPrune(w) == writing[w].stale \cup writing[w].orphans \cup writing[w].pruning
HasWritten(w) == Holding(writing[w].read) \ writing[w].due

WritesInOrder(w) ==
    /\ writing[w].due \subseteq Holding(writing[w].read)
    /\ \A s \in HasWritten(w), t \in writing[w].due : s < t

ArtifactsAreRight(w) ==
    \A s \in HasWritten(w) :
       (\A t \in HasWritten(w) : PathTo(t) = PathTo(s) => t <= s) =>
          directory.file[PathTo(s)] = ArtifactOf(s, writing[w].read)

PrunesOthers(w) == ToPrune(w) \cap PathsOf(writing[w].read) = {}

PrunesAll(w) == {"stale", "orphans"} \subseteq writing[w].options =>
                    Present \subseteq PathsOf(writing[w].read) \cup ToPrune(w)

Untaken(w) == adapter = "local_files" =>
                 \A s \in Holding(writing[w].read), t \in Holding(directory.entries) :
                    PathTo(s) = PathTo(t) => s = t

HasListed(w) == /\ writing[w].due = {}
                /\ directory.manifest = "whole" /\ directory.entries = writing[w].read

LoneIsRight(w) ==
    /\ writing[w].at = "load" => writing[w].pruning = {}
    /\ writing[w].at \in {"write", "prune"} =>
          WritesInOrder(w) /\ ArtifactsAreRight(w) /\ PrunesOthers(w) /\ PrunesAll(w)
    /\ writing[w].at = "write" => Untaken(w)
    /\ writing[w].at = "prune" => HasListed(w)

DirInv == /\ DirectoryTypeOK
          /\ WhileLoneOthersRest
          /\ \A w \in Writers : Lone(w) => LoneIsRight(w)

LEMMA HeldType ==
    ASSUME NEW held \in Holdings, NEW s \in Holding(held)
    PROVE  /\ s \in Sources /\ s \in Nat /\ s \in 0..LastSource
           /\ held[s] \in SourceContents /\ ArtifactOf(s, held) \in Artifact
BY DirectoryAssumption DEF Holdings, Holding, Sources, ArtifactOf, Artifact, SourceContents

LEMMA PathType ==
    ASSUME DirectoryTypeOK, NEW s \in Sources PROVE PathTo(s) \in OutputPaths
BY DEF DirectoryTypeOK, PathTo, OutputPaths

LEMMA NotWritingType ==
    /\ NotWriting \in Writing /\ NotWriting.at = "idle" /\ NothingHeld \in Holdings
    /\ NoFile \in Artifact /\ CutFile \in Artifact
<1>1. NothingHeld \in Holdings
  BY DirectoryAssumption DEF NothingHeld, Holdings, SourceContents
<1>2. NotWriting.alone \in BOOLEAN
  BY DEF NotWriting
<1>3. QED
  BY <1>1, <1>2, DirectoryAssumption DEF NotWriting, Writing, NoFile, CutFile, Artifact, SourceContents

LEMMA WritingType ==
    ASSUME DirInv, NEW w \in Writers
    PROVE  /\ writing[w] \in Writing /\ writing[w].read \in Holdings
           /\ writing[w].due \subseteq Sources /\ writing[w].options \in SUBSET {"dry", "stale", "orphans"}
           /\ writing[w].stale \subseteq OutputPaths /\ writing[w].orphans \subseteq OutputPaths
           /\ writing[w].pruning \subseteq OutputPaths /\ writing[w].alone \in BOOLEAN
           /\ directory \in Directory /\ directory.file \in [OutputPaths -> Artifact]
           /\ directory.entries \in Holdings
<1>1. writing[w] \in Writing /\ directory \in Directory
  BY DEF DirInv, DirectoryTypeOK
<1>2. writing[w].alone \in BOOLEAN
  BY <1>1 DEF Writing
<1>3. QED
  BY <1>1, <1>2 DEF Writing, Directory

\* What one run may do when the others do not move.
LEMMA RunGoesOn ==
    ASSUME DirInv, NEW w \in Writers, writing[w].at # "idle", NEW run \in Writing, Goes(w, run),
           directory' \in Directory, upsets' \in 0..Upsets,
           run.at # "idle" /\ run.alone => writing[w].alone /\ LoneIsRight(w)'
    PROVE  DirInv'
<1>1. writing' = [writing EXCEPT ![w] = run] /\ adapter' = adapter /\ sources' = sources
  BY DEF Goes
<1>2. writing' \in [Writers -> Writing] /\ writing'[w] = run
      /\ \A u \in Writers \ {w} : writing'[u] = writing[u]
  BY <1>1 DEF DirInv, DirectoryTypeOK
<1>3. DirectoryTypeOK'
  BY <1>1, <1>2 DEF DirInv, DirectoryTypeOK
<1>4. ASSUME NEW u \in Writers, Lone(u)' PROVE u = w
  BY <1>2, <1>4 DEF DirInv, WhileLoneOthersRest, Lone
<1>5. Lone(w)' => writing[w].alone /\ LoneIsRight(w)'
  BY <1>2 DEF Lone
<1>6. WhileLoneOthersRest'
  BY <1>2, <1>4, <1>5 DEF DirInv, WhileLoneOthersRest, Lone
<1>7. QED
  BY <1>3, <1>4, <1>5, <1>6 DEF DirInv

LEMMA RunStops ==
    ASSUME DirInv, NEW w \in Writers, writing[w].at # "idle", Goes(w, NotWriting),
           directory' \in Directory, upsets' \in 0..Upsets
    PROVE  DirInv'
BY RunGoesOn, NotWritingType

LEMMA DirInit == DirectoryInit => DirInv
<1> SUFFICES ASSUME DirectoryInit PROVE DirInv
  OBVIOUS
<1>1. sources \in Holdings /\ upsets \in 0..Upsets
  BY DirectoryAssumption DEF DirectoryInit, Holdings, SourceContents
<1>2. directory \in Directory
  BY NotWritingType DEF DirectoryInit, Directory
<1>3. writing \in [Writers -> Writing] /\ \A w \in Writers : writing[w].at = "idle"
  BY NotWritingType DEF DirectoryInit
<1>4. QED
  BY <1>1, <1>2, <1>3 DEF DirectoryInit, DirInv, DirectoryTypeOK, WhileLoneOthersRest, Lone

LEMMA DirBegin ==
    ASSUME DirInv, NEW w \in Writers, NEW wanted \in Readable, NEW options \in PruneChoices,
           BeginWriting(w, wanted, options)
    PROVE  DirInv'
<1> DEFINE read == [s \in Sources |-> IF s \in wanted THEN sources[s] ELSE 0]
           alone == \A u \in Writers \ {w} : writing[u].at = "idle"
           run == [NotWriting EXCEPT !.at = "load", !.options = options, !.read = read,
                                     !.alone = alone]
<1>1. read \in Holdings /\ options \in SUBSET {"dry", "stale", "orphans"} /\ alone \in BOOLEAN
  BY DirectoryAssumption DEF DirInv, DirectoryTypeOK, Holdings, SourceContents
<1>2. writing' = [v \in Writers |-> IF v = w THEN run ELSE [writing[v] EXCEPT !.alone = FALSE]]
      /\ adapter' = adapter /\ sources' = sources /\ directory' = directory /\ upsets' = upsets
  BY DEF BeginWriting
<1> HIDE DEF read, alone
<1>3. /\ run \in Writing /\ run.at = "load" /\ run.pruning = {} /\ run.alone = alone
  <2>1. NotWriting \in Writing
    BY NotWritingType
  <2>2. QED
    BY <1>1, <2>1 DEF Writing, NotWriting
<1> HIDE DEF run
<1>4. ASSUME NEW v \in Writers
      PROVE  /\ [writing[v] EXCEPT !.alone = FALSE] \in Writing
             /\ [writing[v] EXCEPT !.alone = FALSE].alone = FALSE
             /\ [writing[v] EXCEPT !.alone = FALSE].at = writing[v].at
  BY WritingType DEF Writing
<1>5. writing' \in [Writers -> Writing]
  BY <1>2, <1>3, <1>4
<1>6. writing'[w] = run
  BY <1>2
<1>7. ASSUME NEW v \in Writers \ {w} PROVE writing'[v].alone = FALSE /\ writing'[v].at = writing[v].at
  BY <1>2, <1>4
<1>8. ASSUME NEW v \in Writers, Lone(v)' PROVE v = w /\ alone
  BY <1>3, <1>6, <1>7, <1>8 DEF Lone
<1>9. DirectoryTypeOK'
  BY <1>2, <1>5 DEF DirInv, DirectoryTypeOK
<1>10. WhileLoneOthersRest'
  <2> SUFFICES ASSUME NEW v \in Writers, NEW u \in Writers, Lone(v)', u # v
               PROVE  writing'[u].at = "idle"
    BY DEF WhileLoneOthersRest, Lone
  <2>1. v = w /\ alone
    BY <1>8
  <2>2. QED
    BY <1>7, <2>1 DEF alone
<1>11. LoneIsRight(w)'
  BY <1>3, <1>6 DEF LoneIsRight
<1>12. QED
  BY <1>8, <1>9, <1>10, <1>11 DEF DirInv

LEMMA DirPlan ==
    ASSUME DirInv, NEW w \in Writers, PlanWriting(w) \/ RefuseWriting(w)
    PROVE  DirInv'
<1>1. directory' \in Directory /\ upsets' \in 0..Upsets /\ directory' = directory
  BY DEF PlanWriting, RefuseWriting, DirInv, DirectoryTypeOK
<1>2. CASE RefuseWriting(w)
  BY <1>1, <1>2, RunStops DEF RefuseWriting
<1>3. CASE PlanWriting(w) /\ "dry" \in writing[w].options
  BY <1>1, <1>3, RunStops DEF PlanWriting
<1>4. CASE PlanWriting(w) /\ "dry" \notin writing[w].options
  <2> DEFINE read == writing[w].read
             due == Holding(read)
             stale == IF "stale" \in writing[w].options THEN StalePaths(read) ELSE {}
             orphans == IF "orphans" \in writing[w].options THEN OrphanPaths(read) ELSE {}
             run == [writing[w] EXCEPT !.at = "write", !.due = due,
                                       !.stale = stale, !.orphans = orphans]
  <2>1. writing[w].at = "load" /\ ~Taken(read) /\ Goes(w, run)
    BY <1>4 DEF PlanWriting
  <2>2. due \in SUBSET Sources /\ stale \in SUBSET OutputPaths /\ orphans \in SUBSET OutputPaths
        /\ (stale \cup orphans) \cap PathsOf(read) = {}
    BY DEF Holding, StalePaths, OrphanPaths, Present
  <2>3. {"stale", "orphans"} \subseteq writing[w].options =>
            Present \subseteq PathsOf(read) \cup stale \cup orphans
    BY DEF OrphanPaths
  <2>4. adapter = "local_files" => \A s \in due, t \in Holding(directory.entries) :
            PathTo(s) = PathTo(t) => s = t
    BY <2>1 DEF Taken
  <2>5. due = Holding(read)
    OBVIOUS
  <2> HIDE DEF stale, orphans, due
  <2>6. /\ run \in Writing /\ run.at = "write" /\ run.due = due /\ run.stale = stale
        /\ run.orphans = orphans /\ run.pruning = writing[w].pruning
        /\ run.read = read /\ run.options = writing[w].options /\ run.alone = writing[w].alone
    BY <2>2, WritingType DEF Writing
  <2> HIDE DEF run
  <2>7. ASSUME writing[w].alone PROVE LoneIsRight(w)'
    <3>1. writing'[w] = run /\ adapter' = adapter
      BY <2>1 DEF Goes, DirInv, DirectoryTypeOK
    <3>2. writing[w].pruning = {}
      BY <2>1, <2>7 DEF DirInv, Lone, LoneIsRight
    <3>3. WritesInOrder(w)' /\ ArtifactsAreRight(w)'
      BY <2>5, <2>6, <3>1 DEF WritesInOrder, ArtifactsAreRight, HasWritten, Holding
    <3>4. PrunesOthers(w)'
      BY <1>1, <2>2, <2>6, <3>1, <3>2 DEF PrunesOthers, ToPrune, PathsOf, Holding, PathTo
    <3>5. PrunesAll(w)'
      BY <1>1, <2>3, <2>6, <3>1, <3>2 DEF PrunesAll, ToPrune, PathsOf, Holding, PathTo, Present
    <3>6. Untaken(w)'
      BY <1>1, <2>4, <2>5, <2>6, <3>1 DEF Untaken, Holding, PathTo
    <3>7. QED
      BY <2>6, <3>1, <3>3, <3>4, <3>5, <3>6 DEF LoneIsRight
  <2>8. QED
    BY <1>1, <2>1, <2>6, <2>7, RunGoesOn
<1>5. QED
  BY <1>2, <1>3, <1>4

LEMMA NextDueType ==
    ASSUME DirInv, NEW w \in Writers, writing[w].due # {}
    PROVE  /\ NextDue(w) \in writing[w].due
           /\ \A t \in writing[w].due : NextDue(w) <= t
<1> DEFINE due == writing[w].due
           below == {ss \in Nat \X Nat : ss[1] < ss[2]}
<1>1. due \subseteq Nat /\ due # {}
  BY WritingType, DirectoryAssumption DEF Sources
<1>2. PICK s \in due : \A t \in due : ~ (<<t, s>> \in below)
  BY <1>1, NatLessThanWellFounded, WFMin DEF OpToRel
<1>3. ASSUME NEW t \in due PROVE s <= t
  <2>1. <<t, s>> \in Nat \X Nat /\ s \in Nat /\ t \in Nat
    BY <1>1
  <2>2. t < s => <<t, s>> \in below
    BY <2>1
  <2>3. ~ (t < s)
    BY <1>2, <2>2
  <2>4. QED
    BY <2>1, <2>3
<1>4. QED
  BY <1>3 DEF NextDue

LEMMA DirWriteArtifact ==
    ASSUME DirInv, NEW w \in Writers, WriteArtifact(w)
    PROVE  DirInv'
<1> DEFINE s == NextDue(w)
           read == writing[w].read
           artifact == ArtifactOf(s, read)
           file == [directory.file EXCEPT ![PathTo(s)] = artifact]
           due == writing[w].due \ {s}
           run == [writing[w] EXCEPT !.due = due]
<1>1. /\ writing[w].at = "write" /\ writing[w].due # {} /\ Goes(w, run) /\ upsets' = upsets
      /\ directory' = [directory EXCEPT !.file = file]
  BY DEF WriteArtifact
<1>2. s \in writing[w].due /\ \A t \in writing[w].due : s <= t
  BY <1>1, NextDueType
<1>3. s \in Sources /\ PathTo(s) \in OutputPaths
  BY <1>2, WritingType, PathType DEF DirInv
<1>4. artifact \in Artifact
  BY <1>3, WritingType, DirectoryAssumption
     DEF ArtifactOf, Artifact, Holdings, Sources, SourceContents
<1>5. /\ due \in SUBSET Sources
      /\ run \in Writing /\ run.at = "write" /\ run.due = due /\ run.read = read
      /\ run.options = writing[w].options /\ run.alone = writing[w].alone
      /\ run.stale = writing[w].stale /\ run.orphans = writing[w].orphans
      /\ run.pruning = writing[w].pruning
  BY <1>1, WritingType DEF Writing
<1>6. due = writing[w].due \ {s}
  OBVIOUS
<1> HIDE DEF s, artifact, run, due
<1>7. file \in [OutputPaths -> Artifact] /\ file[PathTo(s)] = artifact
      /\ \A q \in OutputPaths : q # PathTo(s) => file[q] = directory.file[q]
  BY <1>3, <1>4, WritingType
<1> HIDE DEF file
<1>8. /\ directory' \in Directory /\ directory'.file = file
      /\ directory'.manifest = directory.manifest /\ directory'.entries = directory.entries
  BY <1>1, <1>7, WritingType DEF Directory
<1>9. ASSUME writing[w].alone PROVE LoneIsRight(w)'
  <2>1. LoneIsRight(w)
    BY <1>1, <1>9 DEF DirInv, Lone
  <2>2. writing'[w] = run /\ adapter' = adapter
    BY <1>1 DEF Goes, DirInv, DirectoryTypeOK
  <2>3. writing[w].due \subseteq Holding(read) /\ s \in Holding(read)
        /\ Holding(read) \subseteq Nat
    BY <1>1, <1>2, <2>1, DirectoryAssumption DEF LoneIsRight, WritesInOrder, Holding, Sources
  <2>4. HasWritten(w)' = HasWritten(w) \cup {s}
    BY <1>5, <1>6, <2>2, <2>3 DEF HasWritten, Holding
  <2>5. \A t \in HasWritten(w) : t < s
    BY <1>1, <1>2, <2>1 DEF LoneIsRight, WritesInOrder
  <2>6. WritesInOrder(w)'
    <3>1. \A t \in due : t \in Nat /\ s < t
      BY <1>2, <1>6, <2>3
    <3>2. \A r \in HasWritten(w)', t \in due : r < t
      <4> SUFFICES ASSUME NEW r \in HasWritten(w)', NEW t \in due PROVE r < t
        OBVIOUS
      <4>1. CASE r = s
        BY <3>1, <4>1
      <4>2. CASE r \in HasWritten(w)
        BY <1>1, <1>6, <2>1, <4>2 DEF LoneIsRight, WritesInOrder
      <4>3. QED
        BY <2>4, <4>1, <4>2
    <3>3. due \subseteq Holding(read)
      BY <1>6, <2>3
    <3>4. QED
      BY <1>5, <2>2, <3>2, <3>3 DEF WritesInOrder, Holding
  <2>7. ArtifactsAreRight(w)'
    <3> SUFFICES ASSUME NEW r \in HasWritten(w)',
                        \A t \in HasWritten(w)' : PathTo(t) = PathTo(r) => t <= r
                 PROVE  file[PathTo(r)] = ArtifactOf(r, read)
      BY <1>5, <1>8, <2>2 DEF ArtifactsAreRight, PathTo, ArtifactOf
    <3>1. CASE r = s
      BY <1>7, <3>1 DEF artifact
    <3>2. CASE r \in HasWritten(w)
      <4>1. PathTo(r) # PathTo(s)
        <5>1. r < s /\ r \in Nat /\ s \in Nat
          BY <2>3, <2>5, <3>2 DEF HasWritten
        <5>2. s \in HasWritten(w)'
          BY <2>4
        <5>3. QED
          BY <5>1, <5>2
      <4>2. r \in Sources /\ PathTo(r) \in OutputPaths
        BY <3>2, PathType DEF HasWritten, Holding, DirInv
      <4>3. directory.file[PathTo(r)] = ArtifactOf(r, read)
        BY <1>1, <2>1, <2>4, <3>2 DEF LoneIsRight, ArtifactsAreRight
      <4>4. QED
        BY <1>7, <4>1, <4>2, <4>3
    <3>3. QED
      BY <2>4, <3>1, <3>2
  <2>8. PrunesOthers(w)' /\ Untaken(w)'
    <3>1. PrunesOthers(w) /\ Untaken(w)
      BY <1>1, <2>1 DEF LoneIsRight
    <3>2. ToPrune(w)' = ToPrune(w) /\ PathsOf(writing[w].read)' = PathsOf(read)
      BY <1>5, <2>2 DEF ToPrune, PathsOf, PathTo, Holding
    <3>3. QED
      BY <1>5, <1>8, <2>2, <3>1, <3>2 DEF PrunesOthers, Untaken, PathTo, Holding
  <2>9. PrunesAll(w)'
    <3>1. Present' \subseteq Present \cup {PathTo(s)}
      BY <1>7, <1>8 DEF Present
    <3>2. PathTo(s) \in PathsOf(read)
      BY <2>3 DEF PathsOf
    <3>3. ToPrune(w)' = ToPrune(w) /\ PathsOf(writing[w].read)' = PathsOf(read)
          /\ writing'[w].options = writing[w].options
      BY <1>5, <2>2 DEF ToPrune, PathsOf, PathTo, Holding
    <3>4. PrunesAll(w)
      BY <1>1, <2>1 DEF LoneIsRight
    <3>5. QED
      BY <3>1, <3>2, <3>3, <3>4 DEF PrunesAll
  <2>10. QED
    BY <1>5, <2>2, <2>6, <2>7, <2>8, <2>9 DEF LoneIsRight
<1>10. QED
  <2>1. run.at # "idle" /\ upsets' \in 0..Upsets
    BY <1>1, <1>5 DEF DirInv, DirectoryTypeOK
  <2>2. QED
    BY <1>1, <1>5, <1>8, <1>9, <2>1, RunGoesOn

LEMMA DirWriteEntries ==
    ASSUME DirInv, NEW w \in Writers, WriteEntries(w)
    PROVE  DirInv'
<1> DEFINE read == writing[w].read
           run == [writing[w] EXCEPT !.at = "prune"]
<1>1. /\ writing[w].at = "write" /\ writing[w].due = {} /\ Goes(w, run) /\ upsets' = upsets
      /\ directory' = [directory EXCEPT !.manifest = "whole", !.entries = read]
  BY DEF WriteEntries
<1>2. /\ run \in Writing /\ run.at = "prune" /\ run.due = {} /\ run.read = read
      /\ run.options = writing[w].options /\ run.alone = writing[w].alone
      /\ run.stale = writing[w].stale /\ run.orphans = writing[w].orphans
      /\ run.pruning = writing[w].pruning
  BY <1>1, WritingType DEF Writing
<1> HIDE DEF run
<1>3. /\ directory' \in Directory /\ directory'.file = directory.file
      /\ directory'.manifest = "whole" /\ directory'.entries = read
  BY <1>1, WritingType DEF Directory
<1>4. ASSUME writing[w].alone PROVE LoneIsRight(w)'
  <2>1. LoneIsRight(w)
    BY <1>1, <1>4 DEF DirInv, Lone
  <2>2. writing'[w] = run /\ adapter' = adapter
    BY <1>1 DEF Goes, DirInv, DirectoryTypeOK
  <2>3. HasListed(w)'
    BY <1>2, <1>3, <2>2 DEF HasListed
  <2>4. HasWritten(w)' = HasWritten(w) /\ ToPrune(w)' = ToPrune(w)
        /\ PathsOf(writing[w].read)' = PathsOf(writing[w].read) /\ Present' = Present
    BY <1>1, <1>2, <1>3, <2>2 DEF HasWritten, ToPrune, PathsOf, Holding, PathTo, Present
  <2>5. WritesInOrder(w)' /\ PrunesOthers(w)' /\ PrunesAll(w)'
    BY <1>1, <1>2, <2>1, <2>2, <2>4 DEF LoneIsRight, WritesInOrder, PrunesOthers, PrunesAll
  <2>6. ArtifactsAreRight(w)'
    BY <1>1, <1>2, <1>3, <2>1, <2>2, <2>4 DEF LoneIsRight, ArtifactsAreRight, PathTo, ArtifactOf
  <2>7. QED
    BY <1>2, <2>2, <2>3, <2>5, <2>6 DEF LoneIsRight
<1>5. QED
  <2>1. run.at # "idle" /\ upsets' \in 0..Upsets
    BY <1>1, <1>2 DEF DirInv, DirectoryTypeOK
  <2>2. QED
    BY <1>1, <1>2, <1>3, <1>4, <2>1, RunGoesOn

LEMMA PrunesOn ==
    ASSUME DirInv, NEW w \in Writers, writing[w].at = "prune", NEW run \in Writing, Goes(w, run),
           run.at = "prune", run.due = writing[w].due, run.read = writing[w].read,
           run.options = writing[w].options, run.alone = writing[w].alone,
           NEW gone \in SUBSET OutputPaths, gone \subseteq writing[w].pruning,
           ToPrune(w) \ gone \subseteq run.stale \cup run.orphans \cup run.pruning,
           run.stale \cup run.orphans \cup run.pruning \subseteq ToPrune(w),
           directory' \in Directory, directory'.manifest = directory.manifest,
           directory'.entries = directory.entries,
           \A p \in OutputPaths : directory'.file[p] = IF p \in gone THEN NoFile
                                                       ELSE directory.file[p],
           upsets' = upsets
    PROVE  DirInv'
<1>1. writing'[w] = run /\ adapter' = adapter
  BY DEF Goes, DirInv, DirectoryTypeOK
<1>2. ASSUME writing[w].alone PROVE LoneIsRight(w)'
  <2>1. LoneIsRight(w)
    BY <1>2 DEF DirInv, Lone
  <2>2. gone \cap PathsOf(writing[w].read) = {}
    BY <2>1 DEF LoneIsRight, PrunesOthers, ToPrune
  <2>3. HasListed(w)' /\ WritesInOrder(w)'
    BY <1>1, <2>1 DEF LoneIsRight, HasListed, WritesInOrder, HasWritten
  <2>4. ArtifactsAreRight(w)'
    <3> SUFFICES ASSUME NEW s \in HasWritten(w),
                        \A t \in HasWritten(w) : PathTo(t) = PathTo(s) => t <= s
                 PROVE  directory'.file[PathTo(s)] = ArtifactOf(s, writing[w].read)
      BY <1>1 DEF ArtifactsAreRight, HasWritten, PathTo, ArtifactOf
    <3>1. s \in Holding(writing[w].read) /\ s \in Sources
      BY DEF HasWritten, Holding
    <3>2. PathTo(s) \in OutputPaths /\ PathTo(s) \notin gone
      BY <2>2, <3>1, PathType DEF PathsOf, DirInv
    <3>3. QED
      BY <2>1, <3>2 DEF LoneIsRight, ArtifactsAreRight
  <2>5. ToPrune(w)' \subseteq ToPrune(w) /\ ToPrune(w) \ gone \subseteq ToPrune(w)'
        /\ PathsOf(writing[w].read)' = PathsOf(writing[w].read)
    BY <1>1 DEF ToPrune, PathsOf, PathTo, Holding
  <2>6. Present' \subseteq Present \ gone
    BY DEF Present
  <2>7. PrunesOthers(w) /\ PrunesAll(w)
    BY <2>1 DEF LoneIsRight
  <2>8. PrunesOthers(w)' /\ PrunesAll(w)'
    BY <1>1, <2>5, <2>6, <2>7 DEF PrunesOthers, PrunesAll
  <2>9. QED
    BY <1>1, <2>3, <2>4, <2>8 DEF LoneIsRight
<1>3. upsets' \in 0..Upsets
  BY DEF DirInv, DirectoryTypeOK
<1>4. QED
  BY <1>2, <1>3, RunGoesOn

LEMMA DirPrune ==
    ASSUME DirInv, NEW w \in Writers,
           LookAtPrunes(w) \/ \E p \in OutputPaths : UnlinkPath(w, p)
    PROVE  DirInv'
<1>1. /\ writing[w] \in Writing /\ directory \in Directory
      /\ directory.file \in [OutputPaths -> Artifact]
      /\ writing[w].stale \subseteq OutputPaths /\ writing[w].orphans \subseteq OutputPaths
      /\ writing[w].pruning \subseteq OutputPaths
  BY WritingType
<1>2. ASSUME LookAtPrunes(w) PROVE DirInv'
  <2>1. /\ writing[w].at = "prune" /\ writing[w].pruning = {} /\ upsets' = upsets
        /\ directory' = directory
    BY <1>2 DEF LookAtPrunes
  <2>2. ASSUME Goes(w, [writing[w] EXCEPT !.pruning = writing[w].stale, !.stale = {}])
        PROVE  DirInv'
    <3> DEFINE run == [writing[w] EXCEPT !.pruning = writing[w].stale, !.stale = {}]
    <3>1. /\ run \in Writing /\ run.at = "prune" /\ run.due = writing[w].due
          /\ run.read = writing[w].read /\ run.options = writing[w].options
          /\ run.alone = writing[w].alone /\ run.orphans = writing[w].orphans
          /\ run.stale = {} /\ run.pruning = writing[w].stale
      BY <1>1, <2>1 DEF Writing
    <3>2. Goes(w, run)
      BY <2>2
    <3> HIDE DEF run
    <3>3. QED
      BY <1>1, <2>1, <3>1, <3>2, PrunesOn DEF ToPrune
  <2>3. ASSUME Goes(w, [writing[w] EXCEPT !.pruning = writing[w].orphans, !.orphans = {}])
        PROVE  DirInv'
    <3> DEFINE run == [writing[w] EXCEPT !.pruning = writing[w].orphans, !.orphans = {}]
    <3>1. /\ run \in Writing /\ run.at = "prune" /\ run.due = writing[w].due
          /\ run.read = writing[w].read /\ run.options = writing[w].options
          /\ run.alone = writing[w].alone /\ run.stale = writing[w].stale /\ run.orphans = {}
          /\ run.pruning = writing[w].orphans
      BY <1>1, <2>1 DEF Writing
    <3>2. Goes(w, run)
      BY <2>3
    <3> HIDE DEF run
    <3>3. QED
      BY <1>1, <2>1, <3>1, <3>2, PrunesOn DEF ToPrune
  <2>4. QED
    BY <1>2, <2>2, <2>3 DEF LookAtPrunes
<1>3. ASSUME NEW p \in OutputPaths, UnlinkPath(w, p) PROVE DirInv'
  <2> DEFINE run == [writing[w] EXCEPT !.pruning = writing[w].pruning \ {p}]
             file == [directory.file EXCEPT ![p] = NoFile]
  <2>1. /\ writing[w].at = "prune" /\ p \in writing[w].pruning
        /\ directory' = [directory EXCEPT !.file = file] /\ Goes(w, run) /\ upsets' = upsets
    BY <1>3 DEF UnlinkPath
  <2>2. /\ run \in Writing /\ run.at = "prune" /\ run.due = writing[w].due
        /\ run.read = writing[w].read /\ run.options = writing[w].options
        /\ run.alone = writing[w].alone /\ run.stale = writing[w].stale
        /\ run.orphans = writing[w].orphans /\ run.pruning = writing[w].pruning \ {p}
    BY <1>1, <2>1 DEF Writing
  <2>3. /\ file \in [OutputPaths -> Artifact]
        /\ \A q \in OutputPaths : file[q] = IF q \in {p} THEN NoFile ELSE directory.file[q]
    BY <1>1, NotWritingType DEF Directory
  <2> HIDE DEF run, file
  <2>4. /\ directory' \in Directory /\ directory'.file = file
        /\ directory'.manifest = directory.manifest /\ directory'.entries = directory.entries
    BY <1>1, <2>1, <2>3 DEF Directory
  <2> DEFINE gone == {p}
  <2>5. /\ gone \in SUBSET OutputPaths
        /\ gone \subseteq writing[w].pruning
        /\ ToPrune(w) \ gone \subseteq run.stale \cup run.orphans \cup run.pruning
        /\ run.stale \cup run.orphans \cup run.pruning \subseteq ToPrune(w)
        /\ \A q \in OutputPaths : directory'.file[q] = IF q \in gone THEN NoFile
                                                       ELSE directory.file[q]
    BY <2>1, <2>2, <2>3, <2>4 DEF ToPrune
  <2> HIDE DEF gone
  <2>6. QED
    BY <2>1, <2>2, <2>4, <2>5, PrunesOn
<1>4. QED
  BY <1>2, <1>3

LEMMA DirFail ==
    ASSUME DirInv, NEW w \in Writers, FailWriting(w)
    PROVE  DirInv'
<1>1. writing[w].at # "idle" /\ Goes(w, NotWriting) /\ upsets' \in 0..Upsets
  BY DirectoryAssumption DEF FailWriting, Upset, DirInv, DirectoryTypeOK
<1>2. directory \in Directory
  BY WritingType
<1>3. directory' \in Directory
  <2>1. CASE directory' = directory
    BY <1>2, <2>1
  <2>2. CASE /\ writing[w].due # {}
             /\ directory' = [directory EXCEPT !.file[PathTo(NextDue(w))] = CutFile]
    <3> DEFINE file == [directory.file EXCEPT ![PathTo(NextDue(w))] = CutFile]
    <3>1. file \in [OutputPaths -> Artifact]
      BY WritingType, NotWritingType
    <3>2. directory' = [directory EXCEPT !.file = file]
      BY <2>2
    <3> HIDE DEF file
    <3>3. QED
      BY <1>2, <3>1, <3>2 DEF Directory
  <2>3. CASE directory' = [directory EXCEPT !.manifest = "torn", !.entries = NothingHeld]
    BY <1>2, <2>3, NotWritingType DEF Directory
  <2>4. QED
    BY <2>1, <2>2, <2>3 DEF FailWriting
<1>4. QED
  BY <1>1, <1>3, RunStops

LEMMA DirAside ==
    ASSUME DirInv, RemoveEntries \/ \E s \in Sources, c \in SourceContents : ChangeSource(s, c)
    PROVE  DirInv'
<1>1. CASE RemoveEntries
  <2>1. directory' \in Directory
    BY <1>1, NotWritingType DEF RemoveEntries, DirInv, DirectoryTypeOK, Directory
  <2>2. DirectoryTypeOK' /\ writing' = writing /\ \A w \in Writers : ~Lone(w)'
    BY <1>1, <2>1 DEF RemoveEntries, DirInv, DirectoryTypeOK, Lone
  <2>3. QED
    BY <2>2 DEF DirInv, WhileLoneOthersRest, Lone
<1>2. ASSUME NEW s \in Sources, NEW c \in SourceContents, ChangeSource(s, c) PROVE DirInv'
  <2>1. /\ sources' \in Holdings /\ upsets' \in 0..Upsets
        /\ directory' = directory /\ writing' = writing /\ adapter' = adapter
    BY <1>2, DirectoryAssumption DEF ChangeSource, Upset, DirInv, DirectoryTypeOK, Holdings
  <2>2. DirectoryTypeOK'
    BY <2>1 DEF DirInv, DirectoryTypeOK
  <2>3. WhileLoneOthersRest' /\ \A w \in Writers : Lone(w)' = Lone(w)
    BY <2>1 DEF DirInv, WhileLoneOthersRest, Lone
  <2>4. ASSUME NEW w \in Writers, LoneIsRight(w) PROVE LoneIsRight(w)'
    BY <2>1, <2>4
       DEF LoneIsRight, WritesInOrder, HasWritten, Holding, ArtifactsAreRight, PathTo, ArtifactOf,
           PrunesOthers, ToPrune, PathsOf, PrunesAll, Present, Untaken, HasListed
  <2>5. QED
    BY <2>2, <2>3, <2>4 DEF DirInv
<1>3. QED
  BY <1>1, <1>2

LEMMA DirStep == DirInv /\ [DirectoryNext]_directoryVars => DirInv'
<1> SUFFICES ASSUME DirInv, [DirectoryNext]_directoryVars PROVE DirInv'
  OBVIOUS
<1>1. ASSUME NEW w \in Writers, LosePrune(w) \/ FinishWriting(w) PROVE DirInv'
  <2>1. writing[w].at # "idle" /\ Goes(w, NotWriting) /\ directory' = directory
        /\ upsets' = upsets
    BY <1>1 DEF LosePrune, FinishWriting, Finished
  <2>2. QED
    BY <2>1, RunStops DEF DirInv, DirectoryTypeOK
<1>2. CASE UNCHANGED directoryVars
  <2>1. /\ sources' = sources /\ upsets' = upsets
        /\ directory' = directory /\ writing' = writing /\ adapter' = adapter
    BY <1>2 DEF directoryVars
  <2>2. DirectoryTypeOK'
    BY <2>1 DEF DirInv, DirectoryTypeOK
  <2>3. WhileLoneOthersRest' /\ \A w \in Writers : Lone(w)' = Lone(w)
    BY <2>1 DEF DirInv, WhileLoneOthersRest, Lone
  <2>4. ASSUME NEW w \in Writers, LoneIsRight(w) PROVE LoneIsRight(w)'
    BY <2>1, <2>4
       DEF LoneIsRight, WritesInOrder, HasWritten, Holding, ArtifactsAreRight, PathTo, ArtifactOf,
           PrunesOthers, ToPrune, PathsOf, PrunesAll, Present, Untaken, HasListed
  <2>5. QED
    BY <2>2, <2>3, <2>4 DEF DirInv
<1>3. QED
  BY <1>1, <1>2, DirAside, DirBegin, DirPlan, DirWriteArtifact, DirWriteEntries, DirPrune, DirFail
     DEF DirectoryNext

\* The inductive invariant of an output directory: a run that is alone in it has
\* written what it should have so far, whatever others left.
THEOREM DirectoryInvariant == DirectorySpec => []DirInv
BY DirInit, DirStep, PTL DEF DirectorySpec

LEMMA WinnerExists ==
    ASSUME NEW held \in Holdings, NEW p \in PathsOf(held)
    PROVE  /\ Winning(held, p) \in Holding(held) /\ PathTo(Winning(held, p)) = p
           /\ \A t \in Holding(held) : PathTo(t) = p => t <= Winning(held, p)
<1> DEFINE rivals == {s \in Holding(held) : PathTo(s) = p}
           below == {ss \in Nat \X Nat : ss[1] < ss[2]}
           places == {LastSource - s : s \in rivals}
<1>1. \A s \in rivals : s \in Nat /\ LastSource - s \in Nat
  BY DirectoryAssumption DEF Holding, Sources
<1>2. places \subseteq Nat /\ places # {}
  BY <1>1 DEF PathsOf
<1>3. PICK i \in places : \A j \in places : ~ (<<j, i>> \in below)
  BY <1>2, NatLessThanWellFounded, WFMin DEF OpToRel
<1>4. PICK s \in rivals : i = LastSource - s
  OBVIOUS
<1>5. ASSUME NEW t \in rivals PROVE t <= s
  <2>1. /\ LastSource - t \in places /\ <<LastSource - t, i>> \in Nat \X Nat
        /\ s \in Nat /\ t \in Nat /\ LastSource \in Nat
    BY <1>1, <1>2, DirectoryAssumption
  <2>2. LastSource - t < i => <<LastSource - t, i>> \in below
    BY <2>1
  <2>3. ~ (LastSource - t < i)
    BY <1>3, <2>1, <2>2
  <2>4. QED
    BY <1>4, <2>1, <2>3
<1>6. QED
  BY <1>4, <1>5 DEF Winning

LEMMA LoneFinishes ==
    ASSUME DirInv, NEW w \in Writers, FinishWriting(w), writing[w].alone
    PROVE  LET read == writing[w].read IN
           /\ directory.manifest = "whole" /\ directory.entries = read
           /\ \A p \in PathsOf(read) : directory.file[p] = ArtifactOf(Winning(read, p), read)
           /\ {"stale", "orphans"} \subseteq writing[w].options => Present = PathsOf(read)
<1> DEFINE read == writing[w].read
<1>1. writing[w].at = "prune" /\ ToPrune(w) = {}
  BY DEF FinishWriting, Finished, ToPrune
<1>2. LoneIsRight(w)
  BY <1>1 DEF DirInv, Lone
<1>3. HasWritten(w) = Holding(read) /\ directory.manifest = "whole" /\ directory.entries = read
  BY <1>1, <1>2 DEF LoneIsRight, HasListed, HasWritten
<1>4. ASSUME NEW p \in PathsOf(read)
      PROVE  directory.file[p] = ArtifactOf(Winning(read, p), read)
  <2>1. /\ Winning(read, p) \in Holding(read) /\ PathTo(Winning(read, p)) = p
        /\ \A t \in Holding(read) : PathTo(t) = p => t <= Winning(read, p)
    BY WritingType, WinnerExists
  <2>2. QED
    BY <1>1, <1>2, <1>3, <2>1 DEF LoneIsRight, ArtifactsAreRight
<1>5. PathsOf(read) \subseteq Present
  <2> SUFFICES ASSUME NEW p \in PathsOf(read) PROVE p \in Present
    OBVIOUS
  <2>1. directory.file[p] = ArtifactOf(Winning(read, p), read)
    BY <1>4
  <2>2. directory.file[p].kind = "whole" /\ NoFile.kind = "none"
    <3> HIDE DEF read
    <3>1. ArtifactOf(Winning(read, p), read).kind = "whole" /\ NoFile.kind = "none"
      BY DEF ArtifactOf, NoFile
    <3>2. QED
      BY <2>1, <3>1
  <2>3. p \in OutputPaths
    BY WritingType, HeldType, PathType DEF PathsOf, DirInv
  <2>4. QED
    BY <2>2, <2>3 DEF Present
<1>6. {"stale", "orphans"} \subseteq writing[w].options => Present = PathsOf(read)
  BY <1>1, <1>2, <1>5 DEF LoneIsRight, PrunesAll
<1>7. QED
  BY <1>3, <1>4, <1>6

\* Whatever has happened in a directory, a run that has it for itself leaves it
\* right, of whatever sources, paths and options.
THEOREM LoneRunsRestore == DirectorySpec => LoneRunRestores
<1>1. DirInv /\ [DirectoryNext]_directoryVars =>
        [\A w \in Writers :
          FinishWriting(w) /\ writing[w].alone =>
              LET read == writing[w].read IN
              /\ directory.manifest = "whole" /\ directory.entries = read
              /\ \A p \in PathsOf(read) :
                    directory.file[p] = ArtifactOf(Winning(read, p), read)
              /\ {"stale", "orphans"} \subseteq writing[w].options =>
                    Present = PathsOf(read)]_directoryVars
  BY LoneFinishes
<1>2. QED
  BY <1>1, DirectoryInvariant, PTL DEF DirectorySpec, LoneRunRestores

LEMMA LoneKeepsApart ==
    ASSUME DirInv, [DirectoryNext]_directoryVars, NEW w \in Writers, NEW p \in OutputPaths,
           NEW t \in Holding(directory.entries),
           adapter = "local_files", writing[w].at = "write", writing[w].alone,
           PathTo(t) = p, directory'.file[p] # directory.file[p]
    PROVE  t \in Holding(writing[w].read)
<1>1. LoneIsRight(w) /\ \A u \in Writers \ {w} : writing[u].at = "idle"
  BY DEF DirInv, WhileLoneOthersRest, Lone
<1>2. Untaken(w) /\ writing[w].due \subseteq Holding(writing[w].read)
  BY <1>1 DEF LoneIsRight, WritesInOrder
<1>3. WriteArtifact(w) \/ FailWriting(w)
  <2>1. directory' # directory
    OBVIOUS
  <2>3. ~RemoveEntries
    BY DEF RemoveEntries
  <2>4. ~WriteEntries(w)
    BY DEF WriteEntries, DirInv, DirectoryTypeOK, Directory
  <2>5. \A u \in Writers \ {w} : ~WriteArtifact(u) /\ ~WriteEntries(u) /\ ~FailWriting(u)
                              /\ \A q \in OutputPaths : ~UnlinkPath(u, q)
    BY <1>1 DEF WriteArtifact, WriteEntries, FailWriting, UnlinkPath
  <2>6. \A q \in OutputPaths : ~UnlinkPath(w, q)
    BY DEF UnlinkPath
  <2>7. QED
    BY <2>1, <2>3, <2>4, <2>5, <2>6
       DEF DirectoryNext, directoryVars, ChangeSource, BeginWriting, PlanWriting, RefuseWriting,
           LookAtPrunes, LosePrune, FinishWriting
<1>4. writing[w].due # {} /\ p = PathTo(NextDue(w))
  BY <1>3 DEF WriteArtifact, FailWriting, DirInv, DirectoryTypeOK, Directory
<1>5. NextDue(w) \in Holding(writing[w].read)
  BY <1>2, <1>4, NextDueType
<1>6. QED
  BY <1>2, <1>4, <1>5 DEF Untaken

\* A run of local_files that is alone writes over nothing of another source.
THEOREM NothingIsTakenOver == DirectorySpec => TakesNothingOver
<1>1. DirInv /\ [DirectoryNext]_directoryVars =>
        [\A w \in Writers, p \in OutputPaths, t \in Holding(directory.entries) :
            /\ adapter = "local_files" /\ writing[w].at = "write" /\ writing[w].alone
            /\ PathTo(t) = p /\ directory'.file[p] # directory.file[p]
            => t \in Holding(writing[w].read)]_directoryVars
  BY LoneKeepsApart
<1>2. QED
  BY <1>1, DirectoryInvariant, PTL DEF DirectorySpec, TakesNothingOver

-----------------------------------------------------------------------------
(* A bundle.                                                               *)

\* The order of a plan: each id once, the smaller first.
LEMMA InOrderAscends ==
    ASSUME NEW ids \in SUBSET Ids
    PROVE  /\ Ascends(InOrder(ids), ids)
           /\ InOrder(ids) \in Seq(Ids) /\ Len(InOrder(ids)) \in 0..LastId
           /\ DOMAIN InOrder(ids) = 1..Len(InOrder(ids))
           /\ \A k \in DOMAIN InOrder(ids) : InOrder(ids)[k] \in ids
           /\ \A j, k \in DOMAIN InOrder(ids) : InOrder(ids)[j] = InOrder(ids)[k] => j = k
           /\ \A i \in ids : \E k \in DOMAIN InOrder(ids) : InOrder(ids)[k] = i
<1>1. LastId \in Nat /\ ids \in SUBSET (1..LastId)
  BY BundleAssumption DEF Ids
<1>2. \E f : Ascends(f, ids)
  BY <1>1, Ascending
<1> DEFINE f == InOrder(ids)
<1>3. Ascends(f, ids)
  BY <1>2 DEF Ascends, InOrder
<1> HIDE DEF f
<1>4. /\ Cardinality(ids) \in 0..LastId
      /\ \A k, j \in 1..Cardinality(ids) : f[k] = f[j] => k = j
      /\ \A x \in ids : \E k \in 1..Cardinality(ids) : f[k] = x
  BY <1>1, <1>3, AscendingIsOnto
<1>5. PICK c \in Nat : c = Cardinality(ids)
  BY <1>4
<1>6. f \in [1..c -> ids]
  BY <1>3, <1>5 DEF Ascends
<1>7. f \in [1..c -> Ids]
  BY <1>6
<1>8. f \in Seq(Ids) /\ Len(f) = c /\ DOMAIN f = 1..c
  BY <1>7
<1>9. QED
  BY <1>3, <1>4, <1>5, <1>6, <1>8 DEF f

\* The size of a file, as it is computed and as it is.
LEMMA SizeIsBytes ==
    ASSUME NEW chunk \in Seq(Section), Len(chunk) # 0
    PROVE  Size(chunk) = Bytes(chunk)
<1> DEFINE size(k) == SizeOf[chunk[k].version]
           bytesOn(g) == [k \in 0..Len(chunk) |->
                             IF k = 0 THEN 0 ELSE g[k - 1] + size(k) + (IF k = 1 THEN 0 ELSE Separator)]
           sumOn(g) == [k \in 0..Len(chunk) |-> IF k = 0 THEN 0 ELSE g[k - 1] + size(k)]
           bytes == CHOOSE g : g = bytesOn(g)
           sum == CHOOSE g : g = sumOn(g)
<1>1. Len(chunk) \in Nat \ {0} /\ Separator \in Nat
  BY BundleAssumption
<1>2. ASSUME NEW k \in 1..Len(chunk) PROVE size(k) \in Nat
  <2>1. chunk[k] \in Section
    OBVIOUS
  <2>2. chunk[k].version \in Versions
    BY <2>1 DEF Section
  <2>3. QED
    BY <2>2, BundleAssumption
<1>3. Bytes(chunk) = bytes[Len(chunk)]
  BY DEF Bytes
<1>4. Size(chunk) = sum[Len(chunk)] + Separator * (Len(chunk) - 1)
  BY DEF Size
<1> HIDE DEF size
<1>5. bytes = bytesOn(bytes)
  <2> DEFINE step == [a \in Nat \X Nat |->
                         IF a[1] \in 1..Len(chunk)
                         THEN a[2] + size(a[1]) + (IF a[1] = 1 THEN 0 ELSE Separator) ELSE 0]
  <2>1. step \in [Nat \X Nat -> Nat]
    <3>1. ASSUME NEW a \in Nat \X Nat
          PROVE  (IF a[1] \in 1..Len(chunk)
                  THEN a[2] + size(a[1]) + (IF a[1] = 1 THEN 0 ELSE Separator) ELSE 0) \in Nat
      <4>1. CASE a[1] \in 1..Len(chunk)
        <5>1. size(a[1]) \in Nat /\ a[2] \in Nat
          BY <1>2, <4>1
        <5>2. QED
          BY <1>1, <4>1, <5>1
      <4>2. QED
        BY <4>1
    <3>2. QED
      BY <3>1
  <2>2. \A k \in 1..Len(chunk), n \in Nat :
            step[<<k, n>>] = n + size(k) + (IF k = 1 THEN 0 ELSE Separator)
    BY <1>1
  <2> HIDE DEF step
  <2>3. PICK f : Recurs(f, Len(chunk), Nat, 0, step)
    BY <1>1, <2>1, Recursion
  <2>4. /\ f \in [0..Len(chunk) -> Nat] /\ f[0] = 0
        /\ \A k \in 1..Len(chunk) : f[k] = step[<<k, f[k - 1]>>]
    BY <2>3 DEF Recurs
  <2>5. ASSUME NEW k \in 0..Len(chunk)
        PROVE  f[k] = IF k = 0 THEN 0 ELSE f[k - 1] + size(k) + (IF k = 1 THEN 0 ELSE Separator)
    <3>1. CASE k # 0
      <4>1. k \in 1..Len(chunk) /\ k - 1 \in 0..Len(chunk)
        BY <1>1, <3>1
      <4>2. QED
        BY <2>2, <2>4, <3>1, <4>1
    <3>2. QED
      BY <2>4, <3>1
  <2>6. f = bytesOn(f)
    BY <2>4, <2>5
  <2> HIDE DEF bytesOn
  <2>7. QED
    BY <2>6
<1>6. sum = sumOn(sum)
  <2> DEFINE step == [a \in Nat \X Nat |->
                         IF a[1] \in 1..Len(chunk) THEN a[2] + size(a[1]) ELSE 0]
  <2>1. step \in [Nat \X Nat -> Nat]
    <3>1. ASSUME NEW a \in Nat \X Nat
          PROVE  (IF a[1] \in 1..Len(chunk) THEN a[2] + size(a[1]) ELSE 0) \in Nat
      <4>1. CASE a[1] \in 1..Len(chunk)
        <5>1. size(a[1]) \in Nat /\ a[2] \in Nat
          BY <1>2, <4>1
        <5>2. QED
          BY <4>1, <5>1
      <4>2. QED
        BY <4>1
    <3>2. QED
      BY <3>1
  <2>2. \A k \in 1..Len(chunk), n \in Nat : step[<<k, n>>] = n + size(k)
    BY <1>1
  <2> HIDE DEF step
  <2>3. PICK f : Recurs(f, Len(chunk), Nat, 0, step)
    BY <1>1, <2>1, Recursion
  <2>4. /\ f \in [0..Len(chunk) -> Nat] /\ f[0] = 0
        /\ \A k \in 1..Len(chunk) : f[k] = step[<<k, f[k - 1]>>]
    BY <2>3 DEF Recurs
  <2>5. ASSUME NEW k \in 0..Len(chunk)
        PROVE  f[k] = IF k = 0 THEN 0 ELSE f[k - 1] + size(k)
    <3>1. CASE k # 0
      <4>1. k \in 1..Len(chunk) /\ k - 1 \in 0..Len(chunk)
        BY <1>1, <3>1
      <4>2. QED
        BY <2>2, <2>4, <3>1, <4>1
    <3>2. QED
      BY <2>4, <3>1
  <2>6. f = sumOn(f)
    BY <2>4, <2>5
  <2> HIDE DEF sumOn
  <2>7. QED
    BY <2>6
<1> HIDE DEF bytes, sum
<1>7. ASSUME NEW k \in 0..Len(chunk)
      PROVE  /\ bytes[k] = IF k = 0 THEN 0
                           ELSE bytes[k - 1] + size(k) + (IF k = 1 THEN 0 ELSE Separator)
             /\ sum[k] = IF k = 0 THEN 0 ELSE sum[k - 1] + size(k)
  BY <1>5, <1>6
<1> DEFINE s == {k \in 0..Len(chunk) : /\ bytes[k] \in Nat /\ sum[k] \in Nat
                                       /\ k # 0 => bytes[k] = sum[k] + Separator * (k - 1)}
<1>8. 0 \in s
  BY <1>1, <1>7
<1>9. ASSUME NEW k \in 0..(Len(chunk) - 1), k \in s PROVE k + 1 \in s
  <2>1. k + 1 \in 1..Len(chunk) /\ k + 1 \in 0..Len(chunk) /\ k \in 0..Len(chunk) /\ k \in Nat
    BY <1>1
  <2>2. /\ bytes[k + 1] = bytes[k] + size(k + 1) + (IF k = 0 THEN 0 ELSE Separator)
        /\ sum[k + 1] = sum[k] + size(k + 1)
    BY <1>7, <2>1
  <2>3. size(k + 1) \in Nat /\ bytes[k] \in Nat /\ sum[k] \in Nat
    BY <1>2, <1>9, <2>1
  <2>4. bytes[k + 1] \in Nat /\ sum[k + 1] \in Nat
    BY <1>1, <2>2, <2>3
  <2>5. CASE k = 0
    <3>1. bytes[0] = 0 /\ sum[0] = 0 /\ Separator * 0 = 0
      BY <1>1, <1>7
    <3>2. QED
      BY <1>1, <2>1, <2>2, <2>3, <2>4, <2>5, <3>1
  <2>6. CASE k # 0
    <3>1. bytes[k] = sum[k] + Separator * (k - 1)
      BY <1>9, <2>6
    <3>2. Separator * ((k + 1) - 1) = Separator * (k - 1) + Separator
      BY <1>1, <2>1
    <3>3. PICK x \in Nat : x = Separator * (k - 1)
      BY <1>1, <2>1, <2>6
    <3>4. bytes[k + 1] = sum[k + 1] + (x + Separator)
      BY <1>1, <2>2, <2>3, <2>6, <3>1, <3>3
    <3>5. QED
      BY <2>1, <2>4, <3>2, <3>3, <3>4
  <2>7. QED
    BY <2>5, <2>6
<1> HIDE DEF s
<1>10. Len(chunk) \in s
  <2>1. \A k \in 0..Len(chunk) : k \in s
    BY <1>1, <1>8, <1>9, UpTo
  <2>2. QED
    BY <1>1, <2>1
<1>11. QED
  BY <1>1, <1>3, <1>4, <1>10 DEF s

-----------------------------------------------------------------------------

\* No two sections are of one artifact.
Apart(chunks) ==
    \A c, e \in DOMAIN chunks : \A p \in DOMAIN chunks[c], q \in DOMAIN chunks[e] :
        chunks[c][p].id = chunks[e][q].id => c = e /\ p = q

\* The chunks have a section.
Has(chunks, section) == \E c \in DOMAIN chunks : \E p \in DOMAIN chunks[c] : chunks[c][p] = section

\* The first k sections are in the chunks, and nothing else.
Divides(chunks, sections, k, limit) ==
    /\ chunks \in Seq(Seq(Section)) /\ Len(chunks) # 0
    /\ Len(chunks) = 1 \/ Len(chunks) <= k
    /\ \A c \in DOMAIN chunks : Len(chunks[c]) <= k
    /\ Apart(chunks)
    /\ \A j \in 1..k : Has(chunks, sections[j])
    /\ \A c \in DOMAIN chunks : \A p \in DOMAIN chunks[c] : \E j \in 1..k : chunks[c][p] = sections[j]
    /\ \A c \in DOMAIN chunks : Len(chunks[c]) > 1 => Bytes(chunks[c]) <= limit

AppendTo(chunks, s, limit) ==
    LET last == Append(chunks[Len(chunks)], s) IN
    IF chunks[Len(chunks)] = <<>> \/ Bytes(last) <= limit
    THEN [chunks EXCEPT ![Len(chunks)] = last]
    ELSE Append(chunks, <<s>>)

\* All that was in the chunks is where it was, and s is at (d, r).
Adds(new, chunks, s, d, r) ==
    /\ \A c \in DOMAIN chunks : \A p \in DOMAIN chunks[c] :
          c \in DOMAIN new /\ p \in DOMAIN new[c] /\ new[c][p] = chunks[c][p]
    /\ d \in DOMAIN new /\ r \in DOMAIN new[d] /\ new[d][r] = s
    /\ \A c \in DOMAIN new : \A p \in DOMAIN new[c] :
          \/ c \in DOMAIN chunks /\ p \in DOMAIN chunks[c] /\ new[c][p] = chunks[c][p]
          \/ c = d /\ p = r

\* Sections stay apart if one is added of an id that had none.
LEMMA AddsApart ==
    ASSUME NEW new, NEW chunks, NEW s, NEW d, NEW r, Adds(new, chunks, s, d, r),
           Apart(chunks),
           \A c \in DOMAIN chunks : \A p \in DOMAIN chunks[c] : chunks[c][p].id # s.id
    PROVE  /\ Apart(new) /\ Has(new, s)
           /\ \A t : Has(chunks, t) => Has(new, t)
<1>1. Has(new, s) /\ \A t : Has(chunks, t) => Has(new, t)
  BY DEF Adds, Has
<1>2. ASSUME NEW c \in DOMAIN new, NEW e \in DOMAIN new,
             NEW p \in DOMAIN new[c], NEW q \in DOMAIN new[e], new[c][p].id = new[e][q].id
      PROVE  c = e /\ p = q
  <2>1. \/ c \in DOMAIN chunks /\ p \in DOMAIN chunks[c] /\ new[c][p] = chunks[c][p]
        \/ c = d /\ p = r
    BY DEF Adds
  <2>2. \/ e \in DOMAIN chunks /\ q \in DOMAIN chunks[e] /\ new[e][q] = chunks[e][q]
        \/ e = d /\ q = r
    BY DEF Adds
  <2>3. new[d][r] = s
    BY DEF Adds
  <2>4. QED
    BY <1>2, <2>1, <2>2, <2>3 DEF Apart
<1>3. QED
  BY <1>1, <1>2 DEF Apart

\* One more section goes into the last file, or into a file of its own.
LEMMA AppendDivides ==
    ASSUME NEW sections \in Seq(Section), NEW limit, NEW k \in 0..(Len(sections) - 1),
           \A i, j \in DOMAIN sections : sections[i].id = sections[j].id => i = j,
           NEW chunks, Divides(chunks, sections, k, limit)
    PROVE  Divides(AppendTo(chunks, sections[k + 1], limit), sections, k + 1, limit)
<1> DEFINE s == sections[k + 1]
           n == Len(chunks)
           last == Append(chunks[n], s)
           new == AppendTo(chunks, s, limit)
<1>1. /\ k \in Nat /\ Len(sections) \in Nat /\ k + 1 \in 1..Len(sections) /\ s \in Section
      /\ DOMAIN sections = 1..Len(sections)
  OBVIOUS
<1>2. /\ chunks \in Seq(Seq(Section)) /\ n \in Nat \ {0} /\ DOMAIN chunks = 1..n
      /\ n = 1 \/ n <= k
      /\ \A c \in DOMAIN chunks : chunks[c] \in Seq(Section) /\ Len(chunks[c]) \in Nat
                                  /\ Len(chunks[c]) <= k
                                  /\ DOMAIN chunks[c] = 1..Len(chunks[c])
      /\ Apart(chunks)
  BY DEF Divides
<1>3. /\ \A j \in 1..k : Has(chunks, sections[j])
      /\ \A c \in DOMAIN chunks : \A p \in DOMAIN chunks[c] :
            \E j \in 1..k : chunks[c][p] = sections[j]
      /\ \A c \in DOMAIN chunks : Len(chunks[c]) > 1 => Bytes(chunks[c]) <= limit
  BY DEF Divides
<1>4. \A c \in DOMAIN chunks : \A p \in DOMAIN chunks[c] : chunks[c][p].id # s.id
  <2>1. ASSUME NEW c \in DOMAIN chunks, NEW p \in DOMAIN chunks[c] PROVE chunks[c][p].id # s.id
    <3>1. PICK j \in 1..k : chunks[c][p] = sections[j]
      BY <1>3
    <3>2. j \in DOMAIN sections /\ k + 1 \in DOMAIN sections /\ j # k + 1
      BY <1>1
    <3>3. QED
      BY <3>1, <3>2
  <2>2. QED
    BY <2>1
<1>5. n \in DOMAIN chunks /\ chunks[n] \in Seq(Section) /\ Len(chunks[n]) \in Nat
  BY <1>2
<1>6. /\ last \in Seq(Section) /\ Len(last) = Len(chunks[n]) + 1
      /\ DOMAIN last = 1..(Len(chunks[n]) + 1)
      /\ \A p \in 1..Len(chunks[n]) : last[p] = chunks[n][p]
      /\ last[Len(chunks[n]) + 1] = s
  BY <1>1, <1>5
<1> SUFFICES Divides(new, sections, k + 1, limit)
  OBVIOUS
<1>n. n = Len(chunks)
  OBVIOUS
<1>m. PICK m \in Nat : m = Len(chunks[n])
  BY <1>5
<1> HIDE DEF s, last, n
<1>7. ASSUME chunks[n] = <<>> \/ Bytes(last) <= limit
      PROVE  Divides(new, sections, k + 1, limit)
  <2>1. new = [chunks EXCEPT ![n] = last]
    BY <1>7, <1>n DEF AppendTo, last
  <2> HIDE DEF new
  <2>2. /\ new \in Seq(Seq(Section)) /\ Len(new) = n /\ DOMAIN new = 1..n
        /\ \A c \in 1..n : new[c] = IF c = n THEN last ELSE chunks[c]
    BY <1>2, <1>6, <1>n, <2>1
  <2>3. /\ \A c \in 1..n : DOMAIN new[c] = IF c = n THEN 1..(m + 1) ELSE DOMAIN chunks[c]
        /\ last[m + 1] = s /\ \A p \in 1..m : last[p] = chunks[n][p]
        /\ DOMAIN chunks[n] = 1..m /\ n \in 1..n
    BY <1>2, <1>5, <1>6, <1>m, <2>2
  <2>a. \A p \in 1..(m + 1) : p \in 1..m \/ p = m + 1
    OBVIOUS
  <2>b. m + 1 \in 1..(m + 1) /\ \A p \in 1..m : p \in 1..(m + 1)
    OBVIOUS
  <2>4. Adds(new, chunks, s, n, m + 1)
    BY <1>2, <2>2, <2>3, <2>a, <2>b DEF Adds
  <2>5. Len(new) # 0 /\ (Len(new) = 1 \/ Len(new) <= k + 1)
    BY <1>1, <1>2, <2>2
  <2>6. \A c \in DOMAIN new : Len(new[c]) <= k + 1
    <3>1. ASSUME NEW c \in 1..n PROVE Len(new[c]) <= k + 1
      <4>1. CASE c = n
        <5>1. Len(new[c]) = m + 1 /\ m <= k
          BY <1>2, <1>5, <1>6, <1>m, <2>2, <4>1
        <5>2. QED
          BY <1>1, <5>1
      <4>2. CASE c # n
        <5>1. Len(new[c]) \in Nat /\ Len(new[c]) <= k
          BY <1>2, <2>2, <4>2
        <5>2. QED
          BY <1>1, <5>1
      <4>3. QED
        BY <4>1, <4>2
    <3>2. QED
      BY <2>2, <3>1
  <2>7. \A c \in DOMAIN new : Len(new[c]) > 1 => Bytes(new[c]) <= limit
    <3>1. chunks[n] = <<>> => ~ (Len(last) > 1)
      BY <1>6
    <3>2. QED
      BY <1>2, <1>3, <1>7, <2>2, <3>1
  <2>8. QED
    <3>1. /\ Apart(new) /\ Has(new, s)
          /\ \A t : Has(chunks, t) => Has(new, t)
      BY <1>2, <1>4, <2>4, AddsApart
    <3>2. \A j \in 1..(k + 1) : Has(new, sections[j])
      BY <1>1, <1>3, <3>1 DEF s
    <3>3. \A c \in DOMAIN new : \A p \in DOMAIN new[c] :
              \E j \in 1..(k + 1) : new[c][p] = sections[j]
      BY <1>1, <1>3, <2>4 DEF Adds, s
    <3>4. QED
      BY <2>2, <2>5, <2>6, <2>7, <3>1, <3>2, <3>3 DEF Divides
<1>8. ASSUME ~ (chunks[n] = <<>> \/ Bytes(last) <= limit)
      PROVE  Divides(new, sections, k + 1, limit)
  <2> DEFINE one == <<s>>
  <2>1. new = Append(chunks, one)
    BY <1>8, <1>n DEF AppendTo, last
  <2>a. one \in Seq(Section) /\ Len(one) = 1 /\ DOMAIN one = 1..1 /\ one[1] = s
    BY <1>1 DEF s
  <2> HIDE DEF new, one
  <2>2. /\ new \in Seq(Seq(Section)) /\ Len(new) = n + 1 /\ DOMAIN new = 1..(n + 1)
        /\ \A c \in 1..n : new[c] = chunks[c]
        /\ new[n + 1] = one
    BY <1>2, <2>1, <2>a
  <2>3. n + 1 \in DOMAIN new /\ n + 1 \notin DOMAIN chunks /\ \A c \in DOMAIN chunks : c \in DOMAIN new
    BY <1>2, <2>2
  <2>c. \A c \in DOMAIN new : c \in DOMAIN chunks \/ c = n + 1
    BY <1>2, <2>2
  <2>4. Adds(new, chunks, s, n + 1, 1)
    BY <1>2, <2>a, <2>2, <2>3, <2>c DEF Adds
  <2>5. Len(new) # 0 /\ (Len(new) = 1 \/ Len(new) <= k + 1)
    <3>1. k # 0
      <4>1. Len(chunks[n]) # 0
        BY <1>5, <1>8
      <4>2. Len(chunks[n]) <= k
        BY <1>2, <1>5
      <4>3. QED
        BY <1>m, <4>1, <4>2
    <3>2. n + 1 <= k + 1
      BY <1>1, <1>2, <3>1
    <3>3. QED
      BY <1>2, <2>2, <3>2
  <2>6. \A c \in DOMAIN new : Len(new[c]) <= k + 1
    <3>1. ASSUME NEW c \in DOMAIN new PROVE Len(new[c]) <= k + 1
      <4>1. CASE c \in DOMAIN chunks
        <5>1. Len(new[c]) \in Nat /\ Len(new[c]) <= k
          BY <1>2, <2>2, <4>1
        <5>2. QED
          BY <1>1, <5>1
      <4>2. CASE c = n + 1
        <5>1. new[c] = one
          BY <2>2, <4>2
        <5>2. Len(new[c]) = 1
          BY <2>a, <5>1
        <5>3. QED
          BY <1>1, <5>2
      <4>3. QED
        BY <2>c, <4>1, <4>2
    <3>2. QED
      BY <3>1
  <2>7. \A c \in DOMAIN new : Len(new[c]) > 1 => Bytes(new[c]) <= limit
    <3>1. ASSUME NEW c \in DOMAIN new, Len(new[c]) > 1 PROVE Bytes(new[c]) <= limit
      <4>1. c # n + 1
        <5>1. SUFFICES ASSUME c = n + 1 PROVE FALSE
          OBVIOUS
        <5>2. new[c] = one
          BY <2>2, <5>1
        <5>3. Len(new[c]) = 1
          BY <2>a, <5>2
        <5>4. QED
          BY <3>1, <5>3
      <4>2. c \in DOMAIN chunks /\ new[c] = chunks[c]
        BY <1>2, <2>2, <2>c, <4>1
      <4>3. QED
        BY <1>3, <3>1, <4>2
    <3>2. QED
      BY <3>1
  <2>8. QED
    <3>1. /\ Apart(new) /\ Has(new, s)
          /\ \A t : Has(chunks, t) => Has(new, t)
      BY <1>2, <1>4, <2>4, AddsApart
    <3>2. \A j \in 1..(k + 1) : Has(new, sections[j])
      BY <1>1, <1>3, <3>1 DEF s
    <3>3. \A c \in DOMAIN new : \A p \in DOMAIN new[c] :
              \E j \in 1..(k + 1) : new[c][p] = sections[j]
      BY <1>1, <1>3, <2>4 DEF Adds, s
    <3>4. QED
      BY <2>2, <2>5, <2>6, <2>7, <3>1, <3>2, <3>3 DEF Divides
<1>9. QED
  BY <1>7, <1>8

\* Appending makes files of sections.
LEMMA AppendToType ==
    ASSUME NEW chunks \in Seq(Seq(Section)) \ {<<>>}, NEW s \in Section, NEW limit
    PROVE  AppendTo(chunks, s, limit) \in Seq(Seq(Section)) \ {<<>>}
<1> DEFINE last == Append(chunks[Len(chunks)], s)
           one == <<s>>
<1>1. Len(chunks) \in 1..Len(chunks) /\ Len(chunks) \in Nat
  OBVIOUS
<1>2. chunks[Len(chunks)] \in Seq(Section)
  BY <1>1
<1>3. last \in Seq(Section) /\ one \in Seq(Section)
  BY <1>2
<1>4. AppendTo(chunks, s, limit) = [chunks EXCEPT ![Len(chunks)] = last]
      \/ AppendTo(chunks, s, limit) = Append(chunks, one)
  BY DEF AppendTo
<1> HIDE DEF last, one
<1>5. /\ [chunks EXCEPT ![Len(chunks)] = last] \in Seq(Seq(Section))
      /\ Len([chunks EXCEPT ![Len(chunks)] = last]) = Len(chunks)
  BY <1>1, <1>3
<1>6. Append(chunks, one) \in Seq(Seq(Section)) /\ Len(Append(chunks, one)) = Len(chunks) + 1
  BY <1>3
<1>7. Len(chunks) # 0 /\ Len(chunks) + 1 # 0
  BY <1>1
<1>8. \A q \in Seq(Seq(Section)) : Len(q) # 0 => q # <<>>
  OBVIOUS
<1>9. QED
  BY <1>4, <1>5, <1>6, <1>7, <1>8

\* What the sections are split into.
LEMMA SplitDivides ==
    ASSUME NEW sections \in Seq(Section), NEW limit,
           \A i, j \in DOMAIN sections : sections[i].id = sections[j].id => i = j
    PROVE  Divides(Split(sections, limit), sections, Len(sections), limit)
<1> DEFINE A == Seq(Seq(Section)) \ {<<>>}
           b == Len(sections)
           none == << <<>> >>
           step == [a \in Nat \X A |-> IF a[1] \in 1..b THEN AppendTo(a[2], sections[a[1]], limit)
                                                        ELSE a[2]]
           on(g) == [k \in 0..b |-> IF k = 0 THEN none ELSE AppendTo(g[k - 1], sections[k], limit)]
           split == CHOOSE g : g = on(g)
<1>1. b \in Nat /\ \A k \in 1..b : sections[k] \in Section
  OBVIOUS
<1>2. Split(sections, limit) = split[b]
  BY DEF Split, AppendTo
<1>3. /\ none \in Seq(Seq(Section)) /\ Len(none) = 1 /\ none[1] = <<>> /\ none # <<>>
      /\ DOMAIN none = 1..1
  OBVIOUS
<1> HIDE DEF none
<1>4. step \in [Nat \X A -> A]
  <2>1. ASSUME NEW a \in Nat \X A
        PROVE  (IF a[1] \in 1..b THEN AppendTo(a[2], sections[a[1]], limit) ELSE a[2]) \in A
    <3>1. a[2] \in A
      OBVIOUS
    <3>2. QED
      BY <1>1, <3>1, AppendToType
  <2>2. QED
    BY <2>1
<1>5. \A k \in 1..b, c \in A : step[<<k, c>>] = AppendTo(c, sections[k], limit)
  BY <1>1
<1> HIDE DEF step
<1>6. none \in A
  BY <1>3
<1>a. \A c \in A : c \in Seq(Seq(Section))
  OBVIOUS
<1> HIDE DEF A, b
<1>7. PICK f : Recurs(f, b, A, none, step)
  BY <1>1, <1>4, <1>6, Recursion
<1>8. f \in [0..b -> A] /\ f[0] = none /\ \A k \in 1..b : f[k] = step[<<k, f[k - 1]>>]
  BY <1>7 DEF Recurs
<1>9. ASSUME NEW k \in 0..b
      PROVE  f[k] = IF k = 0 THEN none ELSE AppendTo(f[k - 1], sections[k], limit)
  <2>1. CASE k # 0
    <3>1. k \in 1..b /\ k - 1 \in 0..b
      BY <1>1, <2>1
    <3>2. f[k - 1] \in A
      BY <1>8, <3>1
    <3>3. QED
      BY <1>5, <1>8, <2>1, <3>1, <3>2
  <2>2. QED
    BY <1>8, <2>1
<1>10. f = on(f)
  BY <1>8, <1>9
<1> HIDE DEF on
<1>11. split = on(split)
  BY <1>10
<1> HIDE DEF split
<1>12. ASSUME NEW k \in 0..b
       PROVE  split[k] = IF k = 0 THEN none ELSE AppendTo(split[k - 1], sections[k], limit)
  BY <1>11 DEF on
<1> DEFINE s == {k \in 0..b : Divides(split[k], sections, k, limit)}
<1>13. 0 \in s
  <2>1. split[0] = none /\ 0 \in 0..b
    BY <1>1, <1>12
  <2>2. \A c \in DOMAIN none : none[c] = <<>> /\ DOMAIN none[c] = {} /\ Len(none[c]) = 0
    BY <1>3
  <2>3. Divides(none, sections, 0, limit)
    <3>1. Apart(none)
      BY <2>2 DEF Apart
    <3>2. 1..0 = {} /\ ~ (0 > 1) /\ 0 <= 0
      OBVIOUS
    <3>3. QED
      BY <1>3, <2>2, <3>1, <3>2 DEF Divides
  <2>4. QED
    BY <2>1, <2>3
<1>14. ASSUME NEW k \in 0..(b - 1), k \in s PROVE k + 1 \in s
  <2>1. k + 1 \in 0..b /\ k + 1 # 0 /\ (k + 1) - 1 = k
    BY <1>1
  <2>2. split[k + 1] = AppendTo(split[k], sections[k + 1], limit)
    BY <1>12, <2>1
  <2>3. Divides(split[k], sections, k, limit) /\ k \in 0..(Len(sections) - 1)
    BY <1>14 DEF b
  <2>4. Divides(AppendTo(split[k], sections[k + 1], limit), sections, k + 1, limit)
    BY <2>3, AppendDivides
  <2>5. QED
    BY <2>1, <2>2, <2>4
<1> HIDE DEF s
<1>15. b \in s
  <2>1. \A k \in 0..b : k \in s
    BY <1>1, <1>13, <1>14, UpTo
  <2>2. QED
    BY <1>1, <2>1
<1>16. QED
  BY <1>2, <1>15 DEF s, b

-----------------------------------------------------------------------------

\* The first of the inputs that list an id.
LEMMA WinnerType ==
    ASSUME NEW inputs \in Seq(Folders), NEW i, Listers(inputs, i) # {}
    PROVE  /\ Winner(inputs, i) \in Folders
           /\ \E k \in Listers(inputs, i) : /\ Winner(inputs, i) = inputs[k]
                                            /\ \A j \in Listers(inputs, i) : k <= j
<1> DEFINE s == Listers(inputs, i)
           first == CHOOSE k \in s : \A j \in s : k <= j
<1>1. s \in SUBSET Nat /\ \A k \in s : inputs[k] \in Folders
  BY DEF Listers
<1> HIDE DEF s
<1>2. \E k \in s : \A j \in s : k <= j
  BY <1>1, LeastNumber DEF s
<1>3. first \in s /\ \A j \in s : first <= j
  BY <1>2
<1>4. Winner(inputs, i) = inputs[first]
  BY DEF Winner, s
<1> HIDE DEF first
<1>5. QED
  BY <1>1, <1>3, <1>4 DEF s

Chunked == bundle.at \in {"write", "done"}

\* The plan has each artifact selected once, from the first that lists it.
OrderHolds ==
    bundle.at = "render" =>
        /\ Len(bundle.order) <= LastId
        /\ \A j, k \in DOMAIN bundle.order : bundle.order[j] = bundle.order[k] => j = k
        /\ bundle.still =>
              \A i \in Select(bundle.inputs, bundle.option) :
                  /\ \E k \in DOMAIN bundle.order : bundle.order[k] = i
                  /\ bundle.source[i] = Winner(bundle.inputs, i)

\* So have the chunks.
ChunksHold ==
    Chunked =>
        /\ Len(bundle.chunks) \in 1..LastId
        /\ bundle.option.limit = 0 => Len(bundle.chunks) = 1
        /\ \A c \in DOMAIN bundle.chunks : Len(bundle.chunks[c]) <= LastId
        /\ Apart(bundle.chunks)
        /\ bundle.option.limit # 0 =>
              \A c \in DOMAIN bundle.chunks :
                  Len(bundle.chunks[c]) > 1 => Bytes(bundle.chunks[c]) <= bundle.option.limit
        /\ bundle.still =>
              \A i \in Select(bundle.inputs, bundle.option) :
                  Has(bundle.chunks, [id |-> i,
                         version |-> folders[Winner(bundle.inputs, i)].artifact[i]])

\* What has been written is in the files.
FilesHold ==
    /\ bundle.at \in {"load", "render"} => bundle.written = 0
    /\ Chunked => /\ bundle.written \in 0..Len(bundle.chunks)
                  /\ bundle.at = "write" <=> bundle.written < Len(bundle.chunks)
                  /\ \A k \in 1..bundle.written : bundleFiles[Path(k)] = bundle.chunks[k]

BundleInv == BundleTypeOK /\ OrderHolds /\ ChunksHold /\ FilesHold

\* Without a command in progress the parts have their types.
LEMMA NoBundleType ==
    /\ NoBundle \in BundleRun /\ NoBundle.at = "idle"
    /\ EmptyFolder \in Folder
<1>1. NoEntry \in Entry /\ 0 \in 0..LastVersion
  BY BundleAssumption DEF NoEntry, Entry
<1>2. EmptyFolder \in Folder
  BY <1>1 DEF EmptyFolder, Folder
<1> DEFINE some == CHOOSE d \in Folders : TRUE
           source == [i \in Ids |-> some]
           option == [changed |-> FALSE, stale |-> "include", wanted |-> {}, limit |-> 0]
<1>3. some \in Folders
  BY BundleAssumption
<1> HIDE DEF some
<1>4. source \in [Ids -> Folders] /\ option \in Option
  BY <1>3 DEF Option
<1>5. NoBundle = [at |-> "idle", inputs |-> <<>>, option |-> option, order |-> <<>>,
                  source |-> source, chunks |-> <<>>, written |-> 0, still |-> TRUE]
  BY DEF NoBundle, some
<1> HIDE DEF source, option
<1>6. NoBundle \in BundleRun /\ NoBundle.at = "idle"
  BY <1>4, <1>5 DEF BundleRun
<1>7. QED
  BY <1>2, <1>6

\* Without a command in progress there is nothing to keep.
LEMMA BundleRests ==
    ASSUME BundleTypeOK', bundle'.at \in {"idle", "load"}, bundle'.written = 0
    PROVE  BundleInv'
BY DEF BundleInv, OrderHolds, ChunksHold, FilesHold, Chunked

\* A command that ends, or dies, leaves nothing to keep.
LEMMA NoBundleInv ==
    ASSUME BundleTypeOK', bundle' = NoBundle
    PROVE  BundleInv'
<1>1. NoBundle.at = "idle" /\ NoBundle.written = 0
  BY DEF NoBundle
<1>2. QED
  BY <1>1, BundleRests

\* At the start no command is in progress.
LEMMA BundleInitInv == BundleInit => BundleInv
<1> SUFFICES ASSUME BundleInit PROVE BundleInv
  OBVIOUS
<1>1. NoBundle.at = "idle"
  BY NoBundleType
<1>2. [k \in FileNumbers |-> <<>>] \in [FileNumbers -> BundleFile]
  BY DEF BundleFile
<1>3. BundleTypeOK
  BY <1>2, NoBundleType, BundleAssumption DEF BundleInit, BundleTypeOK
<1>4. QED
  BY <1>1, <1>3 DEF BundleInit, BundleInv, OrderHolds, ChunksHold, FilesHold, Chunked

\* An adapter's step ends the stillness, if a bundle is made meanwhile.
LEMMA FolderChangesInv ==
    ASSUME BundleInv, NEW d \in Folders, NEW new \in Folder, FolderChanges(d, new)
    PROVE  BundleInv'
<1>0. BundleTypeOK /\ OrderHolds /\ ChunksHold /\ FilesHold
  BY DEF BundleInv
<1> DEFINE idle == bundle.at = "idle"
<1>1. /\ folders' = [folders EXCEPT ![d] = new] /\ folderQuota > 0 /\ folderQuota' = folderQuota - 1
      /\ bundle' = [bundle EXCEPT !.still = idle]
      /\ baseline' = baseline /\ bundleFiles' = bundleFiles
  BY DEF FolderChanges
<1>2. folders' \in [Folders -> Folder] /\ folderQuota' \in 0..FolderQuota
  BY <1>0, <1>1, BundleAssumption DEF BundleTypeOK
<1>3. bundle \in BundleRun /\ idle \in BOOLEAN
  BY <1>0 DEF BundleTypeOK
<1> HIDE DEF idle
<1>4. /\ bundle' \in BundleRun /\ bundle'.still = idle /\ bundle'.at = bundle.at
      /\ bundle'.inputs = bundle.inputs /\ bundle'.option = bundle.option
      /\ bundle'.order = bundle.order /\ bundle'.chunks = bundle.chunks
      /\ bundle'.written = bundle.written
  BY <1>1, <1>3 DEF BundleRun
<1>5. BundleTypeOK'
  BY <1>0, <1>1, <1>2, <1>4 DEF BundleTypeOK
<1>6. bundle.at # "idle" => ~bundle'.still
  BY <1>4 DEF idle
<1>7. OrderHolds' /\ ChunksHold' /\ FilesHold'
  BY <1>0, <1>1, <1>4, <1>6 DEF OrderHolds, ChunksHold, FilesHold, Chunked, Path, Apart
<1>8. QED
  BY <1>5, <1>7 DEF BundleInv

\* A run of an adapter keeps the invariant.
LEMMA AcquireInv ==
    ASSUME BundleInv, NEW d \in Folders, NEW found \in [Ids -> 0..LastVersion], Acquire(d, found)
    PROVE  BundleInv'
<1>0. folders[d] \in Folder /\ LastVersion \in Nat
  BY BundleAssumption DEF BundleInv, BundleTypeOK
<1> DEFINE now == [i \in Ids |-> IF found[i] # 0 THEN found[i] ELSE folders[d].artifact[i]]
           stale(i) == folders[d].entries[i].status = "current" /\ now[i] # 0
           entry(i) ==
               CASE found[i] # 0 -> [status |-> "current",
                                     hash |-> IF d \in Hashing THEN found[i] ELSE 0]
                 [] found[i] = 0 /\ stale(i) /\ d \in Marking ->
                                    [folders[d].entries[i] EXCEPT !.status = "stale"]
                 [] found[i] = 0 /\ stale(i) /\ d \in Hashing \ Marking ->
                                    [folders[d].entries[i] EXCEPT !.status = "bare"]
                 [] OTHER -> NoEntry
           entries == [i \in Ids |-> entry(i)]
           new == [manifest |-> "whole", artifact |-> now, entries |-> entries]
<1>1. now \in [Ids -> 0..LastVersion]
  BY <1>0 DEF Folder
<1>2. ASSUME NEW i \in Ids PROVE entry(i) \in Entry
  <2>1. folders[d].entries[i] \in Entry /\ found[i] \in 0..LastVersion /\ 0 \in 0..LastVersion
    BY <1>0 DEF Folder
  <2>2. \A t \in {"stale", "bare"} : [folders[d].entries[i] EXCEPT !.status = t] \in Entry
    BY <2>1 DEF Entry
  <2>3. NoEntry \in Entry /\ [status |-> "current", hash |-> IF d \in Hashing THEN found[i] ELSE 0] \in Entry
    BY <2>1 DEF NoEntry, Entry
  <2> HIDE DEF stale
  <2>4. QED
    BY <2>2, <2>3
<1> HIDE DEF entry
<1>3. entries \in [Ids -> Entry]
  BY <1>2
<1>4. FolderChanges(d, new)
  BY DEF Acquire, entry
<1> HIDE DEF now, entries
<1>5. new \in Folder
  BY <1>1, <1>3 DEF Folder
<1> HIDE DEF new
<1>6. QED
  BY <1>4, <1>5, FolderChangesInv

\* So does one that dies, or prunes, or tears its manifest.
LEMMA AdapterInv ==
    ASSUME BundleInv, NEW d \in Folders,
           \/ TearManifest(d)
           \/ \E i \in Ids : Prune(d, i) \/ \E v \in Versions : DieAcquiring(d, i, v)
    PROVE  BundleInv'
<1>0. folders[d] \in Folder /\ LastVersion \in Nat
  BY BundleAssumption DEF BundleInv, BundleTypeOK
<1>1. ASSUME NEW i \in Ids, NEW v \in 0..LastVersion, FolderChanges(d, [folders[d] EXCEPT !.artifact[i] = v])
      PROVE  BundleInv'
  <2> DEFINE artifact == [folders[d].artifact EXCEPT ![i] = v]
             new == [folders[d] EXCEPT !.artifact = artifact]
  <2>1. artifact \in [Ids -> 0..LastVersion]
    BY <1>0 DEF Folder
  <2>2. FolderChanges(d, new)
    BY <1>1
  <2> HIDE DEF artifact
  <2>3. new \in Folder
    BY <1>0, <2>1 DEF Folder
  <2> HIDE DEF new
  <2>4. QED
    BY <2>2, <2>3, FolderChangesInv
<1>2. ASSUME TearManifest(d) PROVE BundleInv'
  <2> DEFINE entries == [i \in Ids |-> NoEntry]
             new == [folders[d] EXCEPT !.manifest = "torn", !.entries = entries]
  <2>1. NoEntry \in Entry
    BY <1>0 DEF NoEntry, Entry
  <2>2. entries \in [Ids -> Entry]
    BY <2>1
  <2>3. FolderChanges(d, new)
    BY <1>2 DEF TearManifest
  <2> HIDE DEF entries
  <2>4. new \in Folder
    BY <1>0, <2>2 DEF Folder
  <2> HIDE DEF new
  <2>5. QED
    BY <2>3, <2>4, FolderChangesInv
<1>3. ASSUME NEW i \in Ids, Prune(d, i) PROVE BundleInv'
  <2>1. 0 \in 0..LastVersion
    BY <1>0
  <2>2. QED
    BY <1>1, <1>3, <2>1 DEF Prune
<1>4. ASSUME NEW i \in Ids, NEW v \in Versions, DieAcquiring(d, i, v) PROVE BundleInv'
  <2>1. v \in 0..LastVersion
    BY <1>0 DEF Versions
  <2>2. QED
    BY <1>1, <1>4, <2>1 DEF DieAcquiring
<1>5. QED
  BY <1>2, <1>3, <1>4

\* A baseline is saved between commands.
LEMMA SaveBaselineInv ==
    ASSUME BundleInv, NEW d \in Folders, NEW files \in BOOLEAN, SaveBaseline(d, files)
    PROVE  BundleInv'
<1>0. BundleTypeOK /\ FilesHold /\ folders[d] \in Folder /\ LastVersion \in Nat
  BY BundleAssumption DEF BundleInv, BundleTypeOK
<1> DEFINE artifact == [i \in Ids |-> IF files THEN folders[d].artifact[i] ELSE 0]
<1>1. artifact \in [Ids -> 0..LastVersion]
  BY <1>0 DEF Folder
<1>2. /\ baseline' = [folders[d] EXCEPT !.artifact = artifact] /\ bundle.at = "idle"
      /\ folders' = folders /\ bundle' = bundle /\ bundleFiles' = bundleFiles
      /\ folderQuota' = folderQuota
  BY DEF SaveBaseline
<1> HIDE DEF artifact
<1>3. baseline' \in Folder
  BY <1>0, <1>1, <1>2 DEF Folder
<1>4. BundleTypeOK'
  BY <1>0, <1>2, <1>3 DEF BundleTypeOK
<1>5. QED
  BY <1>2, <1>4 DEF BundleInv, OrderHolds, ChunksHold, FilesHold, Chunked

\* A command begins with nothing planned and nothing written.
LEMMA BeginBundleInv ==
    ASSUME BundleInv, NEW inputs \in InputChoices, NEW option \in OptionChoices,
           BeginBundle(inputs, option)
    PROVE  BundleInv'
<1>0. BundleTypeOK /\ inputs \in Seq(Folders) /\ option \in Option
  BY BundleAssumption DEF BundleInv
<1>1. /\ bundle' = [NoBundle EXCEPT !.at = "load", !.inputs = inputs, !.option = option]
      /\ folders' = folders /\ baseline' = baseline /\ bundleFiles' = bundleFiles
      /\ folderQuota' = folderQuota
  BY DEF BeginBundle
<1>2. NoBundle \in BundleRun /\ NoBundle.written = 0
  BY NoBundleType DEF NoBundle
<1>3. bundle' \in BundleRun /\ bundle'.at = "load" /\ bundle'.written = 0
  BY <1>0, <1>1, <1>2 DEF BundleRun
<1>4. BundleTypeOK'
  BY <1>0, <1>1, <1>3 DEF BundleTypeOK
<1>5. QED
  BY <1>3, <1>4, BundleRests

\* What is selected depends on the directories and the baseline.
LEMMA SameSelection ==
    ASSUME folders' = folders, baseline' = baseline
    PROVE  \A inputs, option : /\ Select(inputs, option)' = Select(inputs, option)
                               /\ \A i : Winner(inputs, i)' = Winner(inputs, i)
<1>1. ASSUME NEW inputs, NEW i
      PROVE  Listers(inputs, i)' = Listers(inputs, i) /\ Winner(inputs, i)' = Winner(inputs, i)
  BY DEF Listers, Winner, Bundled
<1>2. ASSUME NEW d, NEW i PROVE Unchanged(d, i)' <=> Unchanged(d, i)
  BY DEF Unchanged
<1>3. ASSUME NEW inputs, NEW option PROVE Select(inputs, option)' = Select(inputs, option)
  BY <1>1, <1>2 DEF Select
<1>4. QED
  BY <1>1, <1>3

\* Its plan is what is selected of the directories as they are.
LEMMA LoadPlanInv ==
    ASSUME BundleInv, LoadPlan
    PROVE  BundleInv'
<1> DEFINE inputs == bundle.inputs
           ids == Select(inputs, bundle.option)
           order == InOrder(ids)
           source == [i \in Ids |-> IF i \in ids THEN Winner(inputs, i) ELSE bundle.source[i]]
<1>0. BundleTypeOK /\ FilesHold
  BY DEF BundleInv
<1>1. /\ bundle.at = "load" /\ folders' = folders /\ baseline' = baseline
      /\ bundleFiles' = bundleFiles /\ folderQuota' = folderQuota
      /\ \/ bundle' = NoBundle
         \/ bundle' = [bundle EXCEPT !.at = "render", !.order = order, !.source = source]
  BY DEF LoadPlan
<1>2. /\ bundle \in BundleRun /\ inputs \in Seq(Folders) /\ bundle.source \in [Ids -> Folders]
  BY <1>0 DEF BundleTypeOK, BundleRun
<1>3. CASE bundle' = NoBundle
  <2>1. BundleTypeOK'
    BY <1>0, <1>1, <1>3, NoBundleType DEF BundleTypeOK
  <2>2. QED
    BY <1>3, <2>1, NoBundleInv
<1>4. CASE bundle' = [bundle EXCEPT !.at = "render", !.order = order, !.source = source]
  <2>1. ids \in SUBSET Ids /\ \A i \in ids : Listers(inputs, i) # {}
    BY DEF Select
  <2>2. \A i \in ids : Winner(inputs, i) \in Folders
    BY <1>2, <2>1, WinnerType
  <2>3. source \in [Ids -> Folders] /\ \A i \in ids : source[i] = Winner(inputs, i)
    BY <1>2, <2>1, <2>2
  <2>a. /\ Select(bundle.inputs, bundle.option)' = ids
        /\ \A i : Winner(bundle.inputs, i)' = Winner(inputs, i)
    <3>1. bundle'.inputs = bundle.inputs /\ bundle'.option = bundle.option
      BY <1>2, <1>4 DEF BundleRun
    <3>2. QED
      BY <1>1, <3>1, SameSelection
  <2> HIDE DEF source, ids
  <2>4. /\ order \in Seq(Ids) /\ Len(order) \in 0..LastId
        /\ \A j, k \in DOMAIN order : order[j] = order[k] => j = k
        /\ \A i \in ids : \E k \in DOMAIN order : order[k] = i
    BY <2>1, InOrderAscends
  <2> HIDE DEF order
  <2>5. /\ bundle' \in BundleRun /\ bundle'.at = "render" /\ bundle'.order = order
        /\ bundle'.source = source /\ bundle'.inputs = inputs /\ bundle'.option = bundle.option
        /\ bundle'.written = bundle.written
    BY <1>2, <1>4, <2>3, <2>4 DEF BundleRun
  <2>6. BundleTypeOK'
    BY <1>0, <1>1, <2>5 DEF BundleTypeOK
  <2>7. OrderHolds'
    <3>1. Len(order) <= LastId
      BY <2>4
    <3>2. QED
      BY <2>3, <2>4, <2>5, <2>a, <3>1 DEF OrderHolds
  <2>8. ChunksHold' /\ FilesHold'
    BY <1>0, <1>1, <2>5 DEF ChunksHold, FilesHold, Chunked
  <2>9. QED
    BY <2>6, <2>7, <2>8 DEF BundleInv
<1>5. QED
  BY <1>1, <1>3, <1>4

\* The artifacts are read, each once, and divided among the files.
LEMMA RenderInv ==
    ASSUME BundleInv, Render
    PROVE  BundleInv'
<1> DEFINE artifact(i) == folders[bundle.source[i]].artifact[i]
           sections == [k \in DOMAIN bundle.order |->
                           [id |-> bundle.order[k], version |-> artifact(bundle.order[k])]]
           limit == bundle.option.limit
           chunks == IF limit = 0 THEN <<sections>> ELSE Split(sections, limit)
<1>0. BundleTypeOK /\ OrderHolds /\ FilesHold
  BY DEF BundleInv
<1>1. /\ bundle.at = "render" /\ folders' = folders /\ baseline' = baseline
      /\ bundleFiles' = bundleFiles /\ folderQuota' = folderQuota
      /\ \/ bundle' = NoBundle
         \/ /\ \A k \in DOMAIN bundle.order : artifact(bundle.order[k]) # 0
            /\ bundle' = [bundle EXCEPT !.at = "write", !.chunks = chunks]
  BY DEF Render
<1>2. /\ bundle \in BundleRun /\ bundle.order \in Seq(Ids) /\ bundle.source \in [Ids -> Folders]
      /\ limit \in Nat /\ bundle.written = 0 /\ LastId \in Nat \ {0}
      /\ Len(bundle.order) \in Nat /\ Len(bundle.order) <= LastId
      /\ DOMAIN bundle.order = 1..Len(bundle.order)
  <2>1. bundle \in BundleRun /\ LastId \in Nat \ {0}
    BY <1>0, BundleAssumption DEF BundleTypeOK
  <2>2. /\ bundle.order \in Seq(Ids) /\ bundle.source \in [Ids -> Folders]
        /\ bundle.option \in Option
    BY <2>1 DEF BundleRun
  <2>3. bundle.written = 0 /\ Len(bundle.order) <= LastId
    BY <1>0, <1>1 DEF FilesHold, OrderHolds
  <2>4. limit \in Nat
    BY <2>2 DEF Option
  <2>5. QED
    BY <2>1, <2>2, <2>3, <2>4
<1>3. CASE bundle' = NoBundle
  <2>1. BundleTypeOK'
    BY <1>0, <1>1, <1>3, NoBundleType DEF BundleTypeOK
  <2>2. QED
    BY <1>3, <2>1, NoBundleInv
<1>4. CASE /\ \A k \in DOMAIN bundle.order : artifact(bundle.order[k]) # 0
           /\ bundle' = [bundle EXCEPT !.at = "write", !.chunks = chunks]
  <2>1. ASSUME NEW k \in DOMAIN bundle.order
        PROVE  bundle.order[k] \in Ids /\ artifact(bundle.order[k]) \in Versions
    <3>1. bundle.order[k] \in Ids
      BY <1>2
    <3>2. folders[bundle.source[bundle.order[k]]] \in Folder
      BY <1>0, <1>2, <3>1 DEF BundleTypeOK
    <3>3. artifact(bundle.order[k]) \in 0..LastVersion /\ artifact(bundle.order[k]) # 0
      BY <1>4, <3>1, <3>2 DEF Folder
    <3>4. QED
      BY <3>1, <3>3, BundleAssumption DEF Versions
  <2>2. ASSUME NEW k \in DOMAIN bundle.order PROVE sections[k] \in Section
    BY <2>1 DEF Section
  <2>3. /\ sections \in Seq(Section) /\ Len(sections) = Len(bundle.order)
        /\ DOMAIN sections = DOMAIN bundle.order
    <3>1. PICK n \in Nat : n = Len(bundle.order)
      BY <1>2
    <3>2. sections \in [1..n -> Section] /\ DOMAIN bundle.order = 1..n
      BY <1>2, <2>2, <3>1
    <3> HIDE DEF sections
    <3>3. QED
      BY <3>1, <3>2
  <2>4. \A k \in DOMAIN bundle.order :
            /\ sections[k] = [id |-> bundle.order[k], version |-> artifact(bundle.order[k])]
            /\ sections[k].id = bundle.order[k]
    OBVIOUS
  <2>5. \A i, j \in DOMAIN sections : sections[i].id = sections[j].id => i = j
    BY <1>0, <1>1, <2>3, <2>4 DEF OrderHolds
  <2> HIDE DEF sections
  <2>6. /\ chunks \in Seq(Seq(Section)) /\ Len(chunks) \in 1..LastId
        /\ limit = 0 => Len(chunks) = 1
        /\ \A c \in DOMAIN chunks : Len(chunks[c]) <= LastId
        /\ Apart(chunks)
        /\ limit # 0 => \A c \in DOMAIN chunks : Len(chunks[c]) > 1 => Bytes(chunks[c]) <= limit
        /\ \A k \in DOMAIN sections : Has(chunks, sections[k])
    <3>1. CASE limit = 0
      <4> DEFINE one == <<sections>>
      <4>1. /\ chunks = one /\ one \in Seq(Seq(Section)) /\ Len(one) = 1 /\ DOMAIN one = 1..1
            /\ one[1] = sections
        BY <2>3, <3>1
      <4> HIDE DEF one, chunks
      <4>2. Apart(one) /\ \A k \in DOMAIN sections : Has(one, sections[k])
        BY <2>5, <4>1 DEF Apart, Has
      <4>3. Len(one) \in 1..LastId
        BY <1>2, <4>1
      <4>4. \A c \in DOMAIN one : Len(one[c]) <= LastId
        BY <1>2, <2>3, <4>1
      <4>5. QED
        BY <3>1, <4>1, <4>2, <4>3, <4>4
    <3>2. CASE limit # 0
      <4>1. Divides(chunks, sections, Len(sections), limit)
        BY <2>3, <2>5, <3>2, SplitDivides
      <4> HIDE DEF chunks
      <4>2. /\ chunks \in Seq(Seq(Section)) /\ Len(chunks) # 0
            /\ Len(chunks) = 1 \/ Len(chunks) <= Len(sections)
            /\ \A c \in DOMAIN chunks : Len(chunks[c]) <= Len(sections)
            /\ Apart(chunks)
            /\ \A k \in 1..Len(sections) : Has(chunks, sections[k])
            /\ \A c \in DOMAIN chunks : Len(chunks[c]) > 1 => Bytes(chunks[c]) <= limit
        BY <4>1 DEF Divides
      <4>3. Len(chunks) \in 1..LastId
        BY <1>2, <2>3, <4>2
      <4>4. \A c \in DOMAIN chunks : Len(chunks[c]) <= LastId
        <5>1. \A c \in DOMAIN chunks : Len(chunks[c]) \in Nat
          BY <4>2
        <5>2. QED
          BY <1>2, <2>3, <4>2, <5>1
      <4>5. QED
        BY <1>2, <2>3, <3>2, <4>2, <4>3, <4>4
    <3>3. QED
      BY <3>1, <3>2
  <2> HIDE DEF chunks
  <2>7. /\ bundle' \in BundleRun /\ bundle'.at = "write" /\ bundle'.chunks = chunks
        /\ bundle'.inputs = bundle.inputs /\ bundle'.option = bundle.option
        /\ bundle'.written = 0 /\ bundle'.still = bundle.still
    BY <1>2, <1>4, <2>6 DEF BundleRun
  <2>8. BundleTypeOK'
    BY <1>0, <1>1, <2>7 DEF BundleTypeOK
  <2>9. ASSUME bundle.still, NEW i \in Select(bundle.inputs, bundle.option)
        PROVE  Has(chunks, [id |-> i, version |-> folders[Winner(bundle.inputs, i)].artifact[i]])
    <3>1. PICK k \in DOMAIN bundle.order : bundle.order[k] = i
      BY <1>0, <1>1, <2>9 DEF OrderHolds
    <3>2. bundle.source[i] = Winner(bundle.inputs, i)
      BY <1>0, <1>1, <2>9 DEF OrderHolds
    <3>3. sections[k] = [id |-> i, version |-> folders[Winner(bundle.inputs, i)].artifact[i]]
      BY <2>4, <3>1, <3>2
    <3>4. QED
      BY <2>3, <2>6, <3>1, <3>3
  <2>10. ChunksHold'
    <3>1. /\ Select(bundle.inputs, bundle.option)' = Select(bundle.inputs, bundle.option)
          /\ \A i : Winner(bundle.inputs, i)' = Winner(bundle.inputs, i)
      BY <1>1, <2>7, SameSelection
    <3>2. \A t : Has(bundle.chunks, t)' <=> Has(chunks, t)
      BY <2>7 DEF Has
    <3>3. Apart(bundle.chunks)' <=> Apart(chunks)
      BY <2>7 DEF Apart
    <3>4. \A c : Bytes(bundle.chunks[c])' = Bytes(chunks[c])
      BY <2>7 DEF Bytes
    <3>5. QED
      BY <1>1, <2>6, <2>7, <2>9, <3>1, <3>2, <3>3, <3>4 DEF ChunksHold
  <2>11. OrderHolds' /\ FilesHold'
    <3>1. 0 \in 0..Len(chunks) /\ 0 < Len(chunks) /\ 1..0 = {}
      BY <2>6
    <3>2. QED
      BY <2>7, <3>1 DEF OrderHolds, FilesHold, Chunked
  <2>12. QED
    BY <2>8, <2>10, <2>11 DEF BundleInv
<1>5. QED
  BY <1>1, <1>3, <1>4

\* The next chunk, and where it is written.
LEMMA NextFile ==
    ASSUME BundleInv, bundle.at = "write"
    PROVE  LET k == bundle.written + 1 IN
           /\ k \in 1..Len(bundle.chunks) /\ bundle.chunks[k] \in Seq(Section)
           /\ Path(k) \in FileNumbers
           /\ \A j \in 1..bundle.written : Path(j) # Path(k)
<1>1. BundleTypeOK /\ ChunksHold /\ FilesHold /\ LastId \in Nat
  BY BundleAssumption DEF BundleInv
<1>2. bundle.chunks \in Seq(Seq(Section))
  BY <1>1 DEF BundleTypeOK, BundleRun
<1>3. /\ Len(bundle.chunks) \in 1..LastId
      /\ bundle.option.limit = 0 => Len(bundle.chunks) = 1
      /\ bundle.written \in 0..Len(bundle.chunks) /\ bundle.written < Len(bundle.chunks)
  BY <1>1 DEF ChunksHold, FilesHold, Chunked
<1> DEFINE k == bundle.written + 1
<1>4. k \in 1..Len(bundle.chunks) /\ k \in FileNumbers /\ 0 \in FileNumbers
  BY <1>1, <1>3 DEF FileNumbers
<1>5. bundle.chunks[k] \in Seq(Section)
  BY <1>2, <1>4
<1>6. bundle.option.limit = 0 => 1..bundle.written = {}
  <2>1. bundle.option.limit = 0 => bundle.written = 0
    <3>1. PICK l \in Nat, n \in Nat : l = Len(bundle.chunks) /\ n = bundle.written
      BY <1>1, <1>3
    <3>2. n < l /\ (bundle.option.limit = 0 => l = 1)
      BY <1>3, <3>1
    <3>3. l = 1 => n = 0
      BY <3>1, <3>2
    <3>4. QED
      BY <3>1, <3>2, <3>3
  <2>2. 1..0 = {}
    OBVIOUS
  <2>3. QED
    BY <2>1, <2>2
<1>7. \A j \in 1..bundle.written : j # k
  BY <1>3
<1>8. QED
  BY <1>4, <1>5, <1>6, <1>7 DEF Path

\* One file is written, over none that was written before.
LEMMA WriteBundleFileInv ==
    ASSUME BundleInv, WriteBundleFile
    PROVE  BundleInv'
<1> DEFINE k == bundle.written + 1
           at == IF k = Len(bundle.chunks) THEN "done" ELSE "write"
<1>0. BundleTypeOK /\ ChunksHold /\ FilesHold
  BY DEF BundleInv
<1>1. /\ bundle.at = "write" /\ folders' = folders /\ baseline' = baseline
      /\ bundleFiles' = [bundleFiles EXCEPT ![Path(k)] = bundle.chunks[k]]
      /\ bundle' = [bundle EXCEPT !.written = k, !.at = at]
      /\ folderQuota' = folderQuota
  BY DEF WriteBundleFile
<1>2. /\ k \in 1..Len(bundle.chunks) /\ bundle.chunks[k] \in Seq(Section)
      /\ Path(k) \in FileNumbers /\ \A j \in 1..bundle.written : Path(j) # Path(k)
  BY <1>1, NextFile
<1>3. bundle \in BundleRun /\ bundle.written \in Nat /\ k \in Nat
  BY <1>0 DEF BundleTypeOK, BundleRun
<1>4. at \in {"write", "done"} /\ (at = "write" <=> k # Len(bundle.chunks))
  OBVIOUS
<1> HIDE DEF at
<1>5. /\ bundle' \in BundleRun /\ bundle'.at = at /\ bundle'.written = k
      /\ bundle'.chunks = bundle.chunks /\ bundle'.inputs = bundle.inputs
      /\ bundle'.option = bundle.option /\ bundle'.still = bundle.still
  BY <1>1, <1>3, <1>4 DEF BundleRun
<1>6. /\ bundleFiles' \in [FileNumbers -> BundleFile] /\ bundleFiles'[Path(k)] = bundle.chunks[k]
      /\ \A j \in 1..bundle.written : bundleFiles'[Path(j)] = bundleFiles[Path(j)]
  BY <1>0, <1>1, <1>2 DEF BundleTypeOK, BundleFile
<1>7. BundleTypeOK'
  BY <1>0, <1>1, <1>5, <1>6 DEF BundleTypeOK
<1>8. ChunksHold'
  <2>1. /\ Select(bundle.inputs, bundle.option)' = Select(bundle.inputs, bundle.option)
        /\ \A i : Winner(bundle.inputs, i)' = Winner(bundle.inputs, i)
    BY <1>1, <1>5, SameSelection
  <2>2. \A t : Has(bundle.chunks, t)' <=> Has(bundle.chunks, t)
    BY <1>5 DEF Has
  <2>3. Apart(bundle.chunks)' <=> Apart(bundle.chunks)
    BY <1>5 DEF Apart
  <2>4. \A c : Bytes(bundle.chunks[c])' = Bytes(bundle.chunks[c])
    BY <1>5 DEF Bytes
  <2>5. QED
    BY <1>0, <1>1, <1>5, <2>1, <2>2, <2>3, <2>4 DEF ChunksHold, Chunked
<1>9. FilesHold'
  <2>1. \A j : Path(j)' = Path(j)
    BY <1>5 DEF Path
  <2>2. k \in 0..Len(bundle.chunks) /\ (at = "write" <=> k < Len(bundle.chunks))
    BY <1>2, <1>4
  <2>3. ASSUME NEW j \in 1..k PROVE bundleFiles'[Path(j)] = bundle.chunks[j]
    <3>1. CASE j = k
      BY <1>6, <3>1
    <3>2. CASE j # k
      <4>1. j \in 1..bundle.written
        BY <1>3, <3>2
      <4>2. QED
        BY <1>0, <1>1, <1>6, <4>1 DEF FilesHold, Chunked
    <3>3. QED
      BY <3>1, <3>2
  <2>4. QED
    BY <1>4, <1>5, <2>1, <2>2, <2>3 DEF FilesHold, Chunked
<1>10. OrderHolds'
  BY <1>4, <1>5 DEF OrderHolds
<1>11. QED
  BY <1>7, <1>8, <1>9, <1>10 DEF BundleInv

\* The command ends or dies.
LEMMA FailBundleInv ==
    ASSUME BundleInv, FailBundle \/ EndBundle
    PROVE  BundleInv'
<1>0. BundleTypeOK
  BY DEF BundleInv
<1>1. /\ bundle' = NoBundle /\ folders' = folders /\ baseline' = baseline
      /\ folderQuota' = folderQuota
  BY DEF FailBundle, EndBundle
<1>2. bundleFiles' \in [FileNumbers -> BundleFile]
  <2>1. CASE UNCHANGED bundleFiles
    BY <1>0, <2>1 DEF BundleTypeOK
  <2> DEFINE chunk == bundle.chunks[bundle.written + 1]
  <2>2. ASSUME bundle.at = "write", NEW k \in 0..(Len(chunk) - 1),
               bundleFiles' = [bundleFiles EXCEPT ![Path(bundle.written + 1)] = SubSeq(chunk, 1, k)]
        PROVE  bundleFiles' \in [FileNumbers -> BundleFile]
    <3>1. chunk \in Seq(Section)
      BY <2>2, NextFile
    <3> HIDE DEF chunk
    <3>2. \A m \in 1..k : chunk[m] \in Section
      BY <3>1
    <3>3. SubSeq(chunk, 1, k) \in Seq(Section)
      BY <3>1, <3>2
    <3>4. QED
      BY <1>0, <2>2, <3>3 DEF BundleTypeOK, BundleFile
  <2>3. QED
    BY <2>1, <2>2 DEF FailBundle, EndBundle
<1>3. BundleTypeOK'
  BY <1>0, <1>1, <1>2, NoBundleType DEF BundleTypeOK
<1>4. QED
  BY <1>1, <1>3, NoBundleInv

\* A step of the command, of an adapter or of the operator keeps the invariant.
LEMMA BundleStep ==
    ASSUME BundleInv, [BundleNext]_bundleVars
    PROVE  BundleInv'
<1>1. CASE UNCHANGED bundleVars
  <2>1. /\ bundle' = bundle /\ folders' = folders /\ baseline' = baseline
        /\ bundleFiles' = bundleFiles /\ folderQuota' = folderQuota
    BY <1>1 DEF bundleVars
  <2>2. /\ Select(bundle.inputs, bundle.option)' = Select(bundle.inputs, bundle.option)
        /\ \A i : Winner(bundle.inputs, i)' = Winner(bundle.inputs, i)
    BY <2>1, SameSelection
  <2>3. BundleTypeOK' /\ OrderHolds'
    BY <2>1, <2>2 DEF BundleInv, BundleTypeOK, OrderHolds
  <2>4. \A t : Has(bundle.chunks, t)' <=> Has(bundle.chunks, t)
    BY <2>1 DEF Has
  <2>5. Apart(bundle.chunks)' <=> Apart(bundle.chunks)
    BY <2>1 DEF Apart
  <2>6. \A c : Bytes(bundle.chunks[c])' = Bytes(bundle.chunks[c])
    BY <2>1 DEF Bytes
  <2>7. ChunksHold'
    BY <2>1, <2>2, <2>4, <2>5, <2>6 DEF BundleInv, ChunksHold, Chunked
  <2>8. FilesHold'
    BY <2>1 DEF BundleInv, FilesHold, Chunked, Path
  <2>9. QED
    BY <2>3, <2>7, <2>8 DEF BundleInv
<1>2. CASE BundleNext
  <2>1. ASSUME NEW d \in Folders, NEW found \in [Ids -> 0..LastVersion], Acquire(d, found)
        PROVE  BundleInv'
    BY <2>1, AcquireInv
  <2>2. ASSUME NEW d \in Folders,
               \/ TearManifest(d)
               \/ \E i \in Ids : Prune(d, i) \/ \E v \in Versions : DieAcquiring(d, i, v)
        PROVE  BundleInv'
    BY <2>2, AdapterInv
  <2>3. ASSUME NEW d \in Folders, NEW files \in BOOLEAN, SaveBaseline(d, files) PROVE BundleInv'
    BY <2>3, SaveBaselineInv
  <2>4. ASSUME NEW inputs \in InputChoices, NEW option \in OptionChoices,
               BeginBundle(inputs, option)
        PROVE  BundleInv'
    BY <2>4, BeginBundleInv
  <2>5. QED
    BY <1>2, <2>1, <2>2, <2>3, <2>4, LoadPlanInv, RenderInv, WriteBundleFileInv, FailBundleInv
       DEF BundleNext
<1>3. QED
  BY <1>1, <1>2

\* The inductive invariant of bundles: the plan has what is selected, once; so
\* have the chunks; and what has been written of them is in the files.
THEOREM BundleInvariant == BundleSpec => []BundleInv
<1>1. BundleInv /\ [BundleNext]_bundleVars => BundleInv'
  BY BundleStep
<1>2. QED
  BY <1>1, BundleInitInv, PTL DEF BundleSpec

\* When the command is done, its files are the chunks.
LEMMA DoneFiles ==
    ASSUME BundleInv, bundle.at = "done"
    PROVE  /\ DOMAIN bundle.chunks = 1..bundle.written
           /\ bundle.written \in Nat
           /\ \A k \in 1..bundle.written :
                 /\ bundleFiles[Path(k)] = bundle.chunks[k]
                 /\ bundle.chunks[k] \in Seq(Section)
           /\ \A j, k \in 1..bundle.written : Path(j) = Path(k) => j = k
<1>1. ChunksHold /\ FilesHold /\ LastId \in Nat /\ bundle.chunks \in Seq(Seq(Section))
  BY BundleAssumption DEF BundleInv, BundleTypeOK, BundleRun
<1>2. PICK l \in Nat : l = Len(bundle.chunks)
  BY <1>1
<1>3. PICK n \in Nat : n = bundle.written
  BY <1>1 DEF FilesHold, Chunked
<1>4. /\ bundle.option.limit = 0 => l = 1
  BY <1>1, <1>2 DEF ChunksHold, Chunked
<1>5. n \in 0..l /\ ~(n < l)
  BY <1>1, <1>2, <1>3 DEF FilesHold, Chunked
<1>6. n = l
  BY <1>5
<1>7. DOMAIN bundle.chunks = 1..n
  BY <1>1, <1>2, <1>6
<1>8. \A k \in 1..n : bundleFiles[Path(k)] = bundle.chunks[k] /\ bundle.chunks[k] \in Seq(Section)
  BY <1>1, <1>3, <1>7 DEF FilesHold, Chunked
<1>9. \A j, k \in 1..n : Path(j) = Path(k) => j = k
  BY <1>4, <1>6 DEF Path
<1>10. QED
  BY <1>3, <1>7, <1>8, <1>9

\* The places of an id are where the chunks have it.
LEMMA PlacesAreChunks ==
    ASSUME BundleInv, bundle.at = "done", NEW i
    PROVE  /\ \A p \in Places(i) :
                 \E c \in DOMAIN bundle.chunks : \E q \in DOMAIN bundle.chunks[c] :
                    p = <<Path(c), q>> /\ bundle.chunks[c][q].id = i
           /\ \A c \in DOMAIN bundle.chunks : \A q \in DOMAIN bundle.chunks[c] :
                 bundle.chunks[c][q].id = i =>
                    /\ <<Path(c), q>> \in Places(i)
                    /\ bundleFiles[Path(c)][q] = bundle.chunks[c][q]
<1>1. /\ DOMAIN bundle.chunks = 1..bundle.written
      /\ \A k \in 1..bundle.written :
            bundleFiles[Path(k)] = bundle.chunks[k] /\ bundle.chunks[k] \in Seq(Section)
  BY DoneFiles
<1>2. ASSUME NEW p \in Places(i)
      PROVE  \E c \in DOMAIN bundle.chunks : \E q \in DOMAIN bundle.chunks[c] :
                p = <<Path(c), q>> /\ bundle.chunks[c][q].id = i
  <2>1. /\ p[1] \in {Path(k) : k \in 1..bundle.written} /\ p = <<p[1], p[2]>>
        /\ p[2] \in DOMAIN bundleFiles[p[1]] /\ bundleFiles[p[1]][p[2]].id = i
    BY DEF Places
  <2>2. PICK c \in 1..bundle.written : p[1] = Path(c)
    BY <2>1
  <2>3. QED
    BY <1>1, <2>1, <2>2
<1>3. ASSUME NEW c \in DOMAIN bundle.chunks, NEW q \in DOMAIN bundle.chunks[c],
             bundle.chunks[c][q].id = i
      PROVE  /\ <<Path(c), q>> \in Places(i)
             /\ bundleFiles[Path(c)][q] = bundle.chunks[c][q]
  <2>1. bundleFiles[Path(c)] = bundle.chunks[c] /\ bundle.chunks[c] \in Seq(Section)
    BY <1>1
  <2>2. Len(bundle.chunks[c]) <= LastId /\ LastId \in Nat
    BY BundleAssumption DEF BundleInv, ChunksHold, Chunked
  <2>3. q \in 1..LastId
    BY <2>1, <2>2
  <2>4. QED
    BY <1>1, <1>3, <2>1, <2>3 DEF Places
<1>4. QED
  BY <1>2, <1>3

\* No file of several sections is larger than the limit.
LEMMA FilesFit ==
    ASSUME BundleInv, bundle.at = "done", bundle.option.limit # 0,
           NEW k \in 1..bundle.written, Len(bundleFiles[k]) > 1
    PROVE  Size(bundleFiles[k]) <= bundle.option.limit
<1>1. /\ k \in DOMAIN bundle.chunks /\ bundleFiles[k] = bundle.chunks[k]
      /\ bundle.chunks[k] \in Seq(Section)
  BY DoneFiles DEF Path
<1>2. Bytes(bundleFiles[k]) <= bundle.option.limit
  BY <1>1 DEF BundleInv, ChunksHold, Chunked
<1>3. Len(bundleFiles[k]) # 0
  BY <1>1
<1>4. Size(bundleFiles[k]) = Bytes(bundleFiles[k])
  BY <1>1, <1>3, SizeIsBytes
<1>5. QED
  BY <1>2, <1>4

\* What the first directory that lists a wanted id has of it is in the files,
\* unless it is passed over.
LEMMA WantedIsThere ==
    ASSUME BundleInv, bundle.at = "done", bundle.still,
           NEW i \in bundle.option.wanted, NEW k \in DOMAIN bundle.inputs,
           i \in Bundled(bundle.inputs[k]),
           \A j \in 1..(k - 1) : i \notin Bundled(bundle.inputs[j])
    PROVE  LET d == bundle.inputs[k]
               version == folders[d].artifact[i]
           IN
           \/ \E p \in Places(i) : bundleFiles[p[1]][p[2]].version = version
           \/ bundle.option.stale = "exclude" /\ folders[d].entries[i].status = "stale"
           \/ bundle.option.changed /\ baseline.artifact[i] = version
           \/ bundle.option.changed /\ ~(Honest(folders[d]) /\ Honest(baseline))
<1> DEFINE d == bundle.inputs[k]
           version == folders[d].artifact[i]
           inputs == bundle.inputs
<1>1. /\ BundleTypeOK /\ bundle \in BundleRun /\ inputs \in Seq(Folders) /\ bundle.option \in Option
      /\ i \in Ids /\ d \in Folders /\ folders[d] \in Folder /\ baseline \in Folder
  BY DEF BundleInv, BundleTypeOK, BundleRun, Option
<1>2. Winner(inputs, i) = d
  <2>1. PICK l \in Nat : l = Len(inputs)
    BY <1>1
  <2>2. DOMAIN inputs = 1..l
    BY <1>1, <2>1
  <2>3. k \in Listers(inputs, i)
    BY DEF Listers
  <2>4. ASSUME NEW j \in Listers(inputs, i) PROVE k <= j
    <3>1. j \in 1..l /\ k \in 1..l /\ i \in Bundled(inputs[j])
      BY <2>2 DEF Listers
    <3>2. j \notin 1..(k - 1)
      BY <3>1
    <3>3. QED
      BY <3>1, <3>2
  <2>5. \A j \in Listers(inputs, i) : j \in Nat
    BY <2>2 DEF Listers
  <2>6. ASSUME NEW m \in Listers(inputs, i), \A j \in Listers(inputs, i) : m <= j PROVE m = k
    BY <2>3, <2>4, <2>5, <2>6
  <2>7. (CHOOSE m \in Listers(inputs, i) : \A j \in Listers(inputs, i) : m <= j) = k
    BY <2>3, <2>4, <2>6
  <2>8. QED
    BY <2>7 DEF Winner
<1>3. CASE i \in Select(inputs, bundle.option)
  <2>1. Has(bundle.chunks, [id |-> i, version |-> version])
    BY <1>2, <1>3 DEF BundleInv, ChunksHold, Chunked
  <2>2. PICK c \in DOMAIN bundle.chunks :
            \E q \in DOMAIN bundle.chunks[c] : bundle.chunks[c][q] = [id |-> i, version |-> version]
    BY <2>1 DEF Has
  <2>3. PICK q \in DOMAIN bundle.chunks[c] : bundle.chunks[c][q] = [id |-> i, version |-> version]
    BY <2>2
  <2>4. /\ <<Path(c), q>> \in Places(i) /\ bundleFiles[Path(c)][q].version = version
    BY <2>3, PlacesAreChunks
  <2>5. QED
    BY <2>4
<1>4. CASE i \notin Select(inputs, bundle.option)
  <2>1. k \in Listers(inputs, i)
    BY DEF Listers
  <2>2. \/ bundle.option.changed /\ Unchanged(d, i)
        \/ bundle.option.stale = "exclude" /\ folders[d].entries[i].status = "stale"
    BY <1>1, <1>2, <1>4, <2>1 DEF Select
  <2>3. ASSUME Unchanged(d, i), Honest(folders[d]), Honest(baseline)
        PROVE  baseline.artifact[i] = version
    BY <1>1, <2>3 DEF Unchanged, Honest
  <2>4. QED
    BY <2>2, <2>3
<1>5. QED
  BY <1>3, <1>4

\* What the invariant says of a command that is done.
LEMMA BundleInvIsExact == BundleInv => BundleIsExact
<1> SUFFICES ASSUME BundleInv, bundle.at = "done", bundle.still PROVE BundleIsExact
  BY DEF BundleIsExact
<1>1. ASSUME NEW i \in Ids PROVE Cardinality(Places(i)) <= 1
  <2>1. ASSUME NEW x \in Places(i), NEW y \in Places(i) PROVE x = y
    <3>1. PICK c \in DOMAIN bundle.chunks : \E q \in DOMAIN bundle.chunks[c] :
              x = <<Path(c), q>> /\ bundle.chunks[c][q].id = i
      BY PlacesAreChunks
    <3>2. PICK q \in DOMAIN bundle.chunks[c] : x = <<Path(c), q>> /\ bundle.chunks[c][q].id = i
      BY <3>1
    <3>3. PICK e \in DOMAIN bundle.chunks : \E r \in DOMAIN bundle.chunks[e] :
              y = <<Path(e), r>> /\ bundle.chunks[e][r].id = i
      BY PlacesAreChunks
    <3>4. PICK r \in DOMAIN bundle.chunks[e] : y = <<Path(e), r>> /\ bundle.chunks[e][r].id = i
      BY <3>3
    <3>5. Apart(bundle.chunks)
      BY DEF BundleInv, ChunksHold, Chunked
    <3>6. c = e /\ q = r
      BY <3>2, <3>4, <3>5 DEF Apart
    <3>7. QED
      BY <3>2, <3>4, <3>6
  <2>2. QED
    BY <2>1, AtMostOne
<1>2. ASSUME NEW i \in bundle.option.wanted, NEW k \in DOMAIN bundle.inputs,
             folders[bundle.inputs[k]].entries[i].status \in {"current", "stale"},
             \A j \in 1..(k - 1) :
                folders[bundle.inputs[j]].entries[i].status \notin {"current", "stale"}
      PROVE  LET d == bundle.inputs[k]
                 version == folders[d].artifact[i]
             IN
             \/ \E p \in Places(i) : bundleFiles[p[1]][p[2]].version = version
             \/ bundle.option.stale = "exclude" /\ folders[d].entries[i].status = "stale"
             \/ bundle.option.changed /\ baseline.artifact[i] = version
             \/ bundle.option.changed /\ ~(Honest(folders[d]) /\ Honest(baseline))
  <2>1. i \in Ids
    BY DEF BundleInv, BundleTypeOK, BundleRun, Option
  <2>2. i \in Bundled(bundle.inputs[k]) /\ \A j \in 1..(k - 1) : i \notin Bundled(bundle.inputs[j])
    BY <1>2, <2>1 DEF Bundled
  <2>3. QED
    BY <2>2, WantedIsThere
<1>3. bundle.option.limit # 0 =>
          \A k \in 1..bundle.written :
             Len(bundleFiles[k]) > 1 => Size(bundleFiles[k]) <= bundle.option.limit
  BY FilesFit
<1>4. QED
  BY <1>1, <1>2, <1>3 DEF BundleIsExact

\* A reader who has the baseline and the files that a bundle command wrote has
\* each artifact that was asked for exactly once, as it is in the first
\* directory that lists it, however many directories and artifacts there are.
THEOREM BundlesAreExact == BundleSpec => []BundleIsExact
BY BundleInvariant, BundleInvIsExact, PTL

-----------------------------------------------------------------------------
(* Publication.                                                            *)

\* A run has a document from when it was created until it is reported.
HasDocument(p) ==
    LET job == publishing[p] IN
    /\ job.document # 0 <=> job.at \in {"fill", "report"}
    /\ job.document # 0 =>
          /\ job.document \in DOMAIN documents
          /\ documents[job.document] =
                [folder |-> job.folder, text |-> IF job.at = "fill" THEN 0 ELSE job.text]

\* No two runs have one.
DocumentsApart ==
    \A p, q \in Publishers :
       publishing[p].document # 0 /\ publishing[p].document = publishing[q].document => p = q

ReceiptsFit ==
    \A i \in DOMAIN receipts :
       /\ receipts[i].document \in DOMAIN documents
       /\ documents[receipts[i].document] =
             [folder |-> receipts[i].folder, text |-> receipts[i].text]
       /\ \A j \in DOMAIN receipts : receipts[i].document = receipts[j].document => i = j
       /\ \A p \in Publishers : publishing[p].document # receipts[i].document

AllAccounted == Len(documents) <= Len(receipts) + Cardinality(Unreported) + misses

PublishInv == /\ PublishTypeOK
              /\ \A p \in Publishers : HasDocument(p)
              /\ DocumentsApart /\ ReceiptsFit /\ AllAccounted

LEMMA UnreportedIsFinite ==
    IsFiniteSet(Unreported) /\ Cardinality(Unreported) \in Nat
BY PublishAssumption, FS_Subset, FS_CardinalityType DEF Unreported

LEMMA NotPublishingType ==
    /\ NotPublishing \in Publishing /\ NotPublishing.at = "idle" /\ NotPublishing.document = 0
    /\ NoToken \in Token /\ \A scopes \in GrantedScopes : StoredToken(scopes) \in Token
<1>1. NotPublishing.folder \in BOOLEAN
  BY DEF NotPublishing
<1>2. QED
  BY <1>1, PublishAssumption
     DEF NotPublishing, Publishing, NoToken, StoredToken, Token, GrantedScopes, Editions

LEMMA PublishInvInit == PublishInit => PublishInv
<1> SUFFICES ASSUME PublishInit PROVE PublishInv
  OBVIOUS
<1>1. PublishTypeOK
  BY NotPublishingType, PublishAssumption DEF PublishInit, PublishTypeOK, GrantedScopes
<1>2. \A p \in Publishers : HasDocument(p)
  BY NotPublishingType DEF PublishInit, HasDocument
<1>3. Len(documents) = 0 /\ Len(receipts) = 0 /\ misses = 0
  BY DEF PublishInit
<1>4. QED
  BY <1>1, <1>2, <1>3, UnreportedIsFinite, NotPublishingType
     DEF PublishInit, PublishInv, DocumentsApart, ReceiptsFit, AllAccounted

LEMMA PublishingType ==
    ASSUME PublishInv, NEW p \in Publishers
    PROVE  /\ publishing[p] \in Publishing /\ publishing[p].folder \in BOOLEAN
           /\ publishing[p].text \in Editions /\ publishing[p].document \in 0..LastDocument
           /\ publishing[p].scopes \in GrantedScopes
           /\ tokenFile.scopes \in GrantedScopes
           /\ NeededScopes(publishing[p].folder) \in GrantedScopes
<1>1. publishing[p] \in Publishing
  BY DEF PublishInv, PublishTypeOK
<1>2. publishing[p].folder \in BOOLEAN
  BY <1>1 DEF Publishing
<1>3. QED
  BY <1>1, <1>2
     DEF PublishInv, PublishTypeOK, Publishing, Token, NeededScopes, GrantedScopes

\* What a run does before it asks for a document.
LEMMA PublishQuietly ==
    ASSUME PublishInv, NEW p \in Publishers, NEW job \in Publishing, Step(p, job),
           job.document = 0, job.at \notin {"fill", "report"}, publishing[p].document = 0,
           tokenFile' \in Token, documents' = documents
    PROVE  PublishInv'
<1>1. /\ publishing' \in [Publishers -> Publishing] /\ publishing'[p] = job
      /\ \A q \in Publishers \ {p} : publishing'[q] = publishing[q]
      /\ \A q \in Publishers : publishing'[q].document = publishing[q].document
      /\ bundleText' = bundleText /\ receipts' = receipts /\ misses' = misses /\ turns' = turns
  BY DEF Step, PublishInv, PublishTypeOK
<1>2. PublishTypeOK'
  BY <1>1 DEF PublishInv, PublishTypeOK
<1>3. ASSUME NEW q \in Publishers PROVE HasDocument(q)'
  <2>1. CASE q = p
    BY <1>1, <2>1 DEF HasDocument
  <2>2. CASE q # p
    BY <1>1, <2>2 DEF PublishInv, HasDocument
  <2>3. QED
    BY <2>1, <2>2
<1>4. DocumentsApart' /\ ReceiptsFit'
  BY <1>1 DEF PublishInv, DocumentsApart, ReceiptsFit
<1>5. Unreported' = Unreported
  BY <1>1 DEF Unreported
<1>6. AllAccounted'
  BY <1>1, <1>5 DEF PublishInv, AllAccounted
<1>7. QED
  BY <1>2, <1>3, <1>4, <1>6 DEF PublishInv

\* A run goes on with what Google has of it now, or stops.
LEMMA PublishDisturbs ==
    ASSUME PublishInv, NEW p \in Publishers, NEW job \in Publishing,
           publishing' = [publishing EXCEPT ![p] = job],
           bundleText' = bundleText, tokenFile' = tokenFile, turns' = turns,
           misses' \in 0..MaxMisses, receipts' = receipts,
           documents' \in Seq(Document), Len(documents') <= LastDocument,
           Len(documents) <= Len(documents'),
           \A d \in DOMAIN documents :
              d # publishing[p].document => documents'[d] = documents[d],
           HasDocument(p)',
           job.document \in {0, publishing[p].document, Len(documents) + 1},
           AllAccounted'
    PROVE  PublishInv'
<1>1. /\ publishing' \in [Publishers -> Publishing] /\ publishing'[p] = job
      /\ \A q \in Publishers \ {p} : publishing'[q] = publishing[q]
  BY DEF PublishInv, PublishTypeOK
<1>2. PublishTypeOK'
  BY <1>1 DEF PublishInv, PublishTypeOK
<1>3. /\ documents \in Seq(Document) /\ Len(documents) \in Nat /\ Len(documents') \in Nat
      /\ DOMAIN documents = 1..Len(documents) /\ DOMAIN documents' = 1..Len(documents')
  BY DEF PublishInv, PublishTypeOK
<1>4. DOMAIN documents \subseteq DOMAIN documents' /\ Len(documents) + 1 \notin DOMAIN documents
  BY <1>3
<1>5. ASSUME NEW q \in Publishers, q # p, publishing[q].document # 0
      PROVE  /\ publishing[q].document \in DOMAIN documents
             /\ publishing[q].document # publishing[p].document
             /\ publishing[q].document # job.document
             /\ documents'[publishing[q].document] = documents[publishing[q].document]
  <2>1. publishing[q].document \in DOMAIN documents
    BY <1>5 DEF PublishInv, HasDocument
  <2>2. publishing[q].document # publishing[p].document
    BY <1>5 DEF PublishInv, DocumentsApart
  <2>3. QED
    BY <1>4, <1>5, <2>1, <2>2
<1>6. ASSUME NEW q \in Publishers PROVE HasDocument(q)'
  <2>1. CASE q = p
    BY <2>1
  <2>2. CASE q # p
    BY <1>1, <1>4, <1>5, <2>2 DEF PublishInv, HasDocument
  <2>3. QED
    BY <2>1, <2>2
<1>7. DocumentsApart'
  BY <1>1, <1>5 DEF PublishInv, DocumentsApart
<1>8. ReceiptsFit'
  <2> SUFFICES ASSUME NEW i \in DOMAIN receipts
               PROVE  /\ receipts[i].document \in DOMAIN documents'
                      /\ documents'[receipts[i].document] =
                            [folder |-> receipts[i].folder, text |-> receipts[i].text]
                      /\ \A j \in DOMAIN receipts :
                            receipts[i].document = receipts[j].document => i = j
                      /\ \A q \in Publishers : publishing'[q].document # receipts[i].document
    BY DEF ReceiptsFit
  <2>1. /\ receipts[i].document \in DOMAIN documents
        /\ documents[receipts[i].document] =
              [folder |-> receipts[i].folder, text |-> receipts[i].text]
        /\ \A j \in DOMAIN receipts : receipts[i].document = receipts[j].document => i = j
        /\ \A q \in Publishers : publishing[q].document # receipts[i].document
    BY DEF PublishInv, ReceiptsFit
  <2>2. receipts[i].document # job.document
    BY <1>3, <1>4, <2>1
  <2>3. QED
    BY <1>1, <1>4, <2>1, <2>2
<1>9. QED
  BY <1>2, <1>6, <1>7, <1>8 DEF PublishInv

\* What Google has after a request of a run.
LEMMA RequestedType ==
    ASSUME PublishInv, NEW p \in Publishers, Servable(p)
    PROVE  LET job == publishing[p]  after == Requested(p) IN
           /\ after \in Seq(Document) /\ Len(after) <= LastDocument
           /\ \A d \in DOMAIN documents : d # job.document => after[d] = documents[d]
           /\ job.at = "create" =>
                 /\ Len(after) = Len(documents) + 1
                 /\ after[Len(after)] = [folder |-> job.folder, text |-> 0]
           /\ job.at = "fill" =>
                 /\ Len(after) = Len(documents)
                 /\ job.document \in DOMAIN documents
                 /\ after[job.document] = [folder |-> job.folder, text |-> job.text]
<1> DEFINE job == publishing[p]
           after == Requested(p)
<1>1. /\ documents \in Seq(Document) /\ Len(documents) \in Nat /\ Len(documents) <= LastDocument
      /\ DOMAIN documents = 1..Len(documents) /\ LastDocument \in Nat
      /\ \A d \in DOMAIN documents : documents[d] \in Document
  BY PublishAssumption DEF PublishInv, PublishTypeOK
<1>2. /\ [folder |-> job.folder, text |-> 0] \in Document
      /\ [folder |-> job.folder, text |-> job.text] \in Document
  <2>1. job.folder \in BOOLEAN /\ job.text \in Editions /\ 0 \in Editions
    BY PublishingType, PublishAssumption DEF Editions
  <2>2. QED
    BY <2>1 DEF Document
<1>3. CASE job.at = "create"
  <2>1. after = Append(documents, [folder |-> job.folder, text |-> 0])
    BY <1>3 DEF Requested
  <2>2. Len(documents) < LastDocument
    BY <1>3 DEF Servable
  <2>3. QED
    BY <1>1, <1>2, <1>3, <2>1, <2>2
<1>4. CASE job.at = "fill"
  <2>1. job.document \in DOMAIN documents
        /\ documents[job.document] = [folder |-> job.folder, text |-> 0]
    BY <1>4 DEF PublishInv, HasDocument
  <2>2. after = [documents EXCEPT ![job.document] = [documents[job.document] EXCEPT !.text = job.text]]
    BY <1>4 DEF Requested
  <2>3. [documents[job.document] EXCEPT !.text = job.text] =
            [folder |-> job.folder, text |-> job.text]
    BY <2>1
  <2>4. after = [documents EXCEPT ![job.document] = [folder |-> job.folder, text |-> job.text]]
    BY <2>2, <2>3
  <2> HIDE DEF after, job
  <2>5. QED
    BY <1>1, <1>2, <1>4, <2>1, <2>4 DEF job, after
<1>5. QED
  BY <1>3, <1>4 DEF Servable

LEMMA UnreportedChanges ==
    ASSUME PublishInv, NEW p \in Publishers, NEW job \in Publishing,
           publishing' = [publishing EXCEPT ![p] = job]
    PROVE  /\ Cardinality(Unreported)' \in Nat
           /\ job.document # 0 /\ publishing[p].document = 0 =>
                 Cardinality(Unreported)' = Cardinality(Unreported) + 1
           /\ job.document # 0 /\ publishing[p].document # 0 =>
                 Cardinality(Unreported)' = Cardinality(Unreported)
           /\ job.document = 0 /\ publishing[p].document = 0 =>
                 Cardinality(Unreported)' = Cardinality(Unreported)
           /\ job.document = 0 /\ publishing[p].document # 0 =>
                 Cardinality(Unreported) = Cardinality(Unreported)' + 1
<1>1. /\ publishing'[p] = job
      /\ \A q \in Publishers \ {p} : publishing'[q] = publishing[q]
  BY DEF PublishInv, PublishTypeOK
<1>2. IsFiniteSet(Unreported) /\ IsFiniteSet(Unreported')
  BY PublishAssumption, FS_Subset DEF Unreported
<1>3. Cardinality(Unreported) \in Nat /\ Cardinality(Unreported') \in Nat
  BY <1>2, FS_CardinalityType
<1>4. CASE job.document # 0 /\ publishing[p].document = 0
  <2>1. Unreported' = Unreported \cup {p} /\ p \notin Unreported
    BY <1>1, <1>4 DEF Unreported
  <2>2. QED
    BY <1>2, <1>3, <1>4, <2>1, FS_AddElement
<1>5. CASE job.document = 0 /\ publishing[p].document # 0
  <2>1. Unreported' = Unreported \ {p} /\ p \in Unreported
    BY <1>1, <1>5 DEF Unreported
  <2>2. QED
    BY <1>2, <1>3, <1>5, <2>1, FS_RemoveElement
<1>6. CASE (job.document = 0) = (publishing[p].document = 0)
  <2>1. Unreported' = Unreported
    BY <1>1, <1>6 DEF Unreported
  <2>2. QED
    BY <1>3, <1>6, <2>1
<1>7. QED
  BY <1>4, <1>5, <1>6

LEMMA PublishCreates ==
    ASSUME PublishInv, NEW p \in Publishers, CreateDocument(p)
    PROVE  PublishInv'
<1> DEFINE old == publishing[p]
           at == IF old.text = 0 THEN "report" ELSE "fill"
           job == [old EXCEPT !.at = at, !.document = Len(documents) + 1]
<1>1. /\ old.at = "create" /\ Servable(p) /\ documents' = Requested(p)
      /\ publishing' = [publishing EXCEPT ![p] = job] /\ tokenFile' = tokenFile
      /\ bundleText' = bundleText /\ turns' = turns /\ receipts' = receipts /\ misses' = misses
  BY DEF CreateDocument, Step
<1>2. /\ Len(documents) < LastDocument /\ Len(documents) \in Nat /\ LastDocument \in Nat
      /\ Len(documents) + 1 \in 0..LastDocument /\ Len(documents) + 1 # 0
      /\ misses \in Nat /\ Len(receipts) \in Nat /\ misses' \in 0..MaxMisses
  BY <1>1, PublishAssumption DEF Servable, PublishInv, PublishTypeOK
<1>3. old.document = 0
  BY <1>1 DEF PublishInv, HasDocument
<1>4. /\ job \in Publishing /\ job.at = at /\ job.document = Len(documents) + 1
      /\ job.folder = old.folder /\ job.text = old.text /\ publishing'[p] = job
  BY <1>1, <1>2, PublishingType DEF Publishing, PublishInv, PublishTypeOK
<1>5. /\ documents' \in Seq(Document) /\ Len(documents') <= LastDocument
      /\ \A d \in DOMAIN documents : d # old.document => documents'[d] = documents[d]
      /\ Len(documents') = Len(documents) + 1
      /\ documents'[Len(documents')] = [folder |-> old.folder, text |-> 0]
  BY <1>1, RequestedType
<1>6. HasDocument(p)'
  <2>1. DOMAIN documents' = 1..Len(documents')
    BY <1>5
  <2>2. at \in {"fill", "report"} /\ (at = "report" => old.text = 0)
    OBVIOUS
  <2> HIDE DEF job, old, at
  <2>3. QED
    BY <1>2, <1>4, <1>5, <2>1, <2>2 DEF HasDocument
<1> HIDE DEF job, old, at
<1>7. AllAccounted'
  <2>1. Cardinality(Unreported)' = Cardinality(Unreported) + 1 /\ Cardinality(Unreported) \in Nat
    BY <1>1, <1>2, <1>3, <1>4, UnreportedChanges, UnreportedIsFinite DEF old
  <2>2. QED
    BY <1>1, <1>2, <1>5, <2>1 DEF PublishInv, AllAccounted
<1>8. /\ Len(documents) <= Len(documents')
      /\ \A d \in DOMAIN documents :
            d # publishing[p].document => documents'[d] = documents[d]
      /\ job.document \in {0, publishing[p].document, Len(documents) + 1}
  BY <1>2, <1>4, <1>5 DEF old
<1>9. QED
  BY <1>1, <1>2, <1>4, <1>5, <1>6, <1>7, <1>8, PublishDisturbs

LEMMA PublishFills ==
    ASSUME PublishInv, NEW p \in Publishers, FillDocument(p)
    PROVE  PublishInv'
<1> DEFINE old == publishing[p]
           job == [old EXCEPT !.at = "report"]
<1>1. /\ old.at = "fill" /\ documents' = Requested(p)
      /\ publishing' = [publishing EXCEPT ![p] = job] /\ tokenFile' = tokenFile
      /\ bundleText' = bundleText /\ turns' = turns /\ receipts' = receipts /\ misses' = misses
  BY DEF FillDocument, GoOn, Step
<1>2. Servable(p) /\ old.document # 0
  BY <1>1 DEF Servable, PublishInv, HasDocument
<1>3. /\ Len(documents) \in Nat /\ misses \in Nat /\ Len(receipts) \in Nat
      /\ misses' \in 0..MaxMisses
  BY <1>1, PublishAssumption DEF PublishInv, PublishTypeOK
<1>4. /\ job \in Publishing /\ job.at = "report" /\ job.document = old.document
      /\ job.folder = old.folder /\ job.text = old.text /\ publishing'[p] = job
  BY <1>1, PublishingType DEF Publishing, PublishInv, PublishTypeOK
<1>5. /\ documents' \in Seq(Document) /\ Len(documents') <= LastDocument
      /\ \A d \in DOMAIN documents : d # old.document => documents'[d] = documents[d]
      /\ Len(documents') = Len(documents) /\ old.document \in DOMAIN documents
      /\ documents'[old.document] = [folder |-> old.folder, text |-> old.text]
  BY <1>1, <1>2, RequestedType
<1> HIDE DEF job, old
<1>6. HasDocument(p)'
  <2>1. DOMAIN documents' = 1..Len(documents') /\ DOMAIN documents = 1..Len(documents)
    BY <1>5 DEF PublishInv, PublishTypeOK
  <2>2. QED
    BY <1>2, <1>4, <1>5, <2>1 DEF HasDocument
<1>7. AllAccounted'
  <2>1. Cardinality(Unreported)' = Cardinality(Unreported) /\ Cardinality(Unreported) \in Nat
    BY <1>1, <1>2, <1>4, UnreportedChanges, UnreportedIsFinite DEF old
  <2>2. QED
    BY <1>1, <1>5, <2>1 DEF PublishInv, AllAccounted
<1>8. /\ Len(documents) <= Len(documents')
      /\ \A d \in DOMAIN documents :
            d # publishing[p].document => documents'[d] = documents[d]
      /\ job.document \in {0, publishing[p].document, Len(documents) + 1}
  BY <1>3, <1>4, <1>5 DEF old
<1>9. QED
  BY <1>1, <1>3, <1>4, <1>5, <1>6, <1>7, <1>8, PublishDisturbs

LEMMA PublishMisses ==
    ASSUME PublishInv, NEW p \in Publishers, MissPublish(p)
    PROVE  PublishInv'
<1> DEFINE old == publishing[p]
<1>1. /\ misses' = misses + 1 /\ misses < MaxMisses
      /\ publishing' = [publishing EXCEPT ![p] = NotPublishing] /\ tokenFile' = tokenFile
      /\ bundleText' = bundleText /\ turns' = turns /\ receipts' = receipts
      /\ \/ documents' = documents
         \/ Servable(p) /\ documents' = Requested(p)
  BY DEF MissPublish
<1>2. /\ Len(documents) \in Nat /\ misses \in Nat /\ Len(receipts) \in Nat
      /\ misses' \in 0..MaxMisses
  BY <1>1, PublishAssumption DEF PublishInv, PublishTypeOK
<1>3. publishing'[p] = NotPublishing
  BY <1>1 DEF PublishInv, PublishTypeOK
<1>4. /\ documents' \in Seq(Document) /\ Len(documents') <= LastDocument
      /\ \A d \in DOMAIN documents : d # old.document => documents'[d] = documents[d]
      /\ \/ Len(documents') = Len(documents)
         \/ Len(documents') = Len(documents) + 1 /\ old.document = 0
  <2>1. CASE documents' = documents
    BY <2>1 DEF PublishInv, PublishTypeOK
  <2>2. CASE Servable(p) /\ documents' = Requested(p)
    <3>1. old.at = "create" => old.document = 0
      BY DEF PublishInv, HasDocument
    <3>2. old.at \in {"create", "fill"}
      BY <2>2 DEF Servable
    <3>3. QED
      BY <2>2, <3>1, <3>2, RequestedType
  <2>3. QED
    BY <1>1, <2>1, <2>2
<1>5. HasDocument(p)'
  BY <1>3, NotPublishingType DEF HasDocument
<1> HIDE DEF old
<1>6. AllAccounted'
  <2>1. /\ Cardinality(Unreported) \in Nat /\ Cardinality(Unreported)' \in Nat
        /\ old.document = 0 => Cardinality(Unreported)' = Cardinality(Unreported)
        /\ old.document # 0 => Cardinality(Unreported) = Cardinality(Unreported)' + 1
    BY <1>1, NotPublishingType, UnreportedChanges, UnreportedIsFinite DEF old
  <2>2. Len(documents) <= Len(receipts) + Cardinality(Unreported) + misses
    BY DEF PublishInv, AllAccounted
  <2>3. Len(documents') <= Len(receipts') + Cardinality(Unreported)' + misses'
    BY <1>1, <1>2, <1>4, <2>1, <2>2
  <2>4. QED
    BY <2>3 DEF AllAccounted
<1>7. /\ Len(documents) <= Len(documents')
      /\ \A d \in DOMAIN documents :
            d # publishing[p].document => documents'[d] = documents[d]
      /\ NotPublishing.document \in {0, publishing[p].document, Len(documents) + 1}
  BY <1>2, <1>4, NotPublishingType DEF old
<1>8. QED
  BY <1>1, <1>2, <1>4, <1>5, <1>6, <1>7, NotPublishingType, PublishDisturbs

LEMMA PublishReports ==
    ASSUME PublishInv, NEW p \in Publishers, ReportPublished(p)
    PROVE  PublishInv'
<1> DEFINE old == publishing[p]
           receipt == [document |-> old.document, folder |-> old.folder, text |-> old.text]
<1>1. /\ old.at = "report" /\ receipts' = Append(receipts, receipt)
      /\ publishing' = [publishing EXCEPT ![p] = NotPublishing] /\ tokenFile' = tokenFile
      /\ bundleText' = bundleText /\ turns' = turns /\ documents' = documents
      /\ misses' = misses
  BY DEF ReportPublished
<1>2. /\ old.document # 0 /\ old.document \in DOMAIN documents
      /\ documents[old.document] = [folder |-> old.folder, text |-> old.text]
  BY <1>1 DEF PublishInv, HasDocument
<1>3. receipt \in Receipt
  <2>1. old.document \in 1..LastDocument
    BY <1>2, PublishingType, PublishAssumption
  <2>2. QED
    BY <2>1, PublishingType DEF Receipt
<1>4. receipt.document = old.document /\ receipt.folder = old.folder /\ receipt.text = old.text
  OBVIOUS
<1> HIDE DEF receipt
<1>5. /\ receipts \in Seq(Receipt) /\ receipts' \in Seq(Receipt) /\ Len(receipts) \in Nat
      /\ Len(receipts') = Len(receipts) + 1 /\ receipts'[Len(receipts')] = receipt
      /\ DOMAIN receipts = 1..Len(receipts) /\ DOMAIN receipts' = 1..Len(receipts')
      /\ \A i \in DOMAIN receipts : receipts'[i] = receipts[i]
  BY <1>1, <1>3 DEF PublishInv, PublishTypeOK
<1>6. /\ publishing' \in [Publishers -> Publishing] /\ publishing'[p] = NotPublishing
      /\ \A q \in Publishers \ {p} : publishing'[q] = publishing[q]
  BY <1>1, NotPublishingType DEF PublishInv, PublishTypeOK
<1>7. PublishTypeOK'
  BY <1>1, <1>5, <1>6 DEF PublishInv, PublishTypeOK
<1>8. ASSUME NEW q \in Publishers PROVE HasDocument(q)'
  <2>1. CASE q = p
    BY <1>6, <2>1, NotPublishingType DEF HasDocument
  <2>2. CASE q # p
    BY <1>1, <1>6, <2>2 DEF PublishInv, HasDocument
  <2>3. QED
    BY <2>1, <2>2
<1>9. DocumentsApart'
  BY <1>6, NotPublishingType DEF PublishInv, DocumentsApart
<1>10. ReceiptsFit'
  <2>1. ASSUME NEW i \in DOMAIN receipts
        PROVE  /\ receipts[i].document \in DOMAIN documents
               /\ documents[receipts[i].document] =
                     [folder |-> receipts[i].folder, text |-> receipts[i].text]
               /\ receipts[i].document # old.document /\ receipts[i].document # 0
               /\ \A j \in DOMAIN receipts : receipts[i].document = receipts[j].document => i = j
               /\ \A q \in Publishers : publishing'[q].document # receipts[i].document
    <3>1. receipts[i].document # 0
      <4>1. receipts[i] \in Receipt /\ LastDocument \in Nat
        BY <1>5, PublishAssumption
      <4>2. receipts[i].document \in 1..LastDocument
        BY <4>1 DEF Receipt
      <4>3. QED
        BY <4>1, <4>2
    <3>2. QED
      BY <1>6, <3>1, NotPublishingType DEF PublishInv, ReceiptsFit
  <2>2. \A q \in Publishers : publishing'[q].document # old.document
    BY <1>2, <1>6, NotPublishingType DEF PublishInv, DocumentsApart
  <2>3. \A i \in DOMAIN receipts' : i \in DOMAIN receipts \/ i = Len(receipts')
    BY <1>5
  <2> HIDE DEF old
  <2>4. ASSUME NEW i \in DOMAIN receipts'
        PROVE  /\ receipts'[i].document \in DOMAIN documents
               /\ documents[receipts'[i].document] =
                     [folder |-> receipts'[i].folder, text |-> receipts'[i].text]
               /\ \A q \in Publishers : publishing'[q].document # receipts'[i].document
    BY <1>2, <1>4, <1>5, <2>1, <2>2, <2>3
  <2>5. ASSUME NEW i \in DOMAIN receipts', NEW j \in DOMAIN receipts',
               receipts'[i].document = receipts'[j].document
        PROVE  i = j
    <3>1. CASE i \in DOMAIN receipts /\ j \in DOMAIN receipts
      <4>1. receipts[i].document = receipts[j].document
        BY <1>5, <2>5, <3>1
      <4>2. QED
        BY <2>1, <3>1, <4>1
    <3>2. CASE i \in DOMAIN receipts /\ j = Len(receipts')
      <4>1. receipts[i].document = old.document
        BY <1>4, <1>5, <2>5, <3>2
      <4>2. QED
        BY <2>1, <3>2, <4>1
    <3>3. CASE i = Len(receipts') /\ j \in DOMAIN receipts
      <4>1. receipts[j].document = old.document
        BY <1>4, <1>5, <2>5, <3>3
      <4>2. QED
        BY <2>1, <3>3, <4>1
    <3>4. QED
      BY <2>3, <3>1, <3>2, <3>3
  <2>6. QED
    BY <1>1, <2>4, <2>5 DEF ReceiptsFit
<1>11. AllAccounted'
  <2>1. /\ Cardinality(Unreported)' \in Nat /\ Cardinality(Unreported) = Cardinality(Unreported)' + 1
    BY <1>1, <1>2, NotPublishingType, UnreportedChanges
  <2>2. misses \in Nat /\ Len(documents) \in Nat
    BY PublishAssumption DEF PublishInv, PublishTypeOK
  <2>3. Len(documents) <= Len(receipts) + Cardinality(Unreported) + misses
    BY DEF PublishInv, AllAccounted
  <2>4. Len(documents') <= Len(receipts') + Cardinality(Unreported)' + misses'
    BY <1>1, <1>5, <2>1, <2>2, <2>3
  <2>5. QED
    BY <2>4 DEF AllAccounted
<1>12. QED
  BY <1>7, <1>8, <1>9, <1>10, <1>11 DEF PublishInv

\* What others do, to the bundle and the token.
LEMMA PublishAside ==
    ASSUME PublishInv, publishing' = publishing, documents' = documents, receipts' = receipts,
           misses' = misses, bundleText' \in Editions, tokenFile' \in Token, turns' \in 0..MaxTurns
    PROVE  PublishInv'
<1>1. PublishTypeOK' /\ Unreported' = Unreported
  BY DEF PublishInv, PublishTypeOK, Unreported
<1>2. \A p \in Publishers : HasDocument(p)'
  BY DEF PublishInv, HasDocument
<1>3. DocumentsApart' /\ ReceiptsFit' /\ AllAccounted'
  BY <1>1 DEF PublishInv, DocumentsApart, ReceiptsFit, AllAccounted
<1>4. QED
  BY <1>1, <1>2, <1>3 DEF PublishInv

LEMMA PublishPrepares ==
    ASSUME PublishInv, NEW p \in Publishers,
           \/ \E folder, oauth \in BOOLEAN : BeginPublish(p, folder, oauth)
           \/ CheckToken(p) \/ LoadToken(p) \/ Authorise(p) \/ PersistToken(p) \/ RefusePublish(p)
    PROVE  PublishInv'
<1> DEFINE old == publishing[p]
<1>0. /\ old \in Publishing /\ old.folder \in BOOLEAN /\ tokenFile \in Token
      /\ tokenFile.scopes \in GrantedScopes /\ NeededScopes(old.folder) \in GrantedScopes
      /\ old.scopes \in GrantedScopes /\ bundleText \in Editions
      /\ old.at \notin {"fill", "report"} => old.document = 0
  BY PublishingType DEF PublishInv, PublishTypeOK, HasDocument
<1>1. ASSUME NEW at \in {"check", "load", "refresh", "consent", "store", "create"},
             NEW scopes \in GrantedScopes, old.document = 0
      PROVE  LET job == [old EXCEPT !.at = at, !.scopes = scopes] IN
             job \in Publishing /\ job.document = 0 /\ job.at = at
  BY <1>0, <1>1 DEF Publishing
<1>2. ASSUME NEW at \in {"check", "load", "refresh", "consent", "store", "create"},
             old.document = 0
      PROVE  LET job == [old EXCEPT !.at = at] IN
             job \in Publishing /\ job.document = 0 /\ job.at = at
  BY <1>0, <1>2 DEF Publishing
<1>3. ASSUME NEW folder \in BOOLEAN, NEW oauth \in BOOLEAN, BeginPublish(p, folder, oauth)
      PROVE  PublishInv'
  <2> DEFINE at == IF oauth THEN "check" ELSE "create"
             scopes == IF oauth THEN {} ELSE NeededScopes(folder)
             job == [at |-> at, folder |-> folder, text |-> bundleText, document |-> 0,
                     scopes |-> scopes]
  <2>1. at \in {"check", "create"} /\ scopes \in GrantedScopes
    BY DEF NeededScopes, GrantedScopes
  <2>2. Step(p, job) /\ old.document = 0 /\ tokenFile' = tokenFile /\ documents' = documents
    BY <1>0, <1>3 DEF BeginPublish
  <2> HIDE DEF at, scopes
  <2>3. job \in Publishing /\ job.document = 0 /\ job.at = at
    BY <1>0, <2>1, PublishAssumption DEF Publishing
  <2> HIDE DEF job
  <2>4. QED
    BY <1>0, <2>1, <2>2, <2>3, PublishQuietly
<1>4. CASE CheckToken(p)
  BY <1>0, <1>2, <1>4, PublishQuietly DEF CheckToken, GoOn
<1>5. CASE LoadToken(p)
  <2>1. /\ old.at = "load" /\ old.document = 0 /\ tokenFile' = tokenFile
        /\ documents' = documents
    BY <1>0, <1>5 DEF LoadToken
  <2>2. \/ Step(p, [old EXCEPT !.at = "create", !.scopes = tokenFile.scopes])
        \/ Step(p, [old EXCEPT !.at = "refresh"])
        \/ Step(p, [old EXCEPT !.at = "consent"])
    <3>1. tokenFile.life \in {"fresh", "expired", "spent"}
      BY <1>0 DEF Token
    <3>2. QED
      BY <1>5, <3>1 DEF LoadToken, GoOn
  <2>3. QED
    BY <1>0, <1>1, <1>2, <2>1, <2>2, PublishQuietly
<1>6. CASE Authorise(p)
  BY <1>0, <1>1, <1>6, PublishQuietly DEF Authorise
<1>7. CASE PersistToken(p)
  BY <1>0, <1>2, <1>7, NotPublishingType, PublishQuietly DEF PersistToken, GoOn
<1>8. CASE RefusePublish(p)
  BY <1>0, <1>8, NotPublishingType, PublishQuietly DEF RefusePublish
<1>9. QED
  BY <1>3, <1>4, <1>5, <1>6, <1>7, <1>8

LEMMA PublishStep == PublishInv /\ [PublishNext]_publishVars => PublishInv'
<1> SUFFICES ASSUME PublishInv, [PublishNext]_publishVars PROVE PublishInv'
  OBVIOUS
<1>1. ASSUME Turn PROVE turns' \in 0..MaxTurns
  BY <1>1, PublishAssumption DEF Turn, PublishInv, PublishTypeOK
<1>2. ASSUME NEW t \in Editions, RewriteBundle(t) PROVE PublishInv'
  BY <1>1, <1>2, PublishAside DEF RewriteBundle, PublishInv, PublishTypeOK
<1>3. CASE AgeToken
  <2>1. tokenFile' \in Token
    BY <1>3 DEF AgeToken, Token, PublishInv, PublishTypeOK
  <2>2. QED
    BY <1>1, <1>3, <2>1, PublishAside DEF AgeToken, PublishInv, PublishTypeOK
<1>4. ASSUME NEW kind \in {"none", "foreign"}, ReplaceToken(kind) PROVE PublishInv'
  <2>1. tokenFile' \in Token
    BY <1>4, NotPublishingType DEF ReplaceToken, Token
  <2>2. QED
    BY <1>1, <1>4, <2>1, PublishAside DEF ReplaceToken, PublishInv, PublishTypeOK
<1>5. CASE UNCHANGED publishVars
  BY <1>5, PublishAside DEF publishVars, PublishInv, PublishTypeOK
<1>6. QED
  BY <1>2, <1>3, <1>4, <1>5, PublishPrepares, PublishCreates, PublishFills, PublishMisses,
     PublishReports
     DEF PublishNext

\* The inductive invariant of publication.
THEOREM PublishInvariant == PublishSpec => []PublishInv
BY PublishInvInit, PublishStep, PTL DEF PublishSpec

\* However many runs publish one bundle at the same time, each URL reported is that
\* of a document of its own with the text that the run read, and no document is
\* left over but one for each run that failed.
THEOREM PublicationsAreExact == PublishSpec => []PublicationIsExact
<1>1. PublishInv => PublicationIsExact
  BY DEF PublishInv, ReceiptsFit, AllAccounted, PublicationIsExact
<1>2. QED
  BY <1>1, PublishInvariant, PTL

-----------------------------------------------------------------------------
(* The commands together.                                                  *)

\* A command leaves what the others work on alone.
LEMMA CommandsApart ==
    /\ CommandInit => /\ GitInit /\ GHInit /\ SelectionInit /\ WalkInit /\ SpaceInit
                      /\ DirectoryInit /\ BundleInit /\ PublishInit /\ VerifyInit
                      /\ ConfigInit
    /\ [CommandNext]_commandVars =>
           /\ [GitNext]_gitVars /\ [GHNext]_ghVars /\ [SelectionNext]_selectionVars
           /\ [WalkNext]_walkVars /\ [SpaceNext]_spaceVars /\ [DirectoryNext]_directoryVars
           /\ [BundleNext]_bundleVars /\ [PublishNext]_publishVars /\ [VerifyNext]_verifyVars
           /\ [ConfigNext]_configVars
<1>1. CommandInit => /\ GitInit /\ GHInit /\ SelectionInit /\ WalkInit /\ SpaceInit
                     /\ DirectoryInit /\ BundleInit /\ PublishInit /\ VerifyInit
                     /\ ConfigInit
  BY DEF CommandInit, SelectionRests, WalkRests, SpaceRests, DirectoryRests, PublishRests,
         VerifyRests
<1>2. CommandNext =>
          /\ [GitNext]_gitVars /\ [GHNext]_ghVars /\ [SelectionNext]_selectionVars
          /\ [WalkNext]_walkVars /\ [SpaceNext]_spaceVars /\ [DirectoryNext]_directoryVars
          /\ [BundleNext]_bundleVars /\ [PublishNext]_publishVars /\ [VerifyNext]_verifyVars
          /\ [ConfigNext]_configVars
  BY DEF CommandNext
<1>3. UNCHANGED commandVars =>
          /\ UNCHANGED gitVars /\ UNCHANGED ghVars /\ UNCHANGED selectionVars
          /\ UNCHANGED walkVars /\ UNCHANGED spaceVars /\ UNCHANGED directoryVars
          /\ UNCHANGED bundleVars /\ UNCHANGED publishVars /\ UNCHANGED verifyVars
          /\ UNCHANGED configVars
  BY DEF commandVars
<1>4. QED
  BY <1>1, <1>2, <1>3

\* Whichever command main chooses, each behaves as it does alone, so that what
\* is proved of one alone holds of it here.
THEOREM CommandsAreSpecs ==
    CommandSpec => /\ GitSpec /\ GHSpec /\ SelectionSpec /\ WalkSpec /\ SpaceSpec
                   /\ DirectorySpec /\ BundleSpec /\ PublishSpec /\ VerifySpec
                   /\ ConfigSpec
BY CommandsApart, PTL
   DEF CommandSpec, GitSpec, GHSpec, SelectionSpec, WalkSpec, SpaceSpec, DirectorySpec,
       BundleSpec, PublishSpec, VerifySpec, ConfigSpec

\* The variables of all commands keep their types, whichever main chooses.
THEOREM CommandsTypeCorrect == CommandSpec => []CommandTypeOK
<1>1. /\ SelectionInv => SelectionTypeOK
      /\ WalkInv => WalkTypeOK
      /\ SpaceInv => SpaceTypeOK
      /\ DirInv => DirectoryTypeOK
      /\ BundleInv => BundleTypeOK
      /\ PublishInv => PublishTypeOK
  BY DEF SelectionInv, WalkInv, SpaceInv, DirInv, BundleInv, PublishInv
<1>2. CommandSpec => [](command \in CommandNames)
  <2>1. CommandInit => command \in CommandNames
    BY DEF CommandInit
  <2>2. command \in CommandNames /\ [CommandNext]_commandVars => (command \in CommandNames)'
    BY DEF CommandNext, commandVars
  <2>3. QED
    BY <2>1, <2>2, PTL DEF CommandSpec
<1>3. /\ command \in CommandNames
      /\ GitTypeOK /\ GHTypeOK /\ SelectionTypeOK /\ WalkTypeOK /\ SpaceTypeOK
      /\ DirectoryTypeOK /\ BundleTypeOK /\ PublishTypeOK /\ VerifyTypeOK /\ ConfigTypeOK
      => CommandTypeOK
  BY DEF CommandTypeOK
<1>4. QED
  BY <1>1, <1>2, <1>3, CommandsAreSpecs, GitTypeCorrect, GHTypeCorrect, SelectionInvariant,
     WalkInvariant, SpaceInvariant, DirectoryInvariant, BundleInvariant, PublishInvariant,
     VerifyTypeCorrect, ConfigTypeCorrect, PTL

\* What the commands promise holds of them together, whichever main chooses, if
\* the runs on a checkout do not overlap and no text of a record returns.
THEOREM CommandsAreRight ==
    ASSUME OneAtATime, TextsReturn = FALSE
    PROVE  CommandSpec =>
               /\ [](/\ SnapshotIsOneCommit /\ RefIsFresh
                     /\ ListingIsExact /\ SelectionIsExact /\ CommentsAreHeard
                     /\ WalkIsExact /\ SpaceIsListed /\ BundleIsExact /\ PublicationIsExact
                     /\ VerdictIsRight /\ KeptClaimsAreSealed
                     /\ SuccessIsEarned /\ ReportIsCurrent)
               /\ PrunesWhatLeft /\ HashIsOfArtifact /\ FetchedOnce
               /\ LoneRunRestores /\ TakesNothingOver /\ StartsInTurn
<1>1. GitSpec => [](SnapshotIsOneCommit /\ RefIsFresh)
  BY SnapshotsAreCommits, RefsAreFresh, PTL
<1>2. GHSpec => []ListingIsExact /\ PrunesWhatLeft /\ HashIsOfArtifact
  BY PagingIsExact, OpenIsKept, HashesAreOfArtifacts
<1>3. SelectionSpec => [](SelectionIsExact /\ CommentsAreHeard)
  BY SelectionsAreExact, CommentsHeard, PTL
<1>4. VerifySpec => [](VerdictIsRight /\ KeptClaimsAreSealed)
  BY VerdictsAreRight, KeptClaimsSealed, PTL
<1>5. QED
  BY <1>1, <1>2, <1>3, <1>4, CommandsAreSpecs, WalksAreExact, PagesAreFetchedOnce,
     SpacesAreListed, BundlesAreExact, PublicationsAreExact, LoneRunsRestore,
     NothingIsTakenOver, ExitZeroIsEarned, ReportsAreCurrent, RunsStartInTurn, PTL
=============================================================================
