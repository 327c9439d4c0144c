------------------------- MODULE ConfluenceTraversal -------------------------
(***************************************************************************)
(* walk_pages of confluence/traversal.py, which finds the pages of a tree  *)
(* down to a depth, level by level, with the listings of children that     *)
(* confluence/tree_cache.py keeps from one run to the next, while pages    *)
(* are moved and removed.                                                  *)
(*                                                                         *)
(* The pages of a level are listed, and those of the next one fetched, in  *)
(* any order, of which the code's is one.  The client asks the wiki once   *)
(* for the children of a page, and never for a next page of them: those    *)
(* that one answer does not hold are not listed.  Contents are left out.   *)
(***************************************************************************)
EXTENDS Naturals, FiniteSets

CONSTANTS WikiPages, Root,
          MaxDepth,
          AnswerSize,     \* the most children that one answer holds
          CacheChoices,   \* what runs are given: no cache, one, one to refresh,
                          \* one to clear first
          MoveQuota       \* bound on changes of the tree

ASSUME TraversalAssumption ==
    /\ Root \in WikiPages
    /\ MaxDepth \in Nat
    /\ AnswerSize \in Nat \ {0}
    /\ CacheChoices \subseteq {"none", "use", "refresh", "clear"}
    /\ MoveQuota \in Nat

Listings == [WikiPages -> SUBSET WikiPages]

VARIABLES children,      \* the children of each page that exists
          exists,        \* the pages that exist
          treeCache,     \* the pages whose listing is cached, and the listings
          walk,          \* the walk in progress
          moveQuota

walkVars == <<children, exists, treeCache, walk, moveQuota>>

TreeCache == [pages : SUBSET WikiPages, listing : Listings]

\* firm has the children that every look at a page during this walk would find,
\* loose those that some look would.
Walk == [at : {"idle", "root", "list", "fetch", "done"},
         cache : {"none", "use", "refresh", "clear"},
         depth : 0..MaxDepth,
         level : SUBSET WikiPages,     \* pages of this level still to list
         ids : SUBSET WikiPages,       \* pages found for the next level
         next : SUBSET WikiPages,      \* those of them that are fetched
         fetched : SUBSET WikiPages,
         firm : Listings, loose : Listings]

Nothing == [p \in WikiPages |-> {}]

NoWalk == [at |-> "idle", cache |-> "none", depth |-> 0, level |-> {}, ids |-> {},
           next |-> {}, fetched |-> {}, firm |-> Nothing, loose |-> Nothing]

\* The pages within d steps of a page.
Within(listing, from, d) ==
    LET reach[k \in Nat] ==
            IF k = 0 THEN {from}
            ELSE reach[k - 1] \cup UNION {listing[p] : p \in reach[k - 1]}
    IN  reach[d]

Below(p) == Within(children, p, Cardinality(WikiPages))

IsTree(listing) ==
    /\ \A p, q \in WikiPages : listing[p] \cap listing[q] # {} => p = q
    /\ Within(listing, Root, Cardinality(WikiPages)) = WikiPages
    /\ \A p \in WikiPages : Root \notin listing[p]

WalkInit == /\ children \in {c \in Listings : IsTree(c)}
            /\ exists = WikiPages
            /\ treeCache = [pages |-> {}, listing |-> Nothing]
            /\ walk = NoWalk
            /\ moveQuota = MoveQuota

-----------------------------------------------------------------------------
(* The wiki.                                                               *)

\* Whether the walk takes the listing of a page from the cache.
Cached(p) == walk.cache = "use" /\ p \in treeCache.pages

\* What list_real_child_page_ids may get of some children, in the one answer
\* that it asks for, and the children that it gets in any case.
Answers(all) == IF Cardinality(all) <= AnswerSize THEN {all}
                ELSE {some \in SUBSET all : Cardinality(some) = AnswerSize}

Sure(all) == {c \in all : \A answer \in Answers(all) : c \in answer}

Changed(new) ==
    /\ moveQuota > 0 /\ moveQuota' = moveQuota - 1
    /\ children' = new
    /\ walk' = IF walk.at = "idle" THEN walk ELSE
         [walk EXCEPT
           !.firm = [p \in WikiPages |-> IF Cached(p) THEN @[p] ELSE @[p] \cap Sure(new[p])],
           !.loose = [p \in WikiPages |-> IF Cached(p) THEN @[p] ELSE @[p] \cup new[p]]]
    /\ UNCHANGED treeCache

Without(p) == [q \in WikiPages |-> children[q] \ {p}]

\* A page is moved with all that is below it, or restored.
MovePage(p, to) ==
    /\ p # Root /\ to \in exists \ Below(p) /\ p \notin children[to]
    /\ exists' = exists \cup {p}
    /\ Changed([Without(p) EXCEPT ![to] = @ \cup {p}])

RemovePage(p) ==
    /\ p \in exists \ {Root} /\ children[p] = {}
    /\ exists' = exists \ {p}
    /\ Changed(Without(p))

-----------------------------------------------------------------------------
(* A walk.  The Fault operators are plausible bugs, which the runs notice  *)
(* in place of the definition each is named for.                           *)

NoTreeCache == [pages |-> {}, listing |-> Nothing]

\* A cache is cleared before it is used (clear_tree_cache_entries).
StartWalk(cache) ==
    /\ walk.at = "idle"
    /\ treeCache' = IF cache = "clear" THEN NoTreeCache ELSE treeCache
    /\ LET mode == IF cache = "clear" THEN "use" ELSE cache
           cached == IF mode = "use" THEN treeCache'.pages ELSE {}
       IN  walk' = [NoWalk EXCEPT
             !.at = "root", !.cache = mode,
             !.firm = [p \in WikiPages |-> IF p \in cached THEN treeCache.listing[p]
                                           ELSE Sure(children[p])],
             !.loose = [p \in WikiPages |-> IF p \in cached THEN treeCache.listing[p]
                                            ELSE children[p]]]
    /\ UNCHANGED <<children, exists, moveQuota>>

FaultDeepEnough(depth) == depth > MaxDepth

DeepEnough(depth) == depth >= MaxDepth

\* What follows when the pages of a level are there.
NextLevel(w, depth, level) ==
    [w EXCEPT !.at = IF DeepEnough(depth) THEN "done" ELSE "list",
              !.depth = depth, !.level = level, !.ids = {}, !.next = {}]

FetchRoot ==
    /\ walk.at = "root" /\ Root \in exists
    /\ walk' = NextLevel([walk EXCEPT !.fetched = {Root}], 0, {Root})
    /\ UNCHANGED <<children, exists, treeCache, moveQuota>>

FaultListingsOf(p) == IF p \in treeCache.pages THEN {treeCache.listing[p]}
                      ELSE Answers(children[p])

\* _get_listing
ListingsOf(p) == IF Cached(p) THEN {treeCache.listing[p]} ELSE Answers(children[p])

\* What was fetched from the wiki is stored, if that works; it is replaced as
\* a whole.
Stored(p, answer) ==
    IF walk.cache = "none" \/ Cached(p) THEN {treeCache}
    ELSE {treeCache, [pages |-> treeCache.pages \cup {p},
                      listing |-> [treeCache.listing EXCEPT ![p] = answer]]}

Awaited(p) == /\ walk.at = "list" /\ p \in walk.level
              /\ p \in exists \/ Cached(p)

FaultListChildren(p) ==
    /\ Awaited(p)
    /\ \E answer \in ListingsOf(p) :
          /\ walk' = [walk EXCEPT !.level = @ \ {p}, !.ids = @ \cup answer]
          /\ treeCache' \in Stored(p, answer)
    /\ UNCHANGED <<children, exists, moveQuota>>

ListChildren(p) ==
    /\ Awaited(p)
    /\ \E answer \in ListingsOf(p) :
          /\ walk' = [walk EXCEPT !.level = @ \ {p}, !.ids = @ \cup (answer \ walk.fetched)]
          /\ treeCache' \in Stored(p, answer)
    /\ UNCHANGED <<children, exists, moveQuota>>

FetchChildren ==
    /\ walk.at = "list" /\ walk.level = {}
    /\ walk' = [walk EXCEPT !.at = "fetch"]
    /\ UNCHANGED <<children, exists, treeCache, moveQuota>>

FetchChild(p) ==
    /\ walk.at = "fetch" /\ p \in walk.ids \cap exists
    /\ walk' = [walk EXCEPT !.ids = @ \ {p}, !.next = @ \cup ({p} \ walk.fetched),
                            !.fetched = @ \cup {p}]
    /\ UNCHANGED <<children, exists, treeCache, moveQuota>>

EndLevel ==
    /\ walk.at = "fetch" /\ walk.ids = {}
    /\ walk' = NextLevel(walk, walk.depth + 1, walk.next)
    /\ UNCHANGED <<children, exists, treeCache, moveQuota>>

\* The pages are handed over.
EndWalk ==
    /\ walk.at = "done"
    /\ walk' = NoWalk
    /\ UNCHANGED <<children, exists, treeCache, moveQuota>>

\* The run dies or a request fails, as for a page that is gone: the first
\* failure ends it.
FailWalk ==
    /\ walk.at # "idle"
    /\ walk' = NoWalk
    /\ UNCHANGED <<children, exists, treeCache, moveQuota>>

WalkNext ==
    \/ \E cache \in CacheChoices : StartWalk(cache)
    \/ FetchRoot \/ FetchChildren \/ EndLevel \/ EndWalk \/ FailWalk
    \/ \E p \in WikiPages : \/ ListChildren(p) \/ FetchChild(p) \/ RemovePage(p)
                             \/ \E to \in WikiPages : MovePage(p, to)

WalkSpec == WalkInit /\ [][WalkNext]_walkVars

-----------------------------------------------------------------------------
WalkTypeOK == /\ children \in Listings
              /\ exists \subseteq WikiPages
              /\ treeCache \in TreeCache
              /\ walk \in Walk
              /\ moveQuota \in 0..MoveQuota

\* docs/confluence-recursive-fetch.md: "a page at depth N may be fetched when
\* N <= max_depth".  A walk finds every page that is within the depth all the
\* time, by listings that hold all the time and fit one answer, and none that
\* never was.
WalkIsExact ==
    walk.at = "done" =>
        /\ Within(walk.firm, Root, MaxDepth) \subseteq walk.fetched
        /\ walk.fetched \subseteq Within(walk.loose, Root, MaxDepth)

\* docs/confluence-recursive-fetch.md:48: a walk fetches "the root page and its
\* direct children", and so on down to the depth: all of them, as long as nobody
\* has changed the tree.
ChildrenAreFound ==
    walk.at = "done" /\ moveQuota = MoveQuota =>
        Within(children, Root, MaxDepth) \subseteq walk.fetched

\* docs/confluence-recursive-fetch.md: "each canonical page ID is fetched at
\* most once per run", though a page that is moved meanwhile is found twice.
FetchedOnce == [][\A p \in WikiPages : FetchChild(p) => p \notin walk.fetched]_walkVars
=============================================================================
