--------------------------- MODULE GitHubSelection ---------------------------
(***************************************************************************)
(* What the github_metadata command makes of a listing: which of the       *)
(* records are kept (since, max_items, issues that are not pull requests), *)
(* and the comments that are fetched for each of these afterwards.         *)
(* list_repository_issues and its fellows in github_metadata/client.py.    *)
(*                                                                         *)
(* Issues and pull requests share one numbering; for releases a number is  *)
(* their place in the order of publication, and drafts are left out.       *)
(* Lists of records come newest first, lists of comments oldest first, and *)
(* a page is cut from the list as it is when it is asked for.  What        *)
(* becomes of the records in the output directory is GitHubMetadata's.     *)
(***************************************************************************)
EXTENDS Naturals, Sequences, FiniteSets

CONSTANTS LastItem, LastComment,  \* bounds on records, and on comments of one
          PullItems,              \* the numbers of pull requests
          PerPage,
          LimitChoices,           \* what max_items may be; 0 is not given
          Meddling                \* bound on what people do, and on failures

Items == 1..LastItem
Comments == 1..LastComment
Threads == {"comments", "review"}

ASSUME SelectionAssumption ==
    /\ LastItem \in Nat \ {0} /\ LastComment \in Nat \ {0}
    /\ PullItems \subseteq Items
    /\ PerPage \in Nat \ {0}
    /\ LimitChoices \subseteq Nat /\ LimitChoices # {}
    /\ Meddling \in Nat

VARIABLES resource,               \* which records are listed
          board,                  \* the repository
          picking,                \* the run in progress
          meddling                \* what people may still do

selectionVars == <<resource, board, picking, meddling>>

\* recent are the records updated, or published, at or after the time that a run
\* may give as since; of a thread, last numbers its comments, kept are there.
Board == [last : 0..LastItem, open : SUBSET Items, recent : SUBSET Items,
          talk : [Items -> [Threads -> [last : 0..LastComment, kept : SUBSET Comments]]]]

PickOptions == [since : BOOLEAN, limit : LimitChoices, threads : SUBSET Threads]

\* copies counts how often a record was listed; chosen are the records selected,
\* in order, and heard their comments; place, turn and from say which page of
\* which thread of which record is next; upto is how far each thread went when
\* the run began; moved tells whether records came or went since then, cut which
\* threads lost a comment.
Picking == [at : {"idle", "list", "choose", "talk"}, options : PickOptions,
            from : Nat, copies : [Items -> Nat], chosen : Seq(Items),
            heard : Seq([Threads -> SUBSET Comments]), place : Nat, turn : {1, 2},
            upto : [Items -> [Threads -> 0..LastComment]], moved : BOOLEAN,
            cut : SUBSET (Items \X Threads)]

NoOptions == [since |-> FALSE, limit |-> CHOOSE l \in LimitChoices : TRUE, threads |-> {}]

NewPicking(options) ==
    [at |-> "idle", options |-> options, from |-> 0, copies |-> [n \in Items |-> 0],
     chosen |-> <<>>, heard |-> <<>>, place |-> 1, turn |-> 1,
     upto |-> [n \in Items |-> [t \in Threads |-> 0]], moved |-> FALSE, cut |-> {}]

NotPicking == NewPicking(NoOptions)

\* Pull requests alone have reviews; a release has no comments.
ThreadsOf(r) == CASE r = "issues" -> {"comments"}
                  [] r = "pull_requests" -> Threads
                  [] r = "releases" -> {}

SelectionInit ==
    /\ resource \in {"issues", "pull_requests", "releases"}
    /\ board = [last |-> LastItem - 1, open |-> 1..(LastItem - 1), recent |-> {1},
                talk |-> [n \in Items |-> [t \in Threads |->
                             [last |-> LastComment - 1, kept |-> 1..(LastComment - 1)]]]]
    /\ picking = NotPicking
    /\ meddling = Meddling

-----------------------------------------------------------------------------
(* What people do meanwhile.                                               *)

Meddle == meddling > 0 /\ meddling' = meddling - 1

Becomes(new) ==
    /\ board' = new
    /\ picking' = [picking EXCEPT !.moved = @ \/ /\ picking.at # "idle"
                                                 /\ <<new.open, new.recent>> #
                                                       <<board.open, board.recent>>]
    /\ UNCHANGED resource

OpenItem(n) ==
    /\ Meddle
    /\ n = board.last + 1 \/ (n <= board.last /\ n \notin board.open /\ resource # "releases")
    /\ Becomes([board EXCEPT !.last = IF n > @ THEN n ELSE @,
                             !.open = @ \cup {n}, !.recent = @ \cup {n}])

\* Closing a record is an update, of one that is listed no more.
CloseItem(n) ==
    /\ Meddle
    /\ n \in board.open
    /\ Becomes([board EXCEPT !.open = @ \ {n}, !.recent = @ \cup {n}])

\* A release has no time of update.
EditItem(n) ==
    /\ Meddle
    /\ resource # "releases" /\ n \in board.open \ board.recent
    /\ Becomes([board EXCEPT !.recent = @ \cup {n}])

AddComment(n, t) ==
    /\ Meddle
    /\ n \in board.open /\ t \in ThreadsOf(resource) /\ board.talk[n][t].last < LastComment
    /\ LET c == board.talk[n][t].last + 1 IN
       Becomes([board EXCEPT !.talk[n][t] = [last |-> c, kept |-> @.kept \cup {c}],
                             !.recent = @ \cup {n}])

DropComment(n, t, c) ==
    /\ Meddle
    /\ t \in ThreadsOf(resource) /\ c \in board.talk[n][t].kept
    /\ board' = [board EXCEPT !.talk[n][t].kept = @ \ {c}]
    /\ picking' = [picking EXCEPT !.cut = IF picking.at = "idle" THEN @ ELSE @ \cup {<<n, t>>}]
    /\ UNCHANGED resource

-----------------------------------------------------------------------------
(* A run.                                                                  *)

BeginPicking(options) ==
    /\ picking.at = "idle"
    /\ options.threads \subseteq ThreadsOf(resource)
    /\ picking' = [NewPicking(options) EXCEPT
                      !.at = "list",
                      !.upto = [n \in Items |-> [t \in Threads |-> board.talk[n][t].last]]]
    /\ UNCHANGED <<resource, board, meddling>>

\* What the server has in the list: pull requests are issues too, and it is
\* the server that applies since to these.
InList(n) ==
    /\ n \in board.open
    /\ resource = "pull_requests" => n \in PullItems
    /\ resource = "issues" /\ picking.options.since => n \in board.recent

\* How many come before n.
NewerItems(n) == Cardinality({m \in Items : InList(m) /\ m > n})

ItemPage(from) ==
    {n \in Items : InList(n) /\ from <= NewerItems(n) /\ NewerItems(n) < from + PerPage}

\* Issues that are pull requests are passed over.  Of the others since is
\* applied to the time that was listed.
Keeps(n) ==
    /\ resource = "issues" => n \notin PullItems
    /\ picking.options.since => n \in board.recent

FaultLastItemPage ==
    \/ picking.from + PerPage >= Cardinality({n \in Items : InList(n)})
    \/ picking.options.limit \in
          1..Cardinality({n \in Items : picking.copies[n] # 0 \/ n \in ItemPage(picking.from)})

\* There is no link to a page after it: max_items ends no listing.
LastItemPage == picking.from + PerPage >= Cardinality({n \in Items : InList(n)})

ReadItems ==
    /\ picking.at = "list"
    /\ picking' = [picking EXCEPT
           !.copies = [n \in Items |->
                          IF n \in ItemPage(picking.from) /\ Keeps(n) THEN @[n] + 1 ELSE @[n]],
           !.from = @ + PerPage,
           !.at = IF LastItemPage THEN "choose" ELSE "list"]
    /\ UNCHANGED <<resource, board, meddling>>

\* How many copies there are of the records up to n.
CopiesTo[n \in 0..LastItem] == IF n = 0 THEN 0 ELSE CopiesTo[n - 1] + picking.copies[n]

\* A record that was listed twice takes two places.
InPlace(k) == CHOOSE n \in Items : CopiesTo[n - 1] < k /\ k <= CopiesTo[n]

\* max_items
Kept(count) == LET limit == picking.options.limit IN
               IF limit # 0 /\ limit < count THEN limit ELSE count

ChooseItems ==
    LET count == Kept(CopiesTo[LastItem]) IN
    /\ picking.at = "choose"
    /\ picking' = [picking EXCEPT
           !.at = "talk", !.from = 0,
           !.chosen = [k \in 1..count |-> InPlace(k)],
           !.heard = [k \in 1..count |-> [t \in Threads |-> {}]]]
    /\ UNCHANGED <<resource, board, meddling>>

\* The threads asked for, those of comments first.
Turns == CASE picking.options.threads = {} -> <<>>
           [] picking.options.threads = Threads -> <<"comments", "review">>
           [] OTHER -> <<CHOOSE t \in picking.options.threads : TRUE>>

\* The page that GitHub makes of a thread as it is.
CommentPage(kept) ==
    {c \in kept : LET older == Cardinality({b \in kept : b < c}) IN
                  picking.from <= older /\ older < picking.from + PerPage}

\* As for the children of a Confluence page, the client asks once.
FaultLastCommentPage(kept) == TRUE

\* There is no link to a page after it: the client follows each that there is.
LastCommentPage(kept) == picking.from + PerPage >= Cardinality(kept)

Talking == picking.at = "talk" /\ picking.place <= Len(picking.chosen) /\ Turns # <<>>

\* _list_issue_comments, _list_pull_request_comments and, after these,
\* _list_pull_request_review_comments of one record, then those of the next.
ReadComments ==
    LET place == picking.place
        thread == Turns[picking.turn]
        kept == board.talk[picking.chosen[place]][thread].kept
    IN
    /\ Talking
    /\ picking' =
          LET run == [picking EXCEPT !.heard[place][thread] = @ \cup CommentPage(kept)] IN
          IF ~LastCommentPage(kept)
          THEN [run EXCEPT !.from = @ + PerPage]
          ELSE IF picking.turn < Len(Turns)
          THEN [run EXCEPT !.from = 0, !.turn = 2]
          ELSE [run EXCEPT !.from = 0, !.turn = 1, !.place = @ + 1]
    /\ UNCHANGED <<resource, board, meddling>>

ReturnItems ==
    /\ picking.at = "talk" /\ ~Talking
    /\ picking' = NotPicking
    /\ UNCHANGED <<resource, board, meddling>>

\* A request fails, or its answer is refused: it is no list of records in good
\* form, or its next page is outside the API or one that was asked for already.
FailPicking ==
    /\ Meddle
    /\ picking.at \in {"list", "talk"}
    /\ picking' = NotPicking
    /\ UNCHANGED <<resource, board>>

SelectionNext ==
    \/ \E n \in Items :
          \/ OpenItem(n) \/ CloseItem(n) \/ EditItem(n)
          \/ \E t \in Threads : \/ AddComment(n, t)
                                \/ \E c \in Comments : DropComment(n, t, c)
    \/ \E options \in PickOptions : BeginPicking(options)
    \/ ReadItems \/ ChooseItems \/ ReadComments \/ ReturnItems \/ FailPicking

SelectionSpec == SelectionInit /\ [][SelectionNext]_selectionVars

-----------------------------------------------------------------------------
SelectionTypeOK == /\ resource \in {"issues", "pull_requests", "releases"}
                   /\ board \in Board
                   /\ picking \in Picking
                   /\ meddling \in 0..Meddling

\* docs/github-metadata-v1.md: "the limit applies after filtering and before
\* writing".  As long as no record comes or goes while the pages are read, what
\* is chosen is what matches, in order, each once, and if there is a limit the
\* first of these.
SelectionIsExact ==
    picking.at = "talk" /\ ~picking.moved =>
        LET wanted == {n \in Items :
                          /\ n \in board.open
                          /\ resource = "issues" => n \notin PullItems
                          /\ resource = "pull_requests" => n \in PullItems
                          /\ picking.options.since => n \in board.recent}
        IN /\ \A j, k \in DOMAIN picking.chosen : j < k => picking.chosen[j] < picking.chosen[k]
           /\ \A k \in DOMAIN picking.chosen : picking.chosen[k] \in wanted
           /\ Len(picking.chosen) = Kept(Cardinality(wanted))
           /\ \A n \in wanted :
                 \/ \E k \in DOMAIN picking.chosen : picking.chosen[k] = n
                 \/ \A k \in DOMAIN picking.chosen : picking.chosen[k] < n

\* Of a record that was chosen every comment has been read that was there when
\* the run began and is there still, in each thread that was asked for, unless
\* another comment of that thread was deleted meanwhile.
CommentsAreHeard ==
    picking.at = "talk" =>
        \A k \in DOMAIN picking.chosen, t \in picking.options.threads :
           LET n == picking.chosen[k] IN
           k < picking.place /\ <<n, t>> \notin picking.cut =>
              {c \in board.talk[n][t].kept : c <= picking.upto[n][t]} \subseteq picking.heard[k][t]
=============================================================================
