---------------------------- MODULE SpaceListing ----------------------------
(***************************************************************************)
(* The pages of a Confluence space, listed with list_real_space_page_ids   *)
(* of confluence/client.py while pages are created, restored, moved and    *)
(* removed.  What a run then fetches and writes is ManifestSync's.         *)
(*                                                                         *)
(* The wiki is modelled from how the client asks it: it cuts a page of     *)
(* results from the list as it is at the time, in the order of page        *)
(* numbers, and links to the results that follow by how many come before.  *)
(***************************************************************************)
EXTENDS Naturals, FiniteSets

CONSTANTS LastSpacePage,  \* bound on pages
          ResultLimit,    \* page_limit, or less if the wiki wants it so
          SpaceQuota      \* bound on changes of the space

SpacePages == 1..LastSpacePage

ASSUME SpaceAssumption == /\ LastSpacePage \in Nat
                          /\ ResultLimit \in Nat \ {0}
                          /\ SpaceQuota \in Nat

VARIABLES space,          \* the pages that are in it
          enumerating,    \* the run in progress
          spaceQuota

spaceVars == <<space, enumerating, spaceQuota>>

\* start is where the next results start, or how many were asked for; stayed are
\* the pages that have been there all the time since the run began, seen those
\* that were there at some time, and gone says how many were taken away.
Enumerating == [at : {"idle", "list", "done"}, start : Nat, ids : SUBSET SpacePages,
                stayed : SUBSET SpacePages, seen : SUBSET SpacePages, gone : 0..SpaceQuota]

NotEnumerating == [at |-> "idle", start |-> 0, ids |-> {}, stayed |-> {}, seen |-> {}, gone |-> 0]

SpaceInit == /\ space \in SUBSET SpacePages
             /\ enumerating = NotEnumerating
             /\ spaceQuota = SpaceQuota

EnterSpace(p) ==
    /\ spaceQuota > 0 /\ spaceQuota' = spaceQuota - 1
    /\ p \notin space
    /\ space' = space \cup {p}
    /\ enumerating' = IF enumerating.at = "idle" THEN enumerating
                      ELSE [enumerating EXCEPT !.seen = @ \cup {p}]

LeaveSpace(p) ==
    /\ spaceQuota > 0 /\ spaceQuota' = spaceQuota - 1
    /\ p \in space
    /\ space' = space \ {p}
    /\ enumerating' = IF enumerating.at = "idle" THEN enumerating
                      ELSE [enumerating EXCEPT !.stayed = @ \ {p}, !.gone = @ + 1]

-----------------------------------------------------------------------------
BeginEnumerating ==
    /\ enumerating.at = "idle"
    /\ enumerating' = [NotEnumerating EXCEPT !.at = "list", !.stayed = space, !.seen = space]
    /\ UNCHANGED <<space, spaceQuota>>

PagesBefore(p) == Cardinality({q \in space : q < p})

\* The results of one request.
Results(start) ==
    {p \in space : start <= PagesBefore(p) /\ PagesBefore(p) < start + ResultLimit}

FaultNextStart == enumerating.start + ResultLimit + 1

\* The link to what follows.
NextStart == enumerating.start + ResultLimit

ReadResults ==
    /\ enumerating.at = "list"
    /\ enumerating' = [enumerating EXCEPT
                          !.ids = @ \cup Results(enumerating.start), !.start = NextStart,
                          !.at = IF NextStart >= Cardinality(space) THEN "done" ELSE "list"]
    /\ UNCHANGED <<space, spaceQuota>>

ReturnPageIds ==
    /\ enumerating.at = "done"
    /\ enumerating' = NotEnumerating
    /\ UNCHANGED <<space, spaceQuota>>

\* A request fails, or its answer is refused: something in it is no page, or its
\* link is one that was followed already, or leads outside the wiki.
FailEnumerating ==
    /\ enumerating.at = "list"
    /\ enumerating' = NotEnumerating
    /\ UNCHANGED <<space, spaceQuota>>

SpaceNext ==
    \/ \E p \in SpacePages : EnterSpace(p) \/ LeaveSpace(p)
    \/ BeginEnumerating \/ ReadResults \/ ReturnPageIds \/ FailEnumerating

SpaceSpec == SpaceInit /\ [][SpaceNext]_spaceVars

-----------------------------------------------------------------------------
SpaceTypeOK == /\ space \in SUBSET SpacePages
               /\ enumerating \in Enumerating
               /\ spaceQuota \in 0..SpaceQuota

\* "List all page IDs in one Confluence space in deterministic order."  What is
\* listed was in the space at some time while it was listed; of the pages that were
\* there all the time no more are missed than others were taken away meanwhile,
\* and if none was, none.
SpaceIsListed ==
    enumerating.at = "done" =>
        /\ enumerating.ids \subseteq enumerating.seen
        /\ Cardinality(enumerating.stayed \ enumerating.ids) <= enumerating.gone
=============================================================================
