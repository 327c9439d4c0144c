--------------------------- MODULE GitHubMetadata ---------------------------
(***************************************************************************)
(* The github_metadata command: a listing of a repository's open records   *)
(* (issues, pull requests or releases), read page by page while people     *)
(* open, close and edit them, mirrored into an output directory by content *)
(* hash.  github_metadata/client.py and incremental.py, manifest_stale.py, *)
(* and the command's part of cli.py.                                       *)
(*                                                                         *)
(* A record is its number, and lists come newest first; its content, and   *)
(* so an artifact and a content hash, is a text.  GitHub is modelled from  *)
(* how the client uses it: a page is cut from the list as it is when it is *)
(* asked for, and the link to the next page is a page number, here the     *)
(* number of records on the pages before.  What is selected of a listing,  *)
(* and the comments, are GitHubSelection's.  One run at a time uses an     *)
(* output directory.                                                       *)
(***************************************************************************)
EXTENDS Naturals, Sequences, FiniteSets

CONSTANTS LastRecord,     \* bound on records
          LastText,       \* bound on texts
          PageSize,
          FlagChoices,    \* the combinations of options of a run
          TextsReturn,    \* a release carries no time of update: its text may
                          \* be again what it was
          Quota,          \* bound on changes and failures
          Torn            \* what a write that was cut short leaves

Records == 1..LastRecord
Texts == 1..LastText

ASSUME GitHubAssumption ==
    /\ LastRecord \in Nat \ {0} /\ LastText \in Nat \ {0}
    /\ PageSize \in Nat \ {0}
    /\ FlagChoices \subseteq SUBSET {"dry", "stale", "orphans"}
    /\ TextsReturn \in BOOLEAN
    /\ Quota \in Nat
    /\ Torn \notin Nat

VARIABLES tracker,        \* the repository's records
          output,         \* the output directory
          listing,        \* the run in progress
          quota           \* changes and failures still to come

ghVars == <<tracker, output, listing, quota>>

\* The texts listed for a record, one for each time it was listed.
Copies == [Records -> Seq(Texts)]
NoCopies == [n \in Records |-> <<>>]
Listed(copies) == {n \in Records : copies[n] # <<>>}
Last(s) == s[Len(s)]

Tracker == [last : 0..LastRecord, open : SUBSET Records, text : [Records -> Texts]]

\* File 0 is one that is not there; a manifest lists entries in good form.
Output == [file : [Records -> {0, Torn} \cup Texts],
           manifest : {"none", "torn", "whole"}, entries : Copies]

\* stayed are the records that were open all the time since the run began;
\* moved tells whether any was opened ("in") or closed ("out") since.
Listing == [at : {"idle", "list", "load", "write", "prune"},
            flags : SUBSET {"dry", "stale", "orphans"},
            from : Nat, copies : Copies, writes : SUBSET Records, prunes : SUBSET Records,
            stayed : SUBSET Records, moved : SUBSET {"in", "out"}]

NewListing(flags) ==
    [at |-> "list", flags |-> flags, from |-> 0, copies |-> NoCopies, writes |-> {},
     prunes |-> {}, stayed |-> tracker.open, moved |-> {}]

NoListing == [at |-> "idle", flags |-> {}, from |-> 0, copies |-> NoCopies, writes |-> {},
              prunes |-> {}, stayed |-> {}, moved |-> {}]

GHInit == /\ tracker \in [last : {LastRecord - 1}, open : {1..(LastRecord - 1)},
                          text : {[n \in Records |-> 1]}]
          /\ output = [file |-> [n \in Records |-> 0], manifest |-> "none", entries |-> NoCopies]
          /\ listing = NoListing
          /\ quota = Quota

UseQuota == quota > 0 /\ quota' = quota - 1

-----------------------------------------------------------------------------
(* The repository.                                                         *)

Arrive ==
    listing' = IF listing.at = "idle" THEN listing ELSE [listing EXCEPT !.moved = @ \cup {"in"}]

OpenRecord(n) ==
    /\ UseQuota
    /\ n = tracker.last + 1 /\ n \in Records
    /\ tracker' = [tracker EXCEPT !.last = n, !.open = @ \cup {n}]
    /\ Arrive
    /\ UNCHANGED output

\* The text of an issue or pull request has the time of its last change in it.
Retexted(n, t) == t # tracker.text[n] /\ (TextsReturn \/ t = tracker.text[n] + 1)

ReopenRecord(n) ==
    /\ UseQuota
    /\ n <= tracker.last /\ n \notin tracker.open
    /\ \E t \in Texts :
          /\ Retexted(n, t)
          /\ tracker' = [tracker EXCEPT !.open = @ \cup {n}, !.text[n] = t]
    /\ Arrive
    /\ UNCHANGED output

CloseRecord(n) ==
    /\ UseQuota
    /\ n \in tracker.open
    /\ tracker' = [tracker EXCEPT !.open = @ \ {n}]
    /\ listing' = IF listing.at = "idle" THEN listing
                  ELSE [listing EXCEPT !.moved = @ \cup {"out"}, !.stayed = @ \ {n}]
    /\ UNCHANGED output

EditRecord(n) ==
    /\ UseQuota
    /\ n \in tracker.open
    /\ \E t \in Texts :
          /\ Retexted(n, t)
          /\ tracker' = [tracker EXCEPT !.text[n] = t]
    /\ UNCHANGED <<output, listing>>

-----------------------------------------------------------------------------
(* A run.  The Fault operators are plausible bugs, which the runs notice   *)
(* in place of the definition each is named for.                           *)

BeginListing(flags) ==
    /\ listing.at = "idle"
    /\ listing' = NewListing(flags)
    /\ UNCHANGED <<tracker, output, quota>>

\* How many open records come before n in the list.
Before(n) == Cardinality({m \in tracker.open : m > n})

\* The page that GitHub makes of the list as it is.
OnPage(from) == {n \in tracker.open : from <= Before(n) /\ Before(n) < from + PageSize}

\* As for the children of a Confluence page, the client asks once.
FaultIsLastPage(from) == TRUE

\* There is no link to a page after it: the client follows each that there is.
IsLastPage(from) == from + PageSize >= Cardinality(tracker.open)

\* The loop of list_repository_issues, and its fellows: what is read is put in
\* order of number afterwards, and nothing is dropped.
ReadPage ==
    LET page == OnPage(listing.from) IN
    /\ listing.at = "list"
    /\ listing' = [listing EXCEPT
           !.copies = [n \in Records |-> IF n \in page THEN Append(@[n], tracker.text[n])
                                                       ELSE @[n]],
           !.from = @ + PageSize,
           !.at = IF IsLastPage(listing.from) THEN "load" ELSE "list"]
    /\ UNCHANGED <<tracker, output, quota>>

\* _load_previous_manifest_indexes refuses what is listed twice.
Loadable ==
    /\ output.manifest # "torn"
    /\ \A n \in Records : Len(output.entries[n]) <= 1

Written == {n \in Records : output.file[n] # 0}

FaultSame(n, t) == n \in Written /\ output.entries[n] # <<>>

\* classify_github_metadata_sync, for one of the entries planned.
Same(n, t) == n \in Written /\ output.entries[n] = <<t>>

FaultStaleFiles == Listed(output.entries) \cap Written

StaleFiles == (Listed(output.entries) \cap Written) \ Listed(listing.copies)
OrphanFiles == Written \ (Listed(listing.copies) \cup StaleFiles)

\* The manifest of the last run is read, and everything is decided.
PlanListing ==
    /\ listing.at = "load"
    /\ Loadable
    /\ listing' = IF "dry" \in listing.flags THEN NoListing ELSE
         [listing EXCEPT
           !.at = "write",
           !.writes = {n \in Records : \E i \in DOMAIN listing.copies[n] :
                                           ~Same(n, listing.copies[n][i])},
           !.prunes = (IF "stale" \in listing.flags THEN StaleFiles ELSE {})
                      \cup (IF "orphans" \in listing.flags THEN OrphanFiles ELSE {})]
    /\ UNCHANGED <<tracker, output, quota>>

RefuseManifest ==
    /\ listing.at = "load" /\ ~Loadable
    /\ listing' = NoListing
    /\ UNCHANGED <<tracker, output, quota>>

FaultWriteText(n) == listing.copies[n][1]

\* Of a record that was listed twice, record_markdowns keeps the last text.
WriteText(n) == Last(listing.copies[n])

WriteRecord(n) ==
    /\ listing.at = "write" /\ n \in listing.writes
    /\ output' = [output EXCEPT !.file[n] = WriteText(n)]
    /\ listing' = [listing EXCEPT !.writes = @ \ {n}]
    /\ UNCHANGED <<tracker, quota>>

WriteListing ==
    /\ listing.at = "write" /\ listing.writes = {}
    /\ output' = [output EXCEPT !.manifest = "whole", !.entries = listing.copies]
    /\ listing' = [listing EXCEPT !.at = "prune"]
    /\ UNCHANGED <<tracker, quota>>

PruneFile(n) ==
    /\ listing.at = "prune" /\ n \in listing.prunes
    /\ output' = [output EXCEPT !.file[n] = 0]
    /\ listing' = [listing EXCEPT !.prunes = @ \ {n}]
    /\ UNCHANGED <<tracker, quota>>

FinishListing ==
    /\ listing.at = "prune" /\ listing.prunes = {}
    /\ listing' = NoListing
    /\ UNCHANGED <<tracker, output, quota>>

\* The run dies, or a request, a write or an unlink fails.  It may be in the
\* middle of a write, of an artifact or of the manifest.
FailListing ==
    /\ UseQuota
    /\ listing.at # "idle"
    /\ listing' = NoListing
    /\ \/ UNCHANGED output
       \/ /\ listing.at = "write"
          /\ \/ \E n \in listing.writes : output' = [output EXCEPT !.file[n] = Torn]
             \/ /\ listing.writes = {}
                /\ output' = [output EXCEPT !.manifest = "torn", !.entries = NoCopies]
    /\ UNCHANGED tracker

\* "Fix or remove the manifest and try again."
DropManifest ==
    /\ listing.at = "idle" /\ ~Loadable
    /\ output' = [output EXCEPT !.manifest = "none", !.entries = NoCopies]
    /\ UNCHANGED <<tracker, listing, quota>>

GHNext ==
    \/ \E flags \in FlagChoices : BeginListing(flags)
    \/ ReadPage \/ PlanListing \/ RefuseManifest \/ WriteListing \/ FinishListing
    \/ FailListing \/ DropManifest
    \/ \E n \in Records : \/ OpenRecord(n) \/ ReopenRecord(n) \/ CloseRecord(n) \/ EditRecord(n)
                          \/ WriteRecord(n) \/ PruneFile(n)

GHSpec == GHInit /\ [][GHNext]_ghVars

-----------------------------------------------------------------------------
GHTypeOK == /\ tracker \in Tracker
            /\ output \in Output
            /\ listing \in Listing
            /\ quota \in 0..Quota

\* A listing read page by page while the list changes: as long as nothing is
\* opened meanwhile no record is listed twice, and as long as nothing is closed
\* every record that stays open is listed.
ListingIsExact ==
    listing.at = "load" =>
        /\ "in" \notin listing.moved => \A n \in Records : Len(listing.copies[n]) <= 1
        /\ "out" \notin listing.moved => listing.stayed \subseteq Listed(listing.copies)

\* A run deletes no artifact of a record that was open all the time, unless
\* another was closed meanwhile.
PrunesWhatLeft ==
    [][\A n \in listing.stayed :
          output.file[n] # 0 /\ output'.file[n] = 0 => "out" \in listing.moved]_ghVars

\* docs/github-metadata-v1.md: "content_hash: SHA-256 of the normalized artifact
\* content".  When a run finishes, what the manifest says of a record last is
\* what its artifact holds, whatever died before it.
HashIsOfArtifact ==
    [][FinishListing => \A n \in Listed(output.entries) :
                            output.file[n] = Last(output.entries[n])]_ghVars

\* docs/github-metadata-v1.md: "one manifest entry per acquired resource".
OneEntryPerRecord == \A n \in Records : Len(output.entries[n]) <= 1
=============================================================================
