---------------------------- MODULE ManifestSync ----------------------------
(***************************************************************************)
(* Incremental synchronisation of a Confluence space or tree into an       *)
(* output directory: the confluence command of cli.py, with                *)
(* classify_incremental_sync, manifest.py, manifest_stale.py and           *)
(* confluence/fetch_cache.py.  A single page is a tree of depth 0 (except  *)
(* that a dry run fetches its content to show it).                         *)
(*                                                                         *)
(* A run reads the manifest of the last run, looks at every page of its    *)
(* scope, plans which artifacts to write, fetches and writes those, writes *)
(* a new manifest, and prunes artifacts that the manifest no longer lists. *)
(* Artifacts and manifest are written in place.  The source changes at any *)
(* moment, the run may die at any moment, and its operator may delete      *)
(* files between runs.  One run at a time uses an output directory.        *)
(*                                                                         *)
(* A page is its version, which the wiki only ever increases; an artifact  *)
(* is the version it was rendered from.  Version 0 is "no such page" or    *)
(* "not listed".  Pages are taken in no particular order.  A write that is *)
(* cut short ends the run, so that it is one step with the end of the run. *)
(***************************************************************************)
EXTENDS Naturals

CONSTANTS Pages,
          Scopes,          \* what a run may be asked for: pages that may be
                           \* found, and roots that have to be
          FlagSets,        \* the combinations of options of a run
          UseFetchCache,   \* whether runs have a fetch cache
          Deletable,       \* artifacts that the operator may delete
          Budget,          \* bound on edits, deletions and failures
          Missing, Partial \* a file that is not there, and a truncated one

ASSUME ConstantsAssumption ==
    /\ Scopes \subseteq [pages : SUBSET Pages, roots : SUBSET Pages]
    /\ Deletable \subseteq Pages
    /\ FlagSets \subseteq SUBSET {"dry", "refresh", "stale", "orphans"}
    /\ UseFetchCache \in BOOLEAN
    /\ Budget \in Nat
    /\ Missing \notin Nat /\ Partial \notin Nat /\ Missing # Partial

Manifests == [Pages -> Nat]

ASSUME FilesAssumption == Missing \notin Manifests /\ Partial \notin Manifests

VARIABLES live,         \* the pages that exist
          version,      \* their current versions
          artifact,     \* pages/<id>.md of each page
          manifest,     \* manifest.json: the version it lists for each page
          cache,        \* the version in the fetch cache, 0 for none
          pc, run,      \* the run in progress
          budget        \* disturbances still to come

source == <<live, version>>
vars == <<live, version, artifact, manifest, cache, pc, run, budget>>

Run == [flags : SUBSET {"dry", "refresh", "stale", "orphans"},
        prev : Manifests \cup {Missing},   \* the manifest as it was read
        roots : SUBSET Pages,              \* pages that have to exist
        todo : SUBSET Pages,               \* pages still to look at
        seen : [Pages -> Nat],             \* versions found
        content : [Pages -> Nat],          \* versions fetched
        writes : SUBSET Pages,             \* artifacts to write
        stale : SUBSET Pages,              \* artifacts to prune
        orphans : SUBSET Pages]

NewRun(flags, prev, scope) ==
    [flags |-> flags, prev |-> prev, roots |-> scope.roots, todo |-> scope.pages,
     seen |-> [p \in Pages |-> 0], content |-> [p \in Pages |-> 0],
     writes |-> {}, stale |-> {}, orphans |-> {}]

NoRun == NewRun({}, Missing, [pages |-> {}, roots |-> {}])

Init == /\ live \in SUBSET Pages
        /\ version = [p \in Pages |-> 1]
        /\ artifact = [p \in Pages |-> Missing]
        /\ manifest = Missing
        /\ cache = [p \in Pages |-> 0]
        /\ pc = "idle" /\ run = NoRun
        /\ budget = Budget

Ends == pc' = "idle" /\ run' = NoRun
Disturbance == budget > 0 /\ budget' = budget - 1

-----------------------------------------------------------------------------
(* The wiki and the operator.                                              *)

Edit(p) ==
    /\ Disturbance
    /\ p \in live
    /\ version' = [version EXCEPT ![p] = version[p] + 1]
    /\ UNCHANGED <<live, artifact, manifest, cache, pc, run>>

\* A page is created, moved into the space or tree, restored, moved out or
\* deleted.
Come(p) ==
    /\ Disturbance
    /\ p \notin live
    /\ live' = live \cup {p}
    /\ UNCHANGED <<version, artifact, manifest, cache, pc, run>>

Go(p) ==
    /\ Disturbance
    /\ p \in live
    /\ live' = live \ {p}
    /\ UNCHANGED <<version, artifact, manifest, cache, pc, run>>

Delete(p) ==
    /\ Disturbance
    /\ pc = "idle" /\ p \in Deletable /\ artifact[p] # Missing
    /\ artifact' = [artifact EXCEPT ![p] = Missing]
    /\ UNCHANGED <<live, version, manifest, cache, pc, run>>

\* "Fix or remove the manifest and try again."
RemoveManifest ==
    /\ pc = "idle" /\ manifest = Partial
    /\ manifest' = Missing
    /\ UNCHANGED <<live, version, artifact, cache, pc, run, budget>>

-----------------------------------------------------------------------------
(* A run.  The Fault operators are plausible bugs seeded in place of the   *)
(* definition each is named for, which the runs notice.                    *)

FaultStart(scope, flags) ==
    /\ pc = "idle"
    /\ pc' = "discover"
    /\ run' = NewRun(flags, manifest, scope)
    /\ UNCHANGED <<live, version, artifact, manifest, cache, budget>>

\* load_previous_manifest_index raises for a manifest it can not read.
Start(scope, flags) ==
    /\ pc = "idle"
    /\ manifest # Partial
    /\ pc' = "discover"
    /\ run' = NewRun(flags, manifest, scope)
    /\ UNCHANGED <<live, version, artifact, manifest, cache, budget>>

Current(p) == IF p \in live THEN version[p] ELSE 0

\* store_page, after a fetch from the wiki: it may fail, and is not missed.
Stored(p) == IF UseFetchCache THEN {cache, [cache EXCEPT ![p] = version[p]]} ELSE {cache}

\* Listing and first fetch of a page: its summary, or the whole page if there
\* was no manifest to compare it with.  The space listing and the children of
\* a page may turn out to be without it; the root of a tree may not.  (A page
\* that goes between its listing and its fetch ends the run, as in Fail.)
Observe(p) ==
    LET whole == run.prev = Missing IN
    /\ pc = "discover"
    /\ p \in run.todo
    /\ p \in run.roots => p \in live
    /\ run' = [run EXCEPT !.todo = run.todo \ {p},
                          !.seen[p] = Current(p),
                          !.content[p] = IF whole THEN Current(p) ELSE 0]
    /\ cache' \in IF whole /\ p \in live THEN Stored(p) ELSE {cache}
    /\ UNCHANGED <<live, version, artifact, manifest, pc, budget>>

Listed(m) == {p \in Pages : m \in Manifests /\ m[p] # 0}
Present == {p \in Pages : artifact[p] # Missing}
Seen(r) == {p \in Pages : r.seen[p] # 0}

FaultUnchanged(r, p) == p \in Listed(r.prev) /\ p \in Present
FaultUncheckedUnchanged(r, p) == p \in Listed(r.prev) /\ r.prev[p] = r.seen[p]

\* classify_incremental_sync: the path of an artifact is that of its page.
Unchanged(r, p) ==
    /\ p \in Listed(r.prev)
    /\ p \in Present
    /\ r.prev[p] = r.seen[p]

FaultStale(r) == Listed(r.prev) \cap Present

\* find_stale_artifacts and find_orphaned_artifacts.
Stale(r) == (Listed(r.prev) \cap Present) \ Seen(r)
Orphans(r) == Present \ (Seen(r) \cup Stale(r))

Planned(r) ==
    [r EXCEPT !.writes = {p \in Seen(r) : ~Unchanged(r, p)},
              !.stale = IF "stale" \in r.flags THEN Stale(r) ELSE {},
              !.orphans = IF "orphans" \in r.flags THEN Orphans(r) ELSE {}]

\* Nothing but a plan comes of a dry run.
Plan ==
    /\ pc = "discover"
    /\ run.todo = {}
    /\ IF "dry" \in run.flags
       THEN Ends
       ELSE pc' = "work" /\ run' = Planned(run)
    /\ UNCHANGED <<live, version, artifact, manifest, cache, budget>>

FaultHit(p) == UseFetchCache /\ "refresh" \notin run.flags /\ cache[p] # 0

\* load_page: the entry is of the version the summary reported.
Hit(p) == UseFetchCache /\ "refresh" \notin run.flags /\ cache[p] = run.seen[p]

Unfetched == {p \in run.writes : run.content[p] = 0}

Fetch(p) ==
    /\ pc = "work"
    /\ p \in Unfetched
    /\ \/ /\ Hit(p)
          /\ run' = [run EXCEPT !.content[p] = cache[p]]
          /\ UNCHANGED cache
       \/ /\ ~Hit(p) /\ p \in live
          /\ run' = [run EXCEPT !.content[p] = version[p]]
          /\ cache' \in Stored(p)
    /\ UNCHANGED <<live, version, artifact, manifest, pc, budget>>

\* write_markdown
Write(p) ==
    /\ pc = "work"
    /\ Unfetched = {} /\ p \in run.writes
    /\ artifact' = [artifact EXCEPT ![p] = run.content[p]]
    /\ run' = [run EXCEPT !.writes = run.writes \ {p}]
    /\ UNCHANGED <<live, version, manifest, cache, pc, budget>>

FaultWriteManifest ==
    /\ pc = "work"
    /\ Unfetched = {} /\ manifest # run.seen
    /\ manifest' = run.seen
    /\ pc' = IF run.writes = {} THEN "prune" ELSE "work"
    /\ UNCHANGED <<live, version, artifact, cache, run, budget>>

\* write_manifest lists what was seen, the pages skipped and those written.
WriteManifest ==
    /\ pc = "work"
    /\ run.writes = {}
    /\ manifest' = run.seen
    /\ pc' = "prune"
    /\ UNCHANGED <<live, version, artifact, cache, run, budget>>

\* prune_stale_artifacts and prune_orphaned_artifacts, file by file.
PruneStale(p) ==
    /\ pc = "prune"
    /\ p \in run.stale
    /\ artifact' = [artifact EXCEPT ![p] = Missing]
    /\ run' = [run EXCEPT !.stale = run.stale \ {p}]
    /\ UNCHANGED <<live, version, manifest, cache, pc, budget>>

PruneOrphan(p) ==
    /\ pc = "prune"
    /\ run.stale = {} /\ p \in run.orphans
    /\ artifact' = [artifact EXCEPT ![p] = Missing]
    /\ run' = [run EXCEPT !.orphans = run.orphans \ {p}]
    /\ UNCHANGED <<live, version, manifest, cache, pc, budget>>

Finish ==
    /\ pc = "prune"
    /\ run.stale = {} /\ run.orphans = {}
    /\ Ends
    /\ UNCHANGED <<live, version, artifact, manifest, cache, budget>>

\* The wiki answers that a page is not there: the run ends with an error.
NotFound(p) ==
    /\ p \notin live
    /\ \/ pc = "discover" /\ p \in run.todo \cap run.roots
       \/ pc = "work" /\ p \in Unfetched /\ ~Hit(p)
    /\ Ends
    /\ UNCHANGED <<live, version, artifact, manifest, cache, budget>>

\* The run dies, or a request, a read or an unlink fails: it ends where it is.
Fail ==
    /\ Disturbance
    /\ pc # "idle"
    /\ Ends
    /\ UNCHANGED <<live, version, artifact, manifest, cache>>

\* The same within a write: the file is truncated.
FailWrite(p) ==
    /\ Disturbance
    /\ pc = "work"
    /\ Unfetched = {} /\ p \in run.writes
    /\ artifact' = [artifact EXCEPT ![p] = Partial]
    /\ Ends
    /\ UNCHANGED <<live, version, manifest, cache>>

FailManifest ==
    /\ Disturbance
    /\ pc = "work"
    /\ run.writes = {}
    /\ manifest' = Partial
    /\ Ends
    /\ UNCHANGED <<live, version, artifact, cache>>

Begin == \E scope \in Scopes, flags \in FlagSets : Start(scope, flags)

\* What a run does by itself.
Advance ==
    \/ Plan \/ WriteManifest \/ Finish
    \/ \E p \in Pages : \/ Observe(p) \/ Fetch(p) \/ NotFound(p) \/ Write(p)
                        \/ PruneStale(p) \/ PruneOrphan(p)

Disturb ==
    \/ Fail \/ FailManifest
    \/ \E p \in Pages : Edit(p) \/ Come(p) \/ Go(p) \/ Delete(p) \/ FailWrite(p)

Next == Begin \/ Advance \/ Disturb \/ RemoveManifest

Spec == Init /\ [][Next]_vars

\* The process is scheduled; the operator starts real runs again and again and
\* removes a manifest that the tool asks him to remove.
FairSpec ==
    /\ Spec
    /\ WF_vars(Advance)
    /\ WF_vars(RemoveManifest)
    /\ \A scope \in Scopes : \A flags \in FlagSets :
          "dry" \notin flags => SF_vars(Start(scope, flags))

-----------------------------------------------------------------------------
TypeOK == /\ live \subseteq Pages
          /\ version \in [Pages -> Nat \ {0}]
          /\ artifact \in [Pages -> Nat \cup {Missing, Partial}]
          /\ manifest \in Manifests \cup {Missing, Partial}
          /\ cache \in [Pages -> Nat]
          /\ pc \in {"idle", "discover", "work", "prune"}
          /\ run \in Run
          /\ budget \in 0..Budget

\* docs/confluence-incremental-sync.md: "file existence prevents a stale
\* manifest from suppressing a needed write".  Whenever a run would skip a page
\* as unchanged, its artifact is there as a whole, in the current version: at
\* every moment, after any number of runs that died anywhere.
SkippedIsCurrent ==
    \A p \in Listed(manifest) \cap Present :
        manifest[p] = version[p] => artifact[p] = version[p]

\* No run replaces an artifact with an older version of its page, neither from
\* a summary that is out of date by now nor from the fetch cache.
NeverOlder ==
    [][\A p \in Pages : artifact[p] \in Nat /\ artifact'[p] \in Nat
                            => artifact[p] <= artifact'[p]]_vars

\* A run never deletes a file that the manifest on disk lists, so that dying
\* in the middle of pruning leaves no entry without its artifact.
PrunesUnlisted ==
    [][\A p \in Pages : pc # "idle" /\ artifact[p] # Missing /\ artifact'[p] = Missing
                            => p \notin Listed(manifest)]_vars

\* Under a manifest that can not be read, no run writes or deletes a file.
UnreadableStops ==
    [][manifest = Partial /\ artifact' # artifact => pc = "idle"]_vars

\* A run that finishes leaves a manifest of exactly the pages it saw, and an
\* artifact of each of them, whatever earlier runs left half done; if it prunes
\* stale and orphaned files, there is no other file.
FinishedIsComplete ==
    [][Finish =>
          /\ manifest = run.seen
          /\ Seen(run) \subseteq Present
          /\ {"stale", "orphans"} \subseteq run.flags => Present = Seen(run)]_vars

\* ... and the artifacts are at least as new as what it saw.
FinishedIsFresh ==
    [][Finish => \A p \in Seen(run) : artifact[p] \in Nat /\ artifact[p] >= run.seen[p]]_vars

\* When the source has come to rest and runs no longer fail, the output
\* directory becomes and stays a mirror of it.  (For one scope.)
Mirror == /\ Listed(manifest) = live
          /\ \A p \in live : manifest[p] = version[p] /\ artifact[p] = version[p]

Converges == <>[]Mirror
=============================================================================
