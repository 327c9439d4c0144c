------------------------- MODULE ManifestSyncProofs -------------------------
(***************************************************************************)
(* What holds of ManifestSync for every set of pages and scopes, every     *)
(* combination of options, and any number of edits, crashes and runs.      *)
(***************************************************************************)
EXTENDS ManifestSync, TLAPS

Flags == {"dry", "refresh", "stale", "orphans"}

-----------------------------------------------------------------------------
(* Type correctness.                                                       *)

LEMMA NewRunType ==
    ASSUME NEW flags \in SUBSET Flags, NEW prev \in Manifests \cup {Missing},
           NEW scope, scope.pages \in SUBSET Pages, scope.roots \in SUBSET Pages
    PROVE  NewRun(flags, prev, scope) \in Run
BY DEF NewRun, Run, Manifests, Flags

LEMMA NoRunType == NoRun \in Run
BY NewRunType DEF NoRun, Flags

LEMMA ScopeType ==
    ASSUME NEW scope \in Scopes, NEW flags \in FlagSets
    PROVE  /\ scope.pages \in SUBSET Pages /\ scope.roots \in SUBSET Pages
           /\ flags \in SUBSET Flags
BY ConstantsAssumption DEF Flags

LEMMA CurrentType ==
    ASSUME TypeOK, NEW p \in Pages
    PROVE  Current(p) \in Nat /\ Current(p) <= version[p]
BY DEF TypeOK, Current

LEMMA StoredType ==
    ASSUME TypeOK, NEW p \in Pages
    PROVE  Stored(p) \subseteq [Pages -> Nat]
BY DEF TypeOK, Stored

LEMMA PlannedType ==
    ASSUME NEW r \in Run
    PROVE  Planned(r) \in Run
<1>1. /\ {p \in Seen(r) : ~Unchanged(r, p)} \subseteq Pages
      /\ Stale(r) \subseteq Pages /\ Orphans(r) \subseteq Pages
  BY DEF Seen, Stale, Orphans, Present
<1>2. QED
  BY <1>1 DEF Planned, Run

LEMMA StepType ==
    ASSUME TypeOK, [Next]_vars
    PROVE  TypeOK'
<1>0. ConstantsAssumption
  BY ConstantsAssumption
<1>1. ASSUME Disturbance PROVE budget' \in 0..Budget
  BY <1>0, <1>1 DEF Disturbance, TypeOK
<1>2. ASSUME NEW scope \in Scopes, NEW flags \in FlagSets, Start(scope, flags) PROVE TypeOK'
  BY <1>2, ScopeType, NewRunType DEF Start, TypeOK
<1>3. ASSUME Plan PROVE TypeOK'
  BY <1>3, NoRunType, PlannedType DEF Plan, Ends, TypeOK
<1>4. ASSUME NEW p \in Pages, Observe(p) PROVE TypeOK'
  BY <1>4, CurrentType, StoredType DEF Observe, TypeOK, Run
<1>5. ASSUME NEW p \in Pages, Fetch(p) PROVE TypeOK'
  <2>1. PICK v \in Nat : run' = [run EXCEPT !.content[p] = v]
    BY <1>5 DEF Fetch, TypeOK
  <2>2. run' \in Run
    BY <2>1 DEF TypeOK, Run
  <2>3. cache' \in [Pages -> Nat]
    BY <1>5, StoredType DEF Fetch, TypeOK
  <2>4. QED
    BY <1>5, <2>2, <2>3 DEF Fetch, TypeOK
<1>6. ASSUME NEW p \in Pages, Write(p) PROVE TypeOK'
  BY <1>6 DEF Write, TypeOK, Run
<1>7. ASSUME NEW p \in Pages, PruneStale(p) \/ PruneOrphan(p) PROVE TypeOK'
  BY <1>7 DEF PruneStale, PruneOrphan, TypeOK, Run
<1>8. ASSUME WriteManifest PROVE TypeOK'
  BY <1>8 DEF WriteManifest, TypeOK, Run, Manifests
<1>9. ASSUME NEW p \in Pages, Finish \/ NotFound(p) PROVE TypeOK'
  BY <1>9, NoRunType DEF Finish, NotFound, Ends, TypeOK
<1>10. ASSUME Fail \/ FailManifest PROVE TypeOK'
  BY <1>1, <1>10, NoRunType DEF Fail, FailManifest, Ends, TypeOK
<1>11. ASSUME NEW p \in Pages, FailWrite(p) PROVE TypeOK'
  BY <1>1, <1>11, NoRunType DEF FailWrite, Ends, TypeOK
<1>12. ASSUME NEW p \in Pages, Edit(p) \/ Come(p) \/ Go(p) \/ Delete(p) PROVE TypeOK'
  BY <1>1, <1>12 DEF Edit, Come, Go, Delete, TypeOK
<1>13. ASSUME RemoveManifest PROVE TypeOK'
  BY <1>13 DEF RemoveManifest, TypeOK
<1>14. ASSUME Finish PROVE TypeOK'
  BY <1>14, NoRunType DEF Finish, Ends, TypeOK
<1>15. CASE UNCHANGED vars
  BY <1>15 DEF vars, TypeOK
<1>16. QED
  BY <1>2, <1>3, <1>4, <1>5, <1>6, <1>7, <1>8, <1>9, <1>10, <1>11, <1>12, <1>13,
     <1>14, <1>15 DEF Next, Begin, Advance, Disturb

LEMMA InitType == Init => TypeOK
BY NoRunType, ConstantsAssumption DEF Init, TypeOK

\* TypeOK, the type invariant of an output directory and of the run on it.
THEOREM TypeCorrect == Spec => []TypeOK
<1>1. TypeOK /\ [Next]_vars => TypeOK'
  BY StepType
<1>2. QED
  BY <1>1, InitType, PTL DEF Spec

-----------------------------------------------------------------------------
(* The invariant that holds even if the operator deletes artifacts.        *)

\* The wiki is ahead of everything that was read from it.
Behind(p) ==
    /\ run.seen[p] <= version[p]
    /\ run.content[p] <= version[p]
    /\ cache[p] <= version[p]
    /\ artifact[p] \in Nat => artifact[p] <= version[p]
    /\ p \in Listed(manifest) => manifest[p] <= version[p]

\* What a run fetched is not older than what it saw.
Fetched(p) == run.content[p] # 0 => run.content[p] >= run.seen[p]

\* What a run saw is not older than the file it has yet to write, nor than the
\* entry of the manifest it has yet to replace.
Ahead(p) ==
    pc \in {"discover", "work"} /\ p \in Seen(run) =>
        /\ p \in Listed(manifest) => manifest[p] <= run.seen[p]
        /\ pc = "discover" \/ p \in run.writes
              => (artifact[p] \in Nat => artifact[p] <= run.seen[p])

\* The manifest a run compares with is the one on disk.
OwnManifest == pc \in {"discover", "work"} => manifest = run.prev

\* What is to be pruned was not seen, and covers what was not if asked to.
PruneList ==
    /\ (run.stale \cup run.orphans) \cap Seen(run) = {}
    /\ {"stale", "orphans"} \subseteq run.flags
          => Present \ Seen(run) \subseteq run.stale \cup run.orphans

\* What a run writes it saw; what it does not write is there, and what it
\* writes is not what an entry of the manifest and a file already hold.
WriteList ==
    /\ run.writes \subseteq Seen(run)
    /\ Seen(run) \ run.writes \subseteq Present
    /\ \A p \in run.writes : p \in Listed(manifest) \cap Present
                                => manifest[p] # run.seen[p]

Order ==
    /\ pc = "work" => PruneList /\ WriteList
    /\ pc = "prune" => PruneList /\ manifest = run.seen /\ Seen(run) \subseteq Present

SyncInv == /\ TypeOK
           /\ OwnManifest
           /\ Order
           /\ \A p \in Pages : Behind(p) /\ Fetched(p) /\ Ahead(p)

LEMMA NoRunFacts == /\ NoRun.seen = [p \in Pages |-> 0]
                    /\ NoRun.content = [p \in Pages |-> 0]
                    /\ Seen(NoRun) = {}
BY DEF NoRun, NewRun, Seen

\* A run that ends where it is leaves nothing to check about itself.
LEMMA EndsSync ==
    ASSUME SyncInv, TypeOK', Ends,
           \A p \in Pages : /\ version'[p] = version[p]
                            /\ cache'[p] = cache[p]
                            /\ artifact'[p] \in Nat => artifact'[p] = artifact[p]
                            /\ p \in Listed(manifest') => manifest'[p] <= version[p]
    PROVE  SyncInv'
<1>1. run' = NoRun /\ pc' = "idle"
  BY DEF Ends
<1>2. ASSUME NEW p \in Pages PROVE Behind(p)' /\ Fetched(p)' /\ Ahead(p)'
  <2>1. version[p] \in Nat
    BY DEF SyncInv, TypeOK
  <2>2. run'.seen[p] = 0 /\ run'.content[p] = 0
    BY <1>1, NoRunFacts
  <2>3. Behind(p)
    BY DEF SyncInv
  <2>4. Behind(p)'
    BY <2>1, <2>2, <2>3 DEF Behind, Listed
  <2>5. QED
    BY <1>1, <2>2, <2>4 DEF Fetched, Ahead
<1>3. QED
  BY <1>1, <1>2 DEF SyncInv, OwnManifest, Order

LEMMA FailSync ==
    ASSUME SyncInv, TypeOK',
           \/ Fail \/ FailManifest \/ Finish
           \/ \E q \in Pages : FailWrite(q) \/ NotFound(q)
    PROVE  SyncInv'
<1>1. Ends /\ version' = version /\ cache' = cache
  BY DEF Fail, FailManifest, Finish, FailWrite, NotFound
<1>2. \A p \in Pages : p \in Listed(manifest') => manifest'[p] <= version[p]
  <2>1. manifest' = manifest \/ manifest' = Partial
    BY DEF Fail, FailManifest, Finish, FailWrite, NotFound
  <2>2. Listed(Partial) = {}
    BY FilesAssumption DEF Listed
  <2>3. QED
    BY <2>1, <2>2 DEF SyncInv, Behind
<1>3. \A p \in Pages : artifact'[p] \in Nat => artifact'[p] = artifact[p]
  BY ConstantsAssumption DEF Fail, FailManifest, Finish, FailWrite, NotFound, SyncInv, TypeOK
<1>4. QED
  BY <1>1, <1>2, <1>3, EndsSync

LEMMA OutsideSync ==
    ASSUME SyncInv, TypeOK',
           RemoveManifest \/ \E q \in Pages : Edit(q) \/ Come(q) \/ Go(q) \/ Delete(q)
    PROVE  SyncInv'
<1>1. CASE \E q \in Pages : Edit(q) \/ Come(q) \/ Go(q)
  <2>1. UNCHANGED <<artifact, manifest, cache, pc, run>>
    BY <1>1 DEF Edit, Come, Go
  <2>2. \A p \in Pages : version[p] \in Nat /\ version'[p] \in Nat /\ version[p] <= version'[p]
    BY <1>1 DEF Edit, Come, Go, SyncInv, TypeOK
  <2>3. ASSUME NEW p \in Pages PROVE Behind(p)' /\ Fetched(p)' /\ Ahead(p)'
    <3>1. Behind(p) /\ Fetched(p) /\ Ahead(p)
      BY DEF SyncInv
    <3>2. /\ run.seen[p] \in Nat /\ run.content[p] \in Nat /\ cache[p] \in Nat
          /\ p \in Listed(manifest) => manifest[p] \in Nat
      BY DEF SyncInv, TypeOK, Run, Listed, Manifests
    <3>3. Behind(p)'
      BY <2>1, <2>2, <3>1, <3>2 DEF Behind, Listed
    <3>4. Fetched(p)' /\ Ahead(p)'
      BY <2>1, <3>1 DEF Fetched, Ahead, Listed, Seen
    <3>5. QED
      BY <3>3, <3>4
  <2>4. OwnManifest' /\ Order'
    BY <2>1 DEF SyncInv, OwnManifest, Order, PruneList, WriteList, Listed, Seen, Present
  <2>5. QED
    BY <2>3, <2>4 DEF SyncInv
<1>2. CASE RemoveManifest \/ \E q \in Pages : Delete(q)
  <2>1. pc = "idle" /\ UNCHANGED <<version, cache, pc, run>>
    BY <1>2 DEF Delete, RemoveManifest
  <2>2. Listed(Missing) = {}
    BY FilesAssumption DEF Listed
  <2>3. \A p \in Pages : artifact'[p] \in Nat => artifact'[p] = artifact[p]
    BY <1>2, ConstantsAssumption DEF Delete, RemoveManifest, SyncInv, TypeOK
  <2>4. manifest' = manifest \/ manifest' = Missing
    BY <1>2 DEF Delete, RemoveManifest
  <2>5. ASSUME NEW p \in Pages PROVE Behind(p)' /\ Fetched(p)' /\ Ahead(p)'
    <3>1. Behind(p) /\ Fetched(p)
      BY DEF SyncInv
    <3>2. p \in Listed(manifest') => p \in Listed(manifest) /\ manifest'[p] = manifest[p]
      BY <2>2, <2>4
    <3>3. Behind(p)'
      BY <2>1, <2>3, <3>1, <3>2 DEF Behind, Listed
    <3>4. QED
      BY <2>1, <3>1, <3>3 DEF Fetched, Ahead
  <2>6. QED
    BY <2>1, <2>5 DEF SyncInv, OwnManifest, Order
<1>3. QED
  BY <1>1, <1>2

LEMMA StartSync ==
    ASSUME SyncInv, TypeOK', NEW scope \in Scopes, NEW flags \in FlagSets,
           Start(scope, flags)
    PROVE  SyncInv'
<1>1. /\ run' = NewRun(flags, manifest, scope) /\ pc' = "discover"
      /\ UNCHANGED <<version, artifact, manifest, cache>>
  BY DEF Start
<1>2. /\ run'.prev = manifest
      /\ \A p \in Pages : run'.seen[p] = 0 /\ run'.content[p] = 0
  BY <1>1 DEF NewRun
<1>3. Seen(run') = {}
  BY <1>2 DEF Seen
<1>4. ASSUME NEW p \in Pages PROVE Behind(p)' /\ Fetched(p)' /\ Ahead(p)'
  <2>1. Behind(p) /\ version[p] \in Nat
    BY DEF SyncInv, TypeOK
  <2>2. QED
    BY <1>1, <1>2, <1>3, <2>1 DEF Behind, Fetched, Ahead, Listed, Seen
<1>5. QED
  BY <1>1, <1>2, <1>4 DEF SyncInv, OwnManifest, Order

LEMMA ObserveSync ==
    ASSUME SyncInv, TypeOK', NEW q \in Pages, Observe(q)
    PROVE  SyncInv'
<1>1. /\ pc = "discover" /\ UNCHANGED <<version, artifact, manifest, pc>>
      /\ run \in Run /\ TypeOK
  BY DEF Observe, SyncInv, TypeOK
<1>2. PICK c \in {0, Current(q)} :
        run' = [run EXCEPT !.todo = run.todo \ {q}, !.seen[q] = Current(q), !.content[q] = c]
  BY DEF Observe
<1>3. cache' = cache \/ cache' = [cache EXCEPT ![q] = version[q]]
  BY DEF Observe, Stored
<1>4. /\ Current(q) \in Nat /\ Current(q) <= version[q]
      /\ Current(q) # 0 => Current(q) = version[q]
  BY <1>1, CurrentType DEF Current
<1>5. /\ run'.prev = run.prev
      /\ run'.seen = [run.seen EXCEPT ![q] = Current(q)]
      /\ run'.content = [run.content EXCEPT ![q] = c]
  BY <1>1, <1>2 DEF Run
<1>6. \A p \in Pages : /\ run'.seen[p] = IF p = q THEN Current(q) ELSE run.seen[p]
                       /\ run'.content[p] = IF p = q THEN c ELSE run.content[p]
                       /\ cache'[p] \in {cache[p], version[p]}
  BY <1>1, <1>3, <1>5 DEF Run, TypeOK
<1>7. ASSUME NEW p \in Pages PROVE Behind(p)' /\ Fetched(p)' /\ Ahead(p)'
  <2>1. /\ Behind(p) /\ Fetched(p) /\ Ahead(p)
        /\ version[p] \in Nat
    BY DEF SyncInv, TypeOK
  <2>2. Behind(p)'
    BY <1>1, <1>4, <1>6, <2>1 DEF Behind, Listed
  <2>3. Fetched(p)'
    BY <1>4, <1>6, <2>1 DEF Fetched
  <2>4. Ahead(p)'
    <3>1. CASE p = q
      BY <1>1, <1>4, <1>6, <2>1, <3>1 DEF Ahead, Behind, Listed, Seen
    <3>2. CASE p # q
      BY <1>1, <1>6, <2>1, <3>2 DEF Ahead, Listed, Seen
    <3>3. QED
      BY <3>1, <3>2
  <2>5. QED
    BY <2>2, <2>3, <2>4
<1>8. QED
  BY <1>1, <1>5, <1>7 DEF SyncInv, OwnManifest, Order

LEMMA PlanSync ==
    ASSUME SyncInv, TypeOK', Plan
    PROVE  SyncInv'
<1>1. /\ pc = "discover" /\ UNCHANGED <<version, artifact, manifest, cache>>
      /\ run \in Run /\ manifest = run.prev
  BY DEF Plan, SyncInv, TypeOK, OwnManifest
<1>2. CASE "dry" \in run.flags
  <2>1. \A p \in Pages : p \in Listed(manifest') => manifest'[p] <= version[p]
    BY <1>1 DEF SyncInv, Behind
  <2>2. Ends
    BY <1>2 DEF Plan
  <2>3. QED
    BY <1>1, <2>1, <2>2, EndsSync
<1>3. CASE "dry" \notin run.flags
  <2>1. run' = Planned(run) /\ pc' = "work"
    BY <1>3 DEF Plan
  <2>2. /\ run'.seen = run.seen /\ run'.content = run.content /\ run'.prev = run.prev
        /\ run'.flags = run.flags
        /\ run'.writes = {p \in Seen(run) : ~Unchanged(run, p)}
        /\ run'.stale = IF "stale" \in run.flags THEN Stale(run) ELSE {}
        /\ run'.orphans = IF "orphans" \in run.flags THEN Orphans(run) ELSE {}
    BY <1>1, <2>1 DEF Planned, Run
  <2>3. Seen(run') = Seen(run)
    BY <2>2 DEF Seen
  <2>4. PruneList'
    <3>1. Stale(run) \cap Seen(run) = {} /\ Orphans(run) \cap Seen(run) = {}
      BY DEF Stale, Orphans
    <3>2. Present \ Seen(run) \subseteq Stale(run) \cup Orphans(run)
      BY DEF Orphans
    <3>3. Present' = Present
      BY <1>1 DEF Present
    <3>4. QED
      BY <2>2, <2>3, <3>1, <3>2, <3>3 DEF PruneList
  <2>5. WriteList'
    <3>1. Seen(run) \ run'.writes \subseteq Present
      BY <2>2 DEF Unchanged
    <3>2. \A p \in run'.writes : p \in Listed(manifest) \cap Present
                                    => manifest[p] # run.seen[p]
      BY <1>1, <2>2 DEF Unchanged
    <3>3. QED
      BY <1>1, <2>2, <2>3, <3>1, <3>2 DEF WriteList, Present, Listed
  <2>6. ASSUME NEW p \in Pages PROVE Behind(p)' /\ Fetched(p)' /\ Ahead(p)'
    <3>1. Behind(p) /\ Fetched(p) /\ Ahead(p)
      BY DEF SyncInv
    <3>2. QED
      BY <1>1, <2>1, <2>2, <2>3, <3>1 DEF Behind, Fetched, Ahead, Listed
  <2>7. QED
    BY <1>1, <2>1, <2>2, <2>4, <2>5, <2>6 DEF SyncInv, OwnManifest, Order
<1>4. QED
  BY <1>2, <1>3

LEMMA FetchSync ==
    ASSUME SyncInv, TypeOK', NEW q \in Pages, Fetch(q)
    PROVE  SyncInv'
<1>1. /\ pc = "work" /\ UNCHANGED <<version, artifact, manifest, pc>>
      /\ run \in Run /\ TypeOK /\ q \in run.writes
  BY DEF Fetch, Unfetched, SyncInv, TypeOK
<1>2. PICK c \in {run.seen[q], version[q]} : run' = [run EXCEPT !.content[q] = c]
  BY DEF Fetch, Hit
<1>3. cache' = cache \/ cache' = [cache EXCEPT ![q] = version[q]]
  BY DEF Fetch, Stored
<1>4. /\ run'.prev = run.prev /\ run'.seen = run.seen /\ run'.writes = run.writes
      /\ run'.stale = run.stale /\ run'.orphans = run.orphans /\ run'.flags = run.flags
      /\ run'.content = [run.content EXCEPT ![q] = c]
  BY <1>1, <1>2 DEF Run
<1>5. \A p \in Pages : /\ run'.content[p] = IF p = q THEN c ELSE run.content[p]
                       /\ cache'[p] \in {cache[p], version[p]}
  BY <1>1, <1>3, <1>4 DEF Run, TypeOK
<1>6. ASSUME NEW p \in Pages PROVE Behind(p)' /\ Fetched(p)' /\ Ahead(p)'
  <2>1. /\ Behind(p) /\ Fetched(p) /\ Ahead(p)
        /\ version[p] \in Nat /\ run.seen[p] \in Nat
    BY <1>1 DEF SyncInv, TypeOK, Run
  <2>2. Behind(p)'
    BY <1>1, <1>4, <1>5, <2>1 DEF Behind, Listed
  <2>3. Fetched(p)'
    BY <1>4, <1>5, <2>1 DEF Fetched, Behind
  <2>4. Ahead(p)'
    BY <1>1, <1>4, <2>1 DEF Ahead, Listed, Seen
  <2>5. QED
    BY <2>2, <2>3, <2>4
<1>7. OwnManifest' /\ Order'
  BY <1>1, <1>4 DEF SyncInv, OwnManifest, Order, PruneList, WriteList, Listed, Seen, Present
<1>8. QED
  BY <1>6, <1>7 DEF SyncInv

LEMMA WriteSync ==
    ASSUME SyncInv, TypeOK', NEW q \in Pages, Write(q)
    PROVE  SyncInv'
<1>1. /\ pc = "work" /\ UNCHANGED <<version, manifest, cache, pc>>
      /\ run \in Run /\ TypeOK /\ q \in run.writes /\ q \in Seen(run)
      /\ artifact' = [artifact EXCEPT ![q] = run.content[q]]
      /\ run' = [run EXCEPT !.writes = run.writes \ {q}]
  BY DEF Write, SyncInv, TypeOK, Order, WriteList
<1>2. /\ run'.prev = run.prev /\ run'.seen = run.seen /\ run'.content = run.content
      /\ run'.stale = run.stale /\ run'.orphans = run.orphans /\ run'.flags = run.flags
      /\ run'.writes = run.writes \ {q}
  BY <1>1 DEF Run
<1>3. /\ run.content[q] \in Nat /\ run.content[q] # Missing
      /\ \A p \in Pages : artifact'[p] = IF p = q THEN run.content[q] ELSE artifact[p]
  BY <1>1, ConstantsAssumption DEF Run, TypeOK
<1>4. Present' = Present \cup {q} /\ Seen(run') = Seen(run)
  BY <1>2, <1>3 DEF Present, Seen
<1>5. ASSUME NEW p \in Pages PROVE Behind(p)' /\ Fetched(p)' /\ Ahead(p)'
  <2>1. Behind(p) /\ Fetched(p) /\ Ahead(p)
    BY DEF SyncInv
  <2>2. Behind(p)' /\ Fetched(p)'
    BY <1>1, <1>2, <1>3, <2>1 DEF Behind, Fetched, Listed
  <2>3. Ahead(p)'
    BY <1>1, <1>2, <1>3, <1>4, <2>1 DEF Ahead, Listed
  <2>4. QED
    BY <2>2, <2>3
<1>6. PruneList' /\ WriteList'
  <2>1. PruneList /\ WriteList
    BY <1>1 DEF SyncInv, Order
  <2>2. PruneList'
    BY <1>1, <1>2, <1>4, <2>1 DEF PruneList
  <2>3. WriteList'
    BY <1>1, <1>2, <1>4, <2>1 DEF WriteList, Listed
  <2>4. QED
    BY <2>2, <2>3
<1>7. QED
  BY <1>1, <1>2, <1>5, <1>6 DEF SyncInv, OwnManifest, Order

LEMMA WriteManifestSync ==
    ASSUME SyncInv, TypeOK', WriteManifest
    PROVE  SyncInv'
<1>1. /\ pc = "work" /\ pc' = "prune" /\ manifest' = run.seen /\ run.writes = {}
      /\ UNCHANGED <<version, artifact, cache, run>>
  BY DEF WriteManifest
<1>2. ASSUME NEW p \in Pages PROVE Behind(p)' /\ Fetched(p)' /\ Ahead(p)'
  <2>1. Behind(p) /\ Fetched(p)
    BY DEF SyncInv
  <2>2. QED
    BY <1>1, <2>1 DEF Behind, Fetched, Ahead, Listed
<1>3. PruneList' /\ Seen(run) \subseteq Present
  BY <1>1 DEF SyncInv, Order, PruneList, WriteList, Seen, Present
<1>4. QED
  BY <1>1, <1>2, <1>3 DEF SyncInv, OwnManifest, Order, Seen, Present

LEMMA PruneSync ==
    ASSUME SyncInv, TypeOK', NEW q \in Pages, PruneStale(q) \/ PruneOrphan(q)
    PROVE  SyncInv'
<1>1. /\ pc = "prune" /\ UNCHANGED <<version, manifest, cache, pc>>
      /\ run \in Run /\ TypeOK /\ PruneList /\ manifest = run.seen
      /\ Seen(run) \subseteq Present
      /\ artifact' = [artifact EXCEPT ![q] = Missing]
  BY DEF PruneStale, PruneOrphan, SyncInv, TypeOK, Order
<1>2. /\ q \in run.stale \cup run.orphans
      /\ run'.stale \cup run'.orphans \subseteq run.stale \cup run.orphans
      /\ (run.stale \cup run.orphans) \ {q} \subseteq run'.stale \cup run'.orphans
      /\ run'.seen = run.seen /\ run'.content = run.content /\ run'.flags = run.flags
  BY <1>1 DEF PruneStale, PruneOrphan, Run
<1>3. \A p \in Pages : artifact'[p] = IF p = q THEN Missing ELSE artifact[p]
  BY <1>1 DEF TypeOK
<1>4. Present' = Present \ {q} /\ Seen(run') = Seen(run) /\ q \notin Seen(run)
  BY <1>1, <1>2, <1>3 DEF Present, Seen, PruneList
<1>5. PruneList' /\ Seen(run') \subseteq Present'
  BY <1>1, <1>2, <1>4 DEF PruneList
<1>6. ASSUME NEW p \in Pages PROVE Behind(p)' /\ Fetched(p)' /\ Ahead(p)'
  <2>1. Behind(p) /\ Fetched(p)
    BY DEF SyncInv
  <2>2. QED
    BY <1>1, <1>2, <1>3, <2>1, ConstantsAssumption DEF Behind, Fetched, Ahead, Listed
<1>7. QED
  BY <1>1, <1>2, <1>5, <1>6 DEF SyncInv, OwnManifest, Order

LEMMA StepSync ==
    ASSUME SyncInv, [Next]_vars
    PROVE  SyncInv'
<1>1. TypeOK'
  BY StepType DEF SyncInv
<1>2. CASE UNCHANGED vars
  BY <1>1, <1>2 DEF vars, SyncInv, OwnManifest, Order, PruneList, WriteList, Behind, Fetched,
                    Ahead, Listed, Present, Seen
<1>3. CASE Begin
  BY <1>1, <1>3, StartSync DEF Begin
<1>4. CASE Advance
  <2>1. CASE Plan \/ WriteManifest
    BY <1>1, <2>1, PlanSync, WriteManifestSync
  <2>2. CASE Finish
    BY <1>1, <2>2, FailSync
  <2>3. CASE \E p \in Pages : \/ Observe(p) \/ Fetch(p) \/ NotFound(p) \/ Write(p)
                              \/ PruneStale(p) \/ PruneOrphan(p)
    BY <1>1, <2>3, ObserveSync, FetchSync, FailSync, WriteSync, PruneSync
  <2>4. QED
    BY <1>4, <2>1, <2>2, <2>3 DEF Advance
<1>5. CASE Disturb
  BY <1>1, <1>5, FailSync, OutsideSync DEF Disturb
<1>6. CASE RemoveManifest
  BY <1>1, <1>6, OutsideSync DEF RemoveManifest
<1>7. QED
  BY <1>2, <1>3, <1>4, <1>5, <1>6 DEF Next

LEMMA InitSync == Init => SyncInv
<1> SUFFICES ASSUME Init PROVE SyncInv
  OBVIOUS
<1>1. TypeOK
  BY InitType
<1>2. ASSUME NEW p \in Pages PROVE Behind(p) /\ Fetched(p) /\ Ahead(p)
  <2>1. Listed(Missing) = {}
    BY FilesAssumption DEF Listed
  <2>2. QED
    BY <2>1, NoRunFacts, ConstantsAssumption DEF Init, Behind, Fetched, Ahead
<1>3. QED
  BY <1>1, <1>2 DEF Init, SyncInv, OwnManifest, Order

\* The inductive invariant: what a run holds in memory, what is on disk and the
\* source are in the order in which they were read and written.
THEOREM SyncInvariant == Spec => []SyncInv
<1>1. SyncInv /\ [Next]_vars => SyncInv'
  BY StepSync
<1>2. QED
  BY <1>1, InitSync, PTL DEF Spec

-----------------------------------------------------------------------------
(* What no step does.                                                      *)

LEMMA NeverOlderStep ==
    ASSUME SyncInv, Next, NEW p \in Pages, artifact[p] \in Nat, artifact'[p] \in Nat
    PROVE  artifact[p] <= artifact'[p]
<1>1. CASE artifact'[p] = artifact[p]
  BY <1>1
<1>2. CASE \E q \in Pages : Write(q)
  <2>1. PICK q \in Pages : Write(q)
    BY <1>2
  <2>2. CASE p # q
    BY <2>1, <2>2 DEF Write, SyncInv, TypeOK
  <2>3. CASE p = q
    <3>1. /\ pc = "work" /\ p \in run.writes /\ p \in Seen(run)
          /\ artifact'[p] = run.content[p] /\ run.content[p] # 0
      BY <2>1, <2>3 DEF Write, Unfetched, SyncInv, TypeOK, Order, WriteList
    <3>2. artifact[p] <= run.seen[p] /\ run.seen[p] <= run.content[p]
      BY <3>1 DEF SyncInv, Ahead, Fetched
    <3>3. run.seen[p] \in Nat /\ run.content[p] \in Nat
      BY DEF SyncInv, TypeOK, Run
    <3>4. QED
      BY <3>1, <3>2, <3>3
  <2>4. QED
    BY <2>2, <2>3
<1>3. CASE artifact'[p] \in {artifact[p], Missing, Partial}
  BY <1>3, ConstantsAssumption
<1>4. \/ \E q \in Pages : Write(q)
      \/ artifact'[p] \in {artifact[p], Missing, Partial}
  BY DEF Next, Begin, Advance, Disturb, Start, Plan, WriteManifest, Finish, Observe, Fetch,
         NotFound, PruneStale, PruneOrphan, Fail, FailManifest, Edit, Come, Go, Delete,
         FailWrite, RemoveManifest, SyncInv, TypeOK
<1>5. QED
  BY <1>2, <1>3, <1>4

\* NeverOlder, for any schedule of edits, crashes and runs.
THEOREM ArtifactsAge == Spec => NeverOlder
<1>1. SyncInv /\ [Next]_vars => [\A p \in Pages : artifact[p] \in Nat /\ artifact'[p] \in Nat
                                       => artifact[p] <= artifact'[p]]_vars
  BY NeverOlderStep
<1>2. QED
  BY <1>1, SyncInvariant, PTL DEF Spec, NeverOlder

\* PrunesUnlisted, however runs of different scopes follow each other.
THEOREM PruningIsSafe == Spec => PrunesUnlisted
<1>1. ASSUME SyncInv, Next, NEW p \in Pages,
             pc # "idle", artifact[p] # Missing, artifact'[p] = Missing
      PROVE  p \notin Listed(manifest)
  <2>1. CASE \E q \in Pages : PruneStale(q) \/ PruneOrphan(q)
    <3>1. PICK q \in Pages : PruneStale(q) \/ PruneOrphan(q)
      BY <2>1
    <3>2. /\ q \in run.stale \cup run.orphans /\ p = q
          /\ PruneList /\ manifest = run.seen
      BY <1>1, <3>1 DEF PruneStale, PruneOrphan, SyncInv, TypeOK, Order
    <3>3. QED
      BY <3>2 DEF PruneList, Listed, Seen
  <2>2. CASE \E q \in Pages : Write(q)
    <3>1. PICK q \in Pages : Write(q)
      BY <2>2
    <3>2. p = q /\ artifact'[p] = run.content[p]
      BY <1>1, <3>1 DEF Write, SyncInv, TypeOK
    <3>3. QED
      BY <1>1, <3>2, ConstantsAssumption DEF SyncInv, TypeOK, Run
  <2>3. CASE \E q \in Pages : FailWrite(q)
    BY <1>1, <2>3, ConstantsAssumption DEF FailWrite, SyncInv, TypeOK
  <2>4. \/ \E q \in Pages : PruneStale(q) \/ PruneOrphan(q) \/ Write(q) \/ FailWrite(q)
        \/ artifact' = artifact \/ pc = "idle"
    BY <1>1 DEF Next, Begin, Advance, Disturb, Start, Plan, WriteManifest, Finish, Observe, Fetch,
           NotFound, Fail, FailManifest, Edit, Come, Go, Delete, RemoveManifest
  <2>5. QED
    BY <1>1, <2>1, <2>2, <2>3, <2>4
<1>2. SyncInv /\ [Next]_vars =>
        [\A p \in Pages : pc # "idle" /\ artifact[p] # Missing /\ artifact'[p] = Missing
                            => p \notin Listed(manifest)]_vars
  BY <1>1
<1>3. QED
  BY <1>2, SyncInvariant, PTL DEF Spec, PrunesUnlisted

\* FinishedIsComplete, whatever the runs before left half done.
THEOREM FinishingIsComplete == Spec => FinishedIsComplete
<1>1. ASSUME SyncInv, Finish
      PROVE  /\ manifest = run.seen
             /\ Seen(run) \subseteq Present
             /\ {"stale", "orphans"} \subseteq run.flags => Present = Seen(run)
  BY <1>1 DEF Finish, SyncInv, Order, PruneList
<1>2. SyncInv /\ [Next]_vars =>
        [Finish => /\ manifest = run.seen
                   /\ Seen(run) \subseteq Present
                   /\ {"stale", "orphans"} \subseteq run.flags => Present = Seen(run)]_vars
  BY <1>1
<1>3. QED
  BY <1>2, SyncInvariant, PTL DEF Spec, FinishedIsComplete

\* UnreadableStops: a run in progress has read the manifest, or has written it.
THEOREM UnreadableIsRespected == Spec => UnreadableStops
<1>1. ASSUME SyncInv, Next, manifest = Partial, artifact' # artifact
      PROVE  pc = "idle"
  <2>1. pc \in {"idle", "discover", "work", "prune"} /\ run \in Run
    BY <1>1 DEF SyncInv, TypeOK
  <2>2. pc \in {"discover", "work"} => manifest \in Manifests \cup {Missing}
    BY <1>1, <2>1 DEF SyncInv, OwnManifest, Run
  <2>3. pc = "prune" => manifest \in Manifests
    BY <1>1, <2>1 DEF SyncInv, Order, Run, Manifests
  <2>4. QED
    BY <1>1, <2>1, <2>2, <2>3, ConstantsAssumption, FilesAssumption
<1>2. SyncInv /\ [Next]_vars =>
        [manifest = Partial /\ artifact' # artifact => pc = "idle"]_vars
  BY <1>1
<1>3. QED
  BY <1>2, SyncInvariant, PTL DEF Spec, UnreadableStops

-----------------------------------------------------------------------------
(* What holds if nobody but a run deletes artifacts.  A rewritten artifact *)
(* that is cut short must not be listed in its current version: a run      *)
(* rewrites it only if the manifest lists an older one, or if it is gone.  *)

Kept(p) == artifact[p] \in Nat /\ artifact[p] >= run.seen[p]

\* The pages that a run will not write, or has written, have artifacts at
\* least as new as what it saw.
Settled(p) ==
    p \in Seen(run) =>
        /\ pc = "discover" /\ p \in Listed(manifest) /\ manifest[p] = run.seen[p] => Kept(p)
        /\ pc = "work" /\ p \notin run.writes => Kept(p)
        /\ pc = "prune" => Kept(p)

ListedIsPresent == Listed(manifest) \subseteq Present

FreshInv == ListedIsPresent /\ SkippedIsCurrent /\ \A p \in Pages : Settled(p)

\* A page that a run is about to write is not listed in its current version.
LEMMA WritesAreDue ==
    ASSUME SyncInv, FreshInv, pc = "work", NEW p \in run.writes, p \in Listed(manifest)
    PROVE  manifest[p] # version[p]
<1>1. /\ p \in Pages /\ p \in Seen(run) /\ p \in Present
      /\ manifest[p] # run.seen[p]
  BY DEF SyncInv, Order, WriteList, Seen, FreshInv, ListedIsPresent
<1>2. manifest[p] <= run.seen[p] /\ run.seen[p] <= version[p]
  BY <1>1 DEF SyncInv, Ahead, Behind
<1>3. manifest[p] \in Nat /\ run.seen[p] \in Nat /\ version[p] \in Nat
  BY <1>1 DEF Listed, Manifests, SyncInv, TypeOK, Run
<1>4. QED
  BY <1>1, <1>2, <1>3

LEMMA EndsFresh ==
    ASSUME FreshInv, SyncInv, Ends,
           ListedIsPresent',
           \A p \in Pages : /\ version'[p] = version[p]
                            /\ p \in Listed(manifest') => /\ p \in Listed(manifest)
                                                          /\ manifest'[p] = manifest[p]
                                                          /\ \/ artifact'[p] = artifact[p]
                                                             \/ manifest[p] # version[p]
    PROVE  FreshInv'
<1>1. run' = NoRun /\ Seen(run') = {}
  BY NoRunFacts DEF Ends
<1>2. SkippedIsCurrent'
  <2>1. ListedIsPresent /\ SkippedIsCurrent
    BY DEF FreshInv
  <2>2. QED
    BY <2>1 DEF SkippedIsCurrent, ListedIsPresent, Listed, Present
<1>3. QED
  BY <1>1, <1>2 DEF FreshInv, Settled, Seen

LEMMA OutsideFresh ==
    ASSUME Deletable = {}, SyncInv, FreshInv,
           RemoveManifest \/ \E q \in Pages : Edit(q) \/ Come(q) \/ Go(q) \/ Delete(q)
    PROVE  FreshInv'
<1>1. CASE RemoveManifest
  <2>1. Listed(Missing) = {}
    BY FilesAssumption DEF Listed
  <2>2. pc = "idle" /\ pc' = "idle" /\ Listed(manifest') = {}
    BY <1>1, <2>1 DEF RemoveManifest
  <2>3. QED
    BY <2>2 DEF FreshInv, ListedIsPresent, SkippedIsCurrent, Settled
<1>2. CASE \E q \in Pages : Edit(q) \/ Come(q) \/ Go(q)
  <2>1. UNCHANGED <<artifact, manifest, pc, run>>
    BY <1>2 DEF Edit, Come, Go
  <2>2. \A p \in Pages : /\ version[p] \in Nat
                         /\ version'[p] = version[p] \/ version'[p] = version[p] + 1
    BY <1>2 DEF Edit, Come, Go, SyncInv, TypeOK
  <2>3. SkippedIsCurrent'
    <3>1. SUFFICES ASSUME NEW p \in Listed(manifest) \cap Present, manifest[p] = version'[p]
                   PROVE  artifact[p] = version'[p]
      BY <2>1 DEF SkippedIsCurrent, Listed, Present
    <3>2. p \in Pages /\ manifest[p] <= version[p]
      BY DEF SyncInv, Behind, Listed
    <3>3. version'[p] = version[p]
      BY <2>2, <3>1, <3>2
    <3>4. QED
      BY <3>1, <3>3 DEF FreshInv, SkippedIsCurrent
  <2>4. QED
    BY <2>1, <2>3 DEF FreshInv, ListedIsPresent, Settled, Kept, Listed, Present, Seen
<1>3. CASE \E q \in Pages : Delete(q)
  BY <1>3 DEF Delete
<1>4. QED
  BY <1>1, <1>2, <1>3

LEMMA EndFresh ==
    ASSUME SyncInv, FreshInv, TypeOK',
           \/ Fail \/ FailManifest \/ Finish
           \/ \E q \in Pages : FailWrite(q) \/ NotFound(q)
    PROVE  FreshInv'
<1>1. Ends /\ version' = version
  BY DEF Fail, FailManifest, Finish, FailWrite, NotFound
<1>2. ListedIsPresent
  BY DEF FreshInv
<1>3. CASE Fail \/ FailManifest \/ Finish \/ \E q \in Pages : NotFound(q)
  <2>1. artifact' = artifact /\ manifest' \in {manifest, Partial}
    BY <1>3 DEF Fail, FailManifest, Finish, NotFound
  <2>2. Listed(Partial) = {}
    BY FilesAssumption DEF Listed
  <2>3. ListedIsPresent'
    BY <1>2, <2>1, <2>2 DEF ListedIsPresent, Listed, Present
  <2>4. \A p \in Pages : p \in Listed(manifest') => p \in Listed(manifest) /\ manifest' = manifest
    BY <2>1, <2>2
  <2>5. QED
    BY <1>1, <2>1, <2>3, <2>4, EndsFresh
<1>4. CASE \E q \in Pages : FailWrite(q)
  <2>1. PICK q \in Pages : FailWrite(q)
    BY <1>4
  <2>2. /\ pc = "work" /\ q \in run.writes /\ manifest' = manifest
        /\ artifact' = [artifact EXCEPT ![q] = Partial]
    BY <2>1 DEF FailWrite
  <2>3. \A p \in Pages : artifact'[p] = IF p = q THEN Partial ELSE artifact[p]
    BY <2>2 DEF SyncInv, TypeOK
  <2>4. Present' = Present \cup {q}
    BY <2>3, ConstantsAssumption DEF Present
  <2>5. ListedIsPresent'
    BY <1>2, <2>2, <2>4 DEF ListedIsPresent, Listed
  <2>6. q \in Listed(manifest) => manifest[q] # version[q]
    BY <2>2, WritesAreDue
  <2>7. QED
    BY <1>1, <2>2, <2>3, <2>5, <2>6, EndsFresh
<1>5. QED
  BY <1>3, <1>4

LEMMA ReadingFresh ==
    ASSUME SyncInv, FreshInv, TypeOK',
           \/ Begin \/ Plan
           \/ \E q \in Pages : Observe(q) \/ Fetch(q)
    PROVE  FreshInv'
<1>1. UNCHANGED <<version, artifact, manifest>> /\ run \in Run /\ TypeOK
  BY DEF Begin, Start, Plan, Observe, Fetch, SyncInv, TypeOK
<1>2. ListedIsPresent' /\ SkippedIsCurrent'
  BY <1>1 DEF FreshInv, ListedIsPresent, SkippedIsCurrent, Listed, Present
<1>3. CASE Begin
  <2>1. PICK scope \in Scopes, flags \in FlagSets : Start(scope, flags)
    BY <1>3 DEF Begin
  <2>2. Seen(run') = {}
    BY <2>1 DEF Start, NewRun, Seen
  <2>3. QED
    BY <1>2, <2>2 DEF FreshInv, Settled, Seen
<1>4. CASE Plan /\ "dry" \in run.flags
  <2>1. Seen(run') = {}
    BY <1>4, NoRunFacts DEF Plan, Ends
  <2>2. QED
    BY <1>2, <2>1 DEF FreshInv, Settled, Seen
<1>5. CASE Plan /\ "dry" \notin run.flags
  <2>1. /\ pc = "discover" /\ pc' = "work" /\ run' = Planned(run) /\ manifest = run.prev
    BY <1>5 DEF Plan, SyncInv, OwnManifest
  <2>2. run'.seen = run.seen /\ run'.writes = {p \in Seen(run) : ~Unchanged(run, p)}
    BY <1>1, <2>1 DEF Planned, Run
  <2>3. ASSUME NEW p \in Pages PROVE Settled(p)'
    <3>1. Settled(p)
      BY DEF FreshInv
    <3>2. p \in Seen(run) /\ p \notin run'.writes
            => p \in Listed(manifest) /\ manifest[p] = run.seen[p]
      BY <2>1, <2>2 DEF Unchanged
    <3>3. QED
      BY <1>1, <2>1, <2>2, <3>1, <3>2 DEF Settled, Kept, Listed, Seen
  <2>4. QED
    BY <1>2, <2>3 DEF FreshInv
<1>6. CASE \E q \in Pages : Observe(q)
  <2>1. PICK q \in Pages : Observe(q)
    BY <1>6
  <2>2. /\ pc = "discover" /\ pc' = "discover"
        /\ run'.seen = [run.seen EXCEPT ![q] = Current(q)]
    BY <1>1, <2>1 DEF Observe, Run
  <2>3. \A p \in Pages : run'.seen[p] = IF p = q THEN Current(q) ELSE run.seen[p]
    BY <1>1, <2>2 DEF Run
  <2>4. ASSUME NEW p \in Pages PROVE Settled(p)'
    <3>1. CASE p # q
      <4>1. Settled(p)
        BY DEF FreshInv
      <4>2. QED
        BY <1>1, <2>2, <2>3, <3>1, <4>1 DEF Settled, Kept, Listed, Seen
    <3>2. CASE p = q
      <4>1. SUFFICES ASSUME p \in Seen(run'), p \in Listed(manifest), manifest[p] = Current(p)
                     PROVE  artifact[p] \in Nat /\ artifact[p] >= Current(p)
        BY <1>1, <2>2, <2>3, <3>2 DEF Settled, Kept, Listed, Seen
      <4>2. Current(p) = version[p] /\ version[p] \in Nat
        BY <1>1, <2>3, <3>2, <4>1 DEF Current, Seen, TypeOK
      <4>3. artifact[p] = version[p]
        BY <4>1, <4>2 DEF FreshInv, ListedIsPresent, SkippedIsCurrent
      <4>4. QED
        BY <4>2, <4>3
    <3>3. QED
      BY <3>1, <3>2
  <2>5. QED
    BY <1>2, <2>4 DEF FreshInv
<1>7. CASE \E q \in Pages : Fetch(q)
  <2>1. PICK q \in Pages, c \in Nat : pc' = pc /\ run' = [run EXCEPT !.content[q] = c]
    BY <1>1, <1>7 DEF Fetch, TypeOK
  <2>2. pc' = pc /\ run'.seen = run.seen /\ run'.writes = run.writes
    BY <1>1, <2>1 DEF Run
  <2>3. QED
    BY <1>1, <1>2, <2>2 DEF FreshInv, Settled, Kept, Listed, Seen
<1>8. QED
  BY <1>3, <1>4, <1>5, <1>6, <1>7

LEMMA WriteFresh ==
    ASSUME SyncInv, FreshInv, NEW q \in Pages, Write(q)
    PROVE  FreshInv'
<1>1. /\ pc = "work" /\ pc' = "work" /\ UNCHANGED <<version, manifest>>
      /\ run \in Run /\ TypeOK /\ q \in run.writes /\ run.content[q] # 0
      /\ artifact' = [artifact EXCEPT ![q] = run.content[q]]
      /\ run' = [run EXCEPT !.writes = run.writes \ {q}]
  BY DEF Write, Unfetched, SyncInv, TypeOK
<1>2. run'.seen = run.seen /\ run'.writes = run.writes \ {q}
  BY <1>1 DEF Run
<1>3. /\ run.content[q] \in Nat /\ run.content[q] # Missing
      /\ \A p \in Pages : artifact'[p] = IF p = q THEN run.content[q] ELSE artifact[p]
  BY <1>1, ConstantsAssumption DEF Run, TypeOK
<1>4. Present' = Present \cup {q}
  BY <1>3 DEF Present
<1>5. ListedIsPresent'
  BY <1>1, <1>4 DEF FreshInv, ListedIsPresent, Listed
<1>6. SkippedIsCurrent'
  <2>1. q \in Listed(manifest) => manifest[q] # version[q]
    BY <1>1, WritesAreDue
  <2>2. QED
    BY <1>1, <1>3, <1>4, <2>1 DEF FreshInv, SkippedIsCurrent, Listed
<1>7. ASSUME NEW p \in Pages PROVE Settled(p)'
  <2>1. Settled(p) /\ Fetched(p)
    BY DEF FreshInv, SyncInv
  <2>2. QED
    BY <1>1, <1>2, <1>3, <2>1 DEF Settled, Fetched, Kept, Seen
<1>8. QED
  BY <1>5, <1>6, <1>7 DEF FreshInv

LEMMA WriteManifestFresh ==
    ASSUME SyncInv, FreshInv, WriteManifest
    PROVE  FreshInv'
<1>1. /\ pc = "work" /\ pc' = "prune" /\ manifest' = run.seen /\ run.writes = {}
      /\ UNCHANGED <<version, artifact, run>> /\ run \in Run /\ TypeOK
  BY DEF WriteManifest, SyncInv, TypeOK
<1>2. ASSUME NEW p \in Pages, p \in Seen(run) PROVE Kept(p)
  BY <1>1, <1>2 DEF FreshInv, Settled
<1>3. Listed(manifest') = Seen(run)
  BY <1>1 DEF Listed, Seen, Run, Manifests
<1>4. ListedIsPresent'
  BY <1>1, <1>2, <1>3, ConstantsAssumption DEF ListedIsPresent, Present, Kept, Seen
<1>5. SkippedIsCurrent'
  <2>1. SUFFICES ASSUME NEW p \in Seen(run), run.seen[p] = version[p]
                 PROVE  artifact[p] = version[p]
    BY <1>1, <1>3 DEF SkippedIsCurrent
  <2>2. p \in Pages /\ Kept(p) /\ Behind(p) /\ version[p] \in Nat
    BY <1>1, <1>2 DEF Seen, SyncInv, TypeOK
  <2>3. QED
    BY <2>1, <2>2 DEF Kept, Behind
<1>6. QED
  BY <1>1, <1>2, <1>4, <1>5 DEF FreshInv, Settled, Kept, Seen

LEMMA PruneFresh ==
    ASSUME SyncInv, FreshInv, NEW q \in Pages, PruneStale(q) \/ PruneOrphan(q)
    PROVE  FreshInv'
<1>1. /\ pc = "prune" /\ pc' = "prune" /\ UNCHANGED <<version, manifest>>
      /\ run \in Run /\ TypeOK /\ PruneList /\ manifest = run.seen
      /\ artifact' = [artifact EXCEPT ![q] = Missing]
      /\ q \in run.stale \cup run.orphans
  BY DEF PruneStale, PruneOrphan, SyncInv, TypeOK, Order
<1>2. run'.seen = run.seen
  BY <1>1 DEF PruneStale, PruneOrphan, Run
<1>3. q \notin Seen(run) /\ Listed(manifest) = Seen(run)
  BY <1>1 DEF PruneList, Listed, Seen, Run, Manifests
<1>4. \A p \in Pages : p # q => artifact'[p] = artifact[p]
  BY <1>1 DEF TypeOK
<1>5. ListedIsPresent' /\ SkippedIsCurrent'
  BY <1>1, <1>3, <1>4 DEF FreshInv, ListedIsPresent, SkippedIsCurrent, Listed, Present
<1>6. ASSUME NEW p \in Pages PROVE Settled(p)'
  <2>1. Settled(p)
    BY DEF FreshInv
  <2>2. QED
    BY <1>1, <1>2, <1>3, <1>4, <2>1 DEF Settled, Kept, Seen
<1>7. QED
  BY <1>5, <1>6 DEF FreshInv

LEMMA StepFresh ==
    ASSUME Deletable = {}, SyncInv, FreshInv, [Next]_vars
    PROVE  FreshInv'
<1>1. TypeOK'
  BY StepType DEF SyncInv
<1>2. CASE UNCHANGED vars
  BY <1>2 DEF vars, FreshInv, ListedIsPresent, SkippedIsCurrent, Settled, Kept, Listed, Present, Seen
<1>3. CASE Begin
  BY <1>1, <1>3, ReadingFresh
<1>4. CASE Advance
  <2>1. CASE Plan \/ WriteManifest \/ Finish
    BY <1>1, <2>1, ReadingFresh, WriteManifestFresh, EndFresh
  <2>2. CASE \E p \in Pages : \/ Observe(p) \/ Fetch(p) \/ NotFound(p) \/ Write(p)
                              \/ PruneStale(p) \/ PruneOrphan(p)
    BY <1>1, <2>2, ReadingFresh, EndFresh, WriteFresh, PruneFresh
  <2>3. QED
    BY <1>4, <2>1, <2>2 DEF Advance
<1>5. CASE Disturb
  BY <1>1, <1>5, EndFresh, OutsideFresh DEF Disturb
<1>6. CASE RemoveManifest
  BY <1>6, OutsideFresh
<1>7. QED
  BY <1>2, <1>3, <1>4, <1>5, <1>6 DEF Next

LEMMA InitFresh == Init => FreshInv
<1>1. Listed(Missing) = {}
  BY FilesAssumption DEF Listed
<1>2. QED
  BY <1>1, NoRunFacts DEF Init, FreshInv, ListedIsPresent, SkippedIsCurrent, Settled, Seen

LEMMA FreshInvariant ==
    ASSUME Deletable = {}
    PROVE  Spec => [](SyncInv /\ FreshInv)
<1>1. SyncInv /\ FreshInv /\ [Next]_vars => (SyncInv /\ FreshInv)'
  BY StepSync, StepFresh
<1>2. Init => SyncInv /\ FreshInv
  BY InitSync, InitFresh
<1>3. QED
  BY <1>1, <1>2, PTL DEF Spec

\* SkippedIsCurrent, for any number of runs that die anywhere, if the operator
\* leaves the artifacts alone.
THEOREM SkippingIsSafe == Deletable = {} => (Spec => []SkippedIsCurrent)
<1>1. SyncInv /\ FreshInv => SkippedIsCurrent
  BY DEF FreshInv
<1>2. ASSUME Deletable = {} PROVE Spec => []SkippedIsCurrent
  BY <1>1, <1>2, FreshInvariant, PTL
<1>3. QED
  BY <1>2

\* FinishedIsFresh, under the same condition.
THEOREM FinishingIsFresh == Deletable = {} => (Spec => FinishedIsFresh)
<1>1. SyncInv /\ FreshInv /\ [Next]_vars =>
        [Finish => \A p \in Seen(run) : artifact[p] \in Nat /\ artifact[p] >= run.seen[p]]_vars
  BY DEF Finish, FreshInv, Settled, Kept, Seen
<1>2. ASSUME Deletable = {} PROVE Spec => FinishedIsFresh
  BY <1>1, <1>2, FreshInvariant, PTL DEF Spec, FinishedIsFresh
<1>3. QED
  BY <1>2
=============================================================================
