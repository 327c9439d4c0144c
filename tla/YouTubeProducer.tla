--------------------------- MODULE YouTubeProducer ---------------------------
(***************************************************************************)
(* produce_package of youtube/producer.py with the checkpoints of          *)
(* youtube/checkpoint.py: bounded collection runs that resume one another. *)
(*                                                                         *)
(* A run rediscovers the bounded window, reuses what its input checkpoint  *)
(* completed, attempts the next batch, seals a package, and only then      *)
(* writes the artifacts of its output checkpoint, file by file, and the    *)
(* checkpoint itself.  It may die between any two of these steps, and      *)
(* other runs may use the same checkpoint paths at the same time.          *)
(*                                                                         *)
(* Sealing is one step here: PackageSeal shows that readers of the         *)
(* destination see it so.  Every run makes the same request (a checkpoint  *)
(* of another request, adapter, contract or retention mode is refused by   *)
(* load_checkpoint before anything happens).  A digest comparison is       *)
(* equality of contents; the captured and the normalized file of a video   *)
(* are both determined by the caption content that was acquired.  A run id *)
(* stands for the run id and the package id the caller gives together.     *)
(***************************************************************************)
EXTENDS Naturals, Sequences, FiniteSets, Functions

CONSTANTS Producers,    \* concurrent processes running produce_package
          Videos, Contents,
          Slots,        \* checkpoint paths
          Stems,        \* artifact directories <stem>.data
          StemOf,       \* the directory of each checkpoint path
          Kinds,        \* files kept per video: normalized, perhaps captured
          RunIds, Dests,
          Windows,      \* what discovery may return
          BatchSize,    \* videos attempted per run
          MaxTries,     \* retry.max_attempts
          AttemptCap,   \* the largest attempt count load_checkpoint accepts
          None

ASSUME ConstantsAssumption ==
    /\ StemOf \in [Slots -> Stems]
    /\ "normalized" \in Kinds /\ Kinds \subseteq {"normalized", "captured"}
    /\ Windows # {}
    /\ \A w \in Windows : /\ w.videos \in Seq(Videos)
                          /\ w.exhausted \in BOOLEAN
    /\ BatchSize \in Nat \ {0} /\ MaxTries \in Nat \ {0} /\ AttemptCap \in Nat
    /\ None \notin Slots \cup Contents \cup RunIds

VARIABLES ckpt,         \* ckpt[s]: the checkpoint file at path s, or None
          data,         \* data[<<stem, video, kind>>]: that file, or None
          packages,     \* packages[d]: the sealed package at d, or None
          pc,           \* where each producer is
          job           \* the local state of each producer's run

vars == <<ckpt, data, packages, pc, job>>

-----------------------------------------------------------------------------
\* An item of a package, and the item of a video the package does not mention.
\* "failed" stands for failed, skipped and cancelled: a resumed run treats the
\* three alike, it attempts the video again.
Item == [outcome : {"completed", "unchanged"}, content : Contents]
            \cup [outcome : {"failed"}, content : {None}]
NoItem == [outcome |-> "absent", content |-> None]
Items == [Videos -> Item \cup {NoItem}]

\* The attempts map: a video that was never attempted counts 0.
Counts == [Videos -> Nat]

\* completed holds what CompletedCheckpointItem needs of a video, its content;
\* prior_run_ids is a set, repetition in it is checked where it would arise.
Checkpoint == [observed : Seq(Videos), completed : [Videos -> Contents \cup {None}],
               attempts : Counts, pending : SUBSET Videos,
               run : RunIds, prior : SUBSET RunIds]

\* attempts is final_attempt_counts; the first run of a chain keeps it in its
\* checkpoint only.
Package == [run : RunIds, resumes : RunIds \cup {None}, prior : SUBSET RunIds,
            items : Items, attempts : Counts,
            progress : {"exhausted", "continuation_remaining"}]

ASSUME NoneAssumption == None \notin Checkpoint /\ None \notin Package

Job == [input : Slots \cup {None}, output : Slots \cup {None},
        window : Windows, base : Checkpoint \cup {None}, run : RunIds \cup {None},
        items : Items, clash : BOOLEAN,
        queue : SUBSET Nat, rest : SUBSET Nat,
        attempts : Counts, todo : SUBSET (Videos \X Kinds)]

Completed(c) == {v \in Videos : c.completed[v] # None}
Attempted(c) == {v \in Videos : c.attempts[v] > 0}
Reported(items) == {v \in Videos : items[v] # NoItem}
Cached(items) == {v \in Videos : items[v].outcome \in {"completed", "unchanged"}}

\* The entries of the window are numbered; queue and rest are the numbers of
\* those to attempt in this run and of those left for later ones.
Rank(i, q) == Cardinality({k \in q : k <= i})
Batch(q) == {i \in q : Rank(i, q) <= BatchSize}
FaultUnattempted(q) == {i \in q : Rank(i, q) > BatchSize + 1}
Unattempted(q) == q \ Batch(q)

\* A job as produce_package sets it up before it looks at a checkpoint.
NewJob(input, output, w) ==
    [input |-> input, output |-> output, window |-> w, base |-> None,
     run |-> None, items |-> [v \in Videos |-> NoItem], clash |-> FALSE,
     queue |-> Batch(DOMAIN w.videos), rest |-> Unattempted(DOMAIN w.videos),
     attempts |-> [v \in Videos |-> 0], todo |-> {}]

NoJob == NewJob(None, None, CHOOSE w \in Windows : TRUE)

-----------------------------------------------------------------------------
(* Checkpoints.  The Fault operators, here and below, are plausible bugs    *)
(* seeded in place of the definition each is named for: the runs show that *)
(* the properties notice them.                                             *)

\* What load_checkpoint demands of the file itself.
WellFormed(c) ==
    /\ IsInjective(c.observed)
    /\ Completed(c) \cup c.pending \cup Attempted(c) \subseteq Range(c.observed)
    /\ c.pending \cap Completed(c) = {}
    /\ \A v \in Videos : c.attempts[v] <= AttemptCap

FaultIntact(c, s, v) == \A k \in Kinds : data[<<StemOf[s], v, k>>] # None

\* read_completed_artifacts: the files of v are there with the digests c says.
Intact(c, s, v) ==
    \A k \in Kinds : data[<<StemOf[s], v, k>>] = c.completed[v]

Loadable(s) ==
    /\ ckpt[s] # None
    /\ WellFormed(ckpt[s])
    /\ \A v \in Completed(ckpt[s]) : Intact(ckpt[s], s, v)

FaultRemaining(c, w) == {i \in DOMAIN c.observed : c.completed[c.observed[i]] = None}

\* reconcile_video_ids: what the window still shows of what was completed.
Preserved(c, w) == Range(w.videos) \cap Completed(c)
Remaining(c, w) == {i \in DOMAIN w.videos : c.completed[w.videos[i]] = None}

\* _checkpointed_item, from the bytes it reads back.
Unchanged(c, s, w) ==
    [v \in Videos |->
        IF v \in Preserved(c, w)
        THEN [outcome |-> "unchanged", content |-> data[<<StemOf[s], v, "normalized">>]]
        ELSE NoItem]

FaultRestarted(c, w) == [v \in Videos |-> 0]

\* attempts_by_id starts from the checkpoint's counts of the window's videos.
Carried(c, w) == [v \in Videos |-> IF v \in Range(w.videos) THEN c.attempts[v] ELSE 0]

\* add_item refuses a repeated id; a preserved video is added once per entry.
RepeatsPreserved(c, w) ==
    \E i, j \in DOMAIN w.videos :
        i < j /\ w.videos[i] = w.videos[j] /\ w.videos[i] \in Completed(c)

Lineage(c) == IF c = None THEN {} ELSE c.prior \cup {c.run}

\* PackageLineage.validated_dict for a new run r resuming c.
LineageAccepted(c, r) == c # None => c.run \notin c.prior /\ r \notin Lineage(c)

-----------------------------------------------------------------------------
Init == /\ ckpt = [s \in Slots |-> None]
        /\ data = [f \in Stems \X Videos \X Kinds |-> None]
        /\ packages = [d \in Dests |-> None]
        /\ pc = [p \in Producers |-> "idle"]
        /\ job = [p \in Producers |-> NoJob]

\* The run ends, by returning, by raising or by dying: its memory is gone.
Ends(p) == /\ pc' = [pc EXCEPT ![p] = "idle"]
           /\ job' = [job EXCEPT ![p] = NoJob]

\* YouTubeOptions accepts the paths; discovery answers.
Start(p) ==
    /\ pc[p] = "idle"
    /\ \E input, output \in Slots \cup {None}, w \in Windows :
          /\ input # None => output # None /\ input # output
          /\ job' = [job EXCEPT ![p] = NewJob(input, output, w)]
          /\ pc' = [pc EXCEPT ![p] = IF input = None THEN "acquire" ELSE "load"]
    /\ UNCHANGED <<ckpt, data, packages>>

\* load_checkpoint reads and checks the checkpoint file ...
Load(p) ==
    LET s == job[p].input IN
    /\ pc[p] = "load"
    /\ ckpt[s] # None /\ WellFormed(ckpt[s])
    /\ job' = [job EXCEPT ![p].base = ckpt[s]]
    /\ pc' = [pc EXCEPT ![p] = "reuse"]
    /\ UNCHANGED <<ckpt, data, packages>>

\* ... then every artifact it names; the preserved videos become unchanged
\* items and the first batch of the others is queued.
Resumed(j) ==
    LET todo == Remaining(j.base, j.window) IN
    [j EXCEPT !.items = Unchanged(j.base, j.input, j.window),
              !.clash = RepeatsPreserved(j.base, j.window),
              !.queue = Batch(todo),
              !.rest = Unattempted(todo),
              !.attempts = Carried(j.base, j.window)]

Reuse(p) ==
    /\ pc[p] = "reuse"
    /\ \A v \in Completed(job[p].base) : Intact(job[p].base, job[p].input, v)
    /\ job' = [job EXCEPT ![p] = Resumed(job[p])]
    /\ pc' = [pc EXCEPT ![p] = "acquire"]
    /\ UNCHANGED <<ckpt, data, packages>>

Reject(p) ==
    LET s == job[p].input
        c == job[p].base
    IN
    /\ \/ pc[p] = "load" /\ ~(ckpt[s] # None /\ WellFormed(ckpt[s]))
       \/ pc[p] = "reuse" /\ \E v \in Completed(c) : ~Intact(c, s, v)
    /\ Ends(p)
    /\ UNCHANGED <<ckpt, data, packages>>

\* The retry loop for the next video of the batch: after n tries it has an
\* observation, which the captions turn into a completed, skipped or failed
\* item, or it gives up with a failed one.  Nothing shared changes meanwhile.
Acquired == {i \in Item : i.outcome # "unchanged"}

Attempt(j, e, n, i) ==
    LET v == j.window.videos[e] IN
    [j EXCEPT !.items = [j.items EXCEPT ![v] = i],
              !.clash = j.clash \/ j.items[v] # NoItem,
              !.queue = j.queue \ {e},
              !.attempts = [j.attempts EXCEPT ![v] = j.attempts[v] + n]]

Acquire(p) ==
    /\ pc[p] = "acquire"
    /\ \E e \in job[p].queue, n \in 1..MaxTries, i \in Acquired :
          /\ \A f \in job[p].queue : e <= f
          /\ job' = [job EXCEPT ![p] = Attempt(job[p], e, n, i)]
    /\ UNCHANGED <<ckpt, data, packages, pc>>

Acquisition(p) == pc[p] = "acquire" /\ job[p].queue = {}
Actionable(j) == j.rest # {} \/ j.window.exhausted

\* CollectionProgressBlocked: more to come, but not through rediscovery.
Blocked(p) ==
    /\ Acquisition(p)
    /\ ~Actionable(job[p])
    /\ Ends(p)
    /\ UNCHANGED <<ckpt, data, packages>>

Sealable(j, d, r) ==
    /\ ~j.clash
    /\ LineageAccepted(j.base, r)
    /\ packages[d] = None

PackageOf(j, r) ==
    [run |-> r, resumes |-> IF j.base = None THEN None ELSE j.base.run,
     prior |-> Lineage(j.base), items |-> j.items, attempts |-> j.attempts,
     progress |-> IF j.rest = {} THEN "exhausted" ELSE "continuation_remaining"]

Seal(p) ==
    LET j == job[p] IN
    /\ Acquisition(p)
    /\ Actionable(j)
    /\ \E d \in Dests, r \in RunIds :
          /\ Sealable(j, d, r)
          /\ packages' = [packages EXCEPT ![d] = PackageOf(j, r)]
          /\ IF j.output = None
             THEN Ends(p)
             ELSE /\ pc' = [pc EXCEPT ![p] = "store"]
                  /\ job' = [job EXCEPT ![p].run = r, ![p].todo = Cached(j.items) \X Kinds]
    /\ UNCHANGED <<ckpt, data>>

\* add_item, the lineage check or seal() refuse, after all the work.
RefuseSeal(p) ==
    /\ Acquisition(p)
    /\ Actionable(job[p])
    /\ \E d \in Dests, r \in RunIds : ~Sealable(job[p], d, r)
    /\ Ends(p)
    /\ UNCHANGED <<ckpt, data, packages>>

\* save_checkpoint_artifacts replaces one file atomically.  Preserved videos
\* come first, normalized before captured; copy_completed_item verifies what
\* it copies once more before it writes.
Due(j, v, k) ==
    /\ <<v, k>> \in j.todo
    /\ k = "captured" => <<v, "normalized">> \notin j.todo
    /\ j.items[v].outcome = "completed"
          => \A u \in Videos : j.items[u].outcome = "unchanged"
                                   => \A l \in Kinds : <<u, l>> \notin j.todo

Copies(j, v, k) == j.items[v].outcome = "unchanged" /\ k = "normalized"

Store(p) ==
    LET j == job[p] IN
    /\ pc[p] = "store"
    /\ \E v \in Videos, k \in Kinds :
          /\ Due(j, v, k)
          /\ Copies(j, v, k) => Intact(j.base, j.input, v)
          /\ data' = [data EXCEPT ![<<StemOf[j.output], v, k>>] = j.items[v].content]
          /\ job' = [job EXCEPT ![p].todo = @ \ {<<v, k>>}]
    /\ UNCHANGED <<ckpt, packages, pc>>

CopyFails(p) ==
    LET j == job[p] IN
    /\ pc[p] = "store"
    /\ \E v \in Videos, k \in Kinds :
          Due(j, v, k) /\ Copies(j, v, k) /\ ~Intact(j.base, j.input, v)
    /\ Ends(p)
    /\ UNCHANGED <<ckpt, data, packages>>

Pending(j) == {j.window.videos[i] : i \in j.rest}

FaultCheckpointOf(j) ==
    [observed |-> j.window.videos,
     completed |-> [v \in Videos |-> IF j.items[v].content = None /\ j.base # None
                                      THEN j.base.completed[v]
                                      ELSE j.items[v].content],
     attempts |-> j.attempts, pending |-> Pending(j),
     run |-> j.run, prior |-> Lineage(j.base)]

FaultRereadingCheckpointOf(j) ==
    [observed |-> j.window.videos,
     completed |-> [v \in Videos |-> data[<<StemOf[j.output], v, "normalized">>]],
     attempts |-> j.attempts, pending |-> Pending(j),
     run |-> j.run, prior |-> Lineage(j.base)]

\* save_checkpoint replaces the checkpoint file atomically.
CheckpointOf(j) ==
    [observed |-> j.window.videos,
     completed |-> [v \in Videos |-> j.items[v].content],
     attempts |-> j.attempts, pending |-> Pending(j),
     run |-> j.run, prior |-> Lineage(j.base)]

FaultSave(p) ==
    LET c == CheckpointOf(job[p]) IN
    /\ pc[p] = "store" /\ job[p].todo = {}
    /\ ckpt' = [ckpt EXCEPT ![job[p].output] = c]
    /\ data' = [f \in DOMAIN data |-> IF c.completed[f[2]] = None THEN None ELSE data[f]]
    /\ Ends(p)
    /\ UNCHANGED packages

Save(p) ==
    /\ pc[p] = "store"
    /\ job[p].todo = {}
    /\ ckpt' = [ckpt EXCEPT ![job[p].output] = CheckpointOf(job[p])]
    /\ Ends(p)
    /\ UNCHANGED <<data, packages>>

\* The process dies, or any read, write or verification raises.
Crash(p) ==
    /\ pc[p] # "idle"
    /\ Ends(p)
    /\ UNCHANGED <<ckpt, data, packages>>

Next == \E p \in Producers :
           \/ Start(p) \/ Load(p) \/ Reuse(p) \/ Reject(p)
           \/ Acquire(p) \/ Blocked(p) \/ Seal(p) \/ RefuseSeal(p)
           \/ Store(p) \/ CopyFails(p) \/ Save(p) \/ Crash(p)

Spec == Init /\ [][Next]_vars

-----------------------------------------------------------------------------
TypeOK == /\ ckpt \in [Slots -> Checkpoint \cup {None}]
          /\ data \in [Stems \X Videos \X Kinds -> Contents \cup {None}]
          /\ packages \in [Dests -> Package \cup {None}]
          /\ pc \in [Producers -> {"idle", "load", "reuse", "acquire", "store"}]
          /\ job \in [Producers -> Job]
          /\ \A p \in Producers :
                job[p].queue \cup job[p].rest \subseteq DOMAIN job[p].window.videos

Sealed == {d \in Dests : packages[d] # None}
Outcome(d, v) == packages[d].items[v].outcome
Content(d, v) == packages[d].items[v].content

\* The package at d is the one of the run that c is the checkpoint of.
Publishes(d, c) ==
    /\ packages[d].run = c.run
    /\ packages[d].prior = c.prior
    /\ packages[d].attempts = c.attempts
    /\ \A v \in Completed(c) : /\ v \in Cached(packages[d].items)
                              /\ Content(d, v) = c.completed[v]

\* A checkpoint is only ever written after the package of its run: whatever
\* was interrupted or overwritten, what a checkpoint says is completed is, with
\* that content, in a sealed package of the run and the lineage it names.
CheckpointsArePublished ==
    \A s \in Slots : ckpt[s] # None => \E d \in Sealed : Publishes(d, ckpt[s])

\* "Unchanged" means what it says: the same content was acquired, as a
\* completed item, by a run of the package's own lineage, although the files
\* it was read back from may have been replaced by any run in between.
UnchangedWasAcquired ==
    \A d \in Sealed : \A v \in Videos :
        Outcome(d, v) = "unchanged" =>
            \E e \in Sealed :
                /\ packages[e].run \in packages[d].prior
                /\ Outcome(e, v) = "completed"
                /\ Content(e, v) = Content(d, v)

\* The package d resumes the package e.
Resumes(d, e) ==
    /\ packages[d].resumes = packages[e].run
    /\ packages[d].prior = packages[e].prior \cup {packages[e].run}
    /\ packages[e].run \notin packages[e].prior

\* A video the resumed window shows has at least the attempts it had, and one
\* that the resumed run acquired itself has more; others are not counted.
CountedOn(d, e, v) ==
    \/ Outcome(d, v) \in {"unchanged", "absent"}
       /\ packages[d].attempts[v] \in {0, packages[e].attempts[v]}
    \/ packages[d].attempts[v] > packages[e].attempts[v]

\* A resumed package continues a sealed one, under a new run id, and its
\* attempts are cumulative: it records at least the attempts of the package it
\* resumes, and at least one more for whatever it acquired itself, so that no
\* failure turns into success without a recorded new attempt.
ResumeIsRecorded ==
    \A d \in Sealed :
        packages[d].resumes # None =>
            /\ packages[d].run \notin packages[d].prior
            /\ \E e \in Sealed :
                  /\ Resumes(d, e)
                  /\ \A v \in Videos : CountedOn(d, e, v)

\* A package that claims the window is exhausted accounts for all of it, and
\* one that does not left something out.  (The window of a package is not part
\* of it; the claim is about the runs that are about to store theirs.)
ProgressIsHonest ==
    \A p \in Producers :
        pc[p] = "store" =>
            \E d \in Sealed :
                /\ packages[d].run = job[p].run
                /\ packages[d].progress = "exhausted"
                      <=> Range(job[p].window.videos) = Reported(packages[d].items)

\* Storing an output checkpoint never costs a run the checkpoint it resumed
\* from, whatever paths were chosen and wherever it dies: it can be resumed
\* from there again.  Only other checkpoints kept in the output's own artifact
\* directory may stop loading.  (For runs that do not overlap.)
InputSurvives ==
    [][\A s \in Slots :
          Loadable(s) /\ ~Loadable(s)' =>
              \E p \in Producers : /\ pc[p] = "store"
                                   /\ StemOf[s] = StemOf[job[p].output]
                                   /\ s # job[p].input]_vars

\* A run that returns normally leaves a checkpoint the next run can load.
SavedIsLoadable ==
    [][\A p \in Producers, s \in Slots :
          Save(p) /\ s = job[p].output => Loadable(s)']_vars

\* docs/youtube-source-package-adapter.md: a resumed run acquires the next
\* batch.  If videos its checkpoint left pending are still in the window, the
\* run attempts at least one of them.
ResumeAcquiresNextBatch ==
    \A p \in Producers :
        LET j == job[p] IN
        pc[p] = "store" /\ j.base # None =>
            LET waiting == j.base.pending \cap Range(j.window.videos) IN
            waiting # {} => waiting \cap Reported(j.items) # {}
=============================================================================
