------------------------ MODULE YouTubeProducerProofs ------------------------
(***************************************************************************)
(* What holds of YouTubeProducer for every number of processes, videos,    *)
(* checkpoint paths and runs, every batch size and retry limit, and every  *)
(* way checkpoint paths share artifact directories.                        *)
(***************************************************************************)
EXTENDS YouTubeProducer, FiniteSetTheorems, TLAPS

-----------------------------------------------------------------------------
(* Type correctness.                                                       *)

\* What TypeOK says of the job of one producer.
IsJob(j) == /\ j \in Job
            /\ j.queue \cup j.rest \subseteq DOMAIN j.window.videos

LEMMA WindowType ==
    ASSUME NEW w \in Windows
    PROVE  /\ DOMAIN w.videos \subseteq Nat
           /\ \A i \in DOMAIN w.videos : w.videos[i] \in Videos
<1>1. w.videos \in Seq(Videos)
  BY ConstantsAssumption
<1>2. QED
  BY <1>1

LEMMA BatchesPart ==
    ASSUME NEW q
    PROVE  Batch(q) \subseteq q /\ Unattempted(q) \subseteq q
BY DEF Batch, Unattempted

LEMMA NewJobType ==
    ASSUME NEW input \in Slots \cup {None}, NEW output \in Slots \cup {None},
           NEW w \in Windows
    PROVE  IsJob(NewJob(input, output, w))
<1>1. /\ Batch(DOMAIN w.videos) \subseteq DOMAIN w.videos
      /\ Unattempted(DOMAIN w.videos) \subseteq DOMAIN w.videos
      /\ DOMAIN w.videos \subseteq Nat
  BY WindowType, BatchesPart
<1>2. [v \in Videos |-> NoItem] \in Items
  BY DEF Items
<1>3. [v \in Videos |-> 0] \in Counts
  BY DEF Counts
<1>4. QED
  BY <1>1, <1>2, <1>3 DEF NewJob, IsJob, Job

LEMMA NoJobType == IsJob(NoJob)
<1>1. (CHOOSE w \in Windows : TRUE) \in Windows
  BY ConstantsAssumption
<1>2. QED
  BY <1>1, NewJobType DEF NoJob

\* Replacing the job of one producer by a job keeps the types of all.
LEMMA JobStep ==
    ASSUME TypeOK, NEW p \in Producers, NEW j, IsJob(j),
           job' = [job EXCEPT ![p] = j]
    PROVE  /\ job' \in [Producers -> Job]
           /\ \A q \in Producers : IsJob(job'[q])
BY DEF TypeOK, IsJob

LEMMA EndsType ==
    ASSUME TypeOK, NEW p \in Producers, Ends(p)
    PROVE  /\ job' \in [Producers -> Job]
           /\ \A q \in Producers : IsJob(job'[q])
           /\ pc' \in [Producers -> {"idle", "load", "reuse", "acquire", "store"}]
<1>1. job' \in [Producers -> Job] /\ \A q \in Producers : IsJob(job'[q])
  BY NoJobType, JobStep DEF Ends
<1>2. QED
  BY <1>1 DEF Ends, TypeOK

LEMMA StartType ==
    ASSUME TypeOK, NEW p \in Producers, Start(p)
    PROVE  TypeOK'
<1>1. PICK input \in Slots \cup {None}, output \in Slots \cup {None}, w \in Windows :
          /\ job' = [job EXCEPT ![p] = NewJob(input, output, w)]
          /\ pc' = [pc EXCEPT ![p] = IF input = None THEN "acquire" ELSE "load"]
  BY DEF Start
<1>2. IsJob(NewJob(input, output, w))
  BY NewJobType
<1>3. job' \in [Producers -> Job] /\ \A q \in Producers : IsJob(job'[q])
  BY <1>1, <1>2, JobStep
<1>4. pc' \in [Producers -> {"idle", "load", "reuse", "acquire", "store"}]
  BY <1>1 DEF TypeOK
<1>5. QED
  BY <1>3, <1>4 DEF Start, TypeOK, IsJob

LEMMA LoadType ==
    ASSUME TypeOK, NEW p \in Producers, Load(p), job[p].input \in Slots
    PROVE  TypeOK'
<1> DEFINE j == [job[p] EXCEPT !.base = ckpt[job[p].input]]
<1>1. ckpt[job[p].input] \in Checkpoint
  BY DEF Load, TypeOK
<1>2. IsJob(j)
  BY <1>1 DEF TypeOK, IsJob, Job
<1>3. job' = [job EXCEPT ![p] = j]
  BY DEF Load
<1>4. job' \in [Producers -> Job] /\ \A q \in Producers : IsJob(job'[q])
  BY <1>2, <1>3, JobStep
<1>5. pc' \in [Producers -> {"idle", "load", "reuse", "acquire", "store"}]
  BY DEF Load, TypeOK
<1>6. QED
  BY <1>4, <1>5 DEF Load, TypeOK, IsJob

\* The bytes read back for a video are the completed content: the digests
\* were compared, and the normalized file is among those compared.
LEMMA UnchangedContent ==
    ASSUME NEW c, NEW s, NEW w, \A v \in Completed(c) : Intact(c, s, v),
           NEW v \in Videos
    PROVE  Unchanged(c, s, w)[v] =
              IF v \in Preserved(c, w)
              THEN [outcome |-> "unchanged", content |-> c.completed[v]]
              ELSE NoItem
<1>1. v \in Preserved(c, w) => data[<<StemOf[s], v, "normalized">>] = c.completed[v]
  BY ConstantsAssumption DEF Preserved, Intact
<1>2. QED
  BY <1>1 DEF Unchanged

LEMMA ReuseType ==
    ASSUME TypeOK, NEW p \in Producers, Reuse(p), job[p].base # None
    PROVE  TypeOK'
<1> DEFINE c == job[p].base
           w == job[p].window
           i == Unchanged(c, job[p].input, w)
           q == Remaining(c, w)
<1>1. c \in Checkpoint /\ w \in Windows /\ job[p] \in Job
  BY DEF TypeOK, Job
<1>2. i \in Items
  <2>1. \A v \in Videos : i[v] \in Item \cup {NoItem}
    <3> SUFFICES ASSUME NEW v \in Videos PROVE i[v] \in Item \cup {NoItem}
      OBVIOUS
    <3>1. i[v] = IF v \in Preserved(c, w)
                 THEN [outcome |-> "unchanged", content |-> c.completed[v]]
                 ELSE NoItem
      BY UnchangedContent DEF Reuse
    <3>2. v \in Preserved(c, w) => c.completed[v] \in Contents
      BY <1>1 DEF Preserved, Completed, Checkpoint
    <3>3. QED
      BY <3>1, <3>2 DEF Item
  <2>2. i = [v \in Videos |-> i[v]]
    BY DEF Unchanged
  <2>3. QED
    BY <2>1, <2>2 DEF Items
<1>3. RepeatsPreserved(c, w) \in BOOLEAN
  BY Zenon DEF RepeatsPreserved
<1>4. /\ Batch(q) \subseteq DOMAIN w.videos
      /\ Unattempted(q) \subseteq DOMAIN w.videos
      /\ DOMAIN w.videos \subseteq Nat
  BY <1>1, WindowType, BatchesPart DEF Remaining
<1>5. Carried(c, w) \in Counts
  BY <1>1 DEF Carried, Counts, Checkpoint
<1>6. IsJob(Resumed(job[p]))
  BY <1>1, <1>2, <1>3, <1>4, <1>5 DEF IsJob, Job, Resumed
<1>7. job' \in [Producers -> Job] /\ \A r \in Producers : IsJob(job'[r])
  BY <1>6, JobStep DEF Reuse
<1>8. pc' \in [Producers -> {"idle", "load", "reuse", "acquire", "store"}]
  BY DEF Reuse, TypeOK
<1>9. QED
  BY <1>7, <1>8 DEF Reuse, TypeOK, IsJob

LEMMA AttemptType ==
    ASSUME NEW j, IsJob(j), NEW e \in j.queue, NEW n \in 1..MaxTries,
           NEW i \in Acquired
    PROVE  /\ j.window.videos[e] \in Videos
           /\ n \in Nat \ {0}
           /\ IsJob(Attempt(j, e, n, i))
<1> DEFINE v == j.window.videos[e]
<1>1. /\ j \in Job
      /\ j.window \in Windows
      /\ j.items \in Items
      /\ j.attempts \in Counts
  BY DEF IsJob, Job
<1>2. v \in Videos
  BY <1>1, WindowType DEF IsJob
<1>3. n \in Nat \ {0}
  BY ConstantsAssumption
<1>4. [j.items EXCEPT ![v] = i] \in Items
  BY <1>1, <1>2 DEF Items, Acquired
<1>5. [j.attempts EXCEPT ![v] = j.attempts[v] + n] \in Counts
  BY <1>1, <1>2, <1>3 DEF Counts
<1>6. (j.clash \/ j.items[v] # NoItem) \in BOOLEAN
  OBVIOUS
<1>7. IsJob(Attempt(j, e, n, i))
  <2> HIDE DEF v
  <2>1. Attempt(j, e, n, i) =
           [j EXCEPT !.items = [j.items EXCEPT ![v] = i],
                     !.clash = j.clash \/ j.items[v] # NoItem,
                     !.queue = j.queue \ {e},
                     !.attempts = [j.attempts EXCEPT ![v] = j.attempts[v] + n]]
    BY DEF Attempt, v
  <2> DEFINE items == [j.items EXCEPT ![v] = i]
             clash == j.clash \/ j.items[v] # NoItem
             attempts == [j.attempts EXCEPT ![v] = j.attempts[v] + n]
             new == [j EXCEPT !.items = items, !.clash = clash, !.queue = j.queue \ {e},
                              !.attempts = attempts]
  <2>2. /\ items \in Items /\ clash \in BOOLEAN /\ attempts \in Counts
        /\ j.queue \ {e} \in SUBSET Nat
    BY <1>1, <1>4, <1>5, <1>6 DEF Job
  <2> HIDE DEF items, clash, attempts
  <2>3. new \in Job /\ new.queue = j.queue \ {e} /\ new.rest = j.rest /\ new.window = j.window
    BY <2>2, <1>1 DEF Job
  <2>4. IsJob(new)
    BY <2>3 DEF IsJob
  <2>5. QED
    BY <2>1, <2>4 DEF items, clash, attempts
<1>8. QED
  BY <1>2, <1>3, <1>7

LEMMA AcquireType ==
    ASSUME TypeOK, NEW p \in Producers, Acquire(p)
    PROVE  TypeOK'
<1>1. IsJob(job[p])
  BY DEF TypeOK, IsJob
<1>2. PICK e \in job[p].queue, n \in 1..MaxTries, i \in Acquired :
        job' = [job EXCEPT ![p] = Attempt(job[p], e, n, i)]
  BY DEF Acquire
<1>3. job' \in [Producers -> Job] /\ \A r \in Producers : IsJob(job'[r])
  BY <1>1, <1>2, AttemptType, JobStep
<1>4. QED
  BY <1>3 DEF Acquire, TypeOK, IsJob

LEMMA PackageType ==
    ASSUME NEW j \in Job, NEW r \in RunIds
    PROVE  PackageOf(j, r) \in Package
<1>1. j.base # None => j.base.run \in RunIds
  BY DEF Job, Checkpoint
<1>2. Lineage(j.base) \in SUBSET RunIds
  BY DEF Job, Checkpoint, Lineage
<1>3. QED
  BY <1>1, <1>2 DEF Job, PackageOf, Package

LEMMA CheckpointType ==
    ASSUME NEW j, IsJob(j), j.run # None
    PROVE  CheckpointOf(j) \in Checkpoint
<1>1. j.window.videos \in Seq(Videos)
  BY ConstantsAssumption DEF IsJob, Job
<1>2. [v \in Videos |-> j.items[v].content] \in [Videos -> Contents \cup {None}]
  BY DEF IsJob, Job, Items, Item, NoItem
<1>3. Pending(j) \in SUBSET Videos
  BY WindowType DEF Pending, IsJob, Job
<1>4. Lineage(j.base) \in SUBSET RunIds
  BY DEF IsJob, Job, Checkpoint, Lineage
<1>5. j.run \in RunIds /\ j.attempts \in Counts
  BY DEF IsJob, Job
<1>6. QED
  BY <1>1, <1>2, <1>3, <1>4, <1>5 DEF CheckpointOf, Checkpoint

LEMMA SealType ==
    ASSUME TypeOK, NEW p \in Producers, Seal(p)
    PROVE  TypeOK'
<1> DEFINE j == job[p]
<1>1. /\ j \in Job
      /\ IsJob(j)
  BY DEF TypeOK, IsJob
<1>2. PICK d \in Dests, r \in RunIds :
        /\ packages' = [packages EXCEPT ![d] = PackageOf(j, r)]
        /\ IF j.output = None
           THEN Ends(p)
           ELSE /\ pc' = [pc EXCEPT ![p] = "store"]
                /\ job' = [job EXCEPT ![p].run = r, ![p].todo = Cached(j.items) \X Kinds]
  BY DEF Seal
<1>3. PackageOf(j, r) \in Package
  BY <1>1, PackageType
<1>4. packages' \in [Dests -> Package \cup {None}]
  BY <1>2, <1>3 DEF TypeOK
<1>5. CASE j.output = None
  BY <1>2, <1>4, <1>5, EndsType DEF Seal, TypeOK, IsJob
<1>6. CASE j.output # None
  <2> DEFINE k == [j EXCEPT !.run = r, !.todo = Cached(j.items) \X Kinds]
  <2>1. Cached(j.items) \X Kinds \in SUBSET (Videos \X Kinds)
    BY DEF Cached
  <2>2. IsJob(k)
    BY <1>1, <2>1 DEF IsJob, Job
  <2>3. job' = [job EXCEPT ![p] = k]
    BY <1>2, <1>6
  <2>4. job' \in [Producers -> Job] /\ \A q \in Producers : IsJob(job'[q])
    BY <2>2, <2>3, JobStep
  <2>5. pc' \in [Producers -> {"idle", "load", "reuse", "acquire", "store"}]
    BY <1>2, <1>6 DEF TypeOK
  <2>6. QED
    BY <1>4, <2>4, <2>5 DEF Seal, TypeOK, IsJob
<1>7. QED
  BY <1>5, <1>6

LEMMA StoreType ==
    ASSUME TypeOK, NEW p \in Producers, Store(p), job[p].output \in Slots
    PROVE  TypeOK'
<1> DEFINE j == job[p]
<1>1. j \in Job /\ IsJob(j)
  BY DEF TypeOK, IsJob
<1>2. PICK v \in Videos, k \in Kinds :
        /\ data' = [data EXCEPT ![<<StemOf[j.output], v, k>>] = j.items[v].content]
        /\ job' = [job EXCEPT ![p].todo = j.todo \ {<<v, k>>}]
  BY DEF Store
<1>3. j.items[v].content \in Contents \cup {None}
  BY <1>1 DEF Job, Items, Item, NoItem
<1>4. data' \in [Stems \X Videos \X Kinds -> Contents \cup {None}]
  BY <1>2, <1>3, ConstantsAssumption DEF TypeOK
<1>5. IsJob([j EXCEPT !.todo = j.todo \ {<<v, k>>}])
  BY <1>1 DEF IsJob, Job
<1>6. job' \in [Producers -> Job] /\ \A q \in Producers : IsJob(job'[q])
  BY <1>2, <1>5, JobStep
<1>7. QED
  BY <1>4, <1>6 DEF Store, TypeOK, IsJob

LEMMA SaveType ==
    ASSUME TypeOK, NEW p \in Producers, Save(p), job[p].run # None
    PROVE  TypeOK'
<1> DEFINE j == job[p]
<1>1. j \in Job /\ IsJob(j)
  BY DEF TypeOK, IsJob
<1>2. CheckpointOf(j) \in Checkpoint
  BY <1>1, CheckpointType
<1>3. ckpt' \in [Slots -> Checkpoint \cup {None}]
  BY <1>2 DEF Save, TypeOK
<1>4. QED
  BY <1>3, EndsType DEF Save, TypeOK, IsJob

\* The paths and the run id a producer relies on at each of its steps.
Control ==
    \A p \in Producers :
        /\ pc[p] \in {"load", "reuse"} => job[p].input \in Slots
        /\ pc[p] = "reuse" => job[p].base # None
        /\ pc[p] = "store" => job[p].output \in Slots /\ job[p].run # None

LEMMA StepType ==
    ASSUME TypeOK, Control, [Next]_vars
    PROVE  TypeOK'
<1>1. ASSUME NEW p \in Producers, Start(p) PROVE TypeOK'
  BY <1>1, StartType
<1>2. ASSUME NEW p \in Producers, Load(p) PROVE TypeOK'
  BY <1>2, LoadType DEF Load, Control
<1>3. ASSUME NEW p \in Producers, Reuse(p) PROVE TypeOK'
  BY <1>3, ReuseType DEF Reuse, Control
<1>4. ASSUME NEW p \in Producers,
             Reject(p) \/ Blocked(p) \/ RefuseSeal(p) \/ CopyFails(p) \/ Crash(p)
      PROVE TypeOK'
  <2>1. Ends(p) /\ UNCHANGED <<ckpt, data, packages>>
    BY <1>4 DEF Reject, Blocked, RefuseSeal, CopyFails, Crash
  <2>2. QED
    BY <2>1, EndsType DEF TypeOK, IsJob
<1>5. ASSUME NEW p \in Producers, Acquire(p) PROVE TypeOK'
  BY <1>5, AcquireType
<1>6. ASSUME NEW p \in Producers, Seal(p) PROVE TypeOK'
  BY <1>6, SealType
<1>7. ASSUME NEW p \in Producers, Store(p) PROVE TypeOK'
  BY <1>7, StoreType DEF Store, Control
<1>8. ASSUME NEW p \in Producers, Save(p) PROVE TypeOK'
  BY <1>8, SaveType DEF Save, Control
<1>9. CASE UNCHANGED vars
  BY <1>9 DEF vars, TypeOK
<1>10. QED
  BY <1>1, <1>2, <1>3, <1>4, <1>5, <1>6, <1>7, <1>8, <1>9 DEF Next

LEMMA StepControl ==
    ASSUME TypeOK, Control, [Next]_vars
    PROVE  Control'
<1> USE DEF Control
<1>0. None \notin Slots
  BY ConstantsAssumption
<1>1. ASSUME NEW p \in Producers, Ends(p) PROVE Control'
  BY <1>1 DEF Ends, TypeOK
<1>2. ASSUME NEW p \in Producers, Start(p) PROVE Control'
  <2>1. PICK input \in Slots \cup {None}, output \in Slots \cup {None}, w \in Windows :
            /\ job' = [job EXCEPT ![p] = NewJob(input, output, w)]
            /\ pc' = [pc EXCEPT ![p] = IF input = None THEN "acquire" ELSE "load"]
    BY <1>2 DEF Start
  <2>2. NewJob(input, output, w).input = input
    BY DEF NewJob
  <2>3. QED
    BY <2>1, <2>2 DEF TypeOK
<1>3. ASSUME NEW p \in Producers, Load(p) PROVE Control'
  BY <1>3 DEF Load, TypeOK, Job
<1>4. ASSUME NEW p \in Producers, Reuse(p) PROVE Control'
  BY <1>4 DEF Reuse, TypeOK
<1>5. ASSUME NEW p \in Producers, Acquire(p) PROVE Control'
  BY <1>5 DEF Acquire, TypeOK
<1>6. ASSUME NEW p \in Producers, Seal(p) PROVE Control'
  <2>1. CASE job[p].output = None
    BY <1>1, <1>6, <2>1 DEF Seal
  <2>2. CASE job[p].output # None
    BY <1>6, <2>2, ConstantsAssumption DEF Seal, TypeOK, Job
  <2>3. QED
    BY <2>1, <2>2
<1>7. ASSUME NEW p \in Producers, Store(p) PROVE Control'
  BY <1>7 DEF Store, TypeOK, Job
<1>8. CASE UNCHANGED vars
  BY <1>8 DEF vars
<1>9. QED
  BY <1>1, <1>2, <1>3, <1>4, <1>5, <1>6, <1>7, <1>8
     DEF Next, Reject, Blocked, RefuseSeal, CopyFails, Crash, Save

LEMMA InitType == Init => TypeOK /\ Control
<1> SUFFICES ASSUME Init PROVE TypeOK /\ Control
  OBVIOUS
<1>1. \A p \in Producers : IsJob(job[p])
  BY NoJobType DEF Init
<1>2. TypeOK
  BY <1>1 DEF Init, TypeOK, IsJob
<1>3. Control
  BY DEF Init, Control
<1>4. QED
  BY <1>2, <1>3

\* The types of TypeOK, and with them that a run has its input path while it
\* loads, its base while it reuses, and its output path and run id while it
\* stores: the paths and ids of produce_package are optional.
THEOREM TypedControl == Spec => [](TypeOK /\ Control)
<1>1. Init => TypeOK /\ Control
  BY InitType
<1>2. TypeOK /\ Control /\ [Next]_vars => (TypeOK /\ Control)'
  BY StepType, StepControl
<1>3. QED
  BY <1>1, <1>2, PTL DEF Spec

\* TypeOK, the type invariant of produce_package's files and runs, for any
\* number of processes, videos, paths and runs.
THEOREM TypeCorrect == Spec => []TypeOK
<1>1. TypeOK /\ Control => TypeOK
  OBVIOUS
<1>2. QED
  BY <1>1, TypedControl, PTL

-----------------------------------------------------------------------------
(* Lineage.  CheckpointsArePublished, UnchangedWasAcquired and             *)
(* ResumeIsRecorded talk about what is on disk; to be preserved they need  *)
(* what each run in progress has read into its memory to be traceable to   *)
(* sealed packages already, whatever happened to the files since.          *)

\* The checkpoint a run holds was published, even if its file is gone.
HoldsPublished(j) == j.base # None => \E d \in Sealed : Publishes(d, j.base)

\* An unchanged item repeats what the checkpoint says of its video.
CopiesBase(j) ==
    \A v \in Videos : j.items[v].outcome = "unchanged" =>
        /\ j.base # None
        /\ j.base.completed[v] # None
        /\ j.items[v].content = j.base.completed[v]

\* The attempts of a run go on from those of its base, for the videos it has
\* dealt with ...
CountsOn(j, v) ==
    \/ /\ j.items[v].outcome \in {"unchanged", "absent"}
       /\ j.attempts[v] \in {0, j.base.attempts[v]}
    \/ j.attempts[v] > j.base.attempts[v]

\* ... and for those it is about to attempt.
CountsFromBase(j) ==
    j.base # None =>
        /\ \A v \in Videos : CountsOn(j, v)
        /\ \A e \in j.queue : j.attempts[j.window.videos[e]]
                                 >= j.base.attempts[j.window.videos[e]]

\* The package of a run that is storing its checkpoint is sealed.
HasPublished(j) == \E d \in Sealed : packages[d] = PackageOf(j, j.run)

Traceable(p) ==
    /\ HoldsPublished(job[p])
    /\ pc[p] \in {"acquire", "store"} => CopiesBase(job[p]) /\ CountsFromBase(job[p])
    /\ pc[p] = "store" => HasPublished(job[p])

LineageInv ==
    /\ CheckpointsArePublished
    /\ UnchangedWasAcquired
    /\ ResumeIsRecorded
    /\ \A p \in Producers : Traceable(p)

\* Packages are sealed for ever.
PackagesKept == \A d \in Sealed : d \in Sealed' /\ packages'[d] = packages[d]

LEMMA SealsOnce ==
    ASSUME TypeOK, [Next]_vars
    PROVE  PackagesKept
<1>1. ASSUME NEW p \in Producers, Seal(p) PROVE PackagesKept
  <2>1. PICK d \in Dests, r \in RunIds :
          /\ packages[d] = None
          /\ packages' = [packages EXCEPT ![d] = PackageOf(job[p], r)]
    BY <1>1 DEF Seal, Sealable
  <2>2. QED
    BY <2>1 DEF PackagesKept, Sealed, TypeOK
<1>2. ASSUME UNCHANGED packages PROVE PackagesKept
  BY <1>2 DEF PackagesKept, Sealed
<1>3. QED
  BY <1>1, <1>2 DEF Next, vars, Start, Load, Reuse, Reject, Acquire, Blocked,
                    RefuseSeal, Store, CopyFails, Save, Crash

\* Publication and traceability only speak of packages that are there, so
\* they survive as packages are added.
LEMMA PublishesKept ==
    ASSUME PackagesKept, NEW c, \E d \in Sealed : Publishes(d, c)
    PROVE  (\E d \in Sealed : Publishes(d, c))'
BY DEF PackagesKept, Publishes, Content, Completed

LEMMA TraceableKept ==
    ASSUME PackagesKept, NEW p, Traceable(p), job'[p] = job[p], pc'[p] = pc[p]
    PROVE  Traceable(p)'
<1> DEFINE j == job[p]
<1>1. HoldsPublished(job[p])'
  BY PublishesKept DEF Traceable, HoldsPublished
<1>2. pc'[p] \in {"acquire", "store"} => CopiesBase(job[p])' /\ CountsFromBase(job[p])'
  BY DEF Traceable, CopiesBase, CountsFromBase, CountsOn
<1>3. pc'[p] = "store" => HasPublished(job[p])'
  BY DEF Traceable, HasPublished, PackagesKept, PackageOf
<1>4. QED
  BY <1>1, <1>2, <1>3 DEF Traceable

\* A step of one producer leaves the others alone.
LEMMA OthersKept ==
    ASSUME TypeOK, PackagesKept, \A p \in Producers : Traceable(p),
           NEW p \in Producers,
           NEW x, NEW y, job' = [job EXCEPT ![p] = x], pc' = [pc EXCEPT ![p] = y]
    PROVE  \A q \in Producers \ {p} : Traceable(q)'
<1> SUFFICES ASSUME NEW q \in Producers \ {p} PROVE Traceable(q)'
  OBVIOUS
<1>1. job'[q] = job[q] /\ pc'[q] = pc[q]
  BY DEF TypeOK
<1>2. QED
  BY <1>1, TraceableKept

LEMMA EndsTraceable ==
    ASSUME TypeOK, PackagesKept, \A p \in Producers : Traceable(p),
           NEW p \in Producers, Ends(p)
    PROVE  \A q \in Producers : Traceable(q)'
<1>1. \A q \in Producers \ {p} : Traceable(q)'
  BY OthersKept DEF Ends
<1>2. job'[p] = NoJob /\ pc'[p] = "idle"
  BY DEF Ends, TypeOK
<1>3. Traceable(p)'
  BY <1>2 DEF Traceable, HoldsPublished, NoJob, NewJob
<1>4. QED
  BY <1>1, <1>3

LEMMA StartTraceable ==
    ASSUME TypeOK, PackagesKept, \A p \in Producers : Traceable(p),
           NEW p \in Producers, Start(p)
    PROVE  \A q \in Producers : Traceable(q)'
<1>1. PICK input \in Slots \cup {None}, output \in Slots \cup {None}, w \in Windows :
          /\ job' = [job EXCEPT ![p] = NewJob(input, output, w)]
          /\ pc' = [pc EXCEPT ![p] = IF input = None THEN "acquire" ELSE "load"]
  BY DEF Start
<1>2. \A q \in Producers \ {p} : Traceable(q)'
  BY <1>1, OthersKept
<1>3. job'[p] = NewJob(input, output, w) /\ pc'[p] \in {"acquire", "load"}
  BY <1>1 DEF TypeOK
<1>4. job'[p].base = None /\ job'[p].items = [v \in Videos |-> NoItem]
  BY <1>3 DEF NewJob
<1>5. Traceable(p)'
  BY <1>3, <1>4 DEF Traceable, HoldsPublished, CopiesBase, CountsFromBase, NoItem
<1>6. QED
  BY <1>2, <1>5

LEMMA LoadTraceable ==
    ASSUME TypeOK, Control, PackagesKept, CheckpointsArePublished,
           \A p \in Producers : Traceable(p),
           NEW p \in Producers, Load(p)
    PROVE  \A q \in Producers : Traceable(q)'
<1> DEFINE c == ckpt[job[p].input]
<1>1. job[p].input \in Slots /\ c # None
  BY DEF Load, Control
<1>2. /\ job' = [job EXCEPT ![p] = [job[p] EXCEPT !.base = c]]
      /\ pc' = [pc EXCEPT ![p] = "reuse"]
  BY DEF Load
<1>3. \A q \in Producers \ {p} : Traceable(q)'
  BY <1>2, OthersKept
<1>4. job'[p].base = c /\ pc'[p] = "reuse"
  BY <1>2 DEF TypeOK, Job
<1>5. \E d \in Sealed : Publishes(d, c)
  BY <1>1 DEF CheckpointsArePublished
<1>6. PICK d \in Sealed : Publishes(d, c)
  BY <1>5
<1>7. d \in Sealed' /\ Publishes(d, job[p].base)'
  BY <1>4, <1>6 DEF PackagesKept, Publishes, Content, Completed
<1>8. HoldsPublished(job[p])'
  BY <1>7 DEF HoldsPublished
<1>9. Traceable(p)'
  BY <1>4, <1>8 DEF Traceable
<1>10. QED
  BY <1>3, <1>9

LEMMA ReuseTraceable ==
    ASSUME TypeOK, Control, PackagesKept, \A p \in Producers : Traceable(p),
           NEW p \in Producers, Reuse(p)
    PROVE  \A q \in Producers : Traceable(q)'
<1> DEFINE c == job[p].base
           w == job[p].window
           k == Resumed(job[p])
<1>1. /\ c \in Checkpoint /\ c # None /\ w \in Windows /\ job[p] \in Job
      /\ DOMAIN job[p] = {"input", "output", "window", "base", "run", "items",
                          "clash", "queue", "rest", "attempts", "todo"}
  BY DEF TypeOK, Job, Reuse, Control
<1>2. job' = [job EXCEPT ![p] = k] /\ pc' = [pc EXCEPT ![p] = "acquire"]
  BY DEF Reuse
<1>3. \A q \in Producers \ {p} : Traceable(q)'
  BY <1>2, OthersKept
<1>4. job'[p] = k /\ pc'[p] = "acquire"
  BY <1>2 DEF TypeOK
<1>5. /\ k.base = c /\ k.window = w
      /\ k.items = Unchanged(c, job[p].input, w)
      /\ k.attempts = Carried(c, w)
      /\ k.queue = Batch(Remaining(c, w))
  BY <1>1 DEF Resumed
<1> HIDE DEF k
<1>6. HoldsPublished(job[p])'
  <2>1. \E d \in Sealed : Publishes(d, c)
    BY <1>1 DEF Traceable, HoldsPublished
  <2>2. PICK d \in Sealed : Publishes(d, c)
    BY <2>1
  <2>3. d \in Sealed' /\ Publishes(d, job[p].base)'
    BY <1>4, <1>5, <2>2 DEF PackagesKept, Publishes, Content, Completed
  <2>4. QED
    BY <2>3 DEF HoldsPublished
<1>7. \A v \in Videos : \/ /\ v \in Preserved(c, w)
                           /\ k.items[v].outcome = "unchanged"
                           /\ k.items[v].content = c.completed[v]
                        \/ k.items[v].outcome = "absent"
  <2> SUFFICES ASSUME NEW v \in Videos
               PROVE  \/ /\ v \in Preserved(c, w)
                         /\ k.items[v].outcome = "unchanged"
                         /\ k.items[v].content = c.completed[v]
                      \/ k.items[v].outcome = "absent"
    OBVIOUS
  <2>1. k.items[v] = IF v \in Preserved(c, w)
                     THEN [outcome |-> "unchanged", content |-> c.completed[v]]
                     ELSE NoItem
    BY <1>5, UnchangedContent DEF Reuse
  <2>2. CASE v \in Preserved(c, w)
    BY <2>1, <2>2
  <2>3. CASE v \notin Preserved(c, w)
    BY <2>1, <2>3 DEF NoItem
  <2>4. QED
    BY <2>2, <2>3
<1>8. CopiesBase(k)
  BY <1>1, <1>5, <1>7 DEF CopiesBase, Preserved, Completed
<1>9. CountsFromBase(k)
  <2>1. ASSUME NEW v \in Videos PROVE CountsOn(k, v)
    <3>1. k.attempts[v] \in {0, c.attempts[v]}
      BY <1>5 DEF Carried
    <3>2. k.items[v].outcome \in {"unchanged", "absent"}
      BY <1>7
    <3>3. QED
      BY <1>5, <3>1, <3>2 DEF CountsOn
  <2>2. ASSUME NEW e \in k.queue
        PROVE  k.attempts[k.window.videos[e]] >= k.base.attempts[k.window.videos[e]]
    <3>1. e \in DOMAIN w.videos
      BY <1>5, <2>2, BatchesPart DEF Remaining
    <3>2. w.videos[e] \in Videos /\ w.videos[e] \in Range(w.videos)
      BY <1>1, <3>1, WindowType DEF Range
    <3>3. k.attempts[w.videos[e]] = c.attempts[w.videos[e]]
      BY <1>5, <3>2 DEF Carried
    <3>4. c.attempts[w.videos[e]] \in Nat
      BY <1>1, <3>2 DEF Checkpoint, Counts
    <3>5. QED
      BY <1>5, <3>3, <3>4
  <2>3. QED
    BY <2>1, <2>2 DEF CountsFromBase
<1>10. CopiesBase(job[p])' /\ CountsFromBase(job[p])'
  BY <1>4, <1>8, <1>9 DEF CopiesBase, CountsFromBase, CountsOn
<1>11. Traceable(p)'
  BY <1>4, <1>6, <1>10 DEF Traceable
<1>12. QED
  BY <1>3, <1>11

LEMMA AcquireTraceable ==
    ASSUME TypeOK, PackagesKept, \A p \in Producers : Traceable(p),
           NEW p \in Producers, Acquire(p)
    PROVE  \A q \in Producers : Traceable(q)'
<1> DEFINE j == job[p]
<1>1. pc[p] = "acquire" /\ pc' = pc /\ IsJob(j) /\ j \in Job
  BY DEF Acquire, TypeOK, IsJob
<1>2. PICK e \in j.queue, n \in 1..MaxTries, i \in Acquired :
        job' = [job EXCEPT ![p] = Attempt(j, e, n, i)]
  BY DEF Acquire
<1> DEFINE k == Attempt(j, e, n, i)
           v == j.window.videos[e]
<1>3. v \in Videos /\ n \in Nat \ {0} /\ IsJob(k)
  BY <1>1, <1>2, AttemptType
<1>4. \A q \in Producers \ {p} : Traceable(q)'
  <2>1. pc' = [pc EXCEPT ![p] = pc[p]]
    BY <1>1 DEF TypeOK
  <2>2. QED
    BY <1>2, <2>1, OthersKept
<1>5. job'[p] = k /\ pc'[p] = "acquire"
  BY <1>1, <1>2 DEF TypeOK
<1>6. /\ k.base = j.base /\ k.window = j.window
      /\ k.items = [j.items EXCEPT ![v] = i]
      /\ k.queue = j.queue \ {e}
      /\ k.attempts = [j.attempts EXCEPT ![v] = j.attempts[v] + n]
  BY <1>1 DEF Attempt, Job
<1>7. j.items \in Items /\ j.attempts \in Counts /\ i.outcome # "unchanged"
  BY <1>1 DEF Job, Acquired
<1> HIDE DEF k, v
<1>8. HoldsPublished(job[p])'
  <2>1. CASE j.base = None
    BY <1>5, <1>6, <2>1 DEF HoldsPublished
  <2>2. CASE j.base # None
    <3>1. PICK d \in Sealed : Publishes(d, j.base)
      BY <2>2 DEF Traceable, HoldsPublished
    <3>2. d \in Sealed' /\ Publishes(d, job[p].base)'
      BY <1>5, <1>6, <3>1 DEF PackagesKept, Publishes, Content, Completed
    <3>3. QED
      BY <3>2 DEF HoldsPublished
  <2>3. QED
    BY <2>1, <2>2
<1>9. CopiesBase(k)
  <2>1. CopiesBase(j)
    BY <1>1 DEF Traceable
  <2>2. QED
    BY <1>3, <1>6, <1>7, <2>1 DEF CopiesBase, Items
<1>10. CountsFromBase(k)
  <2>1. SUFFICES ASSUME j.base # None PROVE CountsFromBase(k)
    BY <1>6 DEF CountsFromBase
  <2>2. j.base.attempts \in Counts /\ CountsFromBase(j)
    BY <1>1, <2>1 DEF Job, Checkpoint, Traceable
  <2>3. \A u \in Videos : j.attempts[u] \in Nat /\ j.base.attempts[u] \in Nat
    BY <1>7, <2>2 DEF Counts
  <2>4. \A u \in Videos : k.attempts[u] = IF u = v THEN j.attempts[v] + n ELSE j.attempts[u]
    BY <1>6, <1>7 DEF Counts
  <2>5. \A u \in Videos : k.items[u] = IF u = v THEN i ELSE j.items[u]
    BY <1>6, <1>7 DEF Items
  <2>6. j.attempts[v] >= j.base.attempts[v]
    BY <2>1, <2>2 DEF CountsFromBase, v
  <2>7. ASSUME NEW u \in Videos PROVE CountsOn(k, u)
    <3>1. CASE u = v
      BY <1>3, <1>6, <2>3, <2>4, <2>6, <3>1 DEF CountsOn
    <3>2. CASE u # v
      BY <1>6, <2>1, <2>2, <2>4, <2>5, <3>2 DEF CountsOn, CountsFromBase
    <3>3. QED
      BY <3>1, <3>2
  <2>8. ASSUME NEW f \in k.queue
        PROVE  k.attempts[k.window.videos[f]] >= k.base.attempts[k.window.videos[f]]
    <3> DEFINE u == j.window.videos[f]
    <3>1. f \in j.queue
      BY <1>6, <2>8
    <3>2. u \in Videos
      BY <1>1, <3>1, WindowType DEF IsJob, Job
    <3>3. j.attempts[u] >= j.base.attempts[u]
      BY <2>1, <2>2, <3>1 DEF CountsFromBase
    <3> HIDE DEF u
    <3>4. k.attempts[u] >= j.base.attempts[u]
      BY <1>3, <2>3, <2>4, <3>2, <3>3
    <3>5. QED
      BY <1>6, <3>4 DEF u
  <2>9. QED
    BY <2>7, <2>8 DEF CountsFromBase
<1>11. CopiesBase(job[p])' /\ CountsFromBase(job[p])'
  BY <1>5, <1>9, <1>10 DEF CopiesBase, CountsFromBase, CountsOn
<1>12. Traceable(p)'
  BY <1>5, <1>8, <1>11 DEF Traceable
<1>13. QED
  BY <1>4, <1>12

LEMMA SealTraceable ==
    ASSUME TypeOK, PackagesKept, \A p \in Producers : Traceable(p),
           NEW p \in Producers, Seal(p)
    PROVE  \A q \in Producers : Traceable(q)'
<1> DEFINE j == job[p]
<1>1. pc[p] = "acquire" /\ j \in Job
  BY DEF Seal, Acquisition, TypeOK
<1>2. PICK d \in Dests, r \in RunIds :
        /\ Sealable(j, d, r)
        /\ packages' = [packages EXCEPT ![d] = PackageOf(j, r)]
        /\ IF j.output = None
           THEN Ends(p)
           ELSE /\ pc' = [pc EXCEPT ![p] = "store"]
                /\ job' = [job EXCEPT ![p].run = r, ![p].todo = Cached(j.items) \X Kinds]
  BY DEF Seal
<1>3. CASE j.output = None
  BY <1>2, <1>3, EndsTraceable
<1>4. CASE j.output # None
  <2> DEFINE k == [j EXCEPT !.run = r, !.todo = Cached(j.items) \X Kinds]
  <2>1. job' = [job EXCEPT ![p] = k] /\ pc' = [pc EXCEPT ![p] = "store"]
    BY <1>2, <1>4
  <2>2. \A q \in Producers \ {p} : Traceable(q)'
    BY <2>1, OthersKept
  <2>3. job'[p] = k /\ pc'[p] = "store"
    BY <2>1 DEF TypeOK
  <2>4. /\ k.base = j.base /\ k.items = j.items /\ k.attempts = j.attempts
        /\ k.window = j.window /\ k.queue = j.queue /\ k.rest = j.rest /\ k.run = r
    BY <1>1 DEF Job
  <2> HIDE DEF k
  <2>5. HoldsPublished(job[p])'
    <3>1. CASE j.base = None
      BY <2>3, <2>4, <3>1 DEF HoldsPublished
    <3>2. CASE j.base # None
      <4>1. PICK e \in Sealed : Publishes(e, j.base)
        BY <3>2 DEF Traceable, HoldsPublished
      <4>2. e \in Sealed' /\ Publishes(e, job[p].base)'
        BY <2>3, <2>4, <4>1 DEF PackagesKept, Publishes, Content, Completed
      <4>3. QED
        BY <4>2 DEF HoldsPublished
    <3>3. QED
      BY <3>1, <3>2
  <2>6. CopiesBase(job[p])' /\ CountsFromBase(job[p])'
    <3>1. CopiesBase(j) /\ CountsFromBase(j)
      BY <1>1 DEF Traceable
    <3>2. QED
      BY <2>3, <2>4, <3>1 DEF CopiesBase, CountsFromBase, CountsOn
  <2>7. HasPublished(job[p])'
    <3>1. packages'[d] = PackageOf(j, r) /\ packages'[d] # None
      <4>1. packages'[d] = PackageOf(j, r)
        BY <1>2 DEF TypeOK
      <4>2. QED
        BY <1>1, <1>2, <4>1, PackageType, NoneAssumption
    <3>2. d \in Sealed'
      BY <3>1 DEF Sealed
    <3>3. PackageOf(j, r) = PackageOf(job[p], job[p].run)'
      BY <2>3, <2>4 DEF PackageOf
    <3>4. QED
      BY <3>1, <3>2, <3>3 DEF HasPublished
  <2>8. Traceable(p)'
    BY <2>3, <2>5, <2>6, <2>7 DEF Traceable
  <2>9. QED
    BY <2>2, <2>8
<1>5. QED
  BY <1>3, <1>4

LEMMA StoreTraceable ==
    ASSUME TypeOK, PackagesKept, \A p \in Producers : Traceable(p),
           NEW p \in Producers, Store(p)
    PROVE  \A q \in Producers : Traceable(q)'
<1> DEFINE j == job[p]
<1>1. pc[p] = "store" /\ pc' = pc /\ j \in Job
  BY DEF Store, TypeOK
<1>2. PICK v \in Videos, l \in Kinds :
        job' = [job EXCEPT ![p].todo = j.todo \ {<<v, l>>}]
  BY DEF Store
<1> DEFINE k == [j EXCEPT !.todo = j.todo \ {<<v, l>>}]
<1>3. \A q \in Producers \ {p} : Traceable(q)'
  <2>1. job' = [job EXCEPT ![p] = k] /\ pc' = [pc EXCEPT ![p] = pc[p]]
    BY <1>1, <1>2 DEF TypeOK
  <2>2. QED
    BY <2>1, OthersKept
<1>4. job'[p] = k /\ pc'[p] = "store"
  BY <1>1, <1>2 DEF TypeOK
<1>5. /\ k.base = j.base /\ k.items = j.items /\ k.attempts = j.attempts
      /\ k.window = j.window /\ k.queue = j.queue /\ k.rest = j.rest /\ k.run = j.run
  BY <1>1 DEF Job
<1> HIDE DEF k
<1>6. packages' = packages
  BY DEF Store
<1>7. HoldsPublished(job[p])'
  BY <1>4, <1>5, <1>6
     DEF Traceable, HoldsPublished, Sealed, Publishes, Content, Completed
<1>8. CopiesBase(job[p])' /\ CountsFromBase(job[p])'
  <2>1. CopiesBase(j) /\ CountsFromBase(j)
    BY <1>1 DEF Traceable
  <2>2. QED
    BY <1>4, <1>5, <2>1 DEF CopiesBase, CountsFromBase, CountsOn
<1>9. HasPublished(job[p])'
  <2>1. HasPublished(j)
    BY <1>1 DEF Traceable
  <2>2. QED
    BY <1>4, <1>5, <1>6, <2>1 DEF HasPublished, Sealed, PackageOf
<1>10. Traceable(p)'
  BY <1>4, <1>7, <1>8, <1>9 DEF Traceable
<1>11. QED
  BY <1>3, <1>10

\* What runs have in memory stays traceable.
LEMMA StepTraceable ==
    ASSUME TypeOK, Control, PackagesKept, CheckpointsArePublished,
           \A p \in Producers : Traceable(p), [Next]_vars
    PROVE  \A p \in Producers : Traceable(p)'
<1>1. CASE UNCHANGED vars
  BY <1>1, TraceableKept DEF vars
<1>2. ASSUME NEW p \in Producers,
             \/ Start(p) \/ Load(p) \/ Reuse(p) \/ Reject(p)
             \/ Acquire(p) \/ Blocked(p) \/ Seal(p) \/ RefuseSeal(p)
             \/ Store(p) \/ CopyFails(p) \/ Save(p) \/ Crash(p)
      PROVE  \A q \in Producers : Traceable(q)'
  <2>1. CASE Start(p) \/ Load(p) \/ Reuse(p) \/ Acquire(p)
    BY <2>1, StartTraceable, LoadTraceable, ReuseTraceable, AcquireTraceable
  <2>2. CASE Seal(p) \/ Store(p)
    BY <2>2, SealTraceable, StoreTraceable
  <2>3. CASE Ends(p)
    BY <2>3, EndsTraceable
  <2>4. QED
    BY <1>2, <2>1, <2>2, <2>3 DEF Reject, Blocked, RefuseSeal, CopyFails, Save, Crash
<1>3. QED
  BY <1>1, <1>2 DEF Next

\* What is on disk stays published.
LEMMA StepCheckpoints ==
    ASSUME TypeOK, PackagesKept, CheckpointsArePublished,
           \A p \in Producers : Traceable(p), [Next]_vars
    PROVE  CheckpointsArePublished'
<1>1. CASE UNCHANGED ckpt
  <2> SUFFICES ASSUME NEW s \in Slots, ckpt'[s] # None
               PROVE  \E d \in Sealed' : Publishes(d, ckpt[s])'
    BY DEF CheckpointsArePublished
  <2>1. PICK d \in Sealed : Publishes(d, ckpt[s])
    BY <1>1 DEF CheckpointsArePublished
  <2>2. d \in Sealed' /\ Publishes(d, ckpt[s])'
    BY <1>1, <2>1 DEF PackagesKept, Publishes, Content, Completed
  <2>3. QED
    BY <2>2
<1>2. ASSUME NEW p \in Producers, Save(p) PROVE CheckpointsArePublished'
  <2> DEFINE j == job[p]
             c == CheckpointOf(j)
  <2>1. j.items \in Items /\ packages' = packages
    BY <1>2 DEF TypeOK, Job, Save
  <2>2. PICK d \in Sealed : packages[d] = PackageOf(j, j.run)
    BY <1>2 DEF Traceable, HasPublished, Save
  <2>3. ASSUME NEW v \in Completed(c)
        PROVE  v \in Cached(packages[d].items) /\ Content(d, v) = c.completed[v]
    <3>1. v \in Videos /\ j.items[v].content # None /\ c.completed[v] = j.items[v].content
      BY <2>3 DEF Completed, CheckpointOf
    <3>2. packages[d].items = j.items
      BY <2>2 DEF PackageOf
    <3>3. j.items[v].outcome \in {"completed", "unchanged"}
      BY <2>1, <3>1 DEF Items, Item, NoItem
    <3>4. QED
      BY <3>1, <3>2, <3>3 DEF Cached, Content
  <2>4. Publishes(d, c)
    BY <2>2, <2>3 DEF Publishes, PackageOf, CheckpointOf
  <2>5. SUFFICES ASSUME NEW s \in Slots, ckpt'[s] # None
                 PROVE  \E e \in Sealed' : Publishes(e, ckpt[s])'
    BY DEF CheckpointsArePublished
  <2>6. ckpt' = [ckpt EXCEPT ![j.output] = c]
    BY <1>2 DEF Save
  <2>7. CASE s = j.output
    <3>1. ckpt'[s] = c
      BY <2>6, <2>7 DEF TypeOK
    <3>2. Publishes(d, ckpt[s])' /\ d \in Sealed'
      BY <2>1, <2>4, <3>1 DEF Publishes, Content, Completed, Sealed
    <3>3. QED
      BY <3>2
  <2>8. CASE s # j.output
    <3>1. ckpt'[s] = ckpt[s]
      BY <2>6, <2>8 DEF TypeOK
    <3>2. PICK e \in Sealed : Publishes(e, ckpt[s])
      BY <2>5, <3>1 DEF CheckpointsArePublished
    <3>3. Publishes(e, ckpt[s])' /\ e \in Sealed'
      BY <2>1, <3>1, <3>2 DEF Publishes, Content, Completed, Sealed
    <3>4. QED
      BY <3>3
  <2>9. QED
    BY <2>7, <2>8
<1>3. QED
  BY <1>1, <1>2 DEF Next, vars, Start, Load, Reuse, Reject, Acquire, Blocked,
                    Seal, RefuseSeal, Store, CopyFails, Crash

\* One sealing step, taken apart: the only package added is the run's own.
LEMMA SealedPackage ==
    ASSUME TypeOK, NEW p \in Producers, Seal(p)
    PROVE  \E d \in Dests, r \in RunIds :
              /\ Sealable(job[p], d, r)
              /\ d \in Sealed'
              /\ packages'[d] = PackageOf(job[p], r)
              /\ \A e \in Sealed' \ {d} : e \in Sealed /\ packages'[e] = packages[e]
<1>1. PICK d \in Dests, r \in RunIds :
        /\ Sealable(job[p], d, r)
        /\ packages' = [packages EXCEPT ![d] = PackageOf(job[p], r)]
  BY DEF Seal
<1>2. PackageOf(job[p], r) # None
  BY PackageType, NoneAssumption DEF TypeOK
<1>3. packages'[d] = PackageOf(job[p], r) /\ d \in Sealed'
  BY <1>1, <1>2 DEF TypeOK, Sealed
<1>4. \A e \in Sealed' \ {d} : e \in Sealed /\ packages'[e] = packages[e]
  BY <1>1 DEF TypeOK, Sealed
<1>5. QED
  BY <1>1, <1>3, <1>4

\* An unchanged item of a new package was acquired by the run its checkpoint
\* is of, or, if it was unchanged there too, by one before.
LEMMA SealAcquired ==
    ASSUME TypeOK, PackagesKept, UnchangedWasAcquired,
           NEW p \in Producers, Seal(p), Traceable(p)
    PROVE  UnchangedWasAcquired'
<1> DEFINE j == job[p]
<1>1. PICK d \in Dests, r \in RunIds :
        /\ packages'[d] = PackageOf(j, r)
        /\ \A e \in Sealed' \ {d} : e \in Sealed /\ packages'[e] = packages[e]
  BY SealedPackage
<1>2. CopiesBase(j) /\ HoldsPublished(j)
  BY DEF Traceable, Seal, Acquisition
<1> DEFINE Acquirer(a, b, v) == /\ packages[a].run \in packages[b].prior
                                /\ Outcome(a, v) = "completed"
                                /\ Content(a, v) = Content(b, v)
<1>3. SUFFICES ASSUME NEW b \in Sealed', NEW v \in Videos, Outcome(b, v)' = "unchanged"
               PROVE  \E a \in Sealed' : Acquirer(a, b, v)'
  BY DEF UnchangedWasAcquired
<1>4. CASE b # d
  <2>1. b \in Sealed /\ packages'[b] = packages[b]
    BY <1>1, <1>4
  <2>2. PICK a \in Sealed : Acquirer(a, b, v)
    BY <1>3, <2>1 DEF UnchangedWasAcquired, Outcome
  <2>3. a \in Sealed' /\ Acquirer(a, b, v)'
    BY <2>1, <2>2 DEF PackagesKept, Outcome, Content
  <2>4. QED
    BY <2>3
<1>5. CASE b = d
  <2>1. /\ packages'[b].items = j.items
        /\ packages'[b].prior = Lineage(j.base)
    BY <1>1, <1>5 DEF PackageOf
  <2>2. /\ j.base # None
        /\ j.base.completed[v] # None
        /\ Content(b, v)' = j.base.completed[v]
    BY <1>2, <1>3, <2>1 DEF CopiesBase, Outcome, Content
  <2>3. PICK e \in Sealed : Publishes(e, j.base)
    BY <1>2, <2>2 DEF HoldsPublished
  <2>4. /\ Outcome(e, v) \in {"completed", "unchanged"}
        /\ Content(e, v) = j.base.completed[v]
        /\ packages[e].run = j.base.run
        /\ packages[e].prior = j.base.prior
    BY <2>2, <2>3 DEF Publishes, Completed, Cached, Outcome
  <2>5. packages'[b].prior = packages[e].prior \cup {packages[e].run}
    BY <2>1, <2>2, <2>4 DEF Lineage
  <2>6. CASE Outcome(e, v) = "completed"
    <3>1. e \in Sealed' /\ Acquirer(e, b, v)'
      BY <2>2, <2>4, <2>5, <2>6 DEF PackagesKept, Outcome, Content
    <3>2. QED
      BY <3>1
  <2>7. CASE Outcome(e, v) = "unchanged"
    <3>1. PICK a \in Sealed : Acquirer(a, e, v)
      BY <2>7 DEF UnchangedWasAcquired
    <3>2. a \in Sealed' /\ Acquirer(a, b, v)'
      BY <2>2, <2>4, <2>5, <3>1 DEF PackagesKept, Outcome, Content
    <3>3. QED
      BY <3>2
  <2>8. QED
    BY <2>4, <2>6, <2>7
<1>6. QED
  BY <1>4, <1>5

\* A new package resumes the published package of its checkpoint.
LEMMA SealResumes ==
    ASSUME TypeOK, PackagesKept, ResumeIsRecorded,
           NEW p \in Producers, Seal(p), Traceable(p)
    PROVE  ResumeIsRecorded'
<1> DEFINE j == job[p]
<1>1. PICK d \in Dests, r \in RunIds :
        /\ LineageAccepted(j.base, r)
        /\ packages'[d] = PackageOf(j, r)
        /\ \A e \in Sealed' \ {d} : e \in Sealed /\ packages'[e] = packages[e]
  BY SealedPackage DEF Sealable
<1>2. HoldsPublished(j) /\ CountsFromBase(j)
  BY DEF Traceable, Seal, Acquisition
<1> DEFINE Recorded(b, e) == Resumes(b, e) /\ \A v \in Videos : CountedOn(b, e, v)
<1>3. SUFFICES ASSUME NEW b \in Sealed', packages'[b].resumes # None
               PROVE  /\ packages'[b].run \notin packages'[b].prior
                      /\ \E e \in Sealed' : Recorded(b, e)'
  BY DEF ResumeIsRecorded
<1>4. CASE b # d
  <2>1. b \in Sealed /\ packages'[b] = packages[b]
    BY <1>1, <1>4
  <2>2. packages[b].run \notin packages[b].prior /\ \E e \in Sealed : Recorded(b, e)
    BY <1>3, <2>1 DEF ResumeIsRecorded
  <2>3. PICK e \in Sealed : Recorded(b, e)
    BY <2>2
  <2>4. e \in Sealed' /\ Recorded(b, e)'
    BY <2>1, <2>3 DEF PackagesKept, Resumes, CountedOn, Outcome
  <2>5. QED
    BY <2>1, <2>2, <2>4
<1>5. CASE b = d
  <2>1. /\ packages'[b].items = j.items /\ packages'[b].attempts = j.attempts
        /\ packages'[b].run = r /\ packages'[b].prior = Lineage(j.base)
        /\ packages'[b].resumes = IF j.base = None THEN None ELSE j.base.run
    BY <1>1, <1>5 DEF PackageOf
  <2>2. j.base # None
    BY <1>3, <2>1
  <2>3. /\ packages'[b].run \notin packages'[b].prior
        /\ packages'[b].resumes = j.base.run
        /\ packages'[b].prior = j.base.prior \cup {j.base.run}
        /\ j.base.run \notin j.base.prior
    BY <1>1, <2>1, <2>2 DEF LineageAccepted, Lineage
  <2>4. PICK e \in Sealed : Publishes(e, j.base)
    BY <1>2, <2>2 DEF HoldsPublished
  <2>5. /\ e \in Sealed' /\ packages'[e] = packages[e]
        /\ packages[e].run = j.base.run /\ packages[e].prior = j.base.prior
        /\ packages[e].attempts = j.base.attempts
    BY <2>4 DEF PackagesKept, Publishes
  <2>6. Resumes(b, e)'
    BY <2>3, <2>5 DEF Resumes
  <2>7. \A v \in Videos : CountedOn(b, e, v)'
    BY <1>2, <2>1, <2>2, <2>5 DEF CountsFromBase, CountsOn, CountedOn, Outcome
  <2>8. QED
    BY <2>3, <2>5, <2>6, <2>7
<1>6. QED
  BY <1>4, <1>5

LEMMA StepLineage ==
    ASSUME TypeOK, Control, LineageInv, [Next]_vars
    PROVE  LineageInv'
<1>1. PackagesKept
  BY SealsOnce
<1>2. /\ CheckpointsArePublished /\ UnchangedWasAcquired /\ ResumeIsRecorded
      /\ \A p \in Producers : Traceable(p)
  BY DEF LineageInv
<1>3. \A p \in Producers : Traceable(p)'
  BY <1>1, <1>2, StepTraceable
<1>4. CheckpointsArePublished'
  BY <1>1, <1>2, StepCheckpoints
<1>5. UnchangedWasAcquired' /\ ResumeIsRecorded'
  <2>1. CASE UNCHANGED packages
    BY <1>2, <2>1 DEF UnchangedWasAcquired, ResumeIsRecorded, Sealed, Outcome,
                      Content, Resumes, CountedOn
  <2>2. ASSUME NEW p \in Producers, Seal(p)
        PROVE  UnchangedWasAcquired' /\ ResumeIsRecorded'
    BY <1>1, <1>2, <2>2, SealAcquired, SealResumes
  <2>3. QED
    BY <2>1, <2>2 DEF Next, vars, Start, Load, Reuse, Reject, Acquire, Blocked,
                      RefuseSeal, Store, CopyFails, Save, Crash
<1>6. QED
  BY <1>3, <1>4, <1>5 DEF LineageInv

\* The inductive invariant behind the claims about lineage: with what is on
\* disk, what every run holds in memory goes back to sealed packages.
THEOREM LineageInvariant == Spec => []LineageInv
<1>1. Init => LineageInv
  <2> SUFFICES ASSUME Init PROVE LineageInv
    OBVIOUS
  <2>1. CheckpointsArePublished /\ UnchangedWasAcquired /\ ResumeIsRecorded
    BY DEF Init, CheckpointsArePublished, UnchangedWasAcquired, ResumeIsRecorded, Sealed
  <2>2. \A p \in Producers : job[p].base = None /\ pc[p] = "idle"
    BY DEF Init, NoJob, NewJob
  <2>3. \A p \in Producers : Traceable(p)
    BY <2>2 DEF Traceable, HoldsPublished
  <2>4. QED
    BY <2>1, <2>3 DEF LineageInv
<1>2. TypeOK /\ Control /\ LineageInv /\ [Next]_vars => LineageInv'
  BY StepLineage
<1>3. QED
  BY <1>1, <1>2, TypedControl, PTL DEF Spec

\* save_checkpoint comes after seal: whatever a checkpoint says is completed is
\* in a sealed package, for all interleavings, crashes and path layouts.
THEOREM CompletedIsPublished == Spec => []CheckpointsArePublished
<1>1. LineageInv => CheckpointsArePublished
  BY DEF LineageInv
<1>2. QED
  BY <1>1, LineageInvariant, PTL

\* An unchanged item was acquired by a run of the package's lineage: the
\* digests are compared whenever an artifact is read back.
THEOREM UnchangedIsTraceable == Spec => []UnchangedWasAcquired
<1>1. LineageInv => UnchangedWasAcquired
  BY DEF LineageInv
<1>2. QED
  BY <1>1, LineageInvariant, PTL

\* Resumed packages continue a sealed package under a new run id, with
\* cumulative attempts.
THEOREM AttemptsAccumulate == Spec => []ResumeIsRecorded
<1>1. LineageInv => ResumeIsRecorded
  BY DEF LineageInv
<1>2. QED
  BY <1>1, LineageInvariant, PTL
-----------------------------------------------------------------------------
(* Progress.  The claim of a package about the window is made from what is *)
(* left to do, and it is about what has been done.                         *)

NoRepeats == \A w \in Windows : IsInjective(w.videos)

\* The entries that are left are those whose video has no item, and every item
\* is of a video of the window.
Accounts(j) ==
    /\ j.queue \cap j.rest = {}
    /\ \A e \in DOMAIN j.window.videos :
          e \in j.queue \cup j.rest <=> j.items[j.window.videos[e]] = NoItem
    /\ Reported(j.items) \subseteq Range(j.window.videos)

AccountsInv ==
    \A p \in Producers :
        /\ pc[p] \in {"acquire", "store"} => Accounts(job[p])
        /\ pc[p] = "store" => job[p].queue = {}

LEMMA NewJobAccounts ==
    ASSUME NEW input, NEW output, NEW w \in Windows
    PROVE  Accounts(NewJob(input, output, w))
<1> DEFINE k == NewJob(input, output, w)
<1>1. /\ k.window = w /\ k.items = [v \in Videos |-> NoItem]
      /\ k.queue = Batch(DOMAIN w.videos)
      /\ k.rest = DOMAIN w.videos \ Batch(DOMAIN w.videos)
  BY DEF NewJob, Unattempted
<1>2. \A e \in DOMAIN w.videos : w.videos[e] \in Videos
  BY WindowType
<1> HIDE DEF k
<1>3. Reported(k.items) = {}
  BY <1>1 DEF Reported
<1>4. \A e \in DOMAIN w.videos : k.items[w.videos[e]] = NoItem
  BY <1>1, <1>2
<1>5. k.queue \cup k.rest = DOMAIN w.videos /\ k.queue \cap k.rest = {}
  BY <1>1, BatchesPart
<1>6. Accounts(k)
  BY <1>1, <1>3, <1>4, <1>5 DEF Accounts
<1>7. QED
  BY <1>6 DEF k

LEMMA ResumedAccounts ==
    ASSUME NEW j \in Job, j.base \in Checkpoint
    PROVE  Accounts(Resumed(j))
<1> DEFINE k == Resumed(j)
           w == j.window
           c == j.base
<1>1. /\ k.window = w /\ k.items = Unchanged(c, j.input, w)
      /\ k.queue = Batch(Remaining(c, w))
      /\ k.rest = Remaining(c, w) \ Batch(Remaining(c, w))
  BY DEF Resumed, Unattempted, Job
<1>2. w \in Windows
  BY DEF Job
<1>3. \A e \in DOMAIN w.videos : w.videos[e] \in Videos /\ w.videos[e] \in Range(w.videos)
  BY <1>2, WindowType DEF Range
<1>4. \A v \in Videos : k.items[v] = NoItem <=> v \notin Preserved(c, w)
  BY <1>1 DEF Unchanged, NoItem
<1> HIDE DEF k, w, c
<1>5. \A v \in Range(w.videos) : v \in Videos => (v \in Preserved(c, w) <=> c.completed[v] # None)
  BY DEF Preserved, Completed
<1>6. Reported(k.items) \subseteq Range(w.videos)
  BY <1>4 DEF Reported, Preserved
<1>7. k.queue \cup k.rest = Remaining(c, w) /\ k.queue \cap k.rest = {}
  BY <1>1, BatchesPart
<1>8. \A e \in DOMAIN w.videos :
         e \in Remaining(c, w) <=> k.items[w.videos[e]] = NoItem
  BY <1>3, <1>4, <1>5 DEF Remaining
<1>9. Accounts(k)
  BY <1>1, <1>6, <1>7, <1>8 DEF Accounts
<1>10. QED
  BY <1>9 DEF k

LEMMA AttemptAccounts ==
    ASSUME NoRepeats, NEW j \in Job, IsJob(j), Accounts(j),
           NEW e \in j.queue, NEW n, NEW i \in Acquired
    PROVE  Accounts(Attempt(j, e, n, i))
<1> DEFINE k == Attempt(j, e, n, i)
           w == j.window
<1>1. /\ k.window = w /\ k.queue = j.queue \ {e} /\ k.rest = j.rest
      /\ k.items = [j.items EXCEPT ![w.videos[e]] = i]
  BY DEF Attempt, Job
<1>2. w \in Windows /\ j.items \in Items /\ e \in DOMAIN w.videos
  BY DEF Job, IsJob
<1>3. \A f \in DOMAIN w.videos : /\ w.videos[f] \in Videos /\ w.videos[f] \in Range(w.videos)
                                 /\ w.videos[f] = w.videos[e] => f = e
  BY <1>2, WindowType DEF Range, NoRepeats, IsInjective
<1>4. i # NoItem
  BY DEF Acquired, Item, NoItem
<1> HIDE DEF k, w
<1>5. \A v \in Videos : k.items[v] = IF v = w.videos[e] THEN i ELSE j.items[v]
  BY <1>1, <1>2 DEF Items
<1>6. /\ j.queue \cap j.rest = {} /\ Reported(j.items) \subseteq Range(w.videos)
      /\ \A f \in DOMAIN w.videos : f \in j.queue \cup j.rest <=> j.items[w.videos[f]] = NoItem
  BY DEF Accounts, w
<1>7. Reported(k.items) \subseteq Range(w.videos)
  BY <1>2, <1>3, <1>5, <1>6 DEF Reported
<1>8. ASSUME NEW f \in DOMAIN w.videos
      PROVE  f \in k.queue \cup k.rest <=> k.items[w.videos[f]] = NoItem
  <2>1. CASE f = e
    BY <1>1, <1>2, <1>3, <1>4, <1>5, <1>6, <2>1
  <2>2. CASE f # e
    BY <1>1, <1>3, <1>5, <1>6, <2>2
  <2>3. QED
    BY <2>1, <2>2
<1>9. Accounts(k)
  BY <1>1, <1>6, <1>7, <1>8 DEF Accounts
<1>10. QED
  BY <1>9 DEF k

LEMMA StepAccounts ==
    ASSUME NoRepeats, TypeOK, Control, AccountsInv, [Next]_vars
    PROVE  AccountsInv'
<1>0. \A p \in Producers : job[p] \in Job /\ IsJob(job[p])
  BY DEF TypeOK, IsJob
<1>a. ASSUME NEW p \in Producers, NEW j, NEW at,
             job' = [job EXCEPT ![p] = j], pc' = [pc EXCEPT ![p] = at],
             at \in {"acquire", "store"} => Accounts(j),
             at = "store" => j.queue = {}
      PROVE  AccountsInv'
  BY <1>a DEF AccountsInv, TypeOK
<1>b. ASSUME NEW p \in Producers, Ends(p) PROVE AccountsInv'
  <2>1. job' = [job EXCEPT ![p] = NoJob] /\ pc' = [pc EXCEPT ![p] = "idle"]
    BY <1>b DEF Ends
  <2>2. QED
    BY <1>a, <2>1
<1>1. ASSUME NEW p \in Producers, Start(p) PROVE AccountsInv'
  <2>1. PICK input \in Slots \cup {None}, output \in Slots \cup {None}, w \in Windows :
            /\ job' = [job EXCEPT ![p] = NewJob(input, output, w)]
            /\ pc' = [pc EXCEPT ![p] = IF input = None THEN "acquire" ELSE "load"]
    BY <1>1 DEF Start
  <2>2. Accounts(NewJob(input, output, w))
    BY NewJobAccounts
  <2> DEFINE at == IF input = None THEN "acquire" ELSE "load"
  <2>3. at # "store"
    OBVIOUS
  <2>4. QED
    BY <1>a, <2>1, <2>2, <2>3
<1>2. ASSUME NEW p \in Producers, Load(p) PROVE AccountsInv'
  <2>1. PICK j : job' = [job EXCEPT ![p] = j] /\ pc' = [pc EXCEPT ![p] = "reuse"]
    BY <1>2 DEF Load
  <2>2. QED
    BY <1>a, <2>1
<1>3. ASSUME NEW p \in Producers, Reuse(p) PROVE AccountsInv'
  <2>1. job' = [job EXCEPT ![p] = Resumed(job[p])] /\ pc' = [pc EXCEPT ![p] = "acquire"]
    BY <1>3 DEF Reuse
  <2>2. job[p].base \in Checkpoint
    BY <1>0, <1>3 DEF Reuse, Control, Job
  <2>3. Accounts(Resumed(job[p]))
    BY <1>0, <2>2, ResumedAccounts
  <2>4. QED
    BY <1>a, <2>1, <2>3
<1>4. ASSUME NEW p \in Producers, Acquire(p) PROVE AccountsInv'
  <2>1. PICK e \in job[p].queue, n \in 1..MaxTries, i \in Acquired :
          job' = [job EXCEPT ![p] = Attempt(job[p], e, n, i)]
    BY <1>4 DEF Acquire
  <2>2. pc' = [pc EXCEPT ![p] = "acquire"] /\ pc[p] = "acquire"
    BY <1>4 DEF Acquire, TypeOK
  <2>3. Accounts(Attempt(job[p], e, n, i))
    BY <1>0, <2>2, AttemptAccounts DEF AccountsInv
  <2>4. QED
    BY <1>a, <2>1, <2>2, <2>3
<1>5. ASSUME NEW p \in Producers, Seal(p) PROVE AccountsInv'
  <2>1. CASE job[p].output = None
    BY <1>5, <1>b, <2>1 DEF Seal
  <2>2. CASE job[p].output # None
    <3>0. PICK r \in RunIds :
             /\ pc' = [pc EXCEPT ![p] = "store"]
             /\ job' = [job EXCEPT ![p].run = r, ![p].todo = Cached(job[p].items) \X Kinds]
      BY <1>5, <2>2 DEF Seal
    <3> DEFINE k == [job[p] EXCEPT !.run = r, !.todo = Cached(job[p].items) \X Kinds]
    <3>1. job' = [job EXCEPT ![p] = k]
      BY <3>0
    <3>2. /\ k.items = job[p].items /\ k.queue = job[p].queue /\ k.rest = job[p].rest
          /\ k.window = job[p].window
      BY <1>0 DEF Job
    <3>3. Accounts(job[p]) /\ job[p].queue = {}
      BY <1>5 DEF Seal, Acquisition, AccountsInv
    <3>4. Accounts(k) /\ k.queue = {}
      BY <3>2, <3>3 DEF Accounts
    <3>5. QED
      BY <1>a, <3>0, <3>1, <3>4
  <2>3. QED
    BY <2>1, <2>2
<1>6. ASSUME NEW p \in Producers, Store(p) PROVE AccountsInv'
  <2>1. PICK left : job' = [job EXCEPT ![p] = [job[p] EXCEPT !.todo = left]]
    BY <1>6 DEF Store
  <2>2. pc' = [pc EXCEPT ![p] = "store"] /\ pc[p] = "store"
    BY <1>6 DEF Store, TypeOK
  <2> DEFINE k == [job[p] EXCEPT !.todo = left]
  <2>3. /\ k.items = job[p].items /\ k.queue = job[p].queue /\ k.rest = job[p].rest
        /\ k.window = job[p].window
    BY <1>0 DEF Job
  <2>4. Accounts(job[p]) /\ job[p].queue = {}
    BY <2>2 DEF AccountsInv
  <2>5. Accounts(k) /\ k.queue = {}
    BY <2>3, <2>4 DEF Accounts
  <2>6. QED
    BY <1>a, <2>1, <2>2, <2>5
<1>7. CASE UNCHANGED vars
  BY <1>7 DEF vars, AccountsInv
<1>8. QED
  BY <1>b, <1>1, <1>2, <1>3, <1>4, <1>5, <1>6, <1>7
     DEF Next, Reject, Blocked, RefuseSeal, CopyFails, Save, Crash

\* produce_package claims that a window is exhausted when its package accounts
\* for every video of it, and that there is more when it does not: for any
\* windows and batch size and any number of processes that overlap, if no
\* window lists a video twice.  (If one did, a batch could end between the two
\* entries, and the second would count as work that is left.)
THEOREM ProgressAccounts ==
    ASSUME NoRepeats
    PROVE  Spec => []ProgressIsHonest
<1>1. Init => AccountsInv
  BY DEF Init, AccountsInv
<1>2. TypeOK /\ Control /\ AccountsInv /\ [Next]_vars => AccountsInv'
  BY StepAccounts
<1>3. TypeOK /\ LineageInv /\ AccountsInv => ProgressIsHonest
  <2> SUFFICES ASSUME TypeOK, LineageInv, AccountsInv, NEW p \in Producers, pc[p] = "store"
               PROVE  \E d \in Sealed :
                         /\ packages[d].run = job[p].run
                         /\ packages[d].progress = "exhausted"
                               <=> Range(job[p].window.videos) = Reported(packages[d].items)
    BY DEF ProgressIsHonest
  <2> DEFINE j == job[p]
  <2>1. PICK d \in Sealed : packages[d] = PackageOf(j, j.run)
    BY DEF LineageInv, Traceable, HasPublished
  <2>2. /\ packages[d].run = j.run /\ packages[d].items = j.items
        /\ packages[d].progress = "exhausted" <=> j.rest = {}
    BY <2>1 DEF PackageOf
  <2>3. Accounts(j) /\ j.queue = {}
    BY DEF AccountsInv
  <2>4. /\ j.window \in Windows /\ j.rest \subseteq DOMAIN j.window.videos
    BY DEF TypeOK, Job
  <2>5. \A e \in DOMAIN j.window.videos : j.window.videos[e] \in Videos
    BY <2>4, WindowType
  <2>6. \A v \in Videos : v \in Reported(j.items) <=> j.items[v] # NoItem
    BY DEF Reported
  <2>7. j.rest = {} <=> Range(j.window.videos) = Reported(j.items)
    <3>1. ASSUME j.rest = {} PROVE Range(j.window.videos) \subseteq Reported(j.items)
      BY <2>3, <2>5, <2>6, <3>1 DEF Accounts, Range
    <3>2. ASSUME NEW e \in j.rest PROVE Range(j.window.videos) # Reported(j.items)
      <4>1. /\ j.window.videos[e] \in Range(j.window.videos)
            /\ j.window.videos[e] \notin Reported(j.items)
        BY <2>3, <2>4, <2>5, <2>6, <3>2 DEF Accounts, Range
      <4>2. QED
        BY <4>1
    <3>3. QED
      BY <2>3, <3>1, <3>2 DEF Accounts
  <2>8. QED
    BY <2>2, <2>7
<1>4. QED
  BY <1>1, <1>2, <1>3, TypedControl, LineageInvariant, PTL DEF Spec

-----------------------------------------------------------------------------
(* Runs that do not overlap.  What a run read of its input checkpoint is   *)
(* what is there while the run lasts, so that what it stores for a video   *)
(* of the input is what the input has.                                     *)

Alone == \A p, q \in Producers : p = q

\* What the input completed is neither acquired anew nor about to be.
KeepsInput(j) ==
    \A v \in Videos : j.base.completed[v] # None =>
        /\ j.items[v].outcome \in {"unchanged", "absent"}
        /\ \A e \in j.queue : j.window.videos[e] # v

\* A run at a place, and the checkpoint that it resumes.
InputHolds(j, at) ==
    /\ j.input # None => j.output # None /\ j.input # j.output
    /\ at \in {"reuse", "acquire", "store"} /\ j.input # None =>
          j.base # None /\ j.base = ckpt[j.input]
    /\ at \in {"acquire", "store"} /\ j.base # None => KeepsInput(j)
    /\ at = "store" => j.todo \subseteq Cached(j.items) \X Kinds

InputInv == \A p \in Producers : InputHolds(job[p], pc[p])

\* A producer that runs nothing resumes nothing.
LEMMA NoJobHolds == InputHolds(NoJob, "idle")
BY DEF InputHolds, NoJob, NewJob

\* What is reused of the input is not queued.
LEMMA ResumedKeepsInput ==
    ASSUME NEW j \in Job, j.base \in Checkpoint
    PROVE  KeepsInput(Resumed(j))
<1> DEFINE k == Resumed(j)
           w == j.window
           c == j.base
<1>1. /\ k.window = w /\ k.base = c /\ k.items = Unchanged(c, j.input, w)
      /\ k.queue = Batch(Remaining(c, w))
  BY DEF Resumed, Job
<1>2. k.queue \subseteq Remaining(c, w)
  BY <1>1, BatchesPart
<1> HIDE DEF k, w, c
<1>3. \A v \in Videos : k.items[v].outcome \in {"unchanged", "absent"}
  BY <1>1 DEF Unchanged, NoItem
<1>4. KeepsInput(k)
  BY <1>1, <1>2, <1>3 DEF KeepsInput, Remaining
<1>5. QED
  BY <1>4 DEF k

\* What is attempted was queued, so the input did not complete it.
LEMMA AttemptKeepsInput ==
    ASSUME NEW j, IsJob(j), KeepsInput(j), NEW e \in j.queue, NEW n, NEW i
    PROVE  KeepsInput(Attempt(j, e, n, i))
<1> DEFINE k == Attempt(j, e, n, i)
           w == j.window
<1>1. /\ k.window = w /\ k.base = j.base /\ k.queue = j.queue \ {e}
      /\ k.items = [j.items EXCEPT ![w.videos[e]] = i]
  BY DEF Attempt, Job, IsJob
<1>2. j.items \in Items
  BY DEF IsJob, Job
<1> HIDE DEF k, w
<1>3. \A v \in Videos : v # w.videos[e] => k.items[v] = j.items[v]
  BY <1>1, <1>2 DEF Items
<1>4. \A v \in Videos : j.base.completed[v] # None => v # w.videos[e]
  BY DEF KeepsInput, w
<1>5. KeepsInput(k)
  BY <1>1, <1>3, <1>4 DEF KeepsInput, w
<1>6. QED
  BY <1>5 DEF k

\* A step of a run keeps the invariant, if no other run overlaps with it.
LEMMA StepInput ==
    ASSUME Alone, TypeOK, Control, InputInv, [Next]_vars
    PROVE  InputInv'
<1>0. \A p \in Producers : job[p] \in Job /\ IsJob(job[p]) /\ InputHolds(job[p], pc[p])
  BY DEF TypeOK, IsJob, InputInv
<1>a. ASSUME NEW p \in Producers, NEW j, NEW at, ckpt' = ckpt,
             job' = [job EXCEPT ![p] = j], pc' = [pc EXCEPT ![p] = at], InputHolds(j, at)
      PROVE  InputInv'
  BY <1>0, <1>a DEF InputInv, InputHolds, TypeOK
<1>b. ASSUME NEW p \in Producers, Ends(p) PROVE InputInv'
  <2>1. \A q \in Producers : job'[q] = NoJob /\ pc'[q] = "idle"
    BY <1>b DEF Ends, Alone, TypeOK
  <2>2. NoJob.input = None /\ NoJob' = NoJob
    BY DEF NoJob, NewJob
  <2>3. QED
    BY <2>1, <2>2 DEF InputInv, InputHolds
<1>1. ASSUME NEW p \in Producers, Start(p) PROVE InputInv'
  <2>1. PICK input \in Slots \cup {None}, output \in Slots \cup {None}, w \in Windows :
            /\ input # None => output # None /\ input # output
            /\ job' = [job EXCEPT ![p] = NewJob(input, output, w)]
            /\ pc' = [pc EXCEPT ![p] = IF input = None THEN "acquire" ELSE "load"]
    BY <1>1 DEF Start
  <2> DEFINE at == IF input = None THEN "acquire" ELSE "load"
             j == NewJob(input, output, w)
  <2>2. j.input = input /\ j.output = output /\ j.base = None
    BY DEF NewJob
  <2>3. ckpt' = ckpt
    BY <1>1 DEF Start
  <2>4. InputHolds(j, at)
    BY <2>1, <2>2 DEF InputHolds
  <2> HIDE DEF at, j
  <2>5. job' = [job EXCEPT ![p] = j] /\ pc' = [pc EXCEPT ![p] = at]
    BY <2>1 DEF at, j
  <2>6. QED
    BY <1>a, <2>3, <2>4, <2>5
<1>2. ASSUME NEW p \in Producers, Load(p) PROVE InputInv'
  <2> DEFINE j == [job[p] EXCEPT !.base = ckpt[job[p].input]]
  <2>1. /\ job' = [job EXCEPT ![p] = j] /\ pc' = [pc EXCEPT ![p] = "reuse"] /\ ckpt' = ckpt
        /\ ckpt[job[p].input] # None
    BY <1>2 DEF Load
  <2>2. j.input = job[p].input /\ j.output = job[p].output /\ j.base = ckpt[job[p].input]
    BY <1>0 DEF Job
  <2>3. InputHolds(j, "reuse")
    BY <1>0, <2>1, <2>2 DEF InputHolds
  <2>4. QED
    BY <1>a, <2>1, <2>3
<1>3. ASSUME NEW p \in Producers, Reuse(p) PROVE InputInv'
  <2> DEFINE j == Resumed(job[p])
  <2>1. job' = [job EXCEPT ![p] = j] /\ pc' = [pc EXCEPT ![p] = "acquire"] /\ ckpt' = ckpt
        /\ pc[p] = "reuse"
    BY <1>3 DEF Reuse
  <2>2. job[p].base \in Checkpoint
    BY <1>0, <1>3 DEF Reuse, Control, Job
  <2>3. KeepsInput(j)
    BY <1>0, <2>2, ResumedKeepsInput
  <2>4. j.input = job[p].input /\ j.output = job[p].output /\ j.base = job[p].base
    BY <1>0 DEF Resumed, Job
  <2> HIDE DEF j
  <2>5. InputHolds(j, "acquire")
    BY <1>0, <2>1, <2>3, <2>4 DEF InputHolds
  <2>6. QED
    BY <1>a, <2>1, <2>5
<1>4. ASSUME NEW p \in Producers, Acquire(p) PROVE InputInv'
  <2>1. PICK e \in job[p].queue, n \in 1..MaxTries, i \in Acquired :
          job' = [job EXCEPT ![p] = Attempt(job[p], e, n, i)]
    BY <1>4 DEF Acquire
  <2> DEFINE j == Attempt(job[p], e, n, i)
  <2>2. pc' = [pc EXCEPT ![p] = "acquire"] /\ pc[p] = "acquire" /\ ckpt' = ckpt
    BY <1>4 DEF Acquire, TypeOK
  <2>3. j.input = job[p].input /\ j.output = job[p].output /\ j.base = job[p].base
    BY <1>0 DEF Attempt, Job
  <2>4. job[p].base # None => KeepsInput(j)
    BY <1>0, <2>2, AttemptKeepsInput DEF InputHolds
  <2> HIDE DEF j
  <2>5. InputHolds(j, "acquire")
    BY <1>0, <2>2, <2>3, <2>4 DEF InputHolds
  <2>6. job' = [job EXCEPT ![p] = j]
    BY <2>1 DEF j
  <2>7. QED
    BY <1>a, <2>2, <2>5, <2>6
<1>5. ASSUME NEW p \in Producers, Seal(p) PROVE InputInv'
  <2>1. CASE job[p].output = None
    BY <1>5, <1>b, <2>1 DEF Seal
  <2>2. CASE job[p].output # None
    <3>1. PICK r \in RunIds :
             /\ pc' = [pc EXCEPT ![p] = "store"]
             /\ job' = [job EXCEPT ![p].run = r, ![p].todo = Cached(job[p].items) \X Kinds]
      BY <1>5, <2>2 DEF Seal
    <3> DEFINE j == [job[p] EXCEPT !.run = r, !.todo = Cached(job[p].items) \X Kinds]
    <3>2. job' = [job EXCEPT ![p] = j] /\ ckpt' = ckpt /\ pc[p] = "acquire"
      BY <1>5, <3>1 DEF Seal, Acquisition
    <3>3. /\ j.items = job[p].items /\ j.queue = job[p].queue /\ j.input = job[p].input
          /\ j.window = job[p].window /\ j.output = job[p].output /\ j.base = job[p].base
          /\ j.todo = Cached(job[p].items) \X Kinds
      BY <1>0 DEF Job
    <3> HIDE DEF j
    <3>4. InputHolds(j, "store")
      BY <1>0, <3>2, <3>3 DEF InputHolds, KeepsInput
    <3>5. QED
      BY <1>a, <3>1, <3>2, <3>4
  <2>3. QED
    BY <2>1, <2>2
<1>6. ASSUME NEW p \in Producers, Store(p) PROVE InputInv'
  <2>1. PICK left \in SUBSET job[p].todo :
            job' = [job EXCEPT ![p] = [job[p] EXCEPT !.todo = left]]
    <3>1. PICK v \in Videos, k \in Kinds :
             job' = [job EXCEPT ![p].todo = job[p].todo \ {<<v, k>>}]
      BY <1>6 DEF Store
    <3>2. job[p].todo \ {<<v, k>>} \in SUBSET job[p].todo
      OBVIOUS
    <3>3. QED
      BY <3>1, <3>2
  <2>2. pc' = [pc EXCEPT ![p] = "store"] /\ pc[p] = "store" /\ ckpt' = ckpt
    BY <1>6 DEF Store, TypeOK
  <2> DEFINE j == [job[p] EXCEPT !.todo = left]
  <2>3. /\ j.items = job[p].items /\ j.queue = job[p].queue /\ j.input = job[p].input
        /\ j.window = job[p].window /\ j.output = job[p].output /\ j.base = job[p].base
        /\ j.todo = left
    BY <1>0 DEF Job
  <2>4. job' = [job EXCEPT ![p] = j]
    BY <2>1
  <2> HIDE DEF j
  <2>5. job[p].base # None => KeepsInput(j)
    BY <1>0, <2>2, <2>3 DEF InputHolds, KeepsInput
  <2>6. InputHolds(j, "store")
    BY <1>0, <2>1, <2>2, <2>3, <2>5 DEF InputHolds
  <2>7. QED
    BY <1>a, <2>2, <2>4, <2>6
<1>7. CASE UNCHANGED vars
  BY <1>7 DEF vars, InputInv, InputHolds
<1>8. QED
  BY <1>b, <1>1, <1>2, <1>3, <1>4, <1>5, <1>6, <1>7
     DEF Next, Reject, Blocked, RefuseSeal, CopyFails, Save, Crash

\* A checkpoint whose file and artifacts stay as they are can be loaded as before.
LEMMA LoadableStays ==
    ASSUME NEW s \in Slots, Loadable(s), ckpt'[s] = ckpt[s],
           \A v \in Completed(ckpt[s]), k \in Kinds :
              data'[<<StemOf[s], v, k>>] = data[<<StemOf[s], v, k>>]
    PROVE  Loadable(s)'
<1>1. WellFormed(ckpt[s])' /\ Completed(ckpt[s])' = Completed(ckpt[s])
  BY DEF Loadable, WellFormed, Completed, Attempted
<1>2. \A v \in Completed(ckpt[s]) : Intact(ckpt[s], s, v)'
  BY DEF Loadable, Intact
<1>3. QED
  BY <1>1, <1>2 DEF Loadable

\* Storing, or dying at any point of it, never costs a run the checkpoint that
\* it resumed from: produce_package can be called again with the same input,
\* whichever paths were chosen for input and output and whichever of them share
\* an artifact directory, as long as no other run uses them meanwhile.
THEOREM InputsSurvive ==
    ASSUME Alone
    PROVE  Spec => InputSurvives
<1>1. Init => InputInv
  BY NoJobHolds DEF Init, InputInv, InputHolds, NoJob, NewJob
<1>2. TypeOK /\ Control /\ InputInv /\ [Next]_vars => InputInv'
  BY StepInput
<1>3. TypeOK /\ Control /\ LineageInv /\ InputInv /\ [Next]_vars =>
        [\A s \in Slots :
          Loadable(s) /\ ~Loadable(s)' =>
              \E p \in Producers : /\ pc[p] = "store"
                                   /\ StemOf[s] = StemOf[job[p].output]
                                   /\ s # job[p].input]_vars
  <2> SUFFICES ASSUME TypeOK, Control, LineageInv, InputInv, Next,
                      NEW s \in Slots, Loadable(s), ~Loadable(s)'
               PROVE  \E p \in Producers : /\ pc[p] = "store"
                                           /\ StemOf[s] = StemOf[job[p].output]
                                           /\ s # job[p].input
    OBVIOUS
  <2>1. ~(ckpt' = ckpt /\ data' = data)
    BY LoadableStays
  <2>2. PICK p \in Producers : Store(p) \/ Save(p)
    BY <2>1 DEF Next, Start, Load, Reuse, Reject, Acquire, Blocked, Seal, RefuseSeal, CopyFails,
                Crash
  <2> DEFINE j == job[p]
  <2>3. /\ pc[p] = "store" /\ j.output \in Slots /\ j.run # None /\ j \in Job
        /\ InputHolds(j, pc[p]) /\ CopiesBase(j)
    BY <2>2 DEF Store, Save, Control, InputInv, LineageInv, Traceable, TypeOK
  <2>4. CASE Save(p)
    <3>1. data' = data /\ \A r \in Slots : r # j.output => ckpt'[r] = ckpt[r]
      BY <2>4 DEF Save, TypeOK
    <3>2. s = j.output
      BY <3>1, LoadableStays
    <3>3. s # j.input
      BY <2>3, <3>2, ConstantsAssumption DEF InputHolds
    <3>4. QED
      BY <2>3, <3>2, <3>3
  <2>5. CASE Store(p)
    <3>1. PICK v \in Videos, k \in Kinds :
            /\ Due(j, v, k) /\ ckpt' = ckpt
            /\ data' = [data EXCEPT ![<<StemOf[j.output], v, k>>] = j.items[v].content]
      BY <2>5 DEF Store
    <3>2. \A f \in Stems \X Videos \X Kinds : f # <<StemOf[j.output], v, k>> => data'[f] = data[f]
      BY <3>1 DEF TypeOK
    <3>3. StemOf[s] \in Stems /\ StemOf[j.output] \in Stems
      BY <2>3, ConstantsAssumption
    <3>4. StemOf[s] = StemOf[j.output]
      <4>1. SUFFICES ASSUME StemOf[s] # StemOf[j.output] PROVE Loadable(s)'
        OBVIOUS
      <4>2. \A u \in Completed(ckpt[s]), l \in Kinds :
                /\ <<StemOf[s], u, l>> \in Stems \X Videos \X Kinds
                /\ <<StemOf[s], u, l>> # <<StemOf[j.output], v, k>>
        BY <3>3, <4>1 DEF Completed
      <4>3. QED
        BY <3>1, <3>2, <4>2, LoadableStays
    <3>5. s # j.input
      <4>1. SUFFICES ASSUME s = j.input PROVE Loadable(s)'
        OBVIOUS
      <4>2. j.base # None /\ j.base = ckpt[s] /\ KeepsInput(j) /\ v \in Cached(j.items)
        BY <2>3, <3>1, <4>1, ConstantsAssumption DEF InputHolds, Due
      <4>3. ASSUME NEW u \in Completed(ckpt[s]), NEW l \in Kinds
            PROVE  data'[<<StemOf[s], u, l>>] = data[<<StemOf[s], u, l>>]
        <5>1. <<StemOf[s], u, l>> \in Stems \X Videos \X Kinds
          BY <3>3 DEF Completed
        <5>2. CASE u = v /\ l = k
          <6>1. j.items[v].outcome = "unchanged"
            BY <4>2, <4>3, <5>2 DEF KeepsInput, Completed, Cached
          <6>2. j.items[v].content = ckpt[s].completed[v]
            BY <4>2, <6>1, <2>3 DEF CopiesBase
          <6>3. data[<<StemOf[s], u, l>>] = ckpt[s].completed[v]
            BY <4>3, <5>2 DEF Loadable, Intact
          <6>4. data'[<<StemOf[j.output], v, k>>] = j.items[v].content
            BY <3>1, <3>3 DEF TypeOK
          <6>5. QED
            BY <3>4, <5>2, <6>2, <6>3, <6>4
        <5>3. CASE ~(u = v /\ l = k)
          BY <3>2, <5>1, <5>3
        <5>4. QED
          BY <5>2, <5>3
      <4>4. QED
        BY <3>1, <4>3, LoadableStays
    <3>6. QED
      BY <2>3, <3>4, <3>5
  <2>6. QED
    BY <2>2, <2>4, <2>5
<1>4. QED
  BY <1>1, <1>2, <1>3, TypedControl, LineageInvariant, PTL DEF Spec, InputSurvives

-----------------------------------------------------------------------------
(* What a run that is done has stored.  load_checkpoint accepts no count   *)
(* of attempts above a limit; a run adds to each count what it tried.      *)

\* Counts are of videos of the window.
CountsWindow(j) == \A v \in Videos : j.attempts[v] > 0 => v \in Range(j.window.videos)

\* A video has been tried MaxTries times at most in each run of the lineage ...
Bounded(c) == /\ c.run \notin c.prior
              /\ \A v \in Videos : c.attempts[v] <= MaxTries * (Cardinality(c.prior) + 1)

\* ... and in the run in progress.
JobBounded(j) ==
    \A v \in Videos :
        j.attempts[v] <= MaxTries * Cardinality(Lineage(j.base))
                         + (IF j.items[v].outcome \in {"unchanged", "absent"} THEN 0 ELSE MaxTries)

AttemptsHold(j, at) ==
    /\ j.base # None => Bounded(j.base)
    /\ at \in {"acquire", "store"} => CountsWindow(j) /\ JobBounded(j)
    /\ at = "store" => j.run \notin Lineage(j.base)

AttemptsInv == /\ \A s \in Slots : ckpt[s] # None => Bounded(ckpt[s])
               /\ \A p \in Producers : AttemptsHold(job[p], pc[p])

\* The runs of a lineage are counted.
LEMMA LineageCount ==
    ASSUME IsFiniteSet(RunIds), NEW c \in Checkpoint \cup {None}
    PROVE  /\ Cardinality(Lineage(c)) \in Nat
           /\ c # None => /\ Cardinality(c.prior) \in Nat
                          /\ c.run \notin c.prior =>
                                Cardinality(Lineage(c)) = Cardinality(c.prior) + 1
<1>1. CASE c = None
  BY <1>1, FS_EmptySet DEF Lineage
<1>2. CASE c # None
  <2>1. c.prior \subseteq RunIds /\ c.run \in RunIds
    BY <1>2 DEF Checkpoint
  <2>2. IsFiniteSet(c.prior) /\ IsFiniteSet(c.prior \cup {c.run})
    <3>1. c.prior \cup {c.run} \subseteq RunIds
      BY <2>1
    <3>2. QED
      BY <2>1, <3>1, FS_Subset
  <2>3. Cardinality(c.prior) \in Nat /\ Cardinality(c.prior \cup {c.run}) \in Nat
    BY <2>2, FS_CardinalityType
  <2>4. c.run \notin c.prior => Cardinality(c.prior \cup {c.run}) = Cardinality(c.prior) + 1
    BY <2>2, FS_AddElement
  <2>5. QED
    BY <1>2, <2>3, <2>4 DEF Lineage
<1>3. QED
  BY <1>1, <1>2

\* A run starts from the counts of the checkpoint that it resumes.
LEMMA ResumedAttempts ==
    ASSUME IsFiniteSet(RunIds), NEW j \in Job, j.base \in Checkpoint, j.base # None, Bounded(j.base)
    PROVE  CountsWindow(Resumed(j)) /\ JobBounded(Resumed(j))
<1> DEFINE k == Resumed(j)
           w == j.window
           c == j.base
<1>1. /\ k.window = w /\ k.base = c /\ k.items = Unchanged(c, j.input, w)
      /\ k.attempts = Carried(c, w)
  BY DEF Resumed, Job
<1>2. Cardinality(Lineage(c)) = Cardinality(c.prior) + 1
  BY LineageCount DEF Bounded
<1>3. ASSUME NEW v \in Videos
      PROVE  /\ k.items[v].outcome \in {"unchanged", "absent"}
             /\ k.attempts[v] = IF v \in Range(w.videos) THEN c.attempts[v] ELSE 0
  BY <1>1 DEF Unchanged, NoItem, Carried
<1>4. MaxTries \in Nat /\ Cardinality(c.prior) \in Nat
  BY LineageCount, ConstantsAssumption
<1>5. 0 <= MaxTries * (Cardinality(c.prior) + 1) /\ MaxTries * (Cardinality(c.prior) + 1) \in Nat
  BY <1>4
<1>6. \A v \in Videos : c.attempts[v] \in Nat /\ c.attempts[v] <= MaxTries * (Cardinality(c.prior) + 1)
  BY DEF Checkpoint, Counts, Bounded
<1> HIDE DEF k, w, c
<1>7. CountsWindow(k)
  BY <1>1, <1>3 DEF CountsWindow
<1>8. JobBounded(k)
  <2> DEFINE most == MaxTries * (Cardinality(c.prior) + 1)
  <2>1. MaxTries * Cardinality(Lineage(k.base)) = most
    BY <1>1, <1>2
  <2>2. most \in Nat /\ \A v \in Videos : c.attempts[v] \in Nat /\ c.attempts[v] <= most
    BY <1>5, <1>6
  <2> HIDE DEF most
  <2>3. \A v \in Videos : k.attempts[v] <= most + 0
    BY <1>3, <2>2
  <2>4. QED
    BY <1>3, <2>1, <2>3 DEF JobBounded
<1>9. QED
  BY <1>7, <1>8 DEF k

\* One attempt of an entry tries its video MaxTries times at most, and only once
\* in a run: no other entry is of the same video.
LEMMA AttemptAttempts ==
    ASSUME NoRepeats, IsFiniteSet(RunIds), NEW j, IsJob(j), Accounts(j),
           CountsWindow(j), JobBounded(j),
           NEW e \in j.queue, NEW n \in 1..MaxTries, NEW i \in Acquired
    PROVE  CountsWindow(Attempt(j, e, n, i)) /\ JobBounded(Attempt(j, e, n, i))
<1> DEFINE k == Attempt(j, e, n, i)
           w == j.window
           v == w.videos[e]
           most == MaxTries * Cardinality(Lineage(j.base))
<1>1. /\ k.window = w /\ k.base = j.base
      /\ k.items = [j.items EXCEPT ![v] = i]
      /\ k.attempts = [j.attempts EXCEPT ![v] = j.attempts[v] + n]
  BY DEF Attempt, Job, IsJob
<1>2. /\ j.items \in Items /\ j.attempts \in Counts /\ w \in Windows
      /\ e \in DOMAIN w.videos /\ j.base \in Checkpoint \cup {None}
  BY DEF IsJob, Job
<1>3. v \in Videos /\ v \in Range(w.videos)
  BY <1>2, WindowType DEF Range
<1>4. j.items[v] = NoItem
  BY <1>2 DEF Accounts
<1>5. MaxTries \in Nat /\ most \in Nat
  BY <1>2, LineageCount, ConstantsAssumption
<1>6. i.outcome \notin {"unchanged", "absent"}
  BY DEF Acquired, Item
<1>7. \A u \in Videos : /\ k.attempts[u] = IF u = v THEN j.attempts[v] + n ELSE j.attempts[u]
                        /\ k.items[u] = IF u = v THEN i ELSE j.items[u]
                        /\ j.attempts[u] \in Nat
  BY <1>1, <1>2, <1>3 DEF Counts, Items
<1>8. \A u \in Videos :
          j.attempts[u] <= most + (IF j.items[u].outcome \in {"unchanged", "absent"} THEN 0 ELSE MaxTries)
  BY DEF JobBounded
<1>9. k.base = j.base /\ MaxTries * Cardinality(Lineage(k.base)) = most
  BY <1>1
<1> HIDE DEF k, v, most
<1>10. CountsWindow(k)
  BY <1>1, <1>3, <1>7 DEF CountsWindow
<1>11. ASSUME NEW u \in Videos
       PROVE  k.attempts[u] <= most + (IF k.items[u].outcome \in {"unchanged", "absent"} THEN 0
                                                                                      ELSE MaxTries)
  <2>1. CASE u = v
    <3>1. j.attempts[v] <= most + 0 /\ j.attempts[v] \in Nat
      BY <1>3, <1>4, <1>7, <1>8 DEF NoItem
    <3>2. n \in Nat /\ n <= MaxTries
      BY <1>5
    <3>3. j.attempts[v] + n <= most + MaxTries
      BY <1>5, <3>1, <3>2
    <3>4. QED
      BY <1>6, <1>7, <2>1, <3>3
  <2>2. CASE u # v
    BY <1>7, <1>8, <2>2
  <2>3. QED
    BY <2>1, <2>2
<1>12. JobBounded(k)
  BY <1>9, <1>11 DEF JobBounded
<1>13. QED
  BY <1>10, <1>12 DEF k

\* A checkpoint that is written counts its own run.
LEMMA SavedAttempts ==
    ASSUME IsFiniteSet(RunIds), NEW j, IsJob(j), AttemptsHold(j, "store")
    PROVE  Bounded(CheckpointOf(j))
<1> DEFINE c == CheckpointOf(j)
           l == Cardinality(Lineage(j.base))
<1>1. c.run = j.run /\ c.prior = Lineage(j.base) /\ c.attempts = j.attempts
  BY DEF CheckpointOf
<1>2. l \in Nat /\ MaxTries \in Nat
  BY LineageCount, ConstantsAssumption DEF IsJob, Job
<1>3. MaxTries * (l + 1) = MaxTries * l + MaxTries /\ MaxTries * l \in Nat
  BY <1>2
<1>4. ASSUME NEW v \in Videos PROVE j.attempts[v] <= MaxTries * (l + 1)
  <2>1. /\ j.attempts[v] <= MaxTries * l
                 + (IF j.items[v].outcome \in {"unchanged", "absent"} THEN 0 ELSE MaxTries)
        /\ j.attempts[v] \in Nat
    BY DEF AttemptsHold, JobBounded, IsJob, Job, Counts
  <2>2. PICK m \in Nat : m = MaxTries * l
    BY <1>3
  <2>3. QED
    BY <1>2, <1>3, <2>1, <2>2
<1>5. QED
  BY <1>1, <1>4 DEF Bounded, AttemptsHold

\* Every step keeps the counts bounded.
LEMMA StepAttempts ==
    ASSUME NoRepeats, IsFiniteSet(RunIds), TypeOK, Control, AccountsInv, AttemptsInv, [Next]_vars
    PROVE  AttemptsInv'
<1>0. \A p \in Producers : /\ job[p] \in Job /\ IsJob(job[p]) /\ AttemptsHold(job[p], pc[p])
  BY DEF TypeOK, IsJob, AttemptsInv
<1>a. ASSUME NEW p \in Producers, NEW j, NEW at,
             \A s \in Slots : ckpt'[s] # None => Bounded(ckpt'[s]),
             job' = [job EXCEPT ![p] = j], pc' = [pc EXCEPT ![p] = at], AttemptsHold(j, at)
      PROVE  AttemptsInv'
  BY <1>0, <1>a DEF AttemptsInv, TypeOK
<1>b. ASSUME NEW p \in Producers, Ends(p),
             \A s \in Slots : ckpt'[s] # None => Bounded(ckpt'[s])
      PROVE  AttemptsInv'
  <2>1. job' = [job EXCEPT ![p] = NoJob] /\ pc' = [pc EXCEPT ![p] = "idle"]
    BY <1>b DEF Ends
  <2>2. AttemptsHold(NoJob, "idle")
    BY DEF NoJob, NewJob, AttemptsHold
  <2>3. QED
    BY <1>a, <1>b, <2>1, <2>2
<1>c. ckpt' = ckpt => \A s \in Slots : ckpt'[s] # None => Bounded(ckpt'[s])
  BY DEF AttemptsInv
<1>1. ASSUME NEW p \in Producers, Start(p) PROVE AttemptsInv'
  <2>1. PICK input \in Slots \cup {None}, output \in Slots \cup {None}, w \in Windows :
            /\ job' = [job EXCEPT ![p] = NewJob(input, output, w)]
            /\ pc' = [pc EXCEPT ![p] = IF input = None THEN "acquire" ELSE "load"]
    BY <1>1 DEF Start
  <2> DEFINE at == IF input = None THEN "acquire" ELSE "load"
             j == NewJob(input, output, w)
  <2>2. /\ j.base = None /\ j.attempts = [v \in Videos |-> 0]
        /\ j.items = [v \in Videos |-> NoItem]
    BY DEF NewJob
  <2>3. ckpt' = ckpt /\ at # "store"
    BY <1>1 DEF Start
  <2>4. Cardinality(Lineage(None)) = 0 /\ MaxTries \in Nat
    BY FS_EmptySet, ConstantsAssumption DEF Lineage
  <2> HIDE DEF at, j
  <2>5. CountsWindow(j)
    BY <2>2 DEF CountsWindow
  <2>6. JobBounded(j)
    BY <2>2, <2>4 DEF JobBounded, NoItem
  <2>7. AttemptsHold(j, at)
    BY <2>2, <2>3, <2>5, <2>6 DEF AttemptsHold
  <2>8. job' = [job EXCEPT ![p] = j] /\ pc' = [pc EXCEPT ![p] = at]
    BY <2>1 DEF at, j
  <2>9. QED
    BY <1>a, <1>c, <2>3, <2>7, <2>8
<1>2. ASSUME NEW p \in Producers, Load(p) PROVE AttemptsInv'
  <2> DEFINE j == [job[p] EXCEPT !.base = ckpt[job[p].input]]
  <2>1. /\ job' = [job EXCEPT ![p] = j] /\ pc' = [pc EXCEPT ![p] = "reuse"] /\ ckpt' = ckpt
        /\ ckpt[job[p].input] # None /\ job[p].input \in Slots
    BY <1>2 DEF Load, Control
  <2>2. j.base = ckpt[job[p].input]
    BY <1>0 DEF Job
  <2> HIDE DEF j
  <2>3. AttemptsHold(j, "reuse")
    BY <2>1, <2>2 DEF AttemptsHold, AttemptsInv
  <2>4. QED
    BY <1>a, <1>c, <2>1, <2>3
<1>3. ASSUME NEW p \in Producers, Reuse(p) PROVE AttemptsInv'
  <2> DEFINE j == Resumed(job[p])
  <2>1. job' = [job EXCEPT ![p] = j] /\ pc' = [pc EXCEPT ![p] = "acquire"] /\ ckpt' = ckpt
    BY <1>3 DEF Reuse
  <2>2. job[p].base \in Checkpoint /\ job[p].base # None /\ Bounded(job[p].base)
    BY <1>0, <1>3 DEF Reuse, Control, Job, AttemptsHold
  <2>3. CountsWindow(j) /\ JobBounded(j)
    BY <1>0, <2>2, ResumedAttempts
  <2>4. j.base = job[p].base
    BY <1>0 DEF Resumed, Job
  <2> HIDE DEF j
  <2>5. AttemptsHold(j, "acquire")
    BY <2>2, <2>3, <2>4 DEF AttemptsHold
  <2>6. QED
    BY <1>a, <1>c, <2>1, <2>5
<1>4. ASSUME NEW p \in Producers, Acquire(p) PROVE AttemptsInv'
  <2>1. PICK e \in job[p].queue, n \in 1..MaxTries, i \in Acquired :
          job' = [job EXCEPT ![p] = Attempt(job[p], e, n, i)]
    BY <1>4 DEF Acquire
  <2> DEFINE j == Attempt(job[p], e, n, i)
  <2>2. pc' = [pc EXCEPT ![p] = "acquire"] /\ pc[p] = "acquire" /\ ckpt' = ckpt
    BY <1>4 DEF Acquire, TypeOK
  <2>3. j.base = job[p].base
    BY <1>0 DEF Attempt, Job
  <2>4. CountsWindow(job[p]) /\ JobBounded(job[p]) /\ Accounts(job[p])
    BY <1>0, <2>2 DEF AttemptsHold, AccountsInv
  <2>5. CountsWindow(j) /\ JobBounded(j)
    BY <1>0, <2>4, AttemptAttempts
  <2> HIDE DEF j
  <2>6. AttemptsHold(j, "acquire")
    BY <1>0, <2>3, <2>5 DEF AttemptsHold
  <2>7. job' = [job EXCEPT ![p] = j]
    BY <2>1 DEF j
  <2>8. QED
    BY <1>a, <1>c, <2>2, <2>6, <2>7
<1>5. ASSUME NEW p \in Producers, Seal(p) PROVE AttemptsInv'
  <2>0. ckpt' = ckpt
    BY <1>5 DEF Seal
  <2>1. CASE job[p].output = None
    BY <1>5, <1>b, <1>c, <2>0, <2>1 DEF Seal
  <2>2. CASE job[p].output # None
    <3>1. PICK r \in RunIds :
             /\ LineageAccepted(job[p].base, r)
             /\ pc' = [pc EXCEPT ![p] = "store"]
             /\ job' = [job EXCEPT ![p].run = r, ![p].todo = Cached(job[p].items) \X Kinds]
      BY <1>5, <2>2 DEF Seal, Sealable
    <3> DEFINE j == [job[p] EXCEPT !.run = r, !.todo = Cached(job[p].items) \X Kinds]
    <3>2. job' = [job EXCEPT ![p] = j] /\ pc[p] = "acquire"
      BY <1>5, <3>1 DEF Seal, Acquisition
    <3>3. /\ j.items = job[p].items /\ j.window = job[p].window /\ j.base = job[p].base
          /\ j.attempts = job[p].attempts /\ j.run = r
      BY <1>0 DEF Job
    <3> HIDE DEF j
    <3>4. r \notin Lineage(job[p].base)
      BY <3>1 DEF LineageAccepted, Lineage
    <3>5. CountsWindow(j) /\ JobBounded(j)
      BY <1>0, <3>2, <3>3 DEF AttemptsHold, CountsWindow, JobBounded
    <3>6. AttemptsHold(j, "store")
      BY <1>0, <3>3, <3>4, <3>5 DEF AttemptsHold
    <3>7. QED
      BY <1>a, <1>c, <2>0, <3>1, <3>2, <3>6
  <2>3. QED
    BY <2>1, <2>2
<1>6. ASSUME NEW p \in Producers, Store(p) PROVE AttemptsInv'
  <2>1. PICK left : job' = [job EXCEPT ![p] = [job[p] EXCEPT !.todo = left]]
    BY <1>6 DEF Store
  <2>2. pc' = [pc EXCEPT ![p] = "store"] /\ pc[p] = "store" /\ ckpt' = ckpt
    BY <1>6 DEF Store, TypeOK
  <2> DEFINE j == [job[p] EXCEPT !.todo = left]
  <2>3. /\ j.items = job[p].items /\ j.window = job[p].window /\ j.base = job[p].base
        /\ j.attempts = job[p].attempts /\ j.run = job[p].run
    BY <1>0 DEF Job
  <2>4. job' = [job EXCEPT ![p] = j]
    BY <2>1
  <2> HIDE DEF j
  <2>5. CountsWindow(j) /\ JobBounded(j)
    BY <1>0, <2>2, <2>3 DEF AttemptsHold, CountsWindow, JobBounded
  <2>6. AttemptsHold(j, "store")
    BY <1>0, <2>2, <2>3, <2>5 DEF AttemptsHold
  <2>7. QED
    BY <1>a, <1>c, <2>2, <2>4, <2>6
<1>7. ASSUME NEW p \in Producers, Save(p) PROVE AttemptsInv'
  <2>1. /\ pc[p] = "store" /\ Ends(p)
        /\ ckpt' = [ckpt EXCEPT ![job[p].output] = CheckpointOf(job[p])]
    BY <1>7 DEF Save
  <2>2. Bounded(CheckpointOf(job[p]))
    BY <1>0, <2>1, SavedAttempts
  <2>3. \A s \in Slots : ckpt'[s] # None => Bounded(ckpt'[s])
    BY <2>1, <2>2 DEF AttemptsInv, TypeOK
  <2>4. QED
    BY <1>b, <2>1, <2>3
<1>8. ASSUME NEW p \in Producers,
             Reject(p) \/ Blocked(p) \/ RefuseSeal(p) \/ CopyFails(p) \/ Crash(p)
      PROVE  AttemptsInv'
  BY <1>8, <1>b, <1>c DEF Reject, Blocked, RefuseSeal, CopyFails, Crash
<1>9. CASE UNCHANGED vars
  BY <1>9 DEF vars, AttemptsInv
<1>10. QED
  BY <1>1, <1>2, <1>3, <1>4, <1>5, <1>6, <1>7, <1>8, <1>9 DEF Next

\* A checkpoint counts at most MaxTries attempts of a video for each run of its
\* lineage, however many processes share the paths, if no window lists a video
\* twice.
THEOREM AttemptsBounded ==
    ASSUME NoRepeats, IsFiniteSet(RunIds)
    PROVE  Spec => []AttemptsInv
<1>1. Init => AttemptsInv /\ AccountsInv
  BY DEF Init, AttemptsInv, AttemptsHold, AccountsInv, NoJob, NewJob
<1>2. TypeOK /\ Control /\ AccountsInv /\ [Next]_vars => AccountsInv'
  BY StepAccounts
<1>3. TypeOK /\ Control /\ AccountsInv /\ AttemptsInv /\ [Next]_vars => AttemptsInv'
  BY StepAttempts
<1>4. QED
  BY <1>1, <1>2, <1>3, TypedControl, PTL DEF Spec

-----------------------------------------------------------------------------
(* What a run that is alone has stored is there, and so is what its        *)
(* checkpoint will say of it.                                              *)

\* In the files d, the artifacts that a run has stored so far.
StoredIn(d, j) ==
    \A v \in Cached(j.items), k \in Kinds :
        <<v, k>> \notin j.todo => d[<<StemOf[j.output], v, k>>] = j.items[v].content

StoredInv == \A p \in Producers : pc[p] = "store" => StoredIn(data, job[p])

\* Every step of the run that is alone keeps what it has stored.
LEMMA StepStored ==
    ASSUME Alone, TypeOK, Control, StoredInv, [Next]_vars
    PROVE  StoredInv'
<1>0. \A p \in Producers : job[p] \in Job /\ IsJob(job[p])
  BY DEF TypeOK, IsJob
<1>1. ASSUME NEW p \in Producers, \A q \in Producers : pc'[q] # "store" PROVE StoredInv'
  BY <1>1 DEF StoredInv
<1>2. ASSUME NEW p \in Producers, Ends(p) PROVE \A q \in Producers : pc'[q] # "store"
  BY <1>2 DEF Ends, Alone, TypeOK
<1>3. ASSUME NEW p \in Producers, Start(p) \/ Load(p) \/ Reuse(p) \/ Acquire(p)
      PROVE  \A q \in Producers : pc'[q] # "store"
  <2>1. pc'[p] # "store"
    BY <1>3 DEF Start, Load, Reuse, Acquire, TypeOK
  <2>2. QED
    BY <2>1 DEF Alone
<1>4. ASSUME NEW p \in Producers, Seal(p) PROVE StoredInv'
  <2>1. CASE job[p].output = None
    BY <1>1, <1>2, <1>4, <2>1 DEF Seal
  <2>2. CASE job[p].output # None
    <3>1. PICK r \in RunIds :
             job' = [job EXCEPT ![p].run = r, ![p].todo = Cached(job[p].items) \X Kinds]
      BY <1>4, <2>2 DEF Seal
    <3> DEFINE j == [job[p] EXCEPT !.run = r, !.todo = Cached(job[p].items) \X Kinds]
    <3>2. j.items = job[p].items /\ j.todo = Cached(job[p].items) \X Kinds
      BY <1>0 DEF Job
    <3>3. \A q \in Producers : job'[q] = j
      BY <3>1 DEF Alone, TypeOK
    <3> HIDE DEF j
    <3>4. \A q \in Producers : job'[q].items = j.items /\ job'[q].todo = Cached(j.items) \X Kinds
      BY <3>2, <3>3
    <3>5. QED
      BY <3>4 DEF StoredInv, StoredIn, Cached
  <2>3. QED
    BY <2>1, <2>2
<1>5. ASSUME NEW p \in Producers, Store(p) PROVE StoredInv'
  <2>1. PICK v \in Videos, k \in Kinds :
            /\ data' = [data EXCEPT ![<<StemOf[job[p].output], v, k>>] = job[p].items[v].content]
            /\ job' = [job EXCEPT ![p].todo = job[p].todo \ {<<v, k>>}]
    BY <1>5 DEF Store
  <2> DEFINE j == [job[p] EXCEPT !.todo = job[p].todo \ {<<v, k>>}]
             stem == StemOf[job[p].output]
  <2>2. j.items = job[p].items /\ j.output = job[p].output /\ j.todo = job[p].todo \ {<<v, k>>}
    BY <1>0 DEF Job
  <2>3. \A q \in Producers : job'[q] = j
    BY <2>1 DEF Alone, TypeOK
  <2>4. pc[p] = "store" /\ stem \in Stems
    BY <1>5, ConstantsAssumption DEF Store, Control
  <2>5. \A f \in Stems \X Videos \X Kinds :
            data'[f] = IF f = <<stem, v, k>> THEN job[p].items[v].content ELSE data[f]
    BY <2>1 DEF TypeOK
  <2>6. StoredIn(data, job[p])
    BY <2>4 DEF StoredInv
  <2> HIDE DEF j
  <2>7. StoredIn(data', j)
    <3> SUFFICES ASSUME NEW u \in Cached(job[p].items), NEW l \in Kinds, <<u, l>> \notin j.todo
                 PROVE  data'[<<stem, u, l>>] = job[p].items[u].content
      BY <2>2 DEF StoredIn
    <3>1. <<stem, u, l>> \in Stems \X Videos \X Kinds
      BY <2>4 DEF Cached
    <3>2. CASE u = v /\ l = k
      BY <2>5, <3>1, <3>2
    <3>3. CASE ~(u = v /\ l = k)
      <4>1. <<u, l>> \notin job[p].todo
        BY <2>2, <3>3
      <4>2. data[<<stem, u, l>>] = job[p].items[u].content
        BY <2>6, <4>1 DEF StoredIn
      <4>3. <<stem, u, l>> # <<stem, v, k>>
        BY <3>3
      <4>4. QED
        BY <2>5, <3>1, <4>2, <4>3
    <3>4. QED
      BY <3>2, <3>3
  <2>8. \A q \in Producers : StoredIn(data', job'[q])
    BY <2>3, <2>7
  <2>9. QED
    BY <2>8 DEF StoredInv, StoredIn, Cached
<1>6. CASE UNCHANGED vars
  BY <1>6 DEF vars, StoredInv, StoredIn, Cached
<1>7. QED
  BY <1>1, <1>2, <1>3, <1>4, <1>5, <1>6
     DEF Next, Reject, Blocked, RefuseSeal, CopyFails, Save, Crash

\* A checkpoint that is written is one that load_checkpoint accepts.
LEMMA SavedIsWellFormed ==
    ASSUME NoRepeats, IsFiniteSet(RunIds), MaxTries * Cardinality(RunIds) <= AttemptCap,
           NEW j, IsJob(j), Accounts(j), AttemptsHold(j, "store"), j.run # None
    PROVE  WellFormed(CheckpointOf(j))
<1> DEFINE c == CheckpointOf(j)
           w == j.window
<1>1. /\ c.observed = w.videos /\ c.attempts = j.attempts /\ c.pending = Pending(j)
      /\ c.completed = [v \in Videos |-> j.items[v].content]
      /\ c.run = j.run /\ c.prior = Lineage(j.base)
  BY DEF CheckpointOf
<1>2. /\ j.items \in Items /\ j.attempts \in Counts /\ w \in Windows
      /\ j.rest \subseteq DOMAIN w.videos /\ j.base \in Checkpoint \cup {None}
      /\ j.run \in RunIds
  BY DEF IsJob, Job
<1>3. \A e \in DOMAIN w.videos : w.videos[e] \in Videos /\ w.videos[e] \in Range(w.videos)
  BY <1>2, WindowType DEF Range
<1>4. c \in Checkpoint
  BY CheckpointType
<1>5. Bounded(c)
  BY SavedAttempts
<1> HIDE DEF c
<1>6. \A v \in Completed(c) : v \in Videos /\ j.items[v].content # None
  BY <1>1 DEF Completed
<1>7. Completed(c) \subseteq Reported(j.items)
  BY <1>6 DEF Reported, NoItem
<1>8. \A v \in c.pending : v \in Range(w.videos) /\ j.items[v] = NoItem
  BY <1>1, <1>2, <1>3 DEF Pending, Accounts
<1>9. Attempted(c) \subseteq Range(w.videos)
  BY <1>1 DEF Attempted, AttemptsHold, CountsWindow
<1>10. \A v \in Videos : c.attempts[v] <= AttemptCap
  <2>1. Cardinality(Lineage(j.base)) \in Nat /\ Lineage(j.base) \subseteq RunIds
    BY <1>2, LineageCount DEF Lineage, Checkpoint
  <2>2. c.prior \cup {c.run} \subseteq RunIds
    BY <1>1, <1>2, <2>1
  <2>3. /\ IsFiniteSet(c.prior) /\ IsFiniteSet(c.prior \cup {c.run})
        /\ Cardinality(c.prior \cup {c.run}) <= Cardinality(RunIds)
    BY <2>2, FS_Subset
  <2>4. Cardinality(c.prior \cup {c.run}) = Cardinality(c.prior) + 1
    BY <1>5, <2>3, FS_AddElement DEF Bounded
  <2>5. PICK m \in Nat, n \in Nat : m = Cardinality(c.prior) + 1 /\ n = Cardinality(RunIds)
    BY <2>3, FS_CardinalityType
  <2>6. m <= n /\ MaxTries \in Nat /\ AttemptCap \in Nat
    BY <2>3, <2>4, <2>5, ConstantsAssumption
  <2>7. MaxTries * m <= MaxTries * n
    BY <2>5, <2>6
  <2>8. MaxTries * n <= AttemptCap /\ MaxTries * m \in Nat /\ MaxTries * n \in Nat
    BY <2>5, <2>6
  <2>9. \A v \in Videos : c.attempts[v] <= MaxTries * m /\ c.attempts[v] \in Nat
    BY <1>4, <1>5, <2>5 DEF Bounded, Checkpoint, Counts
  <2>10. QED
    <3>1. PICK a \in Nat, b \in Nat : a = MaxTries * m /\ b = MaxTries * n
      BY <2>8
    <3>2. QED
      BY <2>6, <2>7, <2>8, <2>9, <3>1
<1>11. IsInjective(c.observed)
  BY <1>1, <1>2 DEF NoRepeats
<1>12. Completed(c) \cup c.pending \cup Attempted(c) \subseteq Range(c.observed)
  BY <1>1, <1>7, <1>8, <1>9 DEF Accounts
<1>13. c.pending \cap Completed(c) = {}
  BY <1>6, <1>8 DEF NoItem
<1>14. WellFormed(c)
  BY <1>10, <1>11, <1>12, <1>13 DEF WellFormed
<1>15. QED
  BY <1>14 DEF c

\* A run that returns normally has left a checkpoint that the next run can
\* load, with all of its artifacts, for any window, batch size and retry limit
\* and any sharing of artifact directories: if no window lists a video twice,
\* no other run uses the paths meanwhile, and the runs there can be, each with
\* all of its retries, do not exceed what load_checkpoint lets a count be.  The
\* last is needed: produce_package counts on beyond it (the run
\* youtube_attempt_cap).
THEOREM SavedCheckpointsLoad ==
    ASSUME Alone, NoRepeats, IsFiniteSet(RunIds),
           MaxTries * Cardinality(RunIds) <= AttemptCap
    PROVE  Spec => SavedIsLoadable
<1>1. Init => AttemptsInv /\ AccountsInv /\ StoredInv
  BY DEF Init, AttemptsInv, AttemptsHold, AccountsInv, StoredInv, NoJob, NewJob
<1>2. TypeOK /\ Control /\ AccountsInv /\ [Next]_vars => AccountsInv'
  BY StepAccounts
<1>3. TypeOK /\ Control /\ AccountsInv /\ AttemptsInv /\ [Next]_vars => AttemptsInv'
  BY StepAttempts
<1>4. TypeOK /\ Control /\ StoredInv /\ [Next]_vars => StoredInv'
  BY StepStored
<1>5. TypeOK /\ Control /\ AccountsInv /\ AttemptsInv /\ StoredInv /\ [Next]_vars =>
        [\A p \in Producers, s \in Slots : Save(p) /\ s = job[p].output => Loadable(s)']_vars
  <2> SUFFICES ASSUME TypeOK, Control, AccountsInv, AttemptsInv, StoredInv,
                      NEW p \in Producers, NEW s \in Slots, Save(p), s = job[p].output
               PROVE  Loadable(s)'
    OBVIOUS
  <2> DEFINE j == job[p]
             c == CheckpointOf(j)
  <2>1. /\ pc[p] = "store" /\ j.todo = {} /\ data' = data
        /\ ckpt' = [ckpt EXCEPT ![s] = c]
    BY DEF Save
  <2>2. IsJob(j) /\ Accounts(j) /\ AttemptsHold(j, "store") /\ j.run # None /\ StoredIn(data, j)
    BY <2>1 DEF TypeOK, IsJob, AccountsInv, AttemptsInv, Control, StoredInv
  <2>3. ckpt'[s] = c
    BY <2>1 DEF TypeOK
  <2>4. c \in Checkpoint /\ c # None
    BY <2>2, CheckpointType, NoneAssumption
  <2>5. WellFormed(c)
    BY <2>2, SavedIsWellFormed
  <2>6. ASSUME NEW v \in Completed(c) PROVE Intact(c, s, v)
    <3>1. v \in Videos /\ c.completed[v] = j.items[v].content /\ j.items[v].content # None
      BY DEF CheckpointOf, Completed
    <3>2. j.items[v] \in Item \cup {NoItem}
      BY <2>2, <3>1 DEF IsJob, Job, Items
    <3>3. v \in Cached(j.items)
      BY <3>1, <3>2 DEF Cached, Item, NoItem
    <3>4. QED
      BY <2>1, <2>2, <3>1, <3>3 DEF StoredIn, Intact
  <2> HIDE DEF c
  <2>7. ckpt'[s] # None /\ WellFormed(ckpt'[s])
    BY <2>3, <2>4, <2>5
  <2>8. \A v \in Completed(ckpt'[s]), k \in Kinds :
            data'[<<StemOf[s], v, k>>] = ckpt'[s].completed[v]
    BY <2>1, <2>3, <2>6 DEF Intact
  <2>9. QED
    BY <2>7, <2>8 DEF Loadable, Intact, WellFormed, Completed, Attempted
<1>6. QED
  BY <1>1, <1>2, <1>3, <1>4, <1>5, TypedControl, PTL DEF Spec, SavedIsLoadable
=============================================================================
