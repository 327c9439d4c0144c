-------------------------- MODULE PackageSealProofs --------------------------
(***************************************************************************)
(* What holds of PackageSeal for every set of builders, destinations and   *)
(* items: packages are whole, success is exclusive, and readers see a      *)
(* write-once store.                                                       *)
(***************************************************************************)
EXTENDS PackageSeal, TLAPS

-----------------------------------------------------------------------------
(* Type correctness.                                                       *)

\* An entry that is not a package is an entry.
LEMMA PlainEntries ==
    \A k \in {"absent", "emptydir", "foreign"} : [kind |-> k] \in Entry
BY DEF Entry

\* The package a builder would publish is one, whatever it has written so far.
LEMMA BuiltIsPackage ==
    ASSUME TypeOK, NEW b \in Builders
    PROVE  /\ Built(b) \in Package
           /\ Built(b) \in Entry
           /\ Inventory(b) \subseteq Items \cup {Request}
BY DEF TypeOK, Built, Package, Entry, Inventory, Files

\* The variables keep their types: every builder step of seal() writes only
\* files of the package, and every destination holds an entry or nothing.
THEOREM TypeCorrect == Spec => []TypeOK
<1>1. Init => TypeOK
  BY PlainEntries DEF Init, TypeOK, Absent
<1>2. TypeOK /\ [Next]_vars => TypeOK'
  <2> SUFFICES ASSUME TypeOK, [Next]_vars PROVE TypeOK'
    OBVIOUS
  <2> USE DEF TypeOK
  <2>1. ASSUME NEW b \in Builders, NEW i \in Items, Add(b, i) PROVE TypeOK'
    BY <2>1 DEF Add
  <2>2. ASSUME NEW b \in Builders, NEW d \in Dests, Begin(b, d) PROVE TypeOK'
    BY <2>2 DEF Begin
  <2>3. ASSUME NEW b \in Builders, Write(b) PROVE TypeOK'
    <3>1. Writable(b) \subseteq Files
      BY BuiltIsPackage DEF Writable, Inventory, Files
    <3>2. temp' \in [Builders -> SUBSET Files]
      BY <2>3, <3>1 DEF Write
    <3>3. QED
      BY <2>3, <3>2 DEF Write
  <2>4. ASSUME NEW b \in Builders, Place(b) PROVE TypeOK'
    <3>1. entry' \in [Dests -> Entry]
      BY <2>4, BuiltIsPackage DEF Place
    <3>2. QED
      BY <2>4, <3>1 DEF Place
  <2>5. ASSUME NEW b \in Builders, Fail(b) PROVE TypeOK'
    BY <2>5 DEF Fail
  <2>6. ASSUME NEW b \in Builders, Crash(b) PROVE TypeOK'
    BY <2>6 DEF Crash
  <2>7. ASSUME NEW d \in Dests, NEW k \in {"emptydir", "foreign"}, Intrude(d, k)
        PROVE TypeOK'
    <3>1. entry' \in [Dests -> Entry]
      BY <2>7, PlainEntries DEF Intrude
    <3>2. QED
      BY <2>7, <3>1 DEF Intrude
  <2>8. CASE UNCHANGED vars
    BY <2>8 DEF vars
  <2>9. QED
    BY <2>1, <2>2, <2>3, <2>4, <2>5, <2>6, <2>7, <2>8 DEF Next
<1>3. QED
  BY <1>1, <1>2, PTL DEF Spec

-----------------------------------------------------------------------------
(* The safety invariant.                                                   *)

\* A step that leaves the destinations, the builders' flags and their items
\* alone, and takes a builder out of seal() or leaves every pc alone, keeps
\* every part of the invariant.
LEMMA QuietStep ==
    ASSUME SealInv, UNCHANGED <<entry, added, sealed, target, temp>>,
           \A b \in Builders : pc'[b] = "writing" => pc[b] = "writing"
    PROVE  SealInv'
BY DEF SealInv, PackagesAreWhole, Whole, SealedIsPublished, PublishedIsSealed,
       WritingIsOrdered, Inventory

\* The step that matters: the rename publishes a whole package, at a path no
\* package occupied, for a builder that had published nothing.
LEMMA PlaceStep ==
    ASSUME TypeOK, SealInv, NEW b \in Builders, Place(b)
    PROVE  SealInv'
<1> DEFINE d == target[b]
<1>1. /\ d \in Dests
      /\ ~sealed[b]
      /\ temp[b] = Inventory(b) \cup {Manifest, Sidecar}
  BY DEF Place, SealInv, WritingIsOrdered
<1>2. /\ entry'[d] = Built(b)
      /\ \A e \in Dests \ {d} : entry'[e] = entry[e]
      /\ entry[d].kind # "package"
  BY <1>1 DEF Place, TypeOK, Renameable
<1>3. /\ sealed'[b] = TRUE
      /\ \A c \in Builders \ {b} : sealed'[c] = sealed[c]
      /\ pc'[b] = "open"
      /\ \A c \in Builders \ {b} : pc'[c] = pc[c]
      /\ UNCHANGED <<added, target, temp>>
  BY DEF Place, TypeOK
<1>4. PackagesAreWhole'
  BY <1>1, <1>2 DEF SealInv, PackagesAreWhole, Whole, Built
<1>5. SealedIsPublished'
  BY <1>1, <1>2, <1>3 DEF SealInv, SealedIsPublished, Built, Inventory
<1>6. PublishedIsSealed'
  <2> SUFFICES ASSUME NEW e \in Dests, entry'[e].kind = "package"
               PROVE  /\ sealed'[entry'[e].package_id]
                      /\ target'[entry'[e].package_id] = e
    BY DEF PublishedIsSealed
  <2>1. CASE e = d
    BY <2>1, <1>2, <1>3 DEF Built
  <2>2. CASE e # d
    <3>1. /\ sealed[entry[e].package_id]
          /\ target[entry[e].package_id] = e
      BY <2>2, <1>2 DEF SealInv, PublishedIsSealed
    <3>2. entry[e].package_id \in Builders
      BY <2>2, <1>2 DEF TypeOK, Entry, Package
    <3>3. QED
      BY <2>2, <3>1, <3>2, <1>1, <1>2, <1>3
  <2>3. QED
    BY <2>1, <2>2
<1>7. WritingIsOrdered'
  BY <1>3 DEF SealInv, WritingIsOrdered, Inventory
<1>8. QED
  BY <1>4, <1>5, <1>6, <1>7 DEF SealInv

\* Every step keeps the invariant: one case per action of PackageSeal.
LEMMA SealInvStep ==
    ASSUME TypeOK, SealInv, [Next]_vars
    PROVE  SealInv'
<1>1. ASSUME NEW b \in Builders, NEW i \in Items, Add(b, i) PROVE SealInv'
  <2>1. /\ ~sealed[b]
        /\ pc[b] = "open"
        /\ \A c \in Builders \ {b} : added'[c] = added[c]
        /\ UNCHANGED <<entry, pc, sealed, target, temp>>
    BY <1>1 DEF Add, TypeOK
  <2>2. SealedIsPublished'
    BY <2>1 DEF SealInv, SealedIsPublished, Inventory
  <2>3. WritingIsOrdered'
    BY <2>1 DEF SealInv, WritingIsOrdered, Inventory
  <2>4. QED
    BY <2>1, <2>2, <2>3 DEF SealInv, PackagesAreWhole, Whole, PublishedIsSealed
<1>2. ASSUME NEW b \in Builders, NEW d \in Dests, Begin(b, d) PROVE SealInv'
  <2>1. /\ ~sealed[b]
        /\ target'[b] = d
        /\ temp'[b] = {}
        /\ \A c \in Builders \ {b} : /\ target'[c] = target[c]
                                      /\ temp'[c] = temp[c]
                                      /\ pc'[c] = pc[c]
        /\ UNCHANGED <<entry, added, sealed>>
    BY <1>2 DEF Begin, TypeOK
  <2>2. SealedIsPublished'
    BY <2>1 DEF SealInv, SealedIsPublished, Inventory
  <2>3. PublishedIsSealed'
    BY <2>1 DEF SealInv, PublishedIsSealed, TypeOK, Entry, Package
  <2>4. WritingIsOrdered'
    BY <2>1 DEF SealInv, WritingIsOrdered, Inventory
  <2>5. QED
    BY <2>1, <2>2, <2>3, <2>4 DEF SealInv, PackagesAreWhole, Whole
<1>3. ASSUME NEW b \in Builders, Write(b) PROVE SealInv'
  <2>1. PICK f \in Writable(b) : temp' = [temp EXCEPT ![b] = @ \cup {f}]
    BY <1>3 DEF Write
  <2>2. /\ pc[b] = "writing"
        /\ temp'[b] = temp[b] \cup {f}
        /\ \A c \in Builders \ {b} : temp'[c] = temp[c]
        /\ UNCHANGED <<entry, pc, added, sealed, target>>
    BY <1>3, <2>1 DEF Write, TypeOK
  <2>3. /\ Manifest \notin Inventory(b)
        /\ Sidecar \notin Inventory(b)
    BY ReservedAssumption DEF Inventory, TypeOK, Request, Manifest, Sidecar
  <2>4. WritingIsOrdered'
    BY <2>1, <2>2, <2>3 DEF SealInv, WritingIsOrdered, Inventory, Writable,
                            Manifest, Sidecar
  <2>5. QED
    BY <2>2, <2>4 DEF SealInv, PackagesAreWhole, Whole, SealedIsPublished,
                      PublishedIsSealed, Inventory
<1>4. ASSUME NEW b \in Builders, Place(b) PROVE SealInv'
  BY <1>4, PlaceStep
<1>5. ASSUME NEW b \in Builders, Fail(b) PROVE SealInv'
  BY <1>5, QuietStep DEF Fail, TypeOK
<1>6. ASSUME NEW b \in Builders, Crash(b) PROVE SealInv'
  BY <1>6, QuietStep DEF Crash, TypeOK
<1>7. ASSUME NEW d \in Dests, NEW k \in {"emptydir", "foreign"}, Intrude(d, k)
      PROVE SealInv'
  <2>1. /\ entry[d].kind = "absent"
        /\ entry'[d].kind # "package"
        /\ \A e \in Dests \ {d} : entry'[e] = entry[e]
        /\ UNCHANGED <<pc, added, sealed, target, temp>>
    BY <1>7 DEF Intrude, TypeOK
  <2>2. SealedIsPublished'
    BY <2>1 DEF SealInv, SealedIsPublished, Inventory
  <2>3. PackagesAreWhole' /\ PublishedIsSealed'
    BY <2>1 DEF SealInv, PackagesAreWhole, Whole, PublishedIsSealed
  <2>4. QED
    BY <2>1, <2>2, <2>3 DEF SealInv, WritingIsOrdered, Inventory
<1>8. CASE UNCHANGED vars
  BY <1>8, QuietStep DEF vars
<1>9. QED
  BY <1>1, <1>2, <1>3, <1>4, <1>5, <1>6, <1>7, <1>8 DEF Next

\* The inductive invariant: the three properties below with the order in which
\* seal() fills its temporary directory.
THEOREM SealInvariant == Spec => []SealInv
<1>1. Init => SealInv
  BY DEF Init, Absent, SealInv, PackagesAreWhole, SealedIsPublished,
         PublishedIsSealed, WritingIsOrdered
<1>2. TypeOK /\ SealInv /\ [Next]_vars => SealInv'
  BY SealInvStep
<1>3. QED
  BY <1>1, <1>2, TypeCorrect, PTL DEF Spec

\* Whatever crashes or fails, what is found at a destination is whole.
THEOREM AlwaysWhole == Spec => []PackagesAreWhole
BY SealInvariant, PTL DEF SealInv

\* A builder that reported success finds its own package at its destination,
\* for ever: of builders racing for one path at most one succeeds.  A seal that
\* failed or died leaves nothing that looks like a package.
THEOREM SuccessIsExclusive == Spec => []SealedIffPublished
<1>1. SealInv => SealedIffPublished
  BY DEF SealInv, SealedIffPublished
<1>2. QED
  BY <1>1, SealInvariant, PTL

-----------------------------------------------------------------------------
(* What a step may never do, and the abstract specification.               *)

\* A destination changes only by receiving an entry it did not have, or a
\* package in place of an empty directory.
LEMMA EntryStep ==
    ASSUME TypeOK, SealInv, [Next]_vars, NEW d \in Dests, entry'[d] # entry[d]
    PROVE  /\ entry[d].kind \in {"absent", "emptydir"}
           /\ \A e \in Dests \ {d} : entry'[e] = entry[e]
<1>1. ASSUME NEW b \in Builders, NEW i \in Items, Add(b, i) PROVE FALSE
  BY <1>1 DEF Add
<1>2. ASSUME NEW b \in Builders, NEW e \in Dests, Begin(b, e) PROVE FALSE
  BY <1>2 DEF Begin
<1>3. ASSUME NEW b \in Builders, Write(b) PROVE FALSE
  BY <1>3 DEF Write
<1>4. ASSUME NEW b \in Builders, Place(b)
      PROVE  /\ entry[d].kind \in {"absent", "emptydir"}
             /\ \A e \in Dests \ {d} : entry'[e] = entry[e]
  BY <1>4 DEF Place, Renameable, TypeOK
<1>5. ASSUME NEW b \in Builders, Fail(b) \/ Crash(b) PROVE FALSE
  BY <1>5 DEF Fail, Crash
<1>6. ASSUME NEW e \in Dests, NEW k \in {"emptydir", "foreign"}, Intrude(e, k)
      PROVE  /\ entry[d].kind \in {"absent", "emptydir"}
             /\ \A f \in Dests \ {d} : entry'[f] = entry[f]
  BY <1>6 DEF Intrude, TypeOK
<1>7. CASE UNCHANGED vars
  BY <1>7 DEF vars
<1>8. QED
  BY <1>1, <1>2, <1>3, <1>4, <1>5, <1>6, <1>7 DEF Next

\* No step of a builder replaces a package, or a file, symlink or directory
\* of someone else that holds something.
THEOREM NothingIsReplaced == Spec => OccupiedIsKept
<1>1. TypeOK /\ SealInv /\ [Next]_vars
        => [\A d \in Dests : entry[d].kind \in {"foreign", "package"}
                                => entry'[d] = entry[d]]_vars
  <2> SUFFICES ASSUME TypeOK, SealInv, [Next]_vars, NEW d \in Dests,
                      entry[d].kind \in {"foreign", "package"}
               PROVE  entry'[d] = entry[d]
    OBVIOUS
  <2>1. QED
    BY EntryStep
<1>2. QED
  BY <1>1, TypeCorrect, SealInvariant, PTL DEF OccupiedIsKept, Spec

\* Building a package file by file, with crashes, failures and races, is for a
\* reader of the destinations a store in which each path is written once.
THEOREM RefinesWriteOnce == Spec => ImplementsWriteOnce
<1> DEFINE store == [d \in Holding |-> entry[d]]
<1>1. Init => Store!Init
  <2> SUFFICES ASSUME Init PROVE Store!Init
    OBVIOUS
  <2>1. Holding = {}
    BY DEF Init, Absent, Holding
  <2>2. QED
    BY <2>1 DEF Store!Init
<1>2. TypeOK /\ SealInv /\ TypeOK' /\ [Next]_vars => [Store!Next]_store
  <2> SUFFICES ASSUME TypeOK, SealInv, TypeOK', [Next]_vars, store' # store
               PROVE  Store!Next
    OBVIOUS
  <2>1. PICK d \in Dests : entry'[d] # entry[d]
    BY DEF Holding
  <2>2. /\ entry[d].kind \in {"absent", "emptydir"}
        /\ \A e \in Dests \ {d} : entry'[e] = entry[e]
    BY <2>1, EntryStep
  <2>3. d \notin Holding
    BY <2>2 DEF Holding
  <2>4. d \in Holding'
    BY <2>2, <2>3 DEF Holding
  <2>5. Holding' = Holding \cup {d}
    BY <2>2, <2>4 DEF Holding
  <2>6. entry'[d] \in Package
    BY <2>4 DEF TypeOK, Entry, Holding
  <2>7. Store!Publish(d)
    BY <2>2, <2>3, <2>5, <2>6 DEF Store!Publish, Holding
  <2>8. QED
    BY <2>7 DEF Store!Next
<1>3. QED
  BY <1>1, <1>2, TypeCorrect, SealInvariant, PTL
     DEF ImplementsWriteOnce, Store!Spec, Spec
=============================================================================
