----------------------------- MODULE PackageSeal -----------------------------
(***************************************************************************)
(* PackageBuilder.add_item, add_artifact and seal of                       *)
(* source_package/core.py, file system step by file system step.           *)
(*                                                                         *)
(* seal() checks that nothing is at the destination, writes the package    *)
(* into a fresh sibling directory, artifacts first, then package.json,     *)
(* then package.sha256, and renames the directory to the destination.      *)
(* Several builders, in one process or in several, may aim at the same     *)
(* destination; other programs may create entries there; every write may   *)
(* fail; a process may die between any two steps.                          *)
(*                                                                         *)
(* The temporary directory has a fresh uuid in its name, so what a failed  *)
(* clean-up or a crash leaves of it is never read again and is not state.  *)
(* What an artifact says, canonical JSON and digests are abstracted to the *)
(* set of files present: a package is whole when its files are exactly     *)
(* the ones its manifest lists, the manifest and the sidecar.              *)
(***************************************************************************)
CONSTANTS Builders,     \* PackageBuilder objects; also their package ids
          Dests,        \* destination paths
          Items,        \* items a caller may add (record and artifacts)
          NoDest        \* "seal has not been called with a free destination"

ASSUME NoDestAssumption == NoDest \notin Dests

VARIABLES entry,        \* entry[d]: what the file system holds at path d
          pc,           \* "open" between calls, "writing" inside seal, "dead"
          added,        \* items added so far
          sealed,       \* the _sealed flag
          target,       \* destination of the last seal that passed its checks
          temp          \* files written so far to the temporary directory

vars == <<entry, pc, added, sealed, target, temp>>

-----------------------------------------------------------------------------
Request  == "request.json"
Manifest == "package.json"
Sidecar  == "package.sha256"

Files == Items \cup {Request, Manifest, Sidecar}

\* add_artifact refuses the reserved names.
ASSUME ReservedAssumption == Items \cap {Request, Manifest, Sidecar} = {}

Package == [kind : {"package"}, package_id : Builders,
            lists : SUBSET Files, files : SUBSET Files]

Entry == [kind : {"absent", "emptydir", "foreign"}] \cup Package

Absent == [kind |-> "absent"]

\* Faults seeded in place of the definitions that follow, one plausible bug
\* each: the runs show that the properties notice them.
FaultInventory(b) == added[b] \cup {Request, ".tmp"}
FaultRenameable(d) == entry[d].kind # "foreign"
FaultOverwrite(d) == TRUE
FaultWritable(b) == (added[b] \cup {Request, Sidecar}) \ temp[b]
FaultPlace(b) ==
    /\ pc[b] = "writing" /\ Sidecar \in temp[b] /\ entry[target[b]].kind = "absent"
    /\ entry' = [entry EXCEPT ![target[b]] =
                    [kind |-> "package", package_id |-> b,
                     lists |-> added[b] \cup {Request}, files |-> temp[b]]]
    /\ pc' = [pc EXCEPT ![b] = "open"]
    /\ UNCHANGED <<added, sealed, target, temp>>

-----------------------------------------------------------------------------
\* The inventory the manifest of b lists: request.json and every artifact.
Inventory(b) == added[b] \cup {Request}

Built(b) == [kind |-> "package", package_id |-> b,
             lists |-> Inventory(b), files |-> temp[b]]

\* rename(2) of a directory succeeds on a free path and on an empty directory;
\* it refuses a file, a symlink and a directory that holds something.
Renameable(d) == entry[d].kind \in {"absent", "emptydir"}

-----------------------------------------------------------------------------
Init == /\ entry = [d \in Dests |-> Absent]
        /\ pc = [b \in Builders |-> "open"]
        /\ added = [b \in Builders |-> {}]
        /\ sealed = [b \in Builders |-> FALSE]
        /\ target = [b \in Builders |-> NoDest]
        /\ temp = [b \in Builders |-> {}]

\* add_item and add_artifact; on a sealed builder both raise.
Add(b, i) ==
    /\ pc[b] = "open"
    /\ ~sealed[b]
    /\ i \notin added[b]
    /\ added' = [added EXCEPT ![b] = @ \cup {i}]
    /\ UNCHANGED <<entry, pc, sealed, target, temp>>

\* seal() up to mkdir of the temporary directory.  "already sealed" and
\* "destination already exists" return an error and change nothing.
Begin(b, d) ==
    /\ pc[b] = "open"
    /\ ~sealed[b]
    /\ entry[d].kind = "absent"
    /\ pc' = [pc EXCEPT ![b] = "writing"]
    /\ target' = [target EXCEPT ![b] = d]
    /\ temp' = [temp EXCEPT ![b] = {}]
    /\ UNCHANGED <<entry, added, sealed>>

\* One write_bytes: the artifacts (their sorted order is abstracted), then
\* the manifest, then the sidecar.
Writable(b) ==
    IF ~(Inventory(b) \subseteq temp[b]) THEN Inventory(b) \ temp[b]
    ELSE IF Manifest \notin temp[b] THEN {Manifest}
    ELSE {Sidecar} \ temp[b]

Write(b) ==
    /\ pc[b] = "writing"
    /\ \E f \in Writable(b) : temp' = [temp EXCEPT ![b] = @ \cup {f}]
    /\ UNCHANGED <<entry, pc, added, sealed, target>>

\* temporary.rename(destination); the builder is sealed from here on.
Place(b) ==
    /\ pc[b] = "writing"
    /\ Sidecar \in temp[b]
    /\ Renameable(target[b])
    /\ entry' = [entry EXCEPT ![target[b]] = Built(b)]
    /\ pc' = [pc EXCEPT ![b] = "open"]
    /\ sealed' = [sealed EXCEPT ![b] = TRUE]
    /\ UNCHANGED <<added, target, temp>>

\* An OSError of mkdir, of a write or of the rename: seal returns an error,
\* the builder stays open for another try.
Fail(b) ==
    /\ pc[b] = "writing"
    /\ pc' = [pc EXCEPT ![b] = "open"]
    /\ UNCHANGED <<entry, added, sealed, target, temp>>

\* The process dies.
Crash(b) ==
    /\ pc[b] # "dead"
    /\ pc' = [pc EXCEPT ![b] = "dead"]
    /\ UNCHANGED <<entry, added, sealed, target, temp>>

\* Another program creates an empty directory, or a file, a symlink or a
\* directory with something in it, at a destination.
Intrude(d, kind) ==
    /\ entry[d].kind = "absent"
    /\ entry' = [entry EXCEPT ![d] = [kind |-> kind]]
    /\ UNCHANGED <<pc, added, sealed, target, temp>>

Next == \/ \E b \in Builders :
              \/ \E i \in Items : Add(b, i)
              \/ \E d \in Dests : Begin(b, d)
              \/ Write(b)
              \/ Place(b)
              \/ Fail(b)
              \/ Crash(b)
        \/ \E d \in Dests, kind \in {"emptydir", "foreign"} : Intrude(d, kind)

Spec == Init /\ [][Next]_vars

-----------------------------------------------------------------------------
TypeOK == /\ entry \in [Dests -> Entry]
          /\ pc \in [Builders -> {"open", "writing", "dead"}]
          /\ added \in [Builders -> SUBSET Items]
          /\ sealed \in [Builders -> BOOLEAN]
          /\ target \in [Builders -> Dests \cup {NoDest}]
          /\ temp \in [Builders -> SUBSET Files]

\* Whatever fails or dies at whatever step, a package found at a destination
\* is whole: exactly the files its manifest lists, the manifest, the sidecar.
Whole(p) == p.files = p.lists \cup {Manifest, Sidecar}

PackagesAreWhole == \A d \in Dests : entry[d].kind = "package" => Whole(entry[d])

\* A builder that reported success finds its own package, with everything
\* that was added to it, at the destination it was given: no other builder
\* that raced for the same path also succeeded, and none replaced it later.
SealedIsPublished ==
    \A b \in Builders :
        sealed[b] => /\ target[b] \in Dests
                     /\ entry[target[b]].kind = "package"
                     /\ entry[target[b]].package_id = b
                     /\ entry[target[b]].lists = Inventory(b)

\* The converse: a package at a destination came from a seal that took effect,
\* so a failed or interrupted seal leaves nothing that looks like a package.
PublishedIsSealed ==
    \A d \in Dests :
        entry[d].kind = "package" =>
            /\ sealed[entry[d].package_id]
            /\ target[entry[d].package_id] = d

\* Seals that succeeded and packages that are found are the same.
SealedIffPublished == SealedIsPublished /\ PublishedIsSealed

\* What makes those inductive: a seal under way belongs to an unsealed builder,
\* and its temporary directory fills up in the order seal() writes it.
WritingIsOrdered ==
    \A b \in Builders :
        pc[b] = "writing" =>
            /\ target[b] \in Dests
            /\ ~sealed[b]
            /\ temp[b] \subseteq Inventory(b) \cup {Manifest, Sidecar}
            /\ Manifest \in temp[b] => Inventory(b) \subseteq temp[b]
            /\ Sidecar \in temp[b] => Manifest \in temp[b]

SealInv == /\ PackagesAreWhole
           /\ SealedIsPublished
           /\ PublishedIsSealed
           /\ WritingIsOrdered

\* Nothing that holds data is replaced: neither a file, symlink or directory
\* of someone else nor a package, also when it appears after the check.
OccupiedIsKept ==
    [][\A d \in Dests : entry[d].kind \in {"foreign", "package"}
                            => entry'[d] = entry[d]]_vars

\* Readers see a write-once store of packages.
Holding == {d \in Dests : entry[d].kind = "package"}
Store == INSTANCE WriteOnce WITH Packages <- Package,
                                 store <- [d \in Holding |-> entry[d]]
ImplementsWriteOnce == Store!Spec
=============================================================================
