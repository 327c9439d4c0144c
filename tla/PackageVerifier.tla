---------------------------- MODULE PackageVerifier ----------------------------
(***************************************************************************)
(* Verification of a package (verify_package of source_package/core.py,    *)
(* which the source_package verify command and the YouTube producer call): *)
(* the manifest and its digest, the listing of the directory, the item     *)
(* records and what they say, the run receipt, and last the digest of      *)
(* every artifact.  Files are read one by one, item records and receipt    *)
(* twice, while others may change them.                                    *)
(*                                                                         *)
(* A path is a number, and item records are numbered in the order of their *)
(* items.  The digest of a content is the content itself; what a content   *)
(* says as an item record is given by Says, what a manifest says by        *)
(* ManifestOf of its digest.  The artifacts are read in any order, of      *)
(* which the code's is one.  The numbers of entries, items and bytes are   *)
(* within the consumer's limits.                                           *)
(***************************************************************************)
EXTENDS Naturals, Sequences, FiniteSets

CONSTANTS LastPath, Contents, Says,
          Digests, ManifestOf,   \* of the manifests that anybody has written
          AlterQuota     \* bound on changes of files

Paths == 1..LastPath
Outcomes == {"completed", "unchanged", "skipped", "failed", "cancelled"}

\* A content that is no record of a terminal outcome has the outcome "none".
\* It is sound if it contradicts neither itself nor, as a receipt, the manifest.
ItemRecord == [outcome : Outcomes \cup {"none"}, refs : SUBSET Paths, sound : BOOLEAN]

\* What can be at a path: nothing, a link or some other thing that is no file
\* of acceptable size, or a content.
At == {"absent", "special"} \cup Contents

\* readable: contract, version, capabilities, depth and paths are acceptable.
\* identified: it names its package, its request and its run.  The path of a
\* manifest without receipt is 0.
Manifest == [files : [Paths -> {"absent"} \cup Contents], items : Seq(Paths),
             counts : [Outcomes -> Nat], status : {"completed", "completed_with_errors"},
             receipt : {0} \cup Paths,
             readable : BOOLEAN, identified : BOOLEAN, lineage : BOOLEAN]

ASSUME VerifierAssumption ==
    /\ LastPath \in Nat
    /\ Contents \cap {"absent", "special"} = {}
    /\ Digests \cap {"absent", "special", "malformed"} = {}
    /\ Says \in [Contents -> ItemRecord]
    /\ ManifestOf \in [Digests -> Manifest]
    /\ AlterQuota \in Nat

VARIABLES package,       \* the directory: package.json, package.sha256, the files
          verifier,
          alterQuota

verifyVars == <<package, verifier, alterQuota>>

Inventoried(m) == {p \in Paths : m.files[p] # "absent"}

ItemPaths(m) == {m.items[i] : i \in DOMAIN m.items}

\* The records, by their places among the items, that have an outcome.
Having(records, outcome) == {i \in DOMAIN records : Says[records[i]].outcome = outcome}

\* The status that seal() gives and verify_package expects.
StatusOf(records) ==
    IF Having(records, "failed") \cup Having(records, "cancelled") = {}
    THEN "completed" ELSE "completed_with_errors"

RecordsOf(files, items) == [i \in DOMAIN items |-> files[items[i]]]

\* What PackageBuilder.seal writes of its items and artifacts.
Sealing(files, items, receipt) ==
    LET records == RecordsOf(files, items) IN
    [files |-> files, items |-> items, receipt |-> receipt,
     readable |-> TRUE, identified |-> TRUE, lineage |-> TRUE,
     counts |-> [o \in Outcomes |-> Cardinality(Having(records, o))],
     status |-> StatusOf(records)]

SealedPackage(d) == [json |-> d, sidecar |-> d, files |-> ManifestOf[d].files]

\* parsed has the item records as they were read first, bad tells of an artifact
\* with another digest.  What others do meanwhile: still, as long as they do
\* nothing; stirred has the records they alter after the first reading.
NoVerifier(d) == [at |-> "idle", digest |-> d, queue |-> {}, parsed |-> <<>>, bad |-> FALSE,
                  verdict |-> "none", still |-> TRUE, stirred |-> {}]

VerifyInit == \E d \in Digests : /\ package = SealedPackage(d)
                                 /\ verifier = NoVerifier(d)
                                 /\ alterQuota = AlterQuota

-----------------------------------------------------------------------------
(* Others at the package: a copy, a repair, an accident.                   *)

\* The manifest whose digest the sidecar has.
Verified == ManifestOf[verifier.digest]

RecordsRead == {Verified.items[i] : i \in DOMAIN verifier.parsed}

Altered(new, paths) ==
    /\ alterQuota > 0 /\ alterQuota' = alterQuota - 1
    /\ package' = new
    /\ verifier' = [verifier EXCEPT !.still = verifier.at = "idle",
                                    !.stirred = @ \cup (paths \cap RecordsRead)]

AlterFile(p, at) ==
    /\ package.files[p] # at
    /\ Altered([package EXCEPT !.files[p] = at], {p})

AlterManifest(d) == Altered([package EXCEPT !.json = d], {})
AlterSidecar(d) == Altered([package EXCEPT !.sidecar = d], {})

-----------------------------------------------------------------------------
(* verify_package.  The Fault operators are plausible bugs, which the runs *)
(* notice in place of the definition each is named for.                    *)

Unchanging == UNCHANGED <<package, alterQuota>>

Ended(verdict) == [verifier EXCEPT !.at = "done", !.verdict = verdict]

StartVerify ==
    /\ verifier.at = "idle"
    /\ verifier' = [verifier EXCEPT !.at = "envelope"]
    /\ Unchanging

\* Both files are there, and no larger than they may be.
CheckEnvelope ==
    /\ verifier.at = "envelope"
    /\ verifier' = IF package.json \in Digests /\ package.sidecar \in Digests \cup {"malformed"}
                   THEN [verifier EXCEPT !.at = "sidecar"] ELSE Ended("rejected")
    /\ Unchanging

ReadSidecar ==
    /\ verifier.at = "sidecar"
    /\ verifier' = IF package.sidecar \in Digests
                   THEN [verifier EXCEPT !.at = "manifest", !.digest = package.sidecar]
                   ELSE Ended(IF package.sidecar = "malformed" THEN "rejected"
                                                               ELSE "indeterminate")
    /\ Unchanging

ReadManifest ==
    /\ verifier.at = "manifest"
    /\ verifier' = IF package.json \notin Digests THEN Ended("indeterminate")
                   ELSE IF package.json = verifier.digest /\ Verified.readable
                   THEN [verifier EXCEPT !.at = "scan"] ELSE Ended("rejected")
    /\ Unchanging

FaultCovered(m) == Inventoried(m) \subseteq {p \in Paths : package.files[p] # "absent"}

\* The inventory has exactly the files that are there.
Covered(m) == Inventoried(m) = {p \in Paths : package.files[p] # "absent"}

\* The directory is listed, in which package.json and package.sha256 count too.
ScanPackage ==
    LET m == Verified
        there == {p \in Paths : package.files[p] # "absent"}
        envelope == {package.json, package.sidecar} IN
    /\ verifier.at = "scan"
    /\ verifier' = IF /\ \A p \in there : package.files[p] # "special"
                      /\ "special" \notin envelope
                      /\ Covered(m)
                      /\ ItemPaths(m) \subseteq Inventoried(m)
                   THEN [verifier EXCEPT !.at = "items"] ELSE Ended("rejected")
    /\ Unchanging

\* The records are read in the order of the manifest, as often as it has them.
ReadItem ==
    LET p == Verified.items[Len(verifier.parsed) + 1] IN
    /\ verifier.at = "items" /\ Len(verifier.parsed) < Len(Verified.items)
    /\ verifier' = IF package.files[p] \in Contents
                   THEN [verifier EXCEPT !.parsed = Append(@, package.files[p])]
                   ELSE Ended("indeterminate")
    /\ Unchanging

\* Terminal accounting.  Nothing asks whether a path is repeated.
Accounted(m, records) ==
    /\ Having(records, "none") = {}
    /\ \A o \in Outcomes : m.counts[o] = Cardinality(Having(records, o))
    /\ m.status = StatusOf(records)

\* Item semantics: identity, errors and reasons, and references to artifacts,
\* none of which the records of two paths claim.
Meaningful(m, records) ==
    /\ \A i \in DOMAIN records : /\ Says[records[i]].sound
                                 /\ Says[records[i]].refs \subseteq Inventoried(m)
    /\ \A i, j \in DOMAIN records :
          m.items[i] # m.items[j] => Says[records[i]].refs \cap Says[records[j]].refs = {}

JudgeItems ==
    LET m == Verified IN
    /\ verifier.at = "items" /\ Len(verifier.parsed) = Len(m.items)
    /\ verifier' = IF Accounted(m, verifier.parsed) /\ Meaningful(m, verifier.parsed)
                   THEN [verifier EXCEPT !.at = "lineage"] ELSE Ended("rejected")
    /\ Unchanging

\* The receipt, if the manifest names one, is listed and repeats its lineage.
Receipted(m, files) ==
    \/ m.receipt = 0
    \/ m.receipt \in Inventoried(m) /\ Says[files[m.receipt]].sound

\* The lineage of the manifest, and the receipt.
CheckLineage ==
    LET m == Verified IN
    /\ verifier.at = "lineage"
    /\ verifier' = IF m.receipt \in Inventoried(m) /\ package.files[m.receipt] \notin Contents
                   THEN Ended("indeterminate")
                   ELSE IF m.lineage /\ Receipted(m, package.files)
                   THEN [verifier EXCEPT !.at = "artifacts", !.queue = Inventoried(m)]
                   ELSE Ended("rejected")
    /\ Unchanging

FaultDigestDiffers(p) == p \notin ItemPaths(Verified)
                         /\ package.files[p] # Verified.files[p]

\* The digest of an artifact is not that of the inventory.
DigestDiffers(p) == package.files[p] # Verified.files[p]

ReadArtifact(p) ==
    /\ verifier.at = "artifacts" /\ p \in verifier.queue
    /\ verifier' = IF package.files[p] \in Contents
                   THEN [verifier EXCEPT !.queue = @ \ {p}, !.bad = @ \/ DigestDiffers(p)]
                   ELSE Ended("indeterminate")
    /\ Unchanging

Conclude ==
    /\ verifier.at = "artifacts" /\ verifier.queue = {}
    /\ verifier' = Ended(IF verifier.bad THEN "rejected" ELSE "verified")
    /\ Unchanging

\* A read or the listing fails, or finds that the file changes while it is read.
ReadFails ==
    /\ verifier.at \in {"envelope", "sidecar", "manifest", "scan", "items", "lineage", "artifacts"}
    /\ verifier' = Ended("indeterminate")
    /\ Unchanging

EndVerify ==
    /\ verifier.at = "done"
    /\ verifier' = NoVerifier(verifier.digest)
    /\ Unchanging

VerifyNext ==
    \/ \E p \in Paths, at \in At : AlterFile(p, at)
    \/ \E d \in Digests \cup {"absent", "special"} : AlterManifest(d)
    \/ \E d \in Digests \cup {"absent", "special", "malformed"} : AlterSidecar(d)
    \/ StartVerify \/ CheckEnvelope \/ ReadSidecar \/ ReadManifest \/ ScanPackage
    \/ ReadItem \/ JudgeItems \/ CheckLineage \/ Conclude
    \/ ReadFails \/ EndVerify
    \/ \E p \in Paths : ReadArtifact(p)

VerifySpec == VerifyInit /\ [][VerifyNext]_verifyVars

-----------------------------------------------------------------------------
PackageDirectory == [json : Digests \cup {"absent", "special"},
                     sidecar : Digests \cup {"absent", "special", "malformed"},
                     files : [Paths -> At]]

VerifierState == [at : {"idle", "envelope", "sidecar", "manifest", "scan", "items", "lineage",
                        "artifacts", "done"},
                  digest : Digests, queue : SUBSET Paths,
                  parsed : Seq(Contents), bad : BOOLEAN,
                  verdict : {"none", "verified", "rejected", "indeterminate"},
                  still : BOOLEAN, stirred : SUBSET Paths]

VerifyTypeOK == /\ package \in PackageDirectory
                /\ verifier \in VerifierState
                /\ alterQuota \in 0..AlterQuota

\* A manifest that agrees with the files it lists: with the outcomes and the
\* references of its item records, and with its receipt.  It may have an item
\* twice and name no package, request or run, as no builder writes it: of what
\* docs/source-package-contract.md:308 has a consumer verify, the identities
\* are not looked at.
Consistent(m) ==
    LET records == RecordsOf(m.files, m.items) IN
    /\ m = [Sealing(m.files, m.items, m.receipt) EXCEPT !.identified = m.identified]
    /\ ItemPaths(m) \subseteq Inventoried(m) /\ m.receipt \in {0} \cup Inventoried(m)
    /\ Having(records, "none") = {} /\ Meaningful(m, records)
    /\ m.receipt # 0 => Says[m.files[m.receipt]].sound

Agreeing == \E d \in Digests : Consistent(ManifestOf[d]) /\ package = SealedPackage(d)

\* docs/source-package-contract.md:298: a package that nothing changes while it
\* is verified is accepted only if it has, file by file, what its manifest
\* lists, and the manifest agrees with its item records and its receipt; and it
\* is rejected only if not, so that what a builder seals is never rejected.
VerdictIsRight ==
    verifier.at = "done" /\ verifier.still =>
        /\ verifier.verdict = "verified" => Agreeing
        /\ verifier.verdict = "rejected" => ~Agreeing

\* docs/source-package-contract.md:323: what an accepted result says of an item
\* is what the record with the digest of the manifest says, whatever happens to
\* the package meanwhile, unless somebody alters that very record between its
\* two readings.
KeptClaimsAreSealed ==
    verifier.verdict = "verified" =>
        \A i \in DOMAIN Verified.items :
            Verified.items[i] \in verifier.stirred
            \/ verifier.parsed[i] = Verified.files[Verified.items[i]]
=============================================================================
