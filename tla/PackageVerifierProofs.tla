------------------------ MODULE PackageVerifierProofs ------------------------
(***************************************************************************)
(* What holds of every verification, whatever the package, its manifest    *)
(* and what others do to it.                                               *)
(***************************************************************************)
EXTENDS PackageVerifier, TLAPS

LEMMA NoVerifierType ==
    ASSUME NEW d \in Digests
    PROVE  /\ NoVerifier(d) \in VerifierState
           /\ SealedPackage(d) \in PackageDirectory
BY VerifierAssumption DEF NoVerifier, VerifierState, SealedPackage, PackageDirectory, Manifest, At

LEMMA EndedType ==
    ASSUME VerifyTypeOK, NEW v \in {"verified", "rejected", "indeterminate"}
    PROVE  /\ Ended(v) \in VerifierState
           /\ Ended(v).at = "done" /\ Ended(v).verdict = v
           /\ Ended(v).digest = verifier.digest /\ Ended(v).parsed = verifier.parsed
           /\ Ended(v).still = verifier.still /\ Ended(v).stirred = verifier.stirred
BY DEF VerifyTypeOK, VerifierState, Ended

LEMMA VerifyTypeStep == VerifyTypeOK /\ [VerifyNext]_verifyVars => VerifyTypeOK'
<1> SUFFICES ASSUME VerifyTypeOK, [VerifyNext]_verifyVars PROVE VerifyTypeOK'
  OBVIOUS
<1> USE DEF VerifyTypeOK
<1>q. ASSUME alterQuota' = alterQuota, package' = package, verifier' \in VerifierState
      PROVE  VerifyTypeOK'
  BY <1>q
<1>a. ASSUME NEW new \in PackageDirectory, NEW paths \in SUBSET Paths, Altered(new, paths)
      PROVE  VerifyTypeOK'
  <2>1. alterQuota' \in 0..AlterQuota
    BY <1>a, VerifierAssumption DEF Altered
  <2>2. (verifier.at = "idle") \in BOOLEAN
    OBVIOUS
  <2>3. [verifier EXCEPT !.still = (verifier.at = "idle"),
                         !.stirred = @ \cup (paths \cap RecordsRead)] \in VerifierState
    BY <2>2 DEF VerifierState
  <2>4. QED
    BY <1>a, <2>1, <2>3 DEF Altered
<1>1. ASSUME NEW p \in Paths, NEW at \in At, AlterFile(p, at) PROVE VerifyTypeOK'
  <2>1. [package EXCEPT !.files[p] = at] \in PackageDirectory
    BY DEF PackageDirectory
  <2>2. QED
    BY <1>1, <2>1, <1>a DEF AlterFile
<1>2. ASSUME NEW d \in Digests \cup {"absent", "special"}, AlterManifest(d) PROVE VerifyTypeOK'
  <2>1. [package EXCEPT !.json = d] \in PackageDirectory
    BY DEF PackageDirectory
  <2>2. QED
    BY <1>2, <2>1, <1>a DEF AlterManifest
<1>3. ASSUME NEW d \in Digests \cup {"absent", "special", "malformed"}, AlterSidecar(d)
      PROVE  VerifyTypeOK'
  <2>1. [package EXCEPT !.sidecar = d] \in PackageDirectory
    BY DEF PackageDirectory
  <2>2. QED
    BY <1>3, <2>1, <1>a DEF AlterSidecar
<1>4. CASE StartVerify
  BY <1>4, <1>q DEF StartVerify, Unchanging, VerifierState
<1>5. CASE CheckEnvelope
  <2>1. [verifier EXCEPT !.at = "sidecar"] \in VerifierState
    BY DEF VerifierState
  <2>2. QED
    BY <1>5, <2>1, <1>q, EndedType DEF CheckEnvelope, Unchanging
<1>6. CASE ReadSidecar
  <2>1. package.sidecar \in Digests =>
            [verifier EXCEPT !.at = "manifest", !.digest = package.sidecar] \in VerifierState
    BY DEF VerifierState
  <2>2. QED
    BY <1>6, <2>1, <1>q, EndedType DEF ReadSidecar, Unchanging
<1>7. CASE ReadManifest
  <2>1. [verifier EXCEPT !.at = "scan"] \in VerifierState
    BY DEF VerifierState
  <2>2. QED
    BY <1>7, <2>1, <1>q, EndedType DEF ReadManifest, Unchanging
<1>8. CASE ScanPackage
  <2>1. [verifier EXCEPT !.at = "items"] \in VerifierState
    BY DEF VerifierState
  <2>2. QED
    BY <1>8, <2>1, <1>q, EndedType DEF ScanPackage, Unchanging
<1>9. CASE ReadItem
  <2> DEFINE p == Verified.items[Len(verifier.parsed) + 1]
  <2>1. package.files[p] \in Contents =>
            [verifier EXCEPT !.parsed = Append(@, package.files[p])] \in VerifierState
    <3>1. verifier.parsed \in Seq(Contents)
      BY DEF VerifierState
    <3>2. package.files[p] \in Contents =>
              Append(verifier.parsed, package.files[p]) \in Seq(Contents)
      BY <3>1
    <3>3. QED
      BY <3>2 DEF VerifierState
  <2>2. QED
    BY <1>9, <2>1, <1>q, EndedType DEF ReadItem, Unchanging
<1>10. CASE JudgeItems
  <2>1. [verifier EXCEPT !.at = "lineage"] \in VerifierState
    BY DEF VerifierState
  <2>2. QED
    BY <1>10, <2>1, <1>q, EndedType DEF JudgeItems, Unchanging
<1>11. CASE CheckLineage
  <2>1. [verifier EXCEPT !.at = "artifacts", !.queue = Inventoried(Verified)] \in VerifierState
    BY DEF VerifierState, Inventoried
  <2>2. QED
    BY <1>11, <2>1, <1>q, EndedType DEF CheckLineage, Unchanging
<1>12. ASSUME NEW p \in Paths, ReadArtifact(p) PROVE VerifyTypeOK'
  <2>1. [verifier EXCEPT !.queue = @ \ {p}, !.bad = @ \/ DigestDiffers(p)] \in VerifierState
    BY DEF VerifierState, DigestDiffers
  <2>2. QED
    BY <1>12, <2>1, <1>q, EndedType DEF ReadArtifact, Unchanging
<1>13. CASE Conclude
  BY <1>13, <1>q, EndedType DEF Conclude, Unchanging
<1>14. CASE ReadFails
  BY <1>14, <1>q, EndedType DEF ReadFails, Unchanging
<1>15. CASE EndVerify
  <2>1. verifier.digest \in Digests
    BY DEF VerifierState
  <2>2. QED
    BY <1>15, <2>1, <1>q, NoVerifierType DEF EndVerify, Unchanging
<1>16. CASE UNCHANGED verifyVars
  BY <1>16 DEF verifyVars
<1>17. QED
  BY <1>1, <1>2, <1>3, <1>4, <1>5, <1>6, <1>7, <1>8, <1>9, <1>10, <1>11, <1>12, <1>13, <1>14,
     <1>15, <1>16 DEF VerifyNext

\* The package, the verification and the bound keep their types.
THEOREM VerifyTypeCorrect == VerifySpec => []VerifyTypeOK
<1>1. VerifyInit => VerifyTypeOK
  BY NoVerifierType, VerifierAssumption DEF VerifyInit, VerifyTypeOK
<1>2. QED
  BY <1>1, VerifyTypeStep, PTL DEF VerifySpec

-----------------------------------------------------------------------------
(* What an accepted result says.  A record that nobody alters once it has  *)
(* been read is the same at its second reading, which notices if that is   *)
(* not what the manifest has.                                              *)

Reading == {"items", "lineage", "artifacts"}

\* The record of item i is what it was when it was read, unless altered.
AsRead(i) == Verified.items[i] \in verifier.stirred
           \/ package.files[Verified.items[i]] = verifier.parsed[i]

Noticed(i) == LET p == Verified.items[i] IN
    verifier.at = "artifacts" /\ p \notin verifier.queue \cup verifier.stirred
      /\ verifier.parsed[i] # Verified.files[p] => verifier.bad

ClaimInv ==
    /\ verifier.at # "done" => verifier.verdict = "none"
    /\ verifier.at \notin Reading \cup {"done"} => verifier.parsed = <<>>
    /\ verifier.at \in Reading =>
          /\ ItemPaths(Verified) \subseteq Inventoried(Verified)
          /\ DOMAIN verifier.parsed \subseteq DOMAIN Verified.items
          /\ \A i \in DOMAIN verifier.parsed : AsRead(i) /\ Noticed(i)
    /\ verifier.at \in {"lineage", "artifacts"} =>
          DOMAIN verifier.parsed = DOMAIN Verified.items
    /\ KeptClaimsAreSealed

LEMMA ClaimStep ==
    ASSUME VerifyTypeOK, ClaimInv, [VerifyNext]_verifyVars
    PROVE  ClaimInv'
<1>t. verifier \in VerifierState /\ Verified \in Manifest
  BY VerifierAssumption DEF VerifyTypeOK, VerifierState, Verified
<1>i. /\ Verified.items \in Seq(Paths) /\ verifier.parsed \in Seq(Contents)
      /\ DOMAIN Verified.items = 1..Len(Verified.items)
      /\ DOMAIN verifier.parsed = 1..Len(verifier.parsed)
      /\ \A i \in DOMAIN Verified.items : Verified.items[i] \in Paths
  BY <1>t DEF Manifest, VerifierState
<1>e. ASSUME NEW v \in {"rejected", "indeterminate"}, verifier' = Ended(v) PROVE ClaimInv'
  BY <1>e, EndedType DEF ClaimInv, KeptClaimsAreSealed, Reading
\* Steps before a record is read.
<1>b. ASSUME verifier' \in VerifierState, verifier'.parsed = verifier.parsed,
             verifier.at \notin Reading \cup {"done"}, verifier'.verdict = verifier.verdict,
             verifier'.at \notin Reading \cup {"done"}
      PROVE  ClaimInv'
  BY <1>b DEF ClaimInv, KeptClaimsAreSealed, Reading
\* Changes by others.
<1>a. ASSUME NEW new, NEW paths \in SUBSET Paths, Altered(new, paths),
             \A q \in Paths \ paths : new.files[q] = package.files[q]
      PROVE  ClaimInv'
  <2>1. /\ verifier'.at = verifier.at /\ verifier'.parsed = verifier.parsed
        /\ verifier'.queue = verifier.queue /\ verifier'.bad = verifier.bad
        /\ verifier'.verdict = verifier.verdict /\ verifier'.digest = verifier.digest
        /\ verifier'.stirred = verifier.stirred \cup (paths \cap RecordsRead)
        /\ package' = new
    BY <1>a, <1>t DEF Altered, VerifierState
  <2>2. Verified' = Verified
    BY <2>1 DEF Verified
  <2>3. ASSUME NEW i \in DOMAIN verifier.parsed,
               DOMAIN verifier.parsed \subseteq DOMAIN Verified.items,
               AsRead(i) /\ Noticed(i)
        PROVE  (AsRead(i) /\ Noticed(i))'
    <3>1. Verified.items[i] \in RecordsRead /\ Verified.items[i] \in Paths
      BY <2>3, <1>i DEF RecordsRead
    <3>2. AsRead(i)'
      BY <3>1, <2>1, <2>2, <2>3, <1>a DEF AsRead
    <3>3. Noticed(i)'
      BY <2>1, <2>2, <2>3 DEF Noticed
    <3>4. QED
      BY <3>2, <3>3
  <2>4. KeptClaimsAreSealed'
    BY <2>1, <2>2 DEF ClaimInv, KeptClaimsAreSealed
  <2>5. QED
    BY <2>1, <2>2, <2>3, <2>4 DEF ClaimInv, Inventoried, ItemPaths
<1>1. ASSUME NEW p \in Paths, NEW at \in At, AlterFile(p, at) PROVE ClaimInv'
  <2> DEFINE new == [package EXCEPT !.files[p] = at]
  <2>1. Altered(new, {p})
    BY <1>1 DEF AlterFile
  <2>2. \A q \in Paths \ {p} : new.files[q] = package.files[q]
    BY DEF VerifyTypeOK, PackageDirectory
  <2>3. QED
    BY <2>1, <2>2, <1>a
<1>3. ASSUME NEW d \in Digests \cup {"absent", "special"}, AlterManifest(d) PROVE ClaimInv'
  <2> DEFINE new == [package EXCEPT !.json = d]
  <2>1. new.files = package.files
    BY DEF VerifyTypeOK, PackageDirectory
  <2>2. Altered(new, {})
    BY <1>3 DEF AlterManifest
  <2> HIDE DEF new
  <2>3. QED
    BY <2>1, <2>2, <1>a
<1>4. ASSUME NEW d \in Digests \cup {"absent", "special", "malformed"}, AlterSidecar(d)
      PROVE  ClaimInv'
  <2> DEFINE new == [package EXCEPT !.sidecar = d]
  <2>1. new.files = package.files
    BY DEF VerifyTypeOK, PackageDirectory
  <2>2. Altered(new, {})
    BY <1>4 DEF AlterSidecar
  <2> HIDE DEF new
  <2>3. QED
    BY <2>1, <2>2, <1>a
<1>n. VerifyTypeOK'
  BY VerifyTypeStep
<1>5. CASE StartVerify
  BY <1>5, <1>b, <1>n, <1>t DEF StartVerify, VerifyTypeOK, VerifierState, Reading
<1>6. CASE CheckEnvelope
  BY <1>6, <1>b, <1>e, <1>n, <1>t DEF CheckEnvelope, VerifyTypeOK, VerifierState, Reading
<1>7. CASE ReadSidecar
  BY <1>7, <1>b, <1>e, <1>n, <1>t DEF ReadSidecar, VerifyTypeOK, VerifierState, Reading
<1>8. CASE ReadManifest
  BY <1>8, <1>b, <1>e, <1>n, <1>t DEF ReadManifest, VerifyTypeOK, VerifierState, Reading
\* A stage that leads to the next and reads no record.
<1>s. ASSUME NEW stage \in Reading, NEW queue, verifier.at # "artifacts", verifier.at # "done",
             verifier' = [verifier EXCEPT !.at = stage, !.queue = queue], package' = package,
             ItemPaths(Verified) \subseteq Inventoried(Verified),
             DOMAIN verifier.parsed \subseteq DOMAIN Verified.items,
             \A i \in DOMAIN verifier.parsed : AsRead(i),
             stage = "artifacts" => Inventoried(Verified) \subseteq queue,
             stage # "items" => DOMAIN verifier.parsed = DOMAIN Verified.items
      PROVE  ClaimInv'
  <2>1. /\ verifier'.at = stage /\ verifier'.parsed = verifier.parsed
        /\ verifier'.queue = queue /\ verifier'.bad = verifier.bad
        /\ verifier'.verdict = verifier.verdict /\ verifier'.digest = verifier.digest
        /\ verifier'.stirred = verifier.stirred
    BY <1>s, <1>t DEF VerifierState
  <2>2. Verified' = Verified /\ verifier.verdict = "none"
    BY <2>1, <1>s DEF Verified, ClaimInv
  <2>3. \A i \in DOMAIN verifier.parsed : AsRead(i)'
    BY <2>1, <2>2, <1>s DEF AsRead
  <2>4. ASSUME NEW i \in DOMAIN verifier.parsed PROVE Noticed(i)'
    <3>1. Verified.items[i] \in Inventoried(Verified)
      BY <1>s DEF ItemPaths
    <3>2. QED
      BY <3>1, <2>1, <2>2, <1>s DEF Noticed
  <2>5. QED
    BY <2>1, <2>2, <2>3, <2>4, <1>s DEF ClaimInv, KeptClaimsAreSealed, Reading, Inventoried,
                                         ItemPaths
<1>9. CASE ScanPackage
  <2>1. CASE verifier' = Ended("rejected")
    BY <2>1, <1>e
  <2>2. CASE /\ verifier' = [verifier EXCEPT !.at = "items"]
             /\ ItemPaths(Verified) \subseteq Inventoried(Verified)
    <3>1. verifier' = [verifier EXCEPT !.at = "items", !.queue = verifier.queue]
      BY <2>2, <1>t DEF VerifierState
    <3>2. DOMAIN verifier.parsed = {}
      BY <1>9 DEF ScanPackage, ClaimInv, Reading
    <3>3. QED
      BY <1>9, <2>2, <3>1, <3>2, <1>s DEF ScanPackage, Unchanging, Reading
  <2>3. QED
    BY <1>9, <2>1, <2>2 DEF ScanPackage
<1>10. CASE ReadItem
  <2> DEFINE l == Len(verifier.parsed)
             p == Verified.items[l + 1]
  <2>1. CASE verifier' = Ended("indeterminate")
    BY <2>1, <1>e
  <2>2. CASE /\ package.files[p] \in Contents
             /\ verifier' = [verifier EXCEPT !.parsed = Append(@, package.files[p])]
    <3>1. /\ verifier'.at = verifier.at /\ verifier'.stirred = verifier.stirred
          /\ verifier'.verdict = verifier.verdict /\ verifier'.digest = verifier.digest
          /\ verifier'.parsed = Append(verifier.parsed, package.files[p])
      BY <2>2, <1>t DEF VerifierState
    <3>2. /\ DOMAIN verifier'.parsed = 1..(l + 1)
          /\ \A i \in 1..(l + 1) : verifier'.parsed[i] = IF i = l + 1 THEN package.files[p]
                                                                      ELSE verifier.parsed[i]
      BY <3>1, <2>2, <1>i
    <3>3. Verified' = Verified /\ package' = package
      BY <1>10, <3>1 DEF Verified, ReadItem, Unchanging
    <3>4. verifier.at = "items" /\ verifier.verdict = "none" /\ l < Len(Verified.items)
      BY <1>10 DEF ReadItem, ClaimInv
    <3>5. \A i \in 1..l : AsRead(i)
      BY <3>4, <1>i DEF ClaimInv, Reading
    <3>6. ASSUME NEW i \in 1..(l + 1) PROVE AsRead(i)' /\ Noticed(i)'
      <4>1. CASE i = l + 1
        BY <4>1, <3>1, <3>2, <3>3, <3>4 DEF AsRead, Noticed
      <4>2. CASE i \in 1..l
        BY <4>2, <3>1, <3>2, <3>3, <3>4, <3>5 DEF AsRead, Noticed
      <4>3. QED
        BY <4>1, <4>2, <1>i
    <3>7. DOMAIN verifier'.parsed \subseteq DOMAIN Verified.items
      BY <3>2, <3>4, <1>i
    <3>8. QED
      BY <3>1, <3>2, <3>3, <3>4, <3>6, <3>7 DEF ClaimInv, KeptClaimsAreSealed, Reading,
                                                 Inventoried, ItemPaths
  <2>3. QED
    BY <1>10, <2>1, <2>2 DEF ReadItem
<1>11. CASE JudgeItems
  <2>1. CASE verifier' = Ended("rejected")
    BY <2>1, <1>e
  <2>2. CASE verifier' = [verifier EXCEPT !.at = "lineage"]
    <3>1. verifier' = [verifier EXCEPT !.at = "lineage", !.queue = verifier.queue]
      BY <2>2, <1>t DEF VerifierState
    <3>2. DOMAIN verifier.parsed = DOMAIN Verified.items
      BY <1>11, <1>i DEF JudgeItems
    <3>3. QED
      BY <1>11, <3>1, <3>2, <1>s DEF JudgeItems, ClaimInv, Unchanging, Reading
  <2>3. QED
    BY <1>11, <2>1, <2>2 DEF JudgeItems
<1>12. CASE CheckLineage
  <2>1. CASE verifier' \in {Ended("rejected"), Ended("indeterminate")}
    BY <2>1, <1>e
  <2>2. CASE verifier' = [verifier EXCEPT !.at = "artifacts", !.queue = Inventoried(Verified)]
    BY <1>12, <2>2, <1>s DEF CheckLineage, ClaimInv, Unchanging, Reading
  <2>3. QED
    BY <1>12, <2>1, <2>2 DEF CheckLineage
<1>13. ASSUME NEW p \in Paths, ReadArtifact(p) PROVE ClaimInv'
  <2>1. CASE verifier' = Ended("indeterminate")
    BY <2>1, <1>e
  <2>2. CASE verifier' = [verifier EXCEPT !.queue = @ \ {p}, !.bad = @ \/ DigestDiffers(p)]
    <3>1. /\ verifier'.at = verifier.at /\ verifier'.queue = verifier.queue \ {p}
          /\ verifier'.parsed = verifier.parsed /\ verifier'.verdict = verifier.verdict
          /\ verifier'.digest = verifier.digest /\ verifier'.stirred = verifier.stirred
          /\ verifier'.bad = (verifier.bad \/ DigestDiffers(p))
      BY <2>2, <1>t DEF VerifierState
    <3>2. Verified' = Verified /\ package' = package
      BY <1>13, <3>1 DEF Verified, ReadArtifact, Unchanging
    <3>3. verifier.at = "artifacts" /\ verifier.verdict = "none"
      BY <1>13 DEF ReadArtifact, ClaimInv
    <3>4. \A i \in DOMAIN verifier.parsed : AsRead(i) /\ Noticed(i)
      BY <3>3 DEF ClaimInv, Reading
    <3>5. \A i \in DOMAIN verifier.parsed : AsRead(i)'
      BY <3>1, <3>2, <3>4 DEF AsRead
    <3>6. ASSUME NEW i \in DOMAIN verifier.parsed PROVE Noticed(i)'
      <4>1. CASE Verified.items[i] = p
        BY <4>1, <3>1, <3>2, <3>4 DEF AsRead, Noticed, DigestDiffers
      <4>2. CASE Verified.items[i] # p
        BY <4>2, <3>1, <3>2, <3>3, <3>4 DEF Noticed
      <4>3. QED
        BY <4>1, <4>2
    <3>7. QED
      BY <3>1, <3>2, <3>3, <3>5, <3>6 DEF ClaimInv, KeptClaimsAreSealed, Reading, Inventoried,
                                           ItemPaths
  <2>3. QED
    BY <1>13, <2>1, <2>2 DEF ReadArtifact
<1>14. CASE Conclude
  <2>1. CASE verifier.bad
    BY <2>1, <1>14, <1>e DEF Conclude
  <2>2. CASE ~verifier.bad
    <3>1. verifier' = Ended("verified")
      BY <2>2, <1>14 DEF Conclude
    <3>2. Verified' = Verified /\ verifier'.parsed = verifier.parsed /\ verifier'.at = "done"
          /\ verifier'.stirred = verifier.stirred
      BY <3>1, EndedType DEF Verified
    <3>3. \A i \in DOMAIN Verified.items :
              Verified.items[i] \in verifier.stirred
              \/ verifier.parsed[i] = Verified.files[Verified.items[i]]
      BY <2>2, <1>14 DEF Conclude, ClaimInv, Reading, Noticed
    <3>4. QED
      BY <3>2, <3>3 DEF ClaimInv, KeptClaimsAreSealed, Reading
  <2>3. QED
    BY <2>1, <2>2
<1>15. CASE ReadFails
  BY <1>15, <1>e DEF ReadFails
<1>16. CASE EndVerify
  BY <1>16 DEF EndVerify, NoVerifier, ClaimInv, KeptClaimsAreSealed, Reading
<1>17. CASE UNCHANGED verifyVars
  BY <1>17 DEF verifyVars, ClaimInv, KeptClaimsAreSealed, AsRead, Noticed, Verified, Inventoried,
               ItemPaths
<1>18. QED
  BY <1>1, <1>3, <1>4, <1>5, <1>6, <1>7, <1>8, <1>9, <1>10, <1>11, <1>12, <1>13, <1>14, <1>15,
     <1>16, <1>17 DEF VerifyNext

\* docs/source-package-contract.md:323: what an accepted result says of an item
\* is what the sealed record says, whatever happens to the package meanwhile,
\* unless that very record is altered between its two readings.
THEOREM KeptClaimsSealed == VerifySpec => []KeptClaimsAreSealed
<1>1. VerifyInit => ClaimInv
  BY DEF VerifyInit, NoVerifier, ClaimInv, KeptClaimsAreSealed, Reading
<1>2. VerifyTypeOK /\ ClaimInv /\ [VerifyNext]_verifyVars => ClaimInv'
  BY ClaimStep
<1>3. ClaimInv => KeptClaimsAreSealed
  BY DEF ClaimInv
<1>4. QED
  BY <1>1, <1>2, <1>3, VerifyTypeCorrect, PTL DEF VerifySpec

-----------------------------------------------------------------------------
(* The verdict.  What makes a manifest consistent is what the stages check. *)

LEMMA ConsistentIsChecked ==
    ASSUME NEW m \in Manifest
    PROVE  Consistent(m) <=> /\ m.readable /\ m.lineage
                             /\ ItemPaths(m) \subseteq Inventoried(m)
                             /\ Accounted(m, RecordsOf(m.files, m.items))
                             /\ Meaningful(m, RecordsOf(m.files, m.items))
                             /\ Receipted(m, m.files)
<1> DEFINE records == RecordsOf(m.files, m.items)
           sealed == [Sealing(m.files, m.items, m.receipt) EXCEPT !.identified = m.identified]
           tally == [o \in Outcomes |-> Cardinality(Having(records, o))]
<1>1. m.counts \in [Outcomes -> Nat] /\ m.readable \in BOOLEAN /\ m.lineage \in BOOLEAN
  BY DEF Manifest
<1>2. sealed = [files |-> m.files, items |-> m.items, receipt |-> m.receipt,
                readable |-> TRUE, identified |-> m.identified, lineage |-> TRUE,
                counts |-> tally, status |-> StatusOf(records)]
  <2>1. Sealing(m.files, m.items, m.receipt) =
           [files |-> m.files, items |-> m.items, receipt |-> m.receipt,
            readable |-> TRUE, identified |-> TRUE, lineage |-> TRUE,
            counts |-> tally, status |-> StatusOf(records)]
    BY DEF Sealing
  <2> HIDE DEF tally, records
  <2> DEFINE S == Sealing(m.files, m.items, m.receipt)
  <2>2. /\ DOMAIN S = {"files", "items", "receipt", "readable", "identified", "lineage",
                      "counts", "status"}
        /\ S.files = m.files /\ S.items = m.items /\ S.receipt = m.receipt
        /\ S.readable = TRUE /\ S.lineage = TRUE /\ S.counts = tally
        /\ S.status = StatusOf(records)
    BY <2>1
  <2>3. sealed = [f \in DOMAIN S |-> IF f = "identified" THEN m.identified ELSE S[f]]
    OBVIOUS
  <2> HIDE DEF S, sealed
  <2>4. QED
    BY <2>2, <2>3
<1>3. m = [files |-> m.files, items |-> m.items, receipt |-> m.receipt,
           readable |-> m.readable, identified |-> m.identified, lineage |-> m.lineage,
           counts |-> m.counts, status |-> m.status]
  BY DEF Manifest
<1>4. (m.counts = tally) <=> \A o \in Outcomes : m.counts[o] = Cardinality(Having(records, o))
  <2>1. \A o \in Outcomes : tally[o] = Cardinality(Having(records, o))
    OBVIOUS
  <2>2. m.counts = [o \in Outcomes |-> m.counts[o]]
    BY <1>1
  <2>3. tally = [o \in Outcomes |-> tally[o]]
    OBVIOUS
  <2> HIDE DEF tally
  <2>4. m.counts = tally <=> \A o \in Outcomes : m.counts[o] = tally[o]
    BY <2>2, <2>3
  <2>5. QED
    BY <2>1, <2>4
<1> HIDE DEF records, sealed, tally
<1>5. (m = sealed) <=> /\ m.readable /\ m.lineage
                       /\ m.counts = tally /\ m.status = StatusOf(records)
  <2>1. ASSUME m = sealed
        PROVE  m.readable /\ m.lineage /\ m.counts = tally /\ m.status = StatusOf(records)
    BY <2>1, <1>2
  <2>2. ASSUME m.readable, m.lineage, m.counts = tally, m.status = StatusOf(records)
        PROVE  m = sealed
    BY <2>2, <1>1, <1>2, <1>3
  <2>3. QED
    BY <2>1, <2>2
<1>6. Accounted(m, records) <=> /\ Having(records, "none") = {}
                                /\ m.counts = tally /\ m.status = StatusOf(records)
  BY <1>4 DEF Accounted
<1>7. Receipted(m, m.files) <=> /\ m.receipt \in {0} \cup Inventoried(m)
                                /\ m.receipt # 0 => Says[m.files[m.receipt]].sound
  BY DEF Receipted, Inventoried, Paths
<1>8. Consistent(m) <=> /\ m = sealed
                        /\ ItemPaths(m) \subseteq Inventoried(m)
                        /\ Having(records, "none") = {} /\ Meaningful(m, records)
                        /\ Receipted(m, m.files)
  BY <1>7 DEF Consistent, records, sealed
<1>9. QED
  BY <1>5, <1>6, <1>8 DEF records

LEMMA AgreeingIsConsistent ==
    ASSUME VerifyTypeOK, Agreeing
    PROVE  /\ package.json \in Digests /\ package.sidecar = package.json
           /\ package.sidecar = verifier.digest =>
                 Consistent(Verified) /\ package.files = Verified.files
BY DEF Agreeing, SealedPackage, Verified

-----------------------------------------------------------------------------
\* What a verification that nothing disturbed has established so far.
Scanned ==
    /\ package.sidecar = verifier.digest /\ package.json = verifier.digest /\ Verified.readable
    /\ Covered(Verified) /\ ItemPaths(Verified) \subseteq Inventoried(Verified)
    /\ \A p \in Paths : package.files[p] # "special"

RecordsThere == RecordsOf(package.files, Verified.items)

Consumed ==
    /\ Len(verifier.parsed) <= Len(Verified.items)
    /\ \A i \in DOMAIN verifier.parsed : verifier.parsed[i] = package.files[Verified.items[i]]

Judged == Accounted(Verified, RecordsThere) /\ Meaningful(Verified, RecordsThere)

Compared ==
    /\ verifier.queue \subseteq Inventoried(Verified)
    /\ verifier.bad = (\E p \in Inventoried(Verified) \ verifier.queue : DigestDiffers(p))

Established ==
    /\ verifier.at = "envelope" => verifier.parsed = <<>>
    /\ verifier.at = "sidecar" => verifier.parsed = <<>>
    /\ verifier.at = "manifest" => verifier.parsed = <<>> /\ package.sidecar = verifier.digest
    /\ verifier.at = "scan" => /\ verifier.parsed = <<>>
                               /\ package.sidecar = verifier.digest
                               /\ package.json = verifier.digest /\ Verified.readable
    /\ verifier.at \in Reading => Scanned
    /\ verifier.at = "items" => Consumed
    /\ verifier.at \in {"lineage", "artifacts"} => Judged
    /\ verifier.at = "artifacts" => /\ Verified.lineage /\ Receipted(Verified, package.files)
                                    /\ Compared

VerdictInv ==
    /\ verifier.at = "idle" => verifier.parsed = <<>>
    /\ verifier.at \notin {"artifacts", "done"} => ~verifier.bad
    /\ verifier.at # "idle" /\ verifier.still => Established
    /\ VerdictIsRight

LEMMA VerdictStep ==
    ASSUME VerifyTypeOK, VerdictInv, [VerifyNext]_verifyVars
    PROVE  VerdictInv'
<1>t. verifier \in VerifierState /\ Verified \in Manifest /\ package.files \in [Paths -> At]
  BY VerifierAssumption DEF VerifyTypeOK, VerifierState, Verified, PackageDirectory
<1>i. /\ Verified.items \in Seq(Paths) /\ verifier.parsed \in Seq(Contents)
      /\ DOMAIN Verified.items = 1..Len(Verified.items)
      /\ DOMAIN verifier.parsed = 1..Len(verifier.parsed)
      /\ Len(verifier.parsed) \in Nat /\ Len(Verified.items) \in Nat
  BY <1>t DEF Manifest, VerifierState
<1>d. Digests \cap {"absent", "special", "malformed"} = {}
  BY VerifierAssumption
<1>n. VerifyTypeOK'
  BY VerifyTypeStep
\* Endings: the verdict has to be right if nothing changed.
<1>e. ASSUME NEW v \in {"verified", "rejected", "indeterminate"},
             verifier' = Ended(v), package' = package,
             verifier.still => (v = "verified" => Agreeing) /\ (v = "rejected" => ~Agreeing)
      PROVE  VerdictInv'
  <2>1. Agreeing' = Agreeing
    BY <1>e DEF Agreeing
  <2>2. QED
    BY <1>e, <2>1, EndedType DEF VerdictInv, VerdictIsRight, Established, Reading
\* Stages: what is established goes on to hold.
<1>s. ASSUME verifier'.at # "done", verifier'.at # "idle",
             verifier'.still => Established',
             verifier'.at # "artifacts" => ~verifier'.bad
      PROVE  VerdictInv'
  BY <1>s DEF VerdictInv, VerdictIsRight
\* Changes by others.
<1>a. ASSUME NEW new, NEW paths, Altered(new, paths) PROVE VerdictInv'
  <2>1. /\ verifier'.at = verifier.at /\ verifier'.bad = verifier.bad
        /\ verifier'.still = (verifier.at = "idle") /\ verifier'.parsed = verifier.parsed
    BY <1>a, <1>t DEF Altered, VerifierState
  <2>2. QED
    BY <2>1 DEF VerdictInv, VerdictIsRight
<1>1. CASE \E p \in Paths, at \in At : AlterFile(p, at)
  BY <1>1, <1>a DEF AlterFile
<1>2. CASE \E d \in Digests \cup {"absent", "special"} : AlterManifest(d)
  BY <1>2, <1>a DEF AlterManifest
<1>3. CASE \E d \in Digests \cup {"absent", "special", "malformed"} : AlterSidecar(d)
  BY <1>3, <1>a DEF AlterSidecar
<1>4. CASE StartVerify
  <2>1. verifier'.at = "envelope" /\ verifier'.bad = verifier.bad
        /\ verifier'.parsed = verifier.parsed
    BY <1>4, <1>t DEF StartVerify, VerifierState
  <2>2. QED
    BY <2>1, <1>4, <1>s DEF StartVerify, VerdictInv, Established, Reading
<1>5. CASE CheckEnvelope
  <2> USE <1>5 DEF CheckEnvelope, Unchanging
  <2>1. CASE verifier' = Ended("rejected")
             /\ ~(package.json \in Digests /\ package.sidecar \in Digests \cup {"malformed"})
    BY <2>1, <1>e, AgreeingIsConsistent
  <2>2. CASE verifier' = [verifier EXCEPT !.at = "sidecar"]
    <3>1. verifier'.at = "sidecar" /\ verifier'.bad = verifier.bad
          /\ verifier'.parsed = verifier.parsed /\ verifier'.still = verifier.still
      BY <2>2, <1>t DEF VerifierState
    <3>2. QED
      BY <3>1, <1>s DEF VerdictInv, Established, Reading
  <2>3. QED
    BY <2>1, <2>2
<1>6. CASE ReadSidecar
  <2> USE <1>6 DEF ReadSidecar, Unchanging
  <2>1. CASE package.sidecar \notin Digests
    BY <2>1, <1>e, <1>d, AgreeingIsConsistent
  <2>2. CASE verifier' = [verifier EXCEPT !.at = "manifest", !.digest = package.sidecar]
    <3>1. /\ verifier'.at = "manifest" /\ verifier'.bad = verifier.bad
          /\ verifier'.digest = package.sidecar
          /\ verifier'.parsed = verifier.parsed /\ verifier'.still = verifier.still
      BY <2>2, <1>t DEF VerifierState
    <3>2. QED
      BY <3>1, <1>s DEF VerdictInv, Established, Reading
  <2>3. QED
    BY <2>1, <2>2
<1>7. CASE ReadManifest
  <2> USE <1>7 DEF ReadManifest, Unchanging
  <2>1. CASE verifier' = Ended("indeterminate")
    BY <2>1, <1>e
  <2>2. CASE verifier' = Ended("rejected")
             /\ ~(package.json = verifier.digest /\ Verified.readable)
    <3>1. verifier.still => package.sidecar = verifier.digest
      BY DEF VerdictInv, Established
    <3>2. verifier.still => ~Agreeing
      BY <2>2, <3>1, <1>t, AgreeingIsConsistent, ConsistentIsChecked
    <3>3. QED
      BY <2>2, <3>2, <1>e
  <2>3. CASE /\ verifier' = [verifier EXCEPT !.at = "scan"]
             /\ package.json = verifier.digest /\ Verified.readable
    <3>1. /\ verifier'.at = "scan" /\ verifier'.bad = verifier.bad
          /\ verifier'.parsed = verifier.parsed
          /\ verifier'.digest = verifier.digest /\ verifier'.still = verifier.still
      BY <2>3, <1>t DEF VerifierState
    <3>2. Verified' = Verified
      BY <3>1 DEF Verified
    <3>3. QED
      BY <3>1, <3>2, <2>3, <1>s DEF VerdictInv, Established, Reading
  <2>4. QED
    BY <2>1, <2>2, <2>3
<1>8. CASE ScanPackage
  <2> DEFINE fits == /\ \A p \in Paths : package.files[p] # "special"
                     /\ "special" \notin {package.json, package.sidecar}
                     /\ Covered(Verified) /\ ItemPaths(Verified) \subseteq Inventoried(Verified)
  <2>e. verifier.still => package.sidecar = verifier.digest /\ package.json = verifier.digest
                          /\ Verified.readable /\ verifier.parsed = <<>>
    BY <1>8 DEF ScanPackage, VerdictInv, Established
  <2>u. package' = package /\ verifier.at = "scan"
    BY <1>8 DEF ScanPackage, Unchanging
  <2>f. verifier' = IF fits THEN [verifier EXCEPT !.at = "items"] ELSE Ended("rejected")
    <3>1. \A p \in Paths : package.files[p] = "special" => package.files[p] # "absent"
      OBVIOUS
    <3>2. (\A p \in {q \in Paths : package.files[q] # "absent"} : package.files[p] # "special")
             <=> (\A p \in Paths : package.files[p] # "special")
      BY <3>1
    <3>3. QED
      BY <1>8, <3>2 DEF ScanPackage
  <2>1. CASE ~fits
    <3>1. ASSUME verifier.still, Agreeing PROVE fits
      <4>1. Consistent(Verified) /\ package.files = Verified.files /\ package.json \in Digests
        BY <3>1, <2>e, AgreeingIsConsistent
      <4>2. \A p \in Paths : package.files[p] # "special"
        BY <4>1, <1>t, VerifierAssumption DEF Manifest
      <4>3. Covered(Verified)
        BY <4>1 DEF Covered, Inventoried
      <4>4. ItemPaths(Verified) \subseteq Inventoried(Verified)
        BY <4>1, <1>t, ConsistentIsChecked
      <4>5. QED
        BY <4>1, <4>2, <4>3, <4>4, <3>1, <2>e, <1>d
    <3>2. QED
      BY <2>1, <3>1, <2>f, <2>u, <1>e
  <2>2. CASE fits
    <3>1. /\ verifier'.at = "items" /\ verifier'.bad = verifier.bad
          /\ verifier'.digest = verifier.digest /\ verifier'.still = verifier.still
          /\ verifier'.parsed = verifier.parsed
      BY <2>2, <2>f, <1>t DEF VerifierState
    <3>2. Verified' = Verified
      BY <3>1 DEF Verified
    <3>3. verifier.still => Consumed'
      BY <3>1, <3>2, <2>e, <1>i DEF Consumed
    <3>4. verifier.still => Scanned'
      BY <3>1, <3>2, <2>2, <2>e, <2>u DEF Scanned, Covered, Inventoried, ItemPaths
    <3>5. QED
      BY <3>1, <3>3, <3>4, <2>u, <1>s DEF VerdictInv, Established, Reading
  <2>3. QED
    BY <2>1, <2>2
<1>9. CASE ReadItem
  <2> DEFINE l == Len(verifier.parsed)
             p == Verified.items[l + 1]
  <2>u. package' = package /\ verifier.at = "items" /\ l < Len(Verified.items)
    BY <1>9 DEF ReadItem, Unchanging
  <2>1. CASE verifier' = Ended("indeterminate")
    BY <2>1, <2>u, <1>e
  <2>2. CASE /\ package.files[p] \in Contents
             /\ verifier' = [verifier EXCEPT !.parsed = Append(@, package.files[p])]
    <3>1. /\ verifier'.at = "items" /\ verifier'.bad = verifier.bad
          /\ verifier'.digest = verifier.digest /\ verifier'.still = verifier.still
          /\ verifier'.parsed = Append(verifier.parsed, package.files[p])
      BY <2>2, <2>u, <1>t DEF VerifierState
    <3>2. /\ Len(verifier'.parsed) = l + 1 /\ DOMAIN verifier'.parsed = 1..(l + 1)
          /\ \A i \in 1..(l + 1) : verifier'.parsed[i] = IF i = l + 1 THEN package.files[p]
                                                                      ELSE verifier.parsed[i]
      BY <3>1, <2>2, <1>i
    <3>3. Verified' = Verified
      BY <3>1 DEF Verified
    <3>4. Consumed => Consumed'
      <4>1. \A i \in 1..(l + 1) : i = l + 1 \/ i \in 1..l
        BY <1>i
      <4>2. QED
        BY <4>1, <3>2, <3>3, <2>u, <1>i DEF Consumed
    <3>5. Scanned => Scanned'
      BY <3>1, <3>3, <2>u DEF Scanned, Covered, Inventoried, ItemPaths
    <3>6. QED
      BY <3>1, <3>4, <3>5, <2>u, <1>s DEF VerdictInv, Established, Reading
  <2>3. QED
    BY <1>9, <2>1, <2>2 DEF ReadItem
<1>10. CASE JudgeItems
  <2> DEFINE m == Verified
             fits == Accounted(m, verifier.parsed) /\ Meaningful(m, verifier.parsed)
  <2>u. package' = package /\ verifier.at = "items" /\ Len(verifier.parsed) = Len(m.items)
    BY <1>10 DEF JudgeItems, Unchanging
  <2>f. verifier' = IF fits THEN [verifier EXCEPT !.at = "lineage"] ELSE Ended("rejected")
    BY <1>10 DEF JudgeItems
  <2>e. verifier.still => Scanned /\ (Judged = fits)
    <3>1. verifier.still => Scanned /\ Consumed
      BY <2>u DEF VerdictInv, Established, Reading
    <3>2. Consumed => verifier.parsed = RecordsThere
      <4>1. verifier.parsed = [i \in 1..Len(verifier.parsed) |-> verifier.parsed[i]]
        BY <1>i
      <4>2. QED
        BY <4>1, <2>u, <1>i DEF Consumed, RecordsThere, RecordsOf
    <3>3. QED
      BY <3>1, <3>2 DEF Judged
  <2>1. CASE ~fits
    <3>1. ASSUME verifier.still, Agreeing PROVE fits
      <4>1. Consistent(m) /\ package.files = m.files
        BY <3>1, <2>e, AgreeingIsConsistent DEF Scanned
      <4>2. Judged
        BY <4>1, <1>t, ConsistentIsChecked DEF Judged, RecordsThere
      <4>3. QED
        BY <4>2, <3>1, <2>e
    <3>2. QED
      BY <2>1, <3>1, <2>f, <2>u, <1>e
  <2>2. CASE fits
    <3>1. /\ verifier'.at = "lineage" /\ verifier'.bad = verifier.bad
          /\ verifier'.digest = verifier.digest /\ verifier'.still = verifier.still
      BY <2>2, <2>f, <1>t DEF VerifierState
    <3>2. Verified' = Verified
      BY <3>1 DEF Verified
    <3>3. verifier.still => Scanned' /\ Judged'
      <4>1. verifier.still => Scanned /\ Judged
        BY <2>e, <2>2
      <4>2. RecordsThere' = RecordsThere
        BY <3>2, <2>u DEF RecordsThere
      <4>3. Judged => Judged'
        BY <3>2, <4>2, <2>u DEF Judged
      <4>4. Scanned => Scanned'
        BY <3>1, <3>2, <2>u DEF Scanned, Covered, Inventoried, ItemPaths
      <4>5. QED
        BY <4>1, <4>3, <4>4
    <3>4. QED
      BY <3>1, <3>3, <2>u, <1>s DEF VerdictInv, Established, Reading
  <2>3. QED
    BY <2>1, <2>2
<1>11. CASE CheckLineage
  <2> DEFINE m == Verified
             fits == m.lineage /\ Receipted(m, package.files)
  <2>u. package' = package /\ verifier.at = "lineage"
    BY <1>11 DEF CheckLineage, Unchanging
  <2>f. \/ verifier' = Ended("indeterminate")
        \/ fits /\ verifier' = [verifier EXCEPT !.at = "artifacts", !.queue = Inventoried(m)]
        \/ ~fits /\ verifier' = Ended("rejected")
    BY <1>11 DEF CheckLineage
  <2>e. verifier.still => Scanned /\ Judged
    BY <2>u DEF VerdictInv, Established, Reading
  <2>1. CASE verifier' = Ended("indeterminate")
    BY <2>1, <2>u, <1>e
  <2>2. CASE ~fits /\ verifier' = Ended("rejected")
    <3>1. ASSUME verifier.still, Agreeing PROVE fits
      <4>1. Consistent(m) /\ package.files = m.files
        BY <3>1, <2>e, AgreeingIsConsistent DEF Scanned
      <4>2. QED
        BY <4>1, <1>t, ConsistentIsChecked
    <3>2. QED
      BY <2>2, <3>1, <2>u, <1>e
  <2>3. CASE fits /\ verifier' = [verifier EXCEPT !.at = "artifacts", !.queue = Inventoried(m)]
    <3>1. /\ verifier'.at = "artifacts" /\ verifier'.bad = verifier.bad
          /\ verifier'.digest = verifier.digest /\ verifier'.still = verifier.still
          /\ verifier'.queue = Inventoried(m)
      BY <2>3, <1>t DEF VerifierState
    <3>2. Verified' = Verified
      BY <3>1 DEF Verified
    <3>3. verifier.still => Scanned' /\ Judged'
      <4>1. RecordsThere' = RecordsThere
        BY <3>2, <2>u DEF RecordsThere
      <4>2. Judged => Judged'
        BY <3>2, <4>1, <2>u DEF Judged
      <4>3. Scanned => Scanned'
        BY <3>1, <3>2, <2>u DEF Scanned, Covered, Inventoried, ItemPaths
      <4>4. QED
        BY <2>e, <4>2, <4>3
    <3>4. m.lineage /\ Receipted(m, package.files) /\ Receipted(m, package.files)'
      BY <3>2, <2>3, <2>u DEF Receipted, Inventoried
    <3>5. verifier.bad = FALSE
      BY <2>u, <1>t DEF VerdictInv, VerifierState
    <3>6. Inventoried(Verified)' = Inventoried(m)
      BY <3>2 DEF Inventoried
    <3>7. Compared'
      BY <3>1, <3>5, <3>6 DEF Compared
    <3>8. Receipted(Verified, package.files)'
      BY <3>2, <3>4, <2>u DEF Receipted, Inventoried
    <3>9. QED
      BY <3>1, <3>2, <3>3, <3>4, <3>7, <3>8, <1>s DEF Established, Reading
  <2>4. QED
    BY <2>f, <2>1, <2>2, <2>3
<1>12. ASSUME NEW p \in Paths, ReadArtifact(p) PROVE VerdictInv'
  <2>u. package' = package /\ verifier.at = "artifacts" /\ p \in verifier.queue
    BY <1>12 DEF ReadArtifact, Unchanging
  <2>1. CASE verifier' = Ended("indeterminate")
    BY <2>1, <2>u, <1>e
  <2>2. CASE verifier' = [verifier EXCEPT !.queue = @ \ {p}, !.bad = @ \/ DigestDiffers(p)]
    <3>1. /\ verifier'.at = "artifacts" /\ verifier'.queue = verifier.queue \ {p}
          /\ verifier'.digest = verifier.digest /\ verifier'.still = verifier.still
          /\ verifier'.bad = (verifier.bad \/ DigestDiffers(p))
      BY <2>2, <2>u, <1>t DEF VerifierState
    <3>2. Verified' = Verified
      BY <3>1 DEF Verified
    <3>3. verifier.still => Established
      BY <2>u DEF VerdictInv
    <3>4. verifier.still => Scanned' /\ Judged' /\ Verified'.lineage
                            /\ Receipted(Verified, package.files)'
      <4>1. RecordsThere' = RecordsThere
        BY <3>2, <2>u DEF RecordsThere
      <4>2. Judged => Judged'
        BY <3>2, <4>1, <2>u DEF Judged
      <4>3. Scanned => Scanned'
        BY <3>1, <3>2, <2>u DEF Scanned, Covered, Inventoried, ItemPaths
      <4>4. Receipted(Verified, package.files) => Receipted(Verified, package.files)'
        BY <3>2, <2>u DEF Receipted, Inventoried
      <4>5. QED
        BY <3>2, <3>3, <2>u, <4>2, <4>3, <4>4 DEF Established, Reading
    <3>5. verifier.still => Compared'
      <4>1. p \in verifier.queue
        BY <2>u
      <4>2. Inventoried(Verified)' = Inventoried(Verified)
        BY <3>2 DEF Inventoried
      <4>3. \A q : DigestDiffers(q)' = DigestDiffers(q)
        BY <3>2, <2>u DEF DigestDiffers
      <4>4. verifier.still => Compared
        BY <3>3, <2>u DEF Established
      <4>5. Compared => Compared'
        BY <4>1, <4>2, <4>3, <3>1 DEF Compared
      <4>6. QED
        BY <4>4, <4>5
    <3>6. QED
      BY <3>1, <3>4, <3>5, <1>s DEF Established, Reading
  <2>3. QED
    BY <1>12, <2>1, <2>2 DEF ReadArtifact
<1>13. CASE Conclude
  <2>u. package' = package /\ verifier.at = "artifacts" /\ verifier.queue = {}
    BY <1>13 DEF Conclude, Unchanging
  <2>e. verifier.still => Established
    BY <2>u DEF VerdictInv
  <2>1. ASSUME verifier.still, ~verifier.bad PROVE Agreeing
    <3>1. /\ Scanned /\ Judged /\ Verified.lineage /\ Receipted(Verified, package.files)
          /\ Compared
      BY <2>1, <2>e, <2>u DEF Established, Reading
    <3>2. \A p \in Inventoried(Verified) : package.files[p] = Verified.files[p]
      BY <3>1, <2>1, <2>u DEF Compared, DigestDiffers
    <3>3. \A p \in Paths \ Inventoried(Verified) : package.files[p] = "absent"
      BY <3>1 DEF Scanned, Covered
    <3>4. \A p \in Paths : package.files[p] = Verified.files[p]
      BY <3>2, <3>3 DEF Inventoried
    <3>5. package.files = Verified.files
      BY <3>4, <1>t DEF Manifest
    <3>6. Consistent(Verified)
      BY <3>1, <3>5, <1>t, ConsistentIsChecked DEF Scanned, Judged, RecordsThere
    <3>7. package = SealedPackage(verifier.digest)
      BY <3>1, <3>5 DEF Scanned, SealedPackage, Verified, VerifyTypeOK, PackageDirectory
    <3>8. QED
      BY <3>6, <3>7, <1>t DEF Agreeing, Verified, VerifierState
  <2>2. ASSUME verifier.still, verifier.bad PROVE ~Agreeing
    <3>1. PICK p \in Paths : package.files[p] # Verified.files[p]
      BY <2>2, <2>e, <2>u DEF Established, Compared, DigestDiffers, Inventoried
    <3>2. package.sidecar = verifier.digest
      BY <2>2, <2>e, <2>u DEF Established, Reading, Scanned
    <3>3. QED
      BY <3>1, <3>2, AgreeingIsConsistent
  <2>3. QED
    BY <1>13, <2>1, <2>2, <2>u, <1>e DEF Conclude
<1>14. CASE ReadFails
  BY <1>14, <1>e DEF ReadFails, Unchanging
<1>15. CASE EndVerify
  BY <1>15 DEF EndVerify, NoVerifier, VerdictInv, VerdictIsRight
<1>16. CASE UNCHANGED verifyVars
  <2>1. package' = package /\ verifier' = verifier
    BY <1>16 DEF verifyVars
  <2>2. Verified' = Verified
    BY <2>1 DEF Verified
  <2>3. RecordsThere' = RecordsThere /\ Agreeing' = Agreeing
    BY <2>1, <2>2 DEF RecordsThere, Agreeing
  <2>4. Scanned => Scanned'
    BY <2>1, <2>2 DEF Scanned, Covered, Inventoried, ItemPaths
  <2>5. (Judged => Judged') /\ (Consumed => Consumed')
    BY <2>1, <2>2, <2>3 DEF Judged, Consumed
  <2>6. Compared => Compared'
    BY <2>1, <2>2 DEF Compared, DigestDiffers, Inventoried
  <2>7. Receipted(Verified, package.files) => Receipted(Verified, package.files)'
    BY <2>1, <2>2 DEF Receipted, Inventoried
  <2>8. Established => Established'
    BY <2>1, <2>2, <2>4, <2>5, <2>6, <2>7 DEF Established
  <2>9. QED
    BY <2>1, <2>3, <2>8 DEF VerdictInv, VerdictIsRight
<1>17. QED
  BY <1>1, <1>2, <1>3, <1>4, <1>5, <1>6, <1>7, <1>8, <1>9, <1>10, <1>11, <1>12, <1>13, <1>14,
     <1>15, <1>16 DEF VerifyNext

\* docs/source-package-contract.md:298: a package that nothing changes while it
\* is verified is accepted only if it has, file by file, what its manifest
\* lists, and the manifest agrees with its item records and its receipt; it is
\* rejected only if not.
THEOREM VerdictsAreRight == VerifySpec => []VerdictIsRight
<1>1. VerifyInit => VerdictInv
  BY DEF VerifyInit, NoVerifier, VerdictInv, VerdictIsRight
<1>2. VerifyTypeOK /\ VerdictInv /\ [VerifyNext]_verifyVars => VerdictInv'
  BY VerdictStep
<1>3. VerdictInv => VerdictIsRight
  BY DEF VerdictInv
<1>4. QED
  BY <1>1, <1>2, <1>3, VerifyTypeCorrect, PTL DEF VerifySpec
=============================================================================
