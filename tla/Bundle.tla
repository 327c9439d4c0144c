-------------------------------- MODULE Bundle --------------------------------
(***************************************************************************)
(* The bundle command: it collects the artifacts that the manifests of     *)
(* several output directories list into one Markdown file, or into         *)
(* numbered files of limited size, on request only those that differ from  *)
(* a baseline, a copy of an earlier output directory.  bundle.py and the   *)
(* command's part of cli.py.                                               *)
(*                                                                         *)
(* A canonical id, and so the artifact's path, is a number, and numbers    *)
(* are in lexical order; the artifact is a version of its text.  A         *)
(* section's size is that of its text, whatever the header; patterns are   *)
(* the ids that they match.  The adapters, which fill the directories,     *)
(* are modelled by what they leave behind; what they do is in ManifestSync *)
(* and GitHubMetadata.                                                     *)
(***************************************************************************)
EXTENDS Naturals, Sequences, FiniteSets

CONSTANTS LastId, LastVersion,
          Folders,        \* the output directories
          Hashing,        \* those whose manifests have content hashes
          Marking,        \* those whose manifests report stale artifacts
                          \* with all that a bundle needs of them
          InputChoices,   \* the sequences of directories that are bundled
          OptionChoices,
          SizeOf, Separator,    \* of a version's section, and between sections
          FolderQuota           \* bound on what adapters do

Ids == 1..LastId
Versions == 1..LastVersion

Option == [changed : BOOLEAN, stale : {"include", "exclude"}, wanted : SUBSET Ids, limit : Nat]

ASSUME BundleAssumption ==
    /\ LastId \in Nat \ {0} /\ LastVersion \in Nat \ {0}
    /\ Folders # {} /\ Hashing \subseteq Folders /\ Marking \subseteq Folders
    /\ InputChoices \subseteq Seq(Folders)
    /\ OptionChoices \subseteq Option
    /\ SizeOf \in [Versions -> Nat \ {0}] /\ Separator \in Nat
    /\ FolderQuota \in Nat

VARIABLES folders,        \* the output directories
          baseline,       \* the copy of one
          bundle,         \* the bundle command in progress
          bundleFiles,    \* what is at the output path (0) and its numbered ones
          folderQuota

bundleVars == <<folders, baseline, bundle, bundleFiles, folderQuota>>

\* What a manifest says of an id: nothing, that it is current, that it is
\* stale, that it is stale but not where it came from.
Entry == [status : {"none", "current", "stale", "bare"}, hash : 0..LastVersion]
NoEntry == [status |-> "none", hash |-> 0]

\* Version 0 is a file that is not there.
Folder == [manifest : {"none", "torn", "whole"}, entries : [Ids -> Entry],
           artifact : [Ids -> 0..LastVersion]]
EmptyFolder == [manifest |-> "none", entries |-> [i \in Ids |-> NoEntry],
                artifact |-> [i \in Ids |-> 0]]

Section == [id : Ids, version : Versions]

\* order has the ids selected, with the directory that each is taken from;
\* still tells whether no directory has changed since the command began.
BundleRun == [at : {"idle", "load", "render", "write", "done"}, inputs : Seq(Folders),
              option : Option, order : Seq(Ids), source : [Ids -> Folders],
              chunks : Seq(Seq(Section)), written : Nat, still : BOOLEAN]

NoBundle == [at |-> "idle", inputs |-> <<>>,
             option |-> [changed |-> FALSE, stale |-> "include", wanted |-> {}, limit |-> 0],
             order |-> <<>>, source |-> [i \in Ids |-> CHOOSE d \in Folders : TRUE],
             chunks |-> <<>>, written |-> 0, still |-> TRUE]

\* A file that is not there has no sections, one cut short not all of them.
BundleFile == Seq(Section)
FileNumbers == 0..LastId

BundleInit == /\ folders = [d \in Folders |-> EmptyFolder]
              /\ baseline = EmptyFolder
              /\ bundle = NoBundle
              /\ bundleFiles = [k \in FileNumbers |-> <<>>]
              /\ folderQuota = FolderQuota

-----------------------------------------------------------------------------
(* The adapters, and the operator.                                         *)

FolderChanges(d, new) ==
    /\ folderQuota > 0 /\ folderQuota' = folderQuota - 1
    /\ folders' = [folders EXCEPT ![d] = new]
    /\ bundle' = [bundle EXCEPT !.still = bundle.at = "idle"]
    /\ UNCHANGED <<baseline, bundleFiles>>

\* An adapter's run lists the versions it found.  Of what was listed before it
\* says that it is stale, if it says so at all.
Acquire(d, found) ==
    LET now == [i \in Ids |-> IF found[i] # 0 THEN found[i] ELSE folders[d].artifact[i]]
        stale(i) == folders[d].entries[i].status = "current" /\ now[i] # 0
        entry(i) ==
            CASE found[i] # 0 -> [status |-> "current",
                                  hash |-> IF d \in Hashing THEN found[i] ELSE 0]
              [] found[i] = 0 /\ stale(i) /\ d \in Marking ->
                                 [folders[d].entries[i] EXCEPT !.status = "stale"]
              [] found[i] = 0 /\ stale(i) /\ d \in Hashing \ Marking ->
                                 [folders[d].entries[i] EXCEPT !.status = "bare"]
              [] OTHER -> NoEntry
    IN  FolderChanges(d, [manifest |-> "whole", artifact |-> now,
                          entries |-> [i \in Ids |-> entry(i)]])

\* A run that dies leaves an artifact that its manifest does not know of, or a
\* manifest that was cut short; one that prunes deletes what is not current.
DieAcquiring(d, i, v) == FolderChanges(d, [folders[d] EXCEPT !.artifact[i] = v])
TearManifest(d) == FolderChanges(d, [folders[d] EXCEPT !.manifest = "torn",
                                         !.entries = [i \in Ids |-> NoEntry]])
Prune(d, i) ==
    /\ folders[d].artifact[i] # 0 /\ folders[d].entries[i].status # "current"
    /\ FolderChanges(d, [folders[d] EXCEPT !.artifact[i] = 0])

\* A copy of the directory, or of its manifest alone.
SaveBaseline(d, files) ==
    /\ folders[d].manifest = "whole" /\ bundle.at = "idle"
    /\ baseline' = [folders[d] EXCEPT !.artifact = [i \in Ids |-> IF files THEN @[i] ELSE 0]]
    /\ UNCHANGED <<folders, bundle, bundleFiles, folderQuota>>

-----------------------------------------------------------------------------
(* The command.  The Fault operators are plausible bugs, which the runs    *)
(* notice in place of the definition each is named for.                    *)

\* One bundle, given directly or by its name, or each of those configured, for
\* which main calls itself in turn: their outputs do not collide.
BeginBundle(inputs, option) ==
    /\ bundle.at = "idle"
    /\ bundle' = [NoBundle EXCEPT !.at = "load", !.inputs = inputs, !.option = option]
    /\ UNCHANGED <<folders, baseline, bundleFiles, folderQuota>>

\* _load_bundle_artifacts: a stale entry without its source is passed over.
Bundled(d) == {i \in Ids : folders[d].entries[i].status \in {"current", "stale"}}

\* The first input that lists an id wins.
Listers(inputs, i) == {k \in DOMAIN inputs : i \in Bundled(inputs[k])}
Winner(inputs, i) ==
    inputs[CHOOSE k \in Listers(inputs, i) : \A j \in Listers(inputs, i) : k <= j]

FaultUnchanged(d, i) ==
    /\ baseline.entries[i].status = "current"
    /\ folders[d].entries[i].hash = baseline.entries[i].hash

\* _artifact_changed_since_baseline: without a hash, the file is hashed.
Unchanged(d, i) ==
    LET current == folders[d].entries[i].hash
        former == baseline.entries[i].hash
    IN  /\ baseline.entries[i].status = "current" /\ baseline.artifact[i] # 0
        /\ (IF current # 0 THEN current ELSE folders[d].artifact[i])
             = (IF former # 0 THEN former ELSE baseline.artifact[i])

Select(inputs, option) ==
    {i \in Ids : /\ Listers(inputs, i) # {}
                 /\ option.changed => ~Unchanged(Winner(inputs, i), i)
                 /\ i \in option.wanted
                 /\ option.stale = "exclude" =>
                        folders[Winner(inputs, i)].entries[i].status # "stale"}

\* The files whose hashes are asked for are there.
Hashable(inputs, option) ==
    option.changed =>
        \A i \in Ids : Listers(inputs, i) # {} /\ baseline.entries[i].status = "current"
                       /\ baseline.artifact[i] # 0
                           => LET d == Winner(inputs, i) IN
                              folders[d].entries[i].hash # 0 \/ folders[d].artifact[i] # 0

InOrder(ids) == CHOOSE s \in [1..Cardinality(ids) -> ids] :
                    \A k, j \in 1..Cardinality(ids) : k < j => s[k] < s[j]

\* load_bundle_plan, with canonical_id order.
LoadPlan ==
    LET inputs == bundle.inputs
        readable == /\ \A k \in DOMAIN inputs : folders[inputs[k]].manifest = "whole"
                    /\ bundle.option.changed => baseline.manifest = "whole"
                    /\ Hashable(inputs, bundle.option)
        ids == Select(inputs, bundle.option)
    IN
    /\ bundle.at = "load"
    /\ bundle' = IF ~readable THEN NoBundle
                 ELSE [bundle EXCEPT !.at = "render", !.order = InOrder(ids),
                           !.source = [i \in Ids |-> IF i \in ids THEN Winner(inputs, i)
                                                                  ELSE @[i]]]
    /\ UNCHANGED <<folders, baseline, bundleFiles, folderQuota>>

FaultBytes(chunk) ==
    LET sum[k \in 0..Len(chunk)] ==
            IF k = 0 THEN 0 ELSE sum[k - 1] + SizeOf[chunk[k].version]
    IN  sum[Len(chunk)]

Bytes(chunk) ==
    LET sum[k \in 0..Len(chunk)] ==
            IF k = 0 THEN 0
            ELSE sum[k - 1] + SizeOf[chunk[k].version] + (IF k = 1 THEN 0 ELSE Separator)
    IN  sum[Len(chunk)]

\* _split_bundle_sections: a section goes where the one before it went, unless
\* the file would pass the limit.
Split(sections, limit) ==
    LET append(chunks, s) ==
            LET last == Append(chunks[Len(chunks)], s) IN
            IF chunks[Len(chunks)] = <<>> \/ Bytes(last) <= limit
            THEN [chunks EXCEPT ![Len(chunks)] = last]
            ELSE Append(chunks, <<s>>)
        split[k \in 0..Len(sections)] ==
            IF k = 0 THEN << <<>> >> ELSE append(split[k - 1], sections[k])
    IN  split[Len(sections)]

\* The artifacts are read after the plan was made.
Render ==
    LET artifact(i) == folders[bundle.source[i]].artifact[i]
        sections == [k \in DOMAIN bundle.order |->
                        [id |-> bundle.order[k], version |-> artifact(bundle.order[k])]]
        limit == bundle.option.limit
    IN
    /\ bundle.at = "render"
    /\ bundle' = IF \E k \in DOMAIN bundle.order : artifact(bundle.order[k]) = 0 THEN NoBundle
                 ELSE [bundle EXCEPT !.at = "write",
                           !.chunks = IF limit = 0 THEN <<sections>> ELSE Split(sections, limit)]
    /\ UNCHANGED <<folders, baseline, bundleFiles, folderQuota>>

\* The output path itself, or its numbered ones.
Path(k) == IF bundle.option.limit = 0 THEN 0 ELSE k

WriteBundleFile ==
    LET k == bundle.written + 1 IN
    /\ bundle.at = "write"
    /\ bundleFiles' = [bundleFiles EXCEPT ![Path(k)] = bundle.chunks[k]]
    /\ bundle' = [bundle EXCEPT !.written = k,
                                !.at = IF k = Len(bundle.chunks) THEN "done" ELSE "write"]
    /\ UNCHANGED <<folders, baseline, folderQuota>>

EndBundle ==
    /\ bundle.at = "done"
    /\ bundle' = NoBundle
    /\ UNCHANGED <<folders, baseline, bundleFiles, folderQuota>>

\* It dies, or a read or a write fails.
FailBundle ==
    /\ bundle.at \notin {"idle", "done"}
    /\ bundle' = NoBundle
    /\ \/ UNCHANGED bundleFiles
       \/ LET chunk == bundle.chunks[bundle.written + 1] IN
          /\ bundle.at = "write"
          /\ \E k \in 0..(Len(chunk) - 1) :
                bundleFiles' = [bundleFiles EXCEPT ![Path(bundle.written + 1)] = SubSeq(chunk, 1, k)]
    /\ UNCHANGED <<folders, baseline, folderQuota>>

BundleNext ==
    \/ \E d \in Folders :
          \/ \E found \in [Ids -> 0..LastVersion] : Acquire(d, found)
          \/ \E i \in Ids : Prune(d, i) \/ \E v \in Versions : DieAcquiring(d, i, v)
          \/ TearManifest(d)
          \/ \E files \in BOOLEAN : SaveBaseline(d, files)
    \/ \E inputs \in InputChoices, option \in OptionChoices : BeginBundle(inputs, option)
    \/ LoadPlan \/ Render \/ WriteBundleFile \/ EndBundle \/ FailBundle

BundleSpec == BundleInit /\ [][BundleNext]_bundleVars

-----------------------------------------------------------------------------
BundleTypeOK == /\ folders \in [Folders -> Folder]
                /\ baseline \in Folder
                /\ bundle \in BundleRun
                /\ bundleFiles \in [FileNumbers -> BundleFile]
                /\ folderQuota \in 0..FolderQuota

\* The manifest tells what the artifacts are.
Honest(folder) == \A i \in Ids : /\ folder.entries[i].hash \in {0, folder.artifact[i]}
                                 /\ folder.entries[i].status = "current" => folder.artifact[i] # 0

\* Where the sections of id i are in the files that the command wrote.
Places(i) ==
    {p \in {Path(k) : k \in 1..bundle.written} \X (1..LastId) :
        p[2] \in DOMAIN bundleFiles[p[1]] /\ bundleFiles[p[1]][p[2]].id = i}

\* The size of a file of several sections.
Size(file) ==
    LET sum[k \in 0..Len(file)] ==
            IF k = 0 THEN 0 ELSE sum[k - 1] + SizeOf[file[k].version]
    IN  sum[Len(file)] + Separator * (Len(file) - 1)

\* cli.py:1133: "a baseline manifest is used to keep only artifacts with new
\* canonical_id values or changed content_hash values", and with --max-bytes
\* "sections are kept intact when possible".  A reader who has the baseline and
\* the files that a bundle command wrote has each artifact that was asked for,
\* as it is in the first directory that lists it, exactly once, and no file of
\* several sections is larger than the limit: if directories and baseline are
\* what finished runs left, and nobody changed them meanwhile.
BundleIsExact ==
    bundle.at = "done" /\ bundle.still =>
        /\ \A i \in Ids : Cardinality(Places(i)) <= 1
        /\ \A i \in bundle.option.wanted, k \in DOMAIN bundle.inputs :
              LET d == bundle.inputs[k]
                  has(j) == folders[bundle.inputs[j]].entries[i].status \in {"current", "stale"}
                  version == folders[d].artifact[i]
              IN
              has(k) /\ (\A j \in 1..(k - 1) : ~has(j)) =>
                 \/ \E p \in Places(i) : bundleFiles[p[1]][p[2]].version = version
                 \/ bundle.option.stale = "exclude" /\ folders[d].entries[i].status = "stale"
                 \/ bundle.option.changed /\ baseline.artifact[i] = version
                 \/ bundle.option.changed /\ ~(Honest(folders[d]) /\ Honest(baseline))
        /\ bundle.option.limit # 0 =>
              \A k \in 1..bundle.written :
                 Len(bundleFiles[k]) > 1 => Size(bundleFiles[k]) <= bundle.option.limit
=============================================================================
