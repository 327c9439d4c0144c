--------------------------- MODULE OutputDirectory ---------------------------
(***************************************************************************)
(* The output directory of an adapter that writes all that it read:        *)
(* local_files, which reads one file, git_repo, which reads a snapshot,    *)
(* public_webpage and public_pdf, which fetch one page or file.  Their     *)
(* parts of cli.py, with their writers, and manifest_stale.py.             *)
(*                                                                         *)
(* A source is a number, its place in the order in which sources are       *)
(* written; its content is a number, 0 while it does not exist.  Two       *)
(* sources may have one output path: local files with one stem, tracked    *)
(* files x and x.md (the path of a page ends with a digest of its URL).    *)
(* Runs of one adapter share the directory, one after the other or at the  *)
(* same time, for nothing locks it.                                        *)
(***************************************************************************)
EXTENDS Naturals, FiniteSets

CONSTANTS Writers,         \* runs
          LastSource, LastContent,
          PathOf,          \* of an adapter: the output path of each source
          Selections,      \* what runs of git_repo select
          PruneChoices,    \* the options of a run
          Upsets           \* bound on changes of sources and on failures

Sources == 1..LastSource
SourceContents == 0..LastContent
Adapters == {"local_files", "git_repo", "public"}
OutputPaths == {PathOf[a][s] : a \in Adapters, s \in Sources}

ASSUME DirectoryAssumption ==
    /\ LastSource \in Nat /\ LastContent \in Nat \ {0}
    /\ DOMAIN PathOf = Adapters /\ \A a \in Adapters : DOMAIN PathOf[a] = Sources
    /\ Selections \subseteq SUBSET Sources
    /\ PruneChoices \subseteq SUBSET {"dry", "stale", "orphans"}
    /\ Upsets \in Nat

VARIABLES adapter,         \* whose directory it is
          sources,         \* the content of each source
          directory,       \* what is in it
          writing,         \* the runs
          upsets

directoryVars == <<adapter, sources, directory, writing, upsets>>

Holdings == [Sources -> SourceContents]
NothingHeld == [s \in Sources |-> 0]
Holding(held) == {s \in Sources : held[s] # 0}
PathTo(s) == PathOf[adapter][s]

\* An artifact is the content of a source, unless its write was cut short.
Artifact == [kind : {"none", "cut", "whole"}, source : 0..LastSource, content : SourceContents]
NoFile == [kind |-> "none", source |-> 0, content |-> 0]
CutFile == [NoFile EXCEPT !.kind = "cut"]
ArtifactOf(s, held) == [kind |-> "whole", source |-> s, content |-> held[s]]

Directory == [file : [OutputPaths -> Artifact],
              manifest : {"none", "torn", "whole"}, entries : Holdings]

\* read is what the run read; due are the sources it still has to write;
\* plans are the files to prune, stale ones and then orphans; pruning are
\* those that it has looked at and will delete; alone, that no other run was
\* under way at any time of this one.
Writing == [at : {"idle", "load", "write", "prune"},
            options : SUBSET {"dry", "stale", "orphans"},
            read : Holdings, due : SUBSET Sources, stale : SUBSET OutputPaths,
            orphans : SUBSET OutputPaths, pruning : SUBSET OutputPaths, alone : BOOLEAN]

NotWriting == [at |-> "idle", options |-> {}, read |-> NothingHeld, due |-> {}, stale |-> {},
               orphans |-> {}, pruning |-> {}, alone |-> FALSE]

DirectoryInit ==
    /\ adapter \in Adapters
    /\ sources = [s \in Sources |-> 1]
    /\ directory = [file |-> [p \in OutputPaths |-> NoFile], manifest |-> "none",
                    entries |-> NothingHeld]
    /\ writing = [w \in Writers |-> NotWriting]
    /\ upsets = 0

Upset == upsets < Upsets /\ upsets' = upsets + 1

\* A file is edited, moved away or put back; a page, or a commit, is another.
ChangeSource(s, c) ==
    /\ Upset
    /\ c # sources[s]
    /\ sources' = [sources EXCEPT ![s] = c]
    /\ UNCHANGED <<adapter, directory, writing>>

-----------------------------------------------------------------------------
(* A run.                                                                  *)

\* git_repo reads what it selects of one commit.  local_files reads a file,
\* and public_webpage and public_pdf fetch the page or file to which a URL
\* leads them, a redirection or a selected target later.
Readable == IF adapter = "git_repo" THEN Selections ELSE {{s} : s \in Holding(sources)}

BeginWriting(w, wanted, options) ==
    /\ writing[w].at = "idle"
    /\ writing' = [v \in Writers |->
           IF v = w
           THEN [NotWriting EXCEPT
                    !.at = "load", !.options = options,
                    !.read = [s \in Sources |-> IF s \in wanted THEN sources[s] ELSE 0],
                    !.alone = \A u \in Writers \ {w} : writing[u].at = "idle"]
           ELSE [writing[v] EXCEPT !.alone = FALSE]]
    /\ UNCHANGED <<adapter, sources, directory, upsets>>

Goes(w, run) ==
    /\ writing' = [writing EXCEPT ![w] = run]
    /\ UNCHANGED <<adapter, sources>>

\* _load_previous_manifest_indexes, which refuses two entries of one path.
Usable == /\ directory.manifest # "torn"
          /\ \A s, t \in Holding(directory.entries) : PathTo(s) = PathTo(t) => s = t

FaultTaken(read) == FALSE

\* Only local_files asks whether the manifest has another source at its path.
Taken(read) ==
    /\ adapter = "local_files"
    /\ \E s \in Holding(read), t \in Holding(directory.entries) : PathTo(s) = PathTo(t) /\ s # t

Present == {p \in OutputPaths : directory.file[p] # NoFile}
PathsOf(held) == {PathTo(s) : s \in Holding(held)}

\* find_stale_artifacts and find_orphaned_artifacts: by path, not by source.
StalePaths(read) == (PathsOf(directory.entries) \ PathsOf(read)) \cap Present

FaultOrphanPaths(read) == Present \ PathsOf(directory.entries)

OrphanPaths(read) == Present \ (PathsOf(read) \cup StalePaths(read))

\* The previous manifest is read and everything is decided.
PlanWriting(w) ==
    LET run == writing[w] IN
    /\ run.at = "load" /\ Usable /\ ~Taken(run.read)
    /\ Goes(w, IF "dry" \in run.options THEN NotWriting ELSE
         [run EXCEPT
            !.at = "write", !.due = Holding(run.read),
            !.stale = IF "stale" \in run.options THEN StalePaths(run.read) ELSE {},
            !.orphans = IF "orphans" \in run.options THEN OrphanPaths(run.read) ELSE {}])
    /\ UNCHANGED <<directory, upsets>>

RefuseWriting(w) ==
    /\ writing[w].at = "load" /\ (~Usable \/ Taken(writing[w].read))
    /\ Goes(w, NotWriting)
    /\ UNCHANGED <<directory, upsets>>

NextDue(w) == CHOOSE s \in writing[w].due : \A t \in writing[w].due : s <= t

\* Of two sources with one path the second is written over the first.
WriteArtifact(w) ==
    LET s == NextDue(w) IN
    /\ writing[w].at = "write" /\ writing[w].due # {}
    /\ directory' = [directory EXCEPT
                        !.file[PathTo(s)] = ArtifactOf(s, writing[w].read)]
    /\ Goes(w, [writing[w] EXCEPT !.due = @ \ {s}])
    /\ UNCHANGED upsets

\* The manifest lists what this run read, and nothing of before.
WriteEntries(w) ==
    /\ writing[w].at = "write" /\ writing[w].due = {}
    /\ directory' = [directory EXCEPT !.manifest = "whole", !.entries = writing[w].read]
    /\ Goes(w, [writing[w] EXCEPT !.at = "prune"])
    /\ UNCHANGED upsets

\* All that is to be pruned is looked at before the first of it is deleted.
LookAtPrunes(w) ==
    LET run == writing[w] IN
    /\ run.at = "prune" /\ run.pruning = {}
    /\ \/ /\ run.stale # {} /\ run.stale \subseteq Present
          /\ Goes(w, [run EXCEPT !.pruning = run.stale, !.stale = {}])
       \/ /\ run.stale = {} /\ run.orphans # {} /\ run.orphans \subseteq Present
          /\ Goes(w, [run EXCEPT !.pruning = run.orphans, !.orphans = {}])
    /\ UNCHANGED <<directory, upsets>>

UnlinkPath(w, p) ==
    /\ writing[w].at = "prune" /\ p \in writing[w].pruning \cap Present
    /\ directory' = [directory EXCEPT !.file[p] = NoFile]
    /\ Goes(w, [writing[w] EXCEPT !.pruning = @ \ {p}])
    /\ UNCHANGED upsets

\* What has gone since, another run's prune, fails the run.
LosePrune(w) ==
    LET run == writing[w] IN
    /\ run.at = "prune"
    /\ LET due == IF run.pruning # {} THEN run.pruning
                  ELSE IF run.stale # {} THEN run.stale ELSE run.orphans
       IN ~(due \subseteq Present)
    /\ Goes(w, NotWriting)
    /\ UNCHANGED <<directory, upsets>>

Finished(w) == /\ writing[w].at = "prune"
               /\ writing[w].pruning \cup writing[w].stale \cup writing[w].orphans = {}

FinishWriting(w) ==
    /\ Finished(w)
    /\ Goes(w, NotWriting)
    /\ UNCHANGED <<directory, upsets>>

\* The run dies, or a write, a look at what to prune or an unlink fails, perhaps in
\* the middle of writing a file.
FailWriting(w) ==
    /\ writing[w].at # "idle" /\ Upset
    /\ Goes(w, NotWriting)
    /\ \/ UNCHANGED directory
       \/ /\ writing[w].at = "write" /\ writing[w].due # {}
          /\ directory' = [directory EXCEPT !.file[PathTo(NextDue(w))] = CutFile]
       \/ /\ writing[w].at = "write" /\ writing[w].due = {}
          /\ directory' = [directory EXCEPT !.manifest = "torn", !.entries = NothingHeld]

\* "Fix or remove the manifest and try again.": whom a run told so does.
RemoveEntries ==
    /\ ~Usable /\ \A w \in Writers : writing[w].at = "idle"
    /\ directory' = [directory EXCEPT !.manifest = "none", !.entries = NothingHeld]
    /\ UNCHANGED <<adapter, sources, writing, upsets>>

DirectoryNext ==
    \/ \E s \in Sources, c \in SourceContents : ChangeSource(s, c)
    \/ RemoveEntries
    \/ \E w \in Writers :
          \/ \E wanted \in Readable, options \in PruneChoices : BeginWriting(w, wanted, options)
          \/ PlanWriting(w) \/ RefuseWriting(w) \/ WriteArtifact(w) \/ WriteEntries(w)
          \/ LookAtPrunes(w) \/ LosePrune(w) \/ FinishWriting(w) \/ FailWriting(w)
          \/ \E p \in OutputPaths : UnlinkPath(w, p)

DirectorySpec == DirectoryInit /\ [][DirectoryNext]_directoryVars

-----------------------------------------------------------------------------
DirectoryTypeOK == /\ adapter \in Adapters
                   /\ sources \in Holdings
                   /\ directory \in Directory
                   /\ writing \in [Writers -> Writing]
                   /\ upsets \in 0..Upsets

\* The source whose content ends up at a path.
Winning(held, p) ==
    CHOOSE s \in Holding(held) : /\ PathTo(s) = p
                                 /\ \A t \in Holding(held) : PathTo(t) = p => t <= s

\* Whatever runs that died, or that worked at the same time, left in a
\* directory, a run that was alone with it puts it right: when it finishes, the
\* manifest lists what it read, each artifact that the manifest lists holds
\* what it read, and if it prunes stale and orphaned artifacts there is nothing
\* else.
LoneRunRestores ==
    [][\A w \in Writers :
          FinishWriting(w) /\ writing[w].alone =>
              LET read == writing[w].read IN
              /\ directory.manifest = "whole" /\ directory.entries = read
              /\ \A p \in PathsOf(read) :
                    directory.file[p] = ArtifactOf(Winning(read, p), read)
              /\ {"stale", "orphans"} \subseteq writing[w].options =>
                    Present = PathsOf(read)]_directoryVars

\* cli.py:513: "Artifact path collision: {output_path} is already mapped to
\* source file {prior_source_path}".  A run of local_files that is alone does not
\* write over an artifact that the manifest gives to another source.
TakesNothingOver ==
    [][\A w \in Writers, p \in OutputPaths, t \in Holding(directory.entries) :
          /\ adapter = "local_files" /\ writing[w].at = "write" /\ writing[w].alone
          /\ PathTo(t) = p /\ directory'.file[p] # directory.file[p]
          => t \in Holding(writing[w].read)]_directoryVars
=============================================================================
