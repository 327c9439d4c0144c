# Knowledge Adapters, in TLA+

Knowledge Adapters copies knowledge from sources (a Confluence space, local
files, Git and GitHub repositories, public web pages and PDF files, YouTube
channels and playlists) into directories of Markdown files, each with a
manifest, or into sealed *source packages*. This directory holds TLA+ models
of the parts of it whose correctness depends on the order of events, the
configurations with which TLC checks them, and proofs that TLAPS checks.

The modules are translated from the Python code under
`src/src/knowledge_adapters/` (paths below are relative to that directory
unless they start with `docs/` or `tests/`, which are those of the repository).

Contents: [the system](#the-system), [inventory](#inventory),
[the modules and the code](#the-modules-and-the-code), [the runs](#the-runs),
[what the runs found](#what-the-runs-found), [proofs](#proofs),
[limits of the models](#limits-of-the-models), [plan](#plan),
[running the checks](#running-the-checks).

## The system

There are two products. *Source acquisition* turns sources into artifacts on
disk; *publication* sends one Markdown file to Google Docs by a separate
command and is never part of an acquisition. Acquisition has two shapes.

- An **adapter command** (`confluence`, `local_files`, `git_repo`,
  `github_metadata`, `public_webpage`, `public_pdf`) fetches, normalizes and
  writes files below an output directory, and then `manifest.json`, which
  lists them. The next run on the directory reads the manifest to decide what
  may be skipped and what is stale. `run` executes several of these, configured
  in `runs.yaml`, by nested calls of the command line's `main`; `bundle`
  collects the artifacts of several output directories into one text.
- A **source package** is a directory that is written elsewhere and renamed
  into place: items with their artifacts, `package.json` with an inventory of
  digests, and `package.sha256`. The YouTube producer writes one per bounded
  collection run, together with a checkpoint from which the next run resumes.
  `source_package verify` re-reads a package and reports the first stage of
  verification that fails.

What can go wrong is spread over *several* runs. A process is a plain
sequential program, almost without threads or locks, but what it leaves on disk
when it dies is what the next one starts from, and nothing stops two processes
from using one destination. The state that matters is therefore the state on
disk:

| shared state | written by | read by |
| --- | --- | --- |
| package directory | `PackageBuilder.seal`, by one rename | `verify_package`, consumers |
| checkpoint and its `<stem>.data` files | `save_checkpoint`, `save_checkpoint_artifacts`, each by replace | `load_checkpoint`, `copy_completed_item` of later runs |
| `manifest.json` | every adapter, in place, at the end of its writes | the next run on the directory, `bundle`, baseline comparison |
| `pages/*.md` and other artifacts | the adapters, in place | the next run (existence only), `bundle` |
| fetch cache, traversal cache | the confluence run | later confluence runs |
| Git checkouts | `git_repo` runs of one repository URL | the same |
| report of `run` | `_write_run_report`, in place | the operator |

## Inventory

For each part: its state, its operations, what is hard about it, and what makes
it correct. The parts that are modelled are marked with their module.

**Package sealing** (`source_package/core.py:621-783`; *PackageSeal*). State: a
builder's items, artifacts and sealed flag, a temporary directory, the
destination. Operations: `add_item`, `add_artifact`, `seal`. Hard: two builders
with one destination, failing writes, death between two writes, entries that
appear between check and rename. Correct: what is at a destination is a whole
package, its builder knows that it published, nothing of anybody is replaced.

**Package verification** (`source_package/core.py:785-1832`;
*PackageVerifier*). No state; reads envelope, sidecar, manifest, items, receipt
and artifacts in stages, and reads the artifacts again at the end. Hard: order
of the stages, files that change between the reads. Correct: a sealed package
verifies; one with any file changed, missing or added does not.

**YouTube producer and checkpoints** (`youtube/producer.py`,
`youtube/checkpoint.py`; *YouTubeProducer*). State: checkpoint files, artifact
files beside them, sealed packages, the memory of a run. Operations: load a
checkpoint, reconcile it with the rediscovered window, acquire a batch with
retries, seal, store artifacts, save the checkpoint. Hard: death between the
package and the checkpoint, several checkpoints that share one artifact
directory (`chain.json` and `chain.bak` both have `chain.data`), other runs that
replace files in between, a window that loses, reorders or repeats videos, counts
accumulated over runs. Correct: a checkpoint never knows more than the
packages, "unchanged" is true, lineage and attempts accumulate, a run never
destroys what it resumed from, a chain of resumed runs makes progress.

**Confluence synchronisation** (`cli.py:2207-3760`, `incremental_sync.py`,
`manifest.py`, `manifest_stale.py`, `confluence/incremental.py`,
`confluence/fetch_cache.py`, `confluence/writer.py`; *ManifestSync*). State: the
wiki, artifacts, manifest, fetch cache. Operations: walk, classify, fetch,
write, write the manifest, prune stale and orphaned files. Hard: the wiki
changes during the run, the run dies anywhere, writes are in place, runs of
different scopes alternate, caches. Correct: a skipped page is current, no file
goes back in time, pruning never removes what a manifest lists, runs converge.

**Confluence client, traversal, pacing, traversal cache**
(`confluence/client.py`, `traversal.py`, `pacing.py`, `tree_cache.py`;
*ConfluenceTraversal*, *SpaceListing*). State: queue and visited set of a walk,
cached listings, position in the list of a space, time of the last request.
Hard: cycles and moves while walking, more children than one answer holds,
listings cached for ever, pages that come and go between two requests for one list. Correct: each page once, in
breadth-first order, depth bounded; a page that stayed is listed; requests
spaced. The walk and its cache are *ConfluenceTraversal*, the list of a space is
*SpaceListing*; in *ManifestSync* either is the set of pages that a run happens
to find.

**Configured runs** (`cli.py:1933-2205`, `run_report.py`, `select_runs` of
`run_config.py`; *ConfigRun*). State: position in the list of runs, records,
report, exit code. Hard: failures, first and second interrupt, errors that are
not exits, files that a failed run leaves to a later one. Correct: order, exit
code, report and records agree; `--continue-on-error` continues.

**Local files** (`local_files/`, `cli.py:4091-4306`), **public web pages and
PDF files** (`public_webpage/`, `public_pdf/`, `public_sources.py`,
`cli.py:4341-4643`), **the output directory of a Git repository**
(`git_repo/writer.py`, `cli.py:5170-5443`; all of these *OutputDirectory*).
State: artifacts and manifest of the directory. Operations: read or fetch, plan
with the previous manifest, write everything, write the manifest, prune stale
and orphaned files. Hard: two sources of one output path, runs that die between
two writes, runs that overlap in one directory, URLs that lead elsewhere.
Correct: after a run that was alone the directory is what that run read; no
local file is written over the artifact of another.

**Git repositories** (`git_repo/`; *GitCheckout*). State: one checkout per
repository URL, shared by all runs without a lock. Hard: a clone or a checkout
that dies, tags that are moved, two runs at once. Correct: the snapshot is of
the commit that the manifest names, and the commit is the one the reference
names now.

**GitHub metadata** (`github_metadata/`; *GitHubMetadata*, *GitHubSelection*).
State: position in a listing of pages, then in the comments of each record;
artifacts and manifest as for Confluence, compared by content hash. Hard:
records that move between pages while they are read, filters and a limit that
apply to what was listed, comments that are deleted between two pages, a run
that dies between an artifact and the manifest. Correct: what stays is listed
once, and is not pruned; what is selected is the first of what matches; no
comment is passed over; a hash is that of its artifact.

**Bundle** (`bundle.py`; *Bundle*). State: inputs, a baseline, one or several
output files. Hard: duplicates, a stale baseline, directories changed between
plan and reading, split files of an earlier, longer bundle. Correct: each
artifact once, in the version of the first directory that lists it, each
changed one included.

**Publication** (`google_docs.py`, `cli.py:1871-1931`; *Publish*). State: token
file, documents. Operations: read the bundle, check, refresh or obtain a token
and keep it, create a document, fill it. Hard: a document that was created and
not filled, an answer that is lost, publications at the same time with one token
file, of a bundle that changes. Correct: one document per successful
publication, with its text and in its folder; no other document but one for each
run that failed late.

**Run configuration, authentication, normalizers, replay quality, failure
classes** (`run_config.py`, `confluence/auth.py`, `*/normalize.py`,
`replay_quality.py`, `public_replay_acceptance.py`, `failures.py`). Pure
functions of their inputs: no order of events to get wrong.

## The modules and the code

| module | what it is |
| --- | --- |
| `WriteOnce` | abstract: a store in which each destination receives a package at most once |
| `PackageSeal`, `PackageSealProofs` | `PackageBuilder`; implements `WriteOnce` |
| `YouTubeProducer`, `MCYouTubeProducer`, `YouTubeProducerProofs` | `produce_package` and its checkpoints; takes sealing to be one step, which `PackageSeal` justifies |
| `ManifestSync`, `MCManifestSync`, `ManifestSyncProofs` | the confluence command on an output directory |
| `ConfigRun`, `MCConfigRun`, `ConfigRunProofs` | the run command, checked under `CommandLine`; takes from `ManifestSync` that a run may leave a truncated manifest and that later runs stop at it |
| `GitCheckout` | `fetch_repo_snapshot` of the git_repo command, on the shared checkout |
| `GitHubMetadata` | the github_metadata command: listing by pages, comparison by hash, pruning |
| `GitHubSelection` | what that command selects of a listing, and the comments it reads |
| `RepositoryProofs` | the theorems about these three |
| `ConfluenceTraversal` | `walk_pages`, the request for the children of a page, and the cache of listings |
| `SpaceListing` | `list_real_space_page_ids` |
| `OutputDirectory` | the directories of local_files, public_webpage, public_pdf and git_repo |
| `Bundle` | the bundle command over directories that adapters fill |
| `Publish` | the publish command, the token file and the documents at Google |
| `PackageVerifier`, `PackageVerifierProofs` | `verify_package`, reading by reading |
| `CommandLine`, `MCCommandLine`, `CommandLineProofs` | these nine and `ConfigRun` as commands that `main` chooses between; the theorems about walks, spaces, output directories, bundles and publications, and about all commands together |
| `Induction` | lemmas for the proofs: induction over numbers, definition by recursion, sets of numbers in order |

Operators whose names begin with `Fault` are plausible bugs, each a variant of
the definition it is named for. Nothing uses them in the specifications; put in
the place of that definition, each makes TLC report one of the properties, which
shows that the property depends on the code and not on the shape of the model.

### PackageSeal

A builder is `open` between calls, `writing` inside `seal`, or `dead`. `Add` is
`add_item` or `add_artifact`; `Begin` the checks of `seal` up to the creation of
the temporary directory; `Write` one `write_bytes`; `Place` the rename with the
flag that follows it; `Fail` an `OSError` anywhere between; `Crash` the death of
the process. `Intrude` is another program. The temporary directory is not on the
file system of the model: a fresh uuid names it, so no one reads what is left of
it. A rename is given the semantics of POSIX for directories: it succeeds on a
free path and on an empty directory. Contents and digests are abstracted to
the set of files that exist.

`SealedIsPublished` and `PublishedIsSealed` relate what builders believe and
what readers find; `PackagesAreWhole` is what digests can not give a reader by
themselves, that a published package never lacks a file; `ImplementsWriteOnce`
is the refinement.

### YouTubeProducer

Each producer goes `idle -> (load -> reuse ->) acquire -> store -> idle`.
Loading is two steps, since `load_checkpoint` reads the checkpoint and then one
artifact after the other: other processes may write between. `Acquire` is the
retry loop of one video; it touches nothing shared. `Seal` publishes the
package; `Store` replaces one artifact file; `Save` replaces the checkpoint.
`Reject`, `Blocked`, `RefuseSeal` and `CopyFails` are the places where the code
raises, and `Crash` is death at any step. `Resumed` is the whole of what
`produce_package` derives from the checkpoint: preserved items, the next batch,
what remains, and the attempts carried over.

### ManifestSync

A run goes `idle -> discover -> work -> prune -> idle`. `Start` reads the
manifest; `Observe` lists a page and fetches its summary (or all of it, when
there is nothing to compare it with); `Plan` classifies and lists what to
prune; `Fetch`, `Write`, `WriteManifest`, `PruneStale`, `PruneOrphan` and
`Finish` follow in the order of the code, which fetches everything before it
writes anything. A page is its version number; an artifact is the version it
was made from, or `Partial` for a truncated one, or `Missing`. `Edit`, `Come`,
`Go` are the wiki; `Delete` and `RemoveManifest` the operator; `Fail`,
`FailWrite`, `FailManifest` are death and failure, apart or within a write.

### ConfigRun

`Invoke` chooses the options of a `run` command; `StartRun` begins the next
selected run; `CompleteRun`, `FailRun`, `Escape` and `Interrupt` are how the nested
`main` ends: by returning, by `SystemExit`, by an exception that nothing
catches, by Ctrl-C. `Reports` writes the report, `FinishRuns` ends the invocation,
`DieRun` is an interrupt outside a run or a killed process. `tornDirs` holds the
output directories whose manifest is truncated, which is all that one run
passes on to another here; invocations follow each other without end. A report
on disk counts only if it is of the invocation in progress, so that one that is
not written anew is noticed.

### GitCheckout

A run goes `idle -> ensure -> (clone ->) resolve -> checkout -> name -> list ->
read -> idle`. `BeginClone`, `EndClone` and `Fetch` are
`_ensure_repo_checkout`; `BeginCheckout` and `EndCheckout` are `_checkout_ref`
with the `git checkout` that ends it; `NameCommit`, `ListFiles` and `ReadFile`
are the `rev-parse`, `ls-files` and reads that make the snapshot. Git is
external: a clone makes the directory first; a fetch merges the branches it
finds, adds tags and refuses moved ones; a checkout replaces file after file
under a lock and leaves the lock when it is killed. `Push` and `TagRef` are the
remote, `RemoveCheckout` the operator who follows the error message. A commit
is a number, a file the commit it was written from.

### GitHubMetadata

A run goes `idle -> list -> load -> write -> prune -> idle`. `ReadPage` is one
request of the loop in `list_repository_issues` and its fellows; the page is
cut from the list as it is then. `PlanListing` reads the manifest, classifies
and decides what to prune; `RefuseManifest` is the exit for a manifest that can
not be loaded; `WriteRecord`, `WriteListing` and `PruneFile` follow.
`OpenRecord`, `CloseRecord`, `ReopenRecord` and `EditRecord` are people at
work, `DropManifest` is the operator. `copies` keeps *every* text that was
listed for a record, since the code does not look for repetitions.

### GitHubSelection

A run goes `idle -> list -> choose -> talk -> idle`: `ReadItems` is one request
of the loop over the pages of a listing, for issues, pull requests or releases;
`ChooseItems` the sorting and the limit after it; `ReadComments` one request for
a page of the comments, or of the review comments, of one record. `InList` is
what the server has in the list (pull requests are issues too; for issues the
server applies `since`), `Keeps` what the client drops of a page. `copies`
counts repetitions, which take a place each in what is chosen. `FailPicking` is
every refusal: a failed request, an answer in bad form, a link that leads
outside the API or was followed before. People open, close and edit records and
write and delete comments between any two requests.

### ConfluenceTraversal

A walk fetches the root, lists the pages of a level, fetches what it found, and
goes on with the next level until `MaxDepth`. Within a level the order is left
open; the code's is one of those. The client sends one request for the children
of a page and follows no link to more of them: `Answers` are the sets of children
that one answer may hold, `AnswerSize` at most, and what it held is what goes into
the cache. `Sure` are the children that every answer holds. `firm` and `loose`
record which children every look at a page during this walk would find and which
some look would: `WalkIsExact` encloses the result between what is reachable by
the one and by the other. So it says nothing of the children of a page that has
more than fit one answer; that these are lost is what `ChildrenAreFound` is
about, and `children_cut` shows.

### SpaceListing

`ReadResults` is one request for the list of a space, by how many results come
before; `EnterSpace` and `LeaveSpace` are pages that are created, restored,
moved and deleted in between; `FailEnumerating` is a refused answer or a link
that was followed before. `stayed`, `seen` and `gone` remember what the property
speaks of: which pages were there all the time, which at some time, and how many
were taken away.

### OutputDirectory

A run goes `idle -> load -> write -> prune -> idle`. `BeginWriting` reads the
sources: what git_repo selects of a commit, the one file or the one page of the
others. `PlanWriting` loads the manifest and lists what is stale and what is an
orphan; `RefuseWriting` is the end of a run that finds the manifest unusable
(cut short, or with one path twice) or, for local_files, its path taken by
another source. `WriteArtifact` writes one file in place, `WriteEntries` the
manifest; `LookAtPrunes` is the check, before the first deletion, that all that
is to be pruned is there, and `UnlinkPath` one deletion; `LosePrune` is the
failure when another run was faster. `FailWriting` is a death or a failing write
at any of these steps, `ChangeSource` and `RemoveEntries` people. `Writers` may
overlap; `alone` says of a run that none did.

### Bundle

`Acquire`, `DieAcquiring`, `TearManifest` and `Prune` are what the adapters
leave behind, `SaveBaseline` the copy an operator makes. `LoadPlan` is
`load_bundle_plan` (first directory wins, changes since the baseline, patterns,
stale policy), `Render` reads the artifacts and splits them, `WriteBundleFile`
writes one file in place. A section has the size of its text; `Split` is the
greedy loop of the code.

### Publish

A run goes `idle -> (check -> load -> consent or refresh -> store ->) create ->
(fill ->) report -> idle`. The token file is read twice, for its scopes and for
its credentials (`CheckToken`, `LoadToken`), and replaced in one step
(`PersistToken`), so that runs which share it may meet each other's tokens.
`CreateDocument` and `FillDocument` are the two requests. `RefusePublish` ends a
run whose request was refused or that died before it made one; `MissPublish` ends
one that died, or did not hear the answer, of which Google may have served the
request. `RewriteBundle`, `AgeToken` and `ReplaceToken` are others.

### PackageVerifier

The control points are the stages of `verify_package`: envelope, sidecar,
manifest, listing, item records one by one, judgement of the items, lineage and
receipt, artifacts one by one. `AlterFile`, `AlterManifest` and `AlterSidecar`
are others who change the package at any time. A digest of a content is the
content; `Sealing` is what `PackageBuilder.seal` writes of some items. Items are a
list, in which a path may come twice, since nothing in the code asks whether one
does (`core.py:1324-1335, 1348-1402`), and whether the manifest names its
package, request and run (`identified`) is asked by nothing either.
`VerdictIsRight` relates the two ends of the contract as far as the code does:
accepted only if the files are those the manifest lists and it agrees with the
outcomes and references of its records and with its receipt, be an item in it twice
or its package without a name; rejected only if not, and so nothing that a
builder sealed. `KeptClaimsAreSealed` is about changes
during the verification: item records are read once to be judged (`core.py:1350`)
and once for their digests (`core.py:1746`); `stirred` has those that were
altered in between.

### CommandLine

`main` chooses one of the commands; each has its own server and directory, so
the composition adds no interleavings, and `CommandsAreSpecs` proves that each
behaves as it does alone. It carries the run that checks the ten of them. An
adapter of which two modules have a part each, what it reads and what becomes of
it, has a name in `CommandNames` for each part.

## The runs

| run | instance | shows |
| --- | --- | --- |
| `seal` | 2 builders, 2 destinations, 2 items | types, wholeness, success of exactly one builder for each package, no replacement, refinement of `WriteOnce` |
| `youtube_resume` | 1 process, 2 videos, 2 contents, 2 checkpoint paths with one artifact directory, 3 run ids; windows in another order and cut short, or with every video gone | chains of up to three runs that die anywhere: lineage and attempts accumulate, progress is honest, inputs survive, saved checkpoints load |
| `youtube_concurrent` | 2 processes, 1 video, 2 contents, 2 paths with a directory each, 3 run ids | checkpoints are published and unchanged is true when two processes use the same checkpoints at once |
| `youtube_attempt_cap`, `youtube_next_batch` | 1 process | violations, see below |
| `sync` | 2 pages, whole space, fetch cache, plain, dry and refreshing runs, 4 disturbances | a skipped page is current, nothing goes back in time, finished runs are fresh, and runs converge |
| `sync_scopes` | 2 pages, runs of the space or of one page, all combinations of the clean-up options, deletable files, 4 disturbances | pruning never removes what the manifest lists, finished runs are complete |
| `sync_delete` | as above, files deletable | a violation, see below |
| `config_escape` | 3 runs, two on one directory | a violation, see below |
| `command_line` | the instances of the ten commands, see the bounds | git: one commit, the one named now; GitHub: exact listings and selections, comments heard, nothing pruned that stayed, true hashes; confluence: exact walks, each page once, whole spaces; output directories: a lone run restores, nothing is taken over; bundle: exact texts; publication: exact documents; verification: right verdicts, true claims; configured runs: order, records, report and exit code agree |
| `github_duplicates` | the same | a violation, see below |
| `children_cut` | trees of four pages that nobody changes, no cache, two children in an answer | a violation, see below |

**Bounds.** `seal`: a race needs two builders and one path; the second path and
the second item let a failed seal be repeated elsewhere with more in it. Only
the package set and the entries grow, so the instance is finite as it is.
`youtube_*`: a third run is the first that can see the effect of a resumed run
on the chain; a lineage of three is reached. `RunIds` and `Dests` bound the
number of packages; they, the contents and the producers are symmetric sets,
and the invariants and step properties of these runs do not tell their members
apart. `BatchSize = 1` of two videos gives a full, a last and an empty batch;
`MaxTries` is 1 where attempts only have to grow, and 10, as in the code, where
the limit is the question; `AttemptCap = 10` is the limit of the code. `sync`:
`Budget` bounds edits, comings and goings, deletions and failures together;
four are enough for two failed runs with an edit before and after each, and
twice as many as `sync_delete` needs for its violation. Two pages let one be
stale while the other is being written. `command_line`: three configured runs, two
of them on one directory and the third for "later runs", in any number of
invocations, since a second is needed for a manifest torn by the first. Git has one client
(`SnapshotIsOneCommit` is about runs that do not overlap), two names that may
be branch and tag at once, two commits of which one drops a file, and tags that
move; runs go on for ever, so a dead clone or checkout is met by every kind of
later run. GitHub has four records on pages of two, one of which is opened
during a listing, and `Quota = 3` changes and failures: an edit, a death, and
one more. The wiki has every tree of four pages, `MaxDepth = 2` leaves a chain
of four cut off, an answer holds two children, so that one of three is cut, and two moves let a page be found twice or never. A selection
has four records, of which one is opened during the run, on pages of two, pull
requests among the issues, a limit of one or none, four comments on pages of two
(so that a thread ends at the end of a page and after it), and two changes or
failures, so that one may shift a list and another shift it back. A space has
five pages in lists of two, three requests, and three changes. An output
directory has two runs, three sources of which two have one path, two contents,
and one change or failure besides what the runs do to each other: a lone run
follows a dead one, or two that overlapped. A publication has two runs, an empty
text and another, one late failure, two documents and one change of the bundle or
the token; a third run could only repeat what the second does. Bundle has
two ids, two versions, two directories of which one hashes and reports stale
artifacts in full, two changes, three combinations of options, sections of one
and two bytes and a limit of three, so that files of one and of two sections
occur. The verifier has three paths, four contents, six manifests (a sound
one; one whose items share an artifact; one that has an item twice; one with a
wrong count; one of a later contract; one that names no package) and two
alterations, so that one may hide another.

**Deadlock** checking is on in `command_line`, `github_duplicates` and
`children_cut`, whose commands can always be given again. It is off in the others: builders and
producers finish, and invocations and disturbances are bounded, so that these
systems may really stop.

**Fairness.** Only `Converges` needs any, by `FairSpec` of `ManifestSync`. Weak
fairness of `Advance` says that a process that runs is scheduled and that its
requests are answered. Weak fairness of `RemoveManifest` says that an operator
who is told "Fix or remove the manifest and try again" does so. Strong fairness
of `Start`, for each scope and combination of options that is not a dry run,
says that the operator repeats the command; it is strong because a truncated
manifest or a run in progress disables it again and again. Disturbances are
bounded by `Budget`: the property is about what happens once they stop.

## What the runs found

Each of these is a sentence of the repository that the code does not keep. TLC
gives a shortest sequence of events for each.

1. `youtube_attempt_cap`. Attempts accumulate over runs without a limit
   (`youtube/producer.py:611`), and the loader refuses more than 10
   (`youtube/checkpoint.py:325`): a run may end normally with a checkpoint
   that can not be resumed from.
2. `youtube_next_batch`. A resumed run is documented to acquire the next batch
   (`docs/youtube-source-package-adapter.md:125`). Videos that failed keep their place at
   the head of the window: with at least a batch of them, nothing behind is ever
   attempted.
3. `sync_delete`. "File existence prevents a stale manifest from suppressing a
   needed write" (`docs/confluence-incremental-sync.md:105`): a *truncated* file
   exists. If an artifact is deleted and its rewriting cut short, it is
   skipped for ever. Without deletions this can not happen (`SkippingIsSafe`).
4. `config_escape`. `--continue-on-error` keeps executing later runs
   (`cli.py:1286`), but the confluence command does not catch the error of an
   unreadable manifest (`cli.py:3072, 3341, 3594`), and the loop catches exits
   and interrupts only: the invocation ends with a traceback and no
   report. If every adapter guarded the call, as all others do, it would hold
   (`GuardedRunsKeepGoing`).
5. `github_duplicates`. "The manifest records one entry per acquired resource"
   (`docs/github-metadata-v1.md:242`). An issue opened between two pages shifts
   the list, the last issue of one page comes first on the next, and the client
   appends both (`github_metadata/client.py:340`): the run ends normally with two
   entries of one canonical id, and the next run refuses that manifest
   (`manifest_stale.py:111-115`).
6. `children_cut`. "`--tree --max-depth 1`: fetch the root page and its direct
   children" (`docs/confluence-recursive-fetch.md:48`). The client asks once for the
   children of a page and takes what that answer holds for all of them
   (`confluence/client.py:602-618`); it follows no `_links.next`, as it does for the
   list of a space. The rest of the children, and all below them, are missing
   from the walk, the cache and the manifest of a run that ends normally.

Three more came up while the models were written, and have no run of their own.
`docs/source-package-contract.md:308` has a consumer verify the identities of a package:
`verify_package` does not look at `package_id`, `request_id` and `run_id`. It
accepts a manifest whose list of items has a record twice, with counts to match,
which no builder writes. And `docs/source-package-contract.md:323` has a result speak of
items after complete verification: a record that is altered between its two
readings, so that the second is what the manifest says, is spoken of as it was
at the first. The first two are in `VerdictIsRight` as what the verifier does, the
third is the exception of `KeptClaimsAreSealed`.

## Proofs

Theorems hold for all values of the constants that satisfy the `ASSUME`s of the
module: any number of builders, producers, pages, runs, any window, batch
size, limit and budget. Each proof module extends the component's module.

**PackageSealProofs.** `SealInv` is inductive relative to `TypeOK`: the three
properties and `WritingIsOrdered`, which says that a seal under way belongs to
an unsealed builder and that its temporary directory fills in the order
inventory, manifest, sidecar. The order is what makes a package whole when the
sidecar is there; without it the rename could publish anything. From it follow
`AlwaysWhole`, `SuccessIsExclusive`, `NothingIsReplaced`, and
`RefinesWriteOnce`: a `Place` is a step of `WriteOnce`, every other step a
stutter.

**YouTubeProducerProofs.** The safety properties talk about files, and files
may be replaced by any process at any time, so none is inductive. What is
inductive (`LineageInv`) adds `Traceable` for each run: the checkpoint that it
holds in memory was published, even if its file is gone since; its unchanged
items repeat that checkpoint; its counts go on from it; and when it is about to
store its own checkpoint, its package is sealed. `PackagesKept` (sealed
packages stay) carries all of them over the steps of other processes.
`TypedControl` is `TypeOK` with what is known at each control point. Results:
`CompletedIsPublished`, `UnchangedIsTraceable`, `AttemptsAccumulate`.
`ProgressAccounts` needs a second, small invariant, `AccountsInv`: from the time
a run has its window, the entries queued and left are those whose video has no
item yet, and items are of videos of the window. It assumes `NoRepeats`: no
window lists a video twice.

Two more properties are about processes that do not overlap (`Alone`: there is
at most one). `InputInv` says that the checkpoint in memory is then the one that
is still on disk, and that what it completed is neither queued nor acquired anew
(`KeepsInput`): what a run stores for such a video, into whichever directory, is
what is there already. Hence `InputsSurvive`. `StoredInv` says that what a run
has stored so far is there, and `AttemptsInv` that a video has been tried
`MaxTries` times at most for each run of the lineage; the runs of a lineage are
distinct, since a run id that is in it is refused. `SavedCheckpointsLoad` puts
them together: under `Alone`, `NoRepeats` and `MaxTries * Cardinality(RunIds) <=
AttemptCap` the checkpoint of a run that returns normally has the form that
`load_checkpoint` asks for, and its artifacts. The last hypothesis bounds the length of a chain;
`youtube_attempt_cap` is what happens beyond it. `AttemptsBounded` holds for
processes that overlap, too.

**ManifestSyncProofs.** `SyncInv`: versions read are behind the wiki
(`Behind`), what was fetched is not older than what was seen (`Fetched`), what
was seen is not older than what will be replaced (`Ahead`), the manifest
compared with is the one on disk (`OwnManifest`), and the lists of the plan
stay true until they are carried out (`PruneList`, `WriteList`). From it:
`ArtifactsAge`, `PruningIsSafe`, `UnreadableIsRespected`,
`FinishingIsComplete`, with whatever the operator deletes. If he deletes
nothing (`Deletable = {}`), `FreshInv` is inductive too: listed files are
present, and what a run will not write or has written is at least as new as
what it saw (`Settled`). It gives `SkippingIsSafe` and `FinishingIsFresh`;
`sync_delete` shows that the hypothesis is needed.

**ConfigRunProofs.** `LoopInv`: the position of the loop and the records agree
(`Positions`), the exit code and the records agree (`Outcome`), there is at
most one recorded interrupt. It gives `ExitZeroIsEarned`, `ReportsAreCurrent`,
`RunsStartInTurn`, and, if no adapter lets an error escape,
`GuardedRunsKeepGoing`.

**RepositoryProofs.** *Checkouts.* For runs that do not overlap (`OneAtATime`: at most one
client) `CheckoutInv` says what the checkout is at each stage: which commit was
resolved and from which state of the remote, that the index lists `head`, and
that after a checkout every file is of that commit, whatever a dead one left.
It gives `SnapshotsAreCommits` and `RefsAreFresh`; `GitTypeCorrect` needs no
hypothesis.

*Listings and hashes.* `PagingInv` is about the *rank* of a record, the
number of open records before it: opening moves ranks up only, closing down
only. So a record that was read has a rank below `from` until one is opened,
and one that stayed and was not read has a rank of at least `from` until one is
closed. It gives `PagingIsExact` and, since only what was not listed is pruned,
`OpenIsKept`. `HashInv` has for each record what its manifest entry promises
about its file (`Promised`): the file has the text of the entry, or the record
has a later one by now, so that no run to come will find the entry to agree
with what it lists. It holds if no text comes back (`TextsReturn = FALSE`,
which is so for issues and pull requests, whose text contains a time of update)
and gives `HashesAreOfArtifacts`.

*Selections.* `SelectionInv`: while no record
comes or goes, what has been listed, once, is what matches and is before the
place where the next page begins (`ListedOnce`, `Gathered`); so what is sorted is
a sequence without repetitions, of which the limit takes the first
(`SelectionsAreExact`). Of the thread that is being read, the comments that are
there and have fewer than `from` before them have been heard, those of all
earlier threads altogether (`HeardInTurn`): a comment that is written comes
last, and one that is deleted is excepted with its thread (`CommentsHeard`).

**PackageVerifierProofs.** `VerdictInv` states what each stage has established
if nothing has changed since the start: `Scanned` after the listing, `Consumed` of
each record read, `Judged` after the items, `Compared` of each artifact read.
With it, `VerdictsAreRight` goes both ways: what passed every stage agrees, file by
file, with a manifest that is `Consistent`, and a manifest that is so passes every
stage (`ConsistentIsChecked`, `AgreeingIsConsistent`). `ClaimInv` is about changes
during verification: a record that nobody alters after its first reading is the
same at its second (`AsRead`), which notices if it is not that of the manifest
(`Noticed`). `KeptClaimsSealed` follows, with no assumption on what others do.

**CommandLineProofs.** `WalkInv`: what a walk still has to fetch has not been
fetched, and it goes on above `MaxDepth` only. It gives `PagesAreFetchedOnce`,
under any changes of the tree. `WalkFinds` goes on from there: the pages that
have been reached at a depth are at least those within that depth by links that were
there during the whole walk and fit one answer (`firm`), and at most those by links
that were there at some time (`loose`); of a page that has been listed, each lasting child has been fetched or
is about to be (`LevelsHold`). It gives `WalksAreExact`.

`SpaceInv` counts: the pages that stayed, were not listed and come before the
place where the next results start are no more than were taken away. A page that
leaves moves those behind it one place forward, a page that comes moves them
back, and a request lists all that stand between its start and the next one
(`SpacesAreListed`).

`DirInv` is about runs that have been alone since they began, of which there is
at most one. While such a run writes, the sources it has written are those it
read that are not due, and the file at each path is that of the *last* of them
that was written there (`WritesInOrder`, `ArtifactsAreRight`); it prunes nothing
that it writes, and if it prunes both kinds then all that is present is one or
the other (`PrunesOthers`, `PrunesAll`); no path that it writes belongs to another
local file (`Untaken`); and when it prunes, the manifest is its own
(`HasListed`). `LoneRunsRestore` and
`NothingIsTakenOver` follow, with any number of other runs before, whatever these
left. That there is a source that is written next, and one that is written last to
a path, follows from the order of the naturals being well-founded.

`BundleInv`: the plan has each artifact that is selected once, with the first
directory that lists it (`OrderHolds`); the chunks have what is planned, once,
and none with more than one section is over the limit (`ChunksHold`); and what
has been written of the chunks is in the files (`FilesHold`). It gives
`BundlesAreExact`. The work is in what the two pure steps compute: `Split`, a
greedy loop, keeps every section and their order, and the order in which the
artifacts are rendered lists each of them.

`PublishInv` says which run or receipt a document belongs to (to one at most),
what is in it at each stage, and that documents are no more than receipts,
runs that created one and have not reported, and late failures
(`PublicationsAreExact`).

`CommandsAreSpecs`: a behaviour of `CommandLine` is, for each command, a
behaviour of the specification of that command, so that the theorems above hold
of the program. `CommandsTypeCorrect` and `CommandsAreRight` say so of the run
`command_line`: its type invariant, and all its other properties together, under
the two hypotheses that some of them need (`OneAtATime` and `TextsReturn = FALSE`,
which are the values of the run).

**Induction.** What a definition by recursion computes is proved in terms of sets
and functions, since the provers know no induction: a set of numbers that has 0
and, with each number below a bound, the next, has all up to the bound
(`UpTo`, from the order of the naturals being well-founded); a step defines one function
(`Recursion`, `RecursAlike`, `RecursionOnNat`); a finite set of numbers can be
listed in order, each once (`Ascending`, `AscendingIsOnto`). `WithinRecurs` for
the reach of a walk, and the lemmas on sorting and splitting, cite these.

**Only model-checked.** `Converges`, the one liveness property: it rests on
fairness, of which the provers know nothing. All other properties of the passing runs are
also theorems. `UnreadableIsRespected`, `GuardedRunsKeepGoing` and
`AttemptsBounded` are proved only.

## Limits of the models

- `PackageSeal`: nobody but the code deletes or edits a published package. An
  *empty directory* that appears at the destination between check and rename is
  replaced (`source_package/core.py:720, 777`); files, links and non-empty
  directories are safe (`OccupiedIsKept`).
- `YouTubeProducer`: every run makes the same request; the loader's limit on the
  size of a checkpoint (1 MiB) is not reached; a run id stands for run and package id;
  `failed` stands for failed, skipped and cancelled, which a resumed run treats alike; a digest
  comparison is equality of contents. A window never lists a video twice (`NoRepeats`),
  where `docs/source-package-contract.md:402` has duplicates reconciled: `add_item` refuses the
  second entry after everything was acquired; if that entry is left to a later batch, the run
  ends normally with a checkpoint that lists the video twice and has it as completed and as
  pending, which the loader refuses (`youtube/checkpoint.py:317, 321`).
- `ManifestSync`: one run at a time per directory (nothing locks it, and
  nothing in the code or the docs promises anything about two); artifacts are
  regular files, and the checks of a prune plan against links and foreign
  paths are left out; a truncating write ends the run; a page that
  vanishes between its listing and its fetch ends the run as `Fail` does; what the
  normalizer makes of a page is a function of its version.
- `ConfigRun`: what a nested run does is how it ends and which manifest it
  tears; its printed summary, always there when it succeeds, and the totals
  over runs are left out. An exception other than that of an unreadable manifest
  does not occur.
- `GitCheckout`: filters, links and undecodable files are left out; what the command
  writes is `OutputDirectory`'s. A branch asked for as `refs/heads/<name>`
  is taken from the branch that the clone made, which no fetch moves, where
  `README.md:255` and `git_repo/client.py:250-251` speak of fresh tips:
  `RefIsFresh` excepts it. Of two runs that overlap in one checkout, one may deliver
  files of the other's commit: nothing locks it.
- `GitHubMetadata`: one kind of record at a time; what is selected of a listing is
  `GitHubSelection`'s. A release carries no time of update: if
  its text returns to what it was while a run dies between artifact and manifest,
  the hash is not that of the artifact (`docs/github-metadata-v1.md:287`); hence `TextsReturn = FALSE`.
- `GitHubSelection`: records are listed with `state=open`; drafts of releases, which have
  no time of publication, are left out, and so are releases of one time. A deleted comment
  shifts those behind it, and one of them may be passed over: `CommentsAreHeard` excepts the
  thread, as `SelectionIsExact` excepts runs during which records came or went.
- `SpaceListing`: pages are listed in the order of their creation, so that a new one is not before
  others; a restored page may be. Pages that are taken away may hide as many others for one run.
- `OutputDirectory`: artifacts are regular files, and the checks of a prune plan against links and
  foreign paths are left out. Of tracked files `x` and `x.md`, which have one path
  (`git_repo/writer.py:9-15`), the second is written over the first and the manifest lists both,
  so that the next run stops at it (`manifest_stale.py:116-120`): the model has this, and
  `LoneRunRestores` says which text wins. Of runs that overlap nothing is promised but that a
  later one repairs what they left. The normalization of web pages and PDF files is a function
  of their content.
- `ConfluenceTraversal`: which of too many children an answer holds is left open; the wiki answers
  with as many as it can. What is in the cache stays until the operator refreshes or clears it.
- `Bundle`: orders other than by canonical id, the mode without files, and headers are abstracted.
  A stale entry without its source is never bundled (`cli.py:5001`,
  `bundle.py:469`), which is what manifests of github_metadata report; `Marking` has
  the directories that report them in full. Numbered files of an earlier, longer bundle stay (`bundle.py:353`);
  `BundleIsExact` is about those the command wrote. Between an artifact and its
  manifest, `--changed-only` may miss a change; `Honest` excludes it.
- `PackageVerifier`: the consumer's numeric limits are met, and a rejection is one verdict,
  whichever findings it lists.
- `Publish`: the run reads the output path of a bundle (`cli.py:1879`), also of one that is being
  written or was cut short: `PublicationIsExact` is about the text that it read. A document that
  was created and not filled stays, and no run names or removes it. What Google does is
  taken from how it is called; a document is changed by nobody else.
- Authentication, argument and configuration parsing, normalizers, and the
  wording of messages are not modelled: they keep no state.

## Plan

Done: `WriteOnce`, `PackageSeal`, `YouTubeProducer`, `ManifestSync`,
`ConfigRun`, `GitCheckout`, `GitHubMetadata`, `GitHubSelection`,
`ConfluenceTraversal`, `SpaceListing`, `OutputDirectory`, `Bundle`, `Publish`,
`PackageVerifier`, `CommandLine`.

Next, in this order:

1. An abstract mirror, a directory whose manifest lists only what it has, implemented
   by `ManifestSync`, `GitHubMetadata` and `OutputDirectory`.
2. Totals of written and skipped files in `ConfigRun` (`cli.py:1713`, where the summary of a dry
   run is searched for in all that it printed, the text of the page included), and the
   release of one configured run's directory to a bundle and a publication.
3. Two runs in one directory for `ManifestSync`.

Theorems to come: the refinements of the mirror, and the exactness of totals in
`ConfigRun`.

## Running the checks

In this directory: `tlc -workers 2 -config X.cfg M` with the module and
configuration of a run as `PROJECT.json` lists them (the largest,
`command_line`, has 2.6 million states and takes about three minutes), and `tlapm
M.tla` for `Induction` and each module whose name ends in `Proofs`. `PROJECT.json` also maps
each definition to the lines it models, lists the hazards of the code at their
lines, and names the `Fault` definition that each property was tried against.
