------------------------------ MODULE ConfigRun ------------------------------
(***************************************************************************)
(* The run command of cli.py: the configured runs of a runs.yaml, one      *)
(* after the other in file order, each by a nested call of main, with the  *)
(* records, the report and the exit code of the whole.                     *)
(*                                                                         *)
(* Of a nested run only what the others notice is kept: how it ends, and   *)
(* whether it left the manifest of its output directory truncated, which   *)
(* ends later runs on the directory (see ManifestSync).  Summaries, always *)
(* printed by a nested run that succeeds, and their totals are left out.   *)
(***************************************************************************)
EXTENDS Naturals

CONSTANTS LastRun,         \* the number of configured runs
          RunDirs, DirOf,  \* output directories, and that of each run
          EnabledRuns,     \* runs without enabled: false
          Unguarded        \* runs whose adapter does not catch the error of a
                           \* manifest that can not be read: confluence

Runs == 1..LastRun

ASSUME ConfigAssumption ==
    /\ LastRun \in Nat
    /\ DirOf \in [Runs -> RunDirs]
    /\ EnabledRuns \subseteq Runs /\ Unguarded \subseteq Runs

Statuses == {"none", "completed", "failed", "interrupted"}
RunRecords == [Runs -> Statuses]
NoRunRecords == [i \in Runs |-> "none"]

\* Arguments of an invocation: the runs that --only and enabled: select,
\* --continue-on-error, --dry-run and --report-output.
RunOptions == [selected : SUBSET Runs, keepGoing : BOOLEAN, dry : BOOLEAN, report : BOOLEAN]

VARIABLES tornDirs,      \* directories whose manifest is truncated
          runOptions, runAt,
          currentRun,    \* the run being executed, or the last one
          runRecord,     \* what the invocation recorded of each run
          exitCode,      \* how the invocation ended
          runReport      \* the report on disk; one of an earlier invocation
                         \* counts as none

configVars == <<tornDirs, runOptions, runAt, currentRun, runRecord, exitCode, runReport>>

NoRunReport == [ours |-> FALSE, record |-> NoRunRecords]

ConfigInit ==
    /\ tornDirs = {}
    /\ runOptions = [selected |-> {}, keepGoing |-> FALSE, dry |-> FALSE, report |-> FALSE]
    /\ runAt = "exited"
    /\ currentRun = 0
    /\ runRecord = NoRunRecords
    /\ exitCode = "none"
    /\ runReport = NoRunReport

-----------------------------------------------------------------------------
(* Fault operators are plausible bugs, seeded in the definition they are   *)
(* named for, that the runs notice.                                        *)

ManifestReadable(i) == DirOf[i] \notin tornDirs

\* What a write that is cut short may leave.
Tearings == IF runOptions.dry THEN {tornDirs} ELSE {tornDirs, tornDirs \cup {DirOf[currentRun]}}

\* select_runs: enabled: false is overridden by --only.
Invoke ==
    /\ runAt = "exited"
    /\ \E only \in {EnabledRuns} \cup (SUBSET Runs \ {{}}), k, d, r \in BOOLEAN :
          runOptions' = [selected |-> only, keepGoing |-> k, dry |-> d, report |-> r]
    /\ runAt' = "next" /\ exitCode' = "none"
    /\ currentRun' = 0 /\ runRecord' = NoRunRecords
    /\ runReport' = NoRunReport
    /\ UNCHANGED tornDirs

RunsLeft == {i \in runOptions.selected : i > currentRun}

StartRun(i) ==
    /\ runAt = "next"
    /\ i \in RunsLeft /\ \A j \in RunsLeft : i <= j
    /\ currentRun' = i /\ runAt' = "running"
    /\ UNCHANGED <<tornDirs, runOptions, runRecord, exitCode, runReport>>

RecordWith(status) == [runRecord EXCEPT ![currentRun] = status]

Exits(code) == runAt' = "exited" /\ exitCode' = code

\* _write_run_report, which may fail and leave a truncated report.
Reports(r, code) ==
    \/ /\ runReport' = IF runOptions.report THEN [ours |-> TRUE, record |-> r] ELSE runReport
       /\ Exits(code)
    \/ /\ runOptions.report
       /\ runReport' \in {runReport, NoRunReport}
       /\ Exits("unreported")

CompleteRun ==
    /\ runAt = "running"
    /\ ManifestReadable(currentRun)
    /\ runRecord' = RecordWith("completed")
    /\ runAt' = "next"
    /\ UNCHANGED <<tornDirs, runOptions, currentRun, exitCode, runReport>>

FaultUnreported(after) ==
    IF runOptions.keepGoing
    THEN runAt' = "next" /\ UNCHANGED <<exitCode, runReport>>
    ELSE Exits("error") /\ UNCHANGED runReport

FaultUnstopped(after) == runAt' = "next" /\ UNCHANGED <<exitCode, runReport>>

\* The first failure ends the invocation, unless it is to continue on errors.
Fails(after) ==
    IF runOptions.keepGoing
    THEN runAt' = "next" /\ UNCHANGED <<exitCode, runReport>>
    ELSE Reports(after, "error")

\* The nested main raises SystemExit.
FailRun ==
    /\ runAt = "running"
    /\ ManifestReadable(currentRun) \/ currentRun \notin Unguarded
    /\ tornDirs' \in IF ManifestReadable(currentRun) THEN Tearings ELSE {tornDirs}
    /\ runRecord' = RecordWith("failed")
    /\ Fails(RecordWith("failed"))
    /\ UNCHANGED <<runOptions, currentRun>>

\* load_previous_manifest_index raises RuntimeError, through the loop.
Escape ==
    /\ runAt = "running"
    /\ ~ManifestReadable(currentRun) /\ currentRun \in Unguarded
    /\ Exits("traceback")
    /\ UNCHANGED <<tornDirs, runOptions, currentRun, runRecord, runReport>>

Interrupts == {i \in Runs : runRecord[i] = "interrupted"}

\* The first KeyboardInterrupt ends the nested run, the second the invocation.
Interrupt ==
    /\ runAt = "running"
    /\ tornDirs' \in IF ManifestReadable(currentRun) THEN Tearings ELSE {tornDirs}
    /\ IF Interrupts = {}
       THEN /\ runRecord' = RecordWith("interrupted")
            /\ runAt' = "next" /\ UNCHANGED exitCode
       ELSE Exits("interrupted") /\ UNCHANGED runRecord
    /\ UNCHANGED <<runOptions, currentRun, runReport>>

\* An interrupt between two runs, or the death of the process.
DieRun ==
    /\ runAt # "exited"
    /\ Exits("interrupted")
    /\ tornDirs' \in IF runAt = "running" /\ ManifestReadable(currentRun)
                    THEN Tearings ELSE {tornDirs}
    /\ UNCHANGED <<runOptions, currentRun, runRecord, runReport>>

Failures == {i \in Runs : runRecord[i] = "failed"}

FaultFinishRuns ==
    /\ runAt = "next"
    /\ RunsLeft = {}
    /\ Reports(runRecord, IF currentRun \in Failures THEN "failures" ELSE "ok")
    /\ UNCHANGED <<tornDirs, runOptions, currentRun, runRecord>>

FinishRuns ==
    /\ runAt = "next"
    /\ RunsLeft = {}
    /\ Reports(runRecord, IF Failures = {} THEN "ok" ELSE "failures")
    /\ UNCHANGED <<tornDirs, runOptions, currentRun, runRecord>>

\* The operator removes truncated manifests, which the tool asks him to do.
RepairManifests ==
    /\ runAt = "exited" /\ tornDirs # {}
    /\ tornDirs' = {}
    /\ UNCHANGED <<runOptions, runAt, currentRun, runRecord, exitCode, runReport>>

ConfigNext ==
    \/ Invoke \/ CompleteRun \/ FailRun \/ Escape \/ Interrupt \/ DieRun \/ FinishRuns
    \/ RepairManifests
    \/ \E i \in Runs : StartRun(i)

ConfigSpec == ConfigInit /\ [][ConfigNext]_configVars

-----------------------------------------------------------------------------
ExitCodes == {"none", "ok", "failures", "error", "traceback", "interrupted", "unreported"}

ConfigTypeOK == /\ tornDirs \subseteq RunDirs
                /\ runOptions \in RunOptions
                /\ runAt \in {"next", "running", "exited"}
                /\ currentRun \in 0..LastRun
                /\ runRecord \in RunRecords
                /\ exitCode \in ExitCodes
                /\ runReport \in [ours : BOOLEAN, record : RunRecords]

\* cli.py, --continue-on-error: "Returns non-zero if any configured run fails."
\* An invocation that exits with 0 has completed every selected run, save one
\* that was interrupted.
SuccessIsEarned ==
    exitCode = "ok" =>
        /\ \A i \in runOptions.selected : runRecord[i] \in {"completed", "interrupted"}
        /\ \A i, j \in Interrupts : i = j

\* Without --continue-on-error no run starts after one has failed; in any case
\* runs start in file order, each once, and none after a second interrupt.
StartsInTurn ==
    [][runAt' = "running" /\ runAt # "running" =>
          /\ Failures # {} => runOptions.keepGoing
          /\ \A i \in runOptions.selected : i < currentRun' => runRecord[i] # "none"
          /\ \A i \in Runs : i >= currentRun' => runRecord[i] = "none"]_configVars

\* --report-output: an invocation that ends by itself, early or not, and can
\* write its report leaves all that it recorded in it, the failure that ended
\* it included.
ReportIsCurrent ==
    exitCode \in {"ok", "failures", "error"} /\ runOptions.report =>
        runReport = [ours |-> TRUE, record |-> runRecord]

\* cli.py, --continue-on-error: "Keep executing later configured runs after one
\* run fails."  Unless somebody interrupts it, such an invocation ends with a
\* record of every selected run.
KeepsGoing ==
    runAt = "exited" /\ exitCode # "interrupted" /\ runOptions.keepGoing =>
        \A i \in runOptions.selected : runRecord[i] # "none"
=============================================================================
