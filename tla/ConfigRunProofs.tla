--------------------------- MODULE ConfigRunProofs ---------------------------
(***************************************************************************)
(* What holds of ConfigRun for any number of configured runs and output    *)
(* directories.                                                            *)
(***************************************************************************)
EXTENDS ConfigRun, TLAPS

LEMMA RecordWithType ==
    ASSUME ConfigTypeOK, NEW status \in Statuses
    PROVE  /\ RecordWith(status) \in RunRecords
           /\ \A i \in Runs :
                 RecordWith(status)[i] = IF i = currentRun THEN status ELSE runRecord[i]
BY DEF ConfigTypeOK, RecordWith, RunRecords

LEMMA TearingsType ==
    ASSUME ConfigTypeOK, currentRun \in Runs
    PROVE  \A t \in Tearings : t \subseteq RunDirs
BY ConfigAssumption DEF ConfigTypeOK, Tearings

LEMMA ReportsType ==
    ASSUME ConfigTypeOK, NEW r \in RunRecords, NEW code \in ExitCodes, Reports(r, code)
    PROVE  /\ runAt' = "exited" /\ exitCode' \in ExitCodes
           /\ runReport' \in [ours : BOOLEAN, record : RunRecords]
<1>1. NoRunReport \in [ours : BOOLEAN, record : RunRecords]
  BY DEF NoRunReport, NoRunRecords, RunRecords, Statuses
<1>2. [ours |-> TRUE, record |-> r] \in [ours : BOOLEAN, record : RunRecords]
  BY ConfigAssumption DEF ConfigTypeOK
<1>3. QED
  BY <1>1, <1>2 DEF Reports, Exits, ExitCodes, ConfigTypeOK

\* A run is being executed only between its start and its end.
Executing == runAt = "running" => currentRun \in Runs

LEMMA ConfigStepType ==
    ASSUME ConfigTypeOK, Executing, [ConfigNext]_configVars
    PROVE  ConfigTypeOK' /\ Executing'
<1>1. CASE Invoke
  <2>1. runOptions' \in RunOptions
    BY <1>1, ConfigAssumption DEF Invoke, RunOptions
  <2>2. runReport' \in [ours : BOOLEAN, record : RunRecords] /\ 0 \in 0..LastRun
    BY <1>1, ConfigAssumption DEF Invoke, NoRunReport, NoRunRecords, RunRecords, Statuses
  <2>3. QED
    BY <1>1, <2>1, <2>2 DEF Invoke, ConfigTypeOK, Executing, NoRunRecords, RunRecords, Statuses,
                            ExitCodes
<1>2. CASE \E i \in Runs : StartRun(i)
  BY <1>2, ConfigAssumption DEF StartRun, ConfigTypeOK, Executing, Runs
<1>3. CASE CompleteRun
  BY <1>3, RecordWithType DEF CompleteRun, ConfigTypeOK, Executing, Statuses
<1>4. CASE FailRun
  <2>1. /\ runAt = "running" /\ currentRun \in Runs
        /\ UNCHANGED <<runOptions, currentRun>>
        /\ runRecord' = RecordWith("failed")
    BY <1>4 DEF FailRun, Executing
  <2>2. tornDirs' \subseteq RunDirs /\ runRecord' \in RunRecords
    BY <1>4, <2>1, TearingsType, RecordWithType DEF FailRun, ConfigTypeOK, Statuses
  <2>3. /\ runAt' \in {"next", "exited"}
        /\ exitCode' \in ExitCodes /\ runReport' \in [ours : BOOLEAN, record : RunRecords]
    <3>1. CASE runOptions.keepGoing
      BY <1>4, <3>1 DEF FailRun, Fails, ConfigTypeOK
    <3>2. CASE ~runOptions.keepGoing
      <4>1. Reports(RecordWith("failed"), "error")
        BY <1>4, <3>2 DEF FailRun, Fails
      <4>2. RecordWith("failed") \in RunRecords /\ "error" \in ExitCodes
        BY <2>1, <2>2 DEF ExitCodes
      <4>3. QED
        BY <4>1, <4>2, ReportsType
    <3>3. QED
      BY <3>1, <3>2
  <2>4. QED
    BY <2>1, <2>2, <2>3 DEF ConfigTypeOK, Executing
<1>5. CASE Escape
  BY <1>5 DEF Escape, Exits, ConfigTypeOK, Executing, ExitCodes
<1>6. CASE Interrupt
  <2>1. tornDirs' \subseteq RunDirs
    BY <1>6, TearingsType DEF Interrupt, Executing, ConfigTypeOK
  <2>2. QED
    BY <1>6, <2>1, RecordWithType DEF Interrupt, Exits, ConfigTypeOK, Executing, ExitCodes, Statuses
<1>7. CASE DieRun
  <2>1. tornDirs' \subseteq RunDirs
    BY <1>7, TearingsType DEF DieRun, Executing, ConfigTypeOK
  <2>2. QED
    BY <1>7, <2>1 DEF DieRun, Exits, ConfigTypeOK, Executing, ExitCodes
<1>8. CASE FinishRuns
  <2>1. PICK code \in {"ok", "failures"} : Reports(runRecord, code)
    BY <1>8 DEF FinishRuns
  <2>2. code \in ExitCodes /\ runRecord \in RunRecords
    BY DEF ExitCodes, ConfigTypeOK
  <2>3. /\ runAt' = "exited" /\ exitCode' \in ExitCodes
        /\ runReport' \in [ours : BOOLEAN, record : RunRecords]
    BY <2>1, <2>2, ReportsType
  <2>4. QED
    BY <1>8, <2>3 DEF FinishRuns, ConfigTypeOK, Executing
<1>9. CASE RepairManifests
  BY <1>9 DEF RepairManifests, ConfigTypeOK, Executing
<1>10. CASE UNCHANGED configVars
  BY <1>10 DEF configVars, ConfigTypeOK, Executing
<1>11. QED
  BY <1>1, <1>2, <1>3, <1>4, <1>5, <1>6, <1>7, <1>8, <1>9, <1>10 DEF ConfigNext

LEMMA ConfigInitType == ConfigInit => ConfigTypeOK /\ Executing
BY ConfigAssumption DEF ConfigInit, ConfigTypeOK, Executing, RunOptions, RunRecords,
                        NoRunRecords, NoRunReport, Statuses, ExitCodes

\* TypeOK, the type invariant of the invocations and what they leave.
THEOREM ConfigTypeCorrect == ConfigSpec => []ConfigTypeOK
<1>1. ConfigTypeOK /\ Executing /\ [ConfigNext]_configVars => (ConfigTypeOK /\ Executing)'
  BY ConfigStepType
<1>2. QED
  BY <1>1, ConfigInitType, PTL DEF ConfigSpec

-----------------------------------------------------------------------------
(* The records of an invocation follow the position of its loop.           *)

Passed == {i \in runOptions.selected : i <= currentRun}

\* Only runs that the loop has come to have a record; all that it has passed
\* do, except the one it is executing.
Positions ==
    /\ \A i \in Runs : runRecord[i] # "none" => i \in Passed
    /\ runAt = "next" => \A i \in Passed : runRecord[i] # "none"
    /\ runAt = "running" => /\ currentRun \in Passed /\ runRecord[currentRun] = "none"
                         /\ \A i \in Passed \ {currentRun} : runRecord[i] # "none"

\* What the loop goes on after, and what it exits with.
Outcome ==
    /\ runAt # "exited" => exitCode = "none"
    /\ runAt # "exited" /\ Failures # {} => runOptions.keepGoing
    /\ exitCode = "ok" => Failures = {}
    /\ exitCode \in {"ok", "failures"}
          => \A i \in runOptions.selected : runRecord[i] # "none"
    /\ exitCode = "none" /\ runAt = "exited" => runOptions.selected = {}
    /\ exitCode = "unreported" /\ runOptions.keepGoing
          => \A i \in runOptions.selected : runRecord[i] # "none"
    /\ exitCode = "error" => ~runOptions.keepGoing

OneInterrupt == \A i, j \in Interrupts : i = j

LoopInv == /\ ConfigTypeOK
           /\ Executing
           /\ Positions
           /\ Outcome
           /\ OneInterrupt
           /\ ReportIsCurrent

\* The run that the loop is executing gets its record.
LEMMA RecordPositions ==
    ASSUME LoopInv, runAt = "running", NEW status \in Statuses \ {"none"},
           runRecord' = RecordWith(status), UNCHANGED <<runOptions, currentRun>>
    PROVE  /\ \A i \in Runs : runRecord'[i] = IF i = currentRun THEN status ELSE runRecord[i]
           /\ \A i \in Runs : runRecord'[i] # "none" => i \in Passed'
           /\ \A i \in Passed' : runRecord'[i] # "none"
<1>1. \A i \in Runs : runRecord'[i] = IF i = currentRun THEN status ELSE runRecord[i]
  BY RecordWithType DEF LoopInv
<1>2. Passed' = Passed /\ Passed \subseteq Runs
  BY DEF Passed, LoopInv, ConfigTypeOK, RunOptions
<1>3. QED
  BY <1>1, <1>2 DEF LoopInv, Positions

LEMMA StepLoop ==
    ASSUME LoopInv, [ConfigNext]_configVars
    PROVE  LoopInv'
<1>1. ConfigTypeOK' /\ Executing'
  BY ConfigStepType DEF LoopInv
<1>2. \A i \in Passed : i \in Runs /\ i \in Nat /\ currentRun \in Nat
  BY DEF Passed, LoopInv, ConfigTypeOK, RunOptions, Runs
<1>3. CASE Invoke
  <2>1. /\ runAt' = "next" /\ exitCode' = "none" /\ currentRun' = 0 /\ runRecord' = NoRunRecords
    BY <1>3 DEF Invoke
  <2>2. Failures' = {} /\ Interrupts' = {}
    BY <2>1 DEF Failures, Interrupts, NoRunRecords
  <2>3. Passed' = {}
    BY <1>1, <2>1 DEF Passed, ConfigTypeOK, RunOptions, Runs
  <2>4. QED
    BY <1>1, <2>1, <2>2, <2>3 DEF LoopInv, Positions, Outcome, OneInterrupt, ReportIsCurrent,
                                  NoRunRecords
<1>4. CASE \E i \in Runs : StartRun(i)
  <2>1. PICK k \in Runs : StartRun(k)
    BY <1>4
  <2>2. /\ runAt = "next" /\ runAt' = "running" /\ currentRun' = k
        /\ UNCHANGED <<runOptions, runRecord, exitCode, runReport>>
        /\ k \in runOptions.selected /\ k > currentRun
        /\ \A j \in runOptions.selected : j > currentRun => k <= j
    BY <2>1 DEF StartRun, RunsLeft
  <2>3. Passed' = Passed \cup {k} /\ k \notin Passed
    <3>1. \A i \in runOptions.selected : i \in Nat
      BY DEF LoopInv, ConfigTypeOK, RunOptions, Runs
    <3>2. currentRun \in Nat /\ k \in Nat
      BY DEF LoopInv, ConfigTypeOK, Runs
    <3>3. QED
      BY <2>2, <3>1, <3>2 DEF Passed
  <2>4. Positions'
    BY <2>2, <2>3 DEF LoopInv, Positions
  <2>5. Outcome' /\ OneInterrupt' /\ ReportIsCurrent'
    BY <2>2 DEF LoopInv, Outcome, OneInterrupt, ReportIsCurrent, Failures, Interrupts
  <2>6. QED
    BY <1>1, <2>4, <2>5 DEF LoopInv
<1>5. CASE CompleteRun
  <2>1. /\ runAt = "running" /\ runAt' = "next" /\ runRecord' = RecordWith("completed")
        /\ UNCHANGED <<runOptions, currentRun, exitCode, runReport>>
    BY <1>5 DEF CompleteRun
  <2>2. /\ \A i \in Runs : runRecord'[i] = IF i = currentRun THEN "completed" ELSE runRecord[i]
        /\ \A i \in Runs : runRecord'[i] # "none" => i \in Passed'
        /\ \A i \in Passed' : runRecord'[i] # "none"
    BY <2>1, RecordPositions DEF Statuses
  <2>3. Failures' \subseteq Failures /\ Interrupts' \subseteq Interrupts
    BY <2>2 DEF Failures, Interrupts
  <2>4. QED
    BY <1>1, <2>1, <2>2, <2>3 DEF LoopInv, Positions, Outcome, OneInterrupt, ReportIsCurrent
<1>6. CASE FailRun
  <2>1. /\ runAt = "running" /\ runRecord' = RecordWith("failed") /\ Fails(RecordWith("failed"))
        /\ UNCHANGED <<runOptions, currentRun>>
    BY <1>6 DEF FailRun
  <2>2. /\ \A i \in Runs : runRecord'[i] = IF i = currentRun THEN "failed" ELSE runRecord[i]
        /\ \A i \in Runs : runRecord'[i] # "none" => i \in Passed'
        /\ \A i \in Passed' : runRecord'[i] # "none"
    BY <2>1, RecordPositions DEF Statuses
  <2>3. Interrupts' \subseteq Interrupts
    BY <2>2 DEF Interrupts
  <2>4. CASE runOptions.keepGoing
    BY <1>1, <2>1, <2>2, <2>3, <2>4
      DEF Fails, LoopInv, Positions, Outcome, OneInterrupt, ReportIsCurrent
  <2>5. CASE ~runOptions.keepGoing
    <3>1. Reports(runRecord', "error")
      BY <2>1, <2>5 DEF Fails
    <3>2. /\ runAt' = "exited" /\ exitCode' \in {"error", "unreported"}
          /\ exitCode' = "error" /\ runOptions.report
                => runReport' = [ours |-> TRUE, record |-> runRecord']
      BY <3>1 DEF Reports, Exits
    <3>3. Positions'
      BY <2>2, <3>2 DEF Positions
    <3>4. Outcome'
      BY <2>1, <2>5, <3>2 DEF Outcome
    <3>5. ReportIsCurrent'
      BY <2>1, <3>2 DEF ReportIsCurrent
    <3>6. QED
      BY <1>1, <2>3, <3>3, <3>4, <3>5 DEF LoopInv, OneInterrupt
  <2>6. QED
    BY <2>4, <2>5
<1>7. CASE Escape
  BY <1>1, <1>7 DEF Escape, Exits, LoopInv, Positions, Passed, Outcome, OneInterrupt,
                    ReportIsCurrent, Interrupts
<1>8. CASE Interrupt
  <2>1. CASE Interrupts = {}
    <3>1. /\ runAt = "running" /\ runAt' = "next" /\ runRecord' = RecordWith("interrupted")
          /\ UNCHANGED <<runOptions, currentRun, exitCode, runReport>>
      BY <1>8, <2>1 DEF Interrupt
    <3>2. /\ \A i \in Runs : runRecord'[i] = IF i = currentRun THEN "interrupted" ELSE runRecord[i]
          /\ \A i \in Runs : runRecord'[i] # "none" => i \in Passed'
          /\ \A i \in Passed' : runRecord'[i] # "none"
      BY <3>1, RecordPositions DEF Statuses
    <3>3. Failures' \subseteq Failures /\ Interrupts' \subseteq {currentRun}
      BY <2>1, <3>2 DEF Failures, Interrupts
    <3>4. QED
      BY <1>1, <3>1, <3>2, <3>3 DEF LoopInv, Positions, Outcome, OneInterrupt, ReportIsCurrent
  <2>2. CASE Interrupts # {}
    BY <1>1, <1>8, <2>2 DEF Interrupt, Exits, LoopInv, Positions, Passed, Outcome, OneInterrupt,
                            ReportIsCurrent, Interrupts
  <2>3. QED
    BY <2>1, <2>2
<1>9. CASE DieRun
  BY <1>1, <1>9 DEF DieRun, Exits, LoopInv, Positions, Passed, Outcome, OneInterrupt,
                    ReportIsCurrent, Interrupts
<1>10. CASE FinishRuns
  <2>1. /\ runAt = "next" /\ RunsLeft = {}
        /\ Reports(runRecord, IF Failures = {} THEN "ok" ELSE "failures")
        /\ UNCHANGED <<runOptions, currentRun, runRecord>>
    BY <1>10 DEF FinishRuns
  <2>2. \A i \in runOptions.selected : runRecord[i] # "none"
    <3>1. \A i \in runOptions.selected : i \in Nat
      BY DEF LoopInv, ConfigTypeOK, RunOptions, Runs
    <3>2. currentRun \in Nat
      BY DEF LoopInv, ConfigTypeOK
    <3>3. runOptions.selected \subseteq Passed
      BY <2>1, <3>1, <3>2 DEF RunsLeft, Passed
    <3>4. QED
      BY <2>1, <3>3 DEF LoopInv, Positions
  <2>3. /\ runAt' = "exited" /\ exitCode' \in {"ok", "failures", "unreported"}
        /\ exitCode' = "ok" => Failures = {}
        /\ exitCode' # "unreported" /\ runOptions.report
              => runReport' = [ours |-> TRUE, record |-> runRecord]
    BY <2>1 DEF Reports, Exits
  <2>4. Positions' /\ Outcome'
    BY <2>1, <2>2, <2>3 DEF LoopInv, Positions, Passed, Outcome, Failures
  <2>5. OneInterrupt' /\ ReportIsCurrent'
    BY <2>1, <2>3 DEF LoopInv, OneInterrupt, ReportIsCurrent, Interrupts
  <2>6. QED
    BY <1>1, <2>4, <2>5 DEF LoopInv
<1>11. CASE RepairManifests
  BY <1>1, <1>11 DEF RepairManifests, LoopInv, Positions, Passed, Outcome, OneInterrupt,
                     ReportIsCurrent, Interrupts, Failures
<1>12. CASE UNCHANGED configVars
  BY <1>1, <1>12 DEF configVars, LoopInv, Positions, Passed, Outcome, OneInterrupt,
                     ReportIsCurrent, Interrupts, Failures
<1>13. QED
  BY <1>3, <1>4, <1>5, <1>6, <1>7, <1>8, <1>9, <1>10, <1>11, <1>12 DEF ConfigNext

LEMMA InitLoop == ConfigInit => LoopInv
<1>1. SUFFICES ASSUME ConfigInit PROVE LoopInv
  OBVIOUS
<1>2. ConfigTypeOK /\ Executing
  BY <1>1, ConfigInitType
<1>3. Failures = {} /\ Interrupts = {}
  BY <1>1 DEF ConfigInit, Failures, Interrupts, NoRunRecords
<1>4. QED
  BY <1>1, <1>2, <1>3 DEF ConfigInit, LoopInv, Positions, Outcome, OneInterrupt, ReportIsCurrent,
                          NoRunRecords

\* The inductive invariant of the loop: its records are those of the runs it
\* has passed, and it goes on and exits as the options say.
THEOREM LoopInvariant == ConfigSpec => []LoopInv
<1>1. LoopInv /\ [ConfigNext]_configVars => LoopInv'
  BY StepLoop
<1>2. QED
  BY <1>1, InitLoop, PTL DEF ConfigSpec

-----------------------------------------------------------------------------
(* The theorems.                                                           *)

\* SuccessIsEarned, for any number of runs.
THEOREM ExitZeroIsEarned == ConfigSpec => []SuccessIsEarned
<1>1. LoopInv => SuccessIsEarned
  <2>1. SUFFICES ASSUME LoopInv, exitCode = "ok", NEW i \in runOptions.selected
                 PROVE  runRecord[i] \in {"completed", "interrupted"}
    BY DEF SuccessIsEarned, LoopInv, OneInterrupt
  <2>2. i \in Runs /\ runRecord[i] \in Statuses
    BY <2>1 DEF LoopInv, ConfigTypeOK, RunOptions, RunRecords
  <2>3. runRecord[i] # "none" /\ runRecord[i] # "failed"
    BY <2>1, <2>2 DEF LoopInv, Outcome, Failures
  <2>4. QED
    BY <2>2, <2>3 DEF Statuses
<1>2. QED
  BY <1>1, LoopInvariant, PTL

\* ReportIsCurrent, for any number of runs and invocations.
THEOREM ReportsAreCurrent == ConfigSpec => []ReportIsCurrent
<1>1. LoopInv => ReportIsCurrent
  BY DEF LoopInv
<1>2. QED
  BY <1>1, LoopInvariant, PTL

\* StartsInTurn, for any number of runs.
THEOREM RunsStartInTurn == ConfigSpec => StartsInTurn
<1>1. ASSUME LoopInv, ConfigNext, runAt' = "running", runAt # "running"
      PROVE  /\ Failures # {} => runOptions.keepGoing
             /\ \A i \in runOptions.selected : i < currentRun' => runRecord[i] # "none"
             /\ \A i \in Runs : i >= currentRun' => runRecord[i] = "none"
  <2>1. PICK k \in Runs : StartRun(k)
    BY <1>1 DEF ConfigNext, Invoke, CompleteRun, FailRun, Fails, Reports, Exits, Escape, Interrupt,
                DieRun,
                FinishRuns, RepairManifests
  <2>2. /\ runAt = "next" /\ currentRun' = k
        /\ k \in runOptions.selected /\ k > currentRun
        /\ \A j \in runOptions.selected : j > currentRun => k <= j
    BY <2>1 DEF StartRun, RunsLeft
  <2>3. /\ currentRun \in Nat /\ k \in Nat
        /\ \A i \in Runs : i \in Nat
        /\ runOptions.selected \subseteq Runs
    BY <1>1 DEF LoopInv, ConfigTypeOK, RunOptions, Runs
  <2>4. Failures # {} => runOptions.keepGoing
    BY <1>1, <2>2 DEF LoopInv, Outcome
  <2>5. ASSUME NEW i \in runOptions.selected, i < k PROVE i \in Passed
    <3>1. i \in Nat /\ k \in Nat /\ currentRun \in Nat
      BY <2>3
    <3>2. i > currentRun => k <= i
      BY <2>2
    <3>3. i <= currentRun
      BY <2>5, <3>1, <3>2
    <3>4. QED
      BY <3>3 DEF Passed
  <2>6. \A i \in Runs : i >= k => i \notin Passed
    BY <2>2, <2>3 DEF Passed
  <2>7. QED
    BY <1>1, <2>2, <2>3, <2>4, <2>5, <2>6 DEF LoopInv, Positions
<1>2. LoopInv /\ [ConfigNext]_configVars =>
        [runAt' = "running" /\ runAt # "running" =>
            /\ Failures # {} => runOptions.keepGoing
            /\ \A i \in runOptions.selected : i < currentRun' => runRecord[i] # "none"
            /\ \A i \in Runs : i >= currentRun' => runRecord[i] = "none"]_configVars
  BY <1>1
<1>3. QED
  BY <1>2, LoopInvariant, PTL DEF ConfigSpec, StartsInTurn

\* KeepsGoing, if every adapter reports an unreadable manifest as its failure:
\* the escaping exception is all that stands against it.
THEOREM GuardedRunsKeepGoing == Unguarded = {} => (ConfigSpec => []KeepsGoing)
<1>1. ASSUME Unguarded = {} PROVE ConfigSpec => []KeepsGoing
  <2>1. ConfigInit => exitCode # "traceback"
    BY DEF ConfigInit
  <2>2. exitCode # "traceback" /\ [ConfigNext]_configVars => (exitCode # "traceback")'
    BY <1>1 DEF ConfigNext, Invoke, StartRun, CompleteRun, FailRun, Fails, Reports, Exits, Escape,
                Interrupt,
                DieRun, FinishRuns, RepairManifests, configVars
  <2>3. LoopInv /\ exitCode # "traceback" => KeepsGoing
    <3>1. SUFFICES ASSUME LoopInv, exitCode # "traceback", runAt = "exited",
                          exitCode # "interrupted",
                          runOptions.keepGoing
                   PROVE  \A i \in runOptions.selected : runRecord[i] # "none"
      BY DEF KeepsGoing
    <3>2. exitCode \in {"none", "ok", "failures", "unreported"}
      BY <3>1 DEF LoopInv, ConfigTypeOK, ExitCodes, Outcome
    <3>3. QED
      BY <3>1, <3>2 DEF LoopInv, Outcome
  <2>4. QED
    BY <2>1, <2>2, <2>3, LoopInvariant, PTL DEF ConfigSpec
<1>2. QED
  BY <1>1
=============================================================================
