--------------------------- MODULE WorkflowEngine ---------------------------
(***************************************************************************)
(* The workflow engine of src/workflowservice.go: RunWorkflow and the      *)
(* goroutine it starts (executeRun), StopRun, DeleteRun, ClearRuns,        *)
(* PollRunLogs and the start-up pass recoverOrphanedRuns, over the rows of *)
(* workflow_runs and workflow_step_runs in hub.db.                         *)
(*                                                                         *)
(* One action is one SQL statement (or one transaction) or one operation   *)
(* on the activeRuns map, because every such step can interleave with      *)
(* every other.  hub.db survives the process; the map, the log buffers,    *)
(* the goroutines and the window that polls do not.                        *)
(***************************************************************************)
EXTENDS Integers, FiniteSets

CONSTANTS
    Runs,         \* run identifiers (newWFID never repeats one)
    NSteps,       \* the number of steps of the workflow
    OnFailure,    \* [Runs -> [Steps -> {"stop", "continue"}]], fixed at RunWorkflow
    Watched,      \* [Runs -> SUBSET Steps]: the steps that watch their context
    Instances,    \* operating-system processes running the application binary
    Faults,       \* what may go wrong: see the assumption
    MaxLaunches   \* bound: how often the binary is launched

ASSUME NStepsAssumption == NSteps \in Nat \ {0}
ASSUME OnFailureAssumption == OnFailure \in [Runs -> [1 .. NSteps -> {"stop", "continue"}]]
\* All step types but the git ones, which run their command to its end.
ASSUME WatchedAssumption == Watched \in [Runs -> SUBSET (1 .. NSteps)]
ASSUME LaunchesAssumption == MaxLaunches \in Nat
\* "panic": a panic outside a step.  "early_remove": a delete or clear is
\* handled between the commit of RunWorkflow and its registration.
\* "delete_error": the second DELETE of a removal fails.
ASSUME FaultsAssumption == Faults \subseteq {"panic", "early_remove", "delete_error"}

Steps == 1 .. NSteps
StepStatus == {"none", "pending", "running", "success", "failed", "skipped"}
Unfinished == {"pending", "running"}
Final == {"success", "failed", "stopped"}
RunStatus == {"none", "running"} \union Final
MaxLog == 2 * NSteps     \* a header and an outcome line for every step

VARIABLES
    boot,       \* boot[p]: "off", in recovery ("steps", "runs"), or "on"
    launches,   \* how often the binary was launched
    row,        \* workflow_runs.status, "none" when there is no row
    saved,      \* length of workflow_runs.log
    step,       \* workflow_step_runs.status by position
    active,     \* the keys of the activeRuns map
    cancelled,  \* the runs whose context is cancelled
    buf,        \* length of activeRun.buf
    pc,         \* where RunWorkflow and then executeRun is with the run
    at,         \* the step executeRun is at
    outcome,    \* finalStatus in executeRun
    stopped,    \* stopped in executeRun
    panicked,   \* the runs whose goroutine panicked (history)
    late,       \* the runs that set a step to running after their stop (history)
    remover,    \* where DeleteRun, or ClearRuns, is with the run
    reader,     \* where PollRunLogs is with the run, and what it has read
    seen,       \* the offset the window polls the run from
    told        \* the runs the window was told are done

disk == <<row, saved, step>>
executor == <<buf, pc, at, outcome, stopped, panicked, late>>
window == <<reader, seen, told>>
vars == <<boot, launches, row, saved, step, active, cancelled, buf, pc, at,
          outcome, stopped, panicked, late, remover, reader, seen, told>>

Places == {"none", "commit", "loop", "begin", "exec", "sweep", "flush",
           "rescue_steps", "rescue_row", "leave", "over", "dead"}
Live == {"commit", "loop", "begin", "exec", "sweep", "flush",
         "rescue_steps", "rescue_row", "leave"}

Quiet == [pc |-> "idle", done |-> FALSE, live |-> FALSE]
AllQuiet == [r \in Runs |-> Quiet]
NoRemoval == [r \in Runs |-> "no"]

Up == \E p \in Instances : boot[p] = "on"

Init ==
    /\ boot = [p \in Instances |-> "off"]
    /\ launches = 0
    /\ row = [r \in Runs |-> "none"]
    /\ saved = [r \in Runs |-> 0]
    /\ step = [r \in Runs |-> [k \in Steps |-> "none"]]
    /\ active = {}
    /\ cancelled = {}
    /\ buf = [r \in Runs |-> 0]
    /\ pc = [r \in Runs |-> "none"]
    /\ at = [r \in Runs |-> 1]
    /\ outcome = [r \in Runs |-> "success"]
    /\ stopped = [r \in Runs |-> FALSE]
    /\ panicked = {} /\ late = {}
    /\ remover = NoRemoval
    /\ reader = AllQuiet
    /\ seen = [r \in Runs |-> 0]
    /\ told = {}

-----------------------------------------------------------------------------
(* Statements on the rows.  An UPDATE of a row that was deleted does nothing. *)

SetRow(r, s) == row' = IF row[r] = "none" THEN row ELSE [row EXCEPT ![r] = s]

SetStep(r, k, s) ==
    step' = IF step[r][k] = "none" THEN step ELSE [step EXCEPT ![r][k] = s]

\* UPDATE workflow_step_runs ... WHERE the run is r AND the status is in from
Move(r, from, to) == [k \in Steps |-> IF step[r][k] \in from THEN to ELSE step[r][k]]

LiveSteps(r) == \E k \in Steps : step[r][k] \in Unfinished

-----------------------------------------------------------------------------
(* Processes.  main opens hub.db and builds the WorkflowService, whose      *)
(* constructor recovers orphans, before application.New takes the           *)
(* single-instance lock: a process that finds the application running       *)
(* leaves after its recovery.                                               *)

Launch(p) ==
    /\ boot[p] = "off" /\ launches < MaxLaunches
    /\ boot' = [boot EXCEPT ![p] = "steps"]
    /\ launches' = launches + 1
    /\ UNCHANGED <<disk, executor, window, active, cancelled, remover>>

\* A mutant: a run whose steps have all ended is taken for finished.
OrphanedBusy(r) == row[r] = "running" /\ LiveSteps(r)

\* The steps recoverOrphanedRuns fails: those of runs still 'running'.
Orphaned(r) == row[r] = "running"

RecoverSteps(p) ==
    /\ boot[p] = "steps"
    /\ step' = [r \in Runs |-> IF Orphaned(r) THEN Move(r, Unfinished, "failed") ELSE step[r]]
    /\ boot' = [boot EXCEPT ![p] = "runs"]
    /\ UNCHANGED <<launches, row, saved, executor, window, active, cancelled, remover>>

RecoverRuns(p) ==
    /\ boot[p] = "runs"
    /\ row' = [r \in Runs |-> IF Orphaned(r) THEN "failed" ELSE row[r]]
    /\ boot' = [boot EXCEPT ![p] = IF Up THEN "off" ELSE "on"]
    /\ UNCHANGED <<launches, saved, step, executor, window, active, cancelled, remover>>

\* The process ends: killed, crashed, or Quit, which waits for no run.
Exit(p) ==
    /\ boot[p] # "off"
    /\ boot' = [boot EXCEPT ![p] = "off"]
    /\ IF boot[p] = "on"
       THEN /\ active' = {} /\ cancelled' = {} /\ told' = {}
            /\ pc' = [r \in Runs |-> IF pc[r] \in Live THEN "dead" ELSE pc[r]]
            /\ remover' = NoRemoval
            /\ reader' = AllQuiet
            /\ seen' = [r \in Runs |-> 0]
       ELSE UNCHANGED <<active, cancelled, pc, remover, window>>
    /\ UNCHANGED <<launches, disk, buf, at, outcome, stopped, panicked, late>>

-----------------------------------------------------------------------------
(* RunWorkflow: one transaction inserts the run and its steps, then the run *)
(* is registered in activeRuns and its goroutine starts.                    *)

Insert(r, start) ==
    /\ Up /\ pc[r] = "none"
    /\ row' = [row EXCEPT ![r] = "running"]
    /\ step' = [step EXCEPT ![r] = [k \in Steps |-> IF k < start THEN "skipped" ELSE "pending"]]
    /\ pc' = [pc EXCEPT ![r] = "commit"]
    /\ at' = [at EXCEPT ![r] = start]
    /\ UNCHANGED <<boot, launches, saved, window, active, cancelled, buf, outcome,
                   stopped, panicked, late, remover>>

Register(r) ==
    /\ pc[r] = "commit"
    /\ active' = active \union {r}
    /\ pc' = [pc EXCEPT ![r] = "loop"]
    /\ UNCHANGED <<boot, launches, disk, window, cancelled, buf, at, outcome,
                   stopped, panicked, late, remover>>

StopRun(r) ==
    /\ r \in active
    /\ cancelled' = cancelled \union {r}
    /\ UNCHANGED <<boot, launches, disk, executor, window, active, remover>>

-----------------------------------------------------------------------------
(* executeRun.                                                              *)

\* A mutant: a failed step does not stop the loop.
HaltedByUser(r) == r \in cancelled

\* The loop passes over the step instead of running it.
Halted(r) == r \in cancelled \/ stopped[r]

\* The goroutine goes on to the next step, or to the end of the loop.
Advance(r) ==
    /\ at' = [at EXCEPT ![r] = @ + 1]
    /\ pc' = [pc EXCEPT ![r] = IF at[r] = NSteps THEN "sweep" ELSE "loop"]

\* The step is recorded as skipped, or its row is gone and it is passed over.
SkipStep(r) ==
    /\ pc[r] = "loop"
    /\ Halted(r) \/ step[r][at[r]] = "none"
    /\ SetStep(r, at[r], "skipped")
    /\ Advance(r)
    /\ UNCHANGED <<boot, launches, row, saved, window, active, cancelled, buf,
                   outcome, stopped, panicked, late, remover>>

\* The step is to run: its header is written.
EnterStep(r) ==
    /\ pc[r] = "loop"
    /\ ~Halted(r) /\ step[r][at[r]] # "none"
    /\ buf' = [buf EXCEPT ![r] = @ + 1]
    /\ pc' = [pc EXCEPT ![r] = "begin"]
    /\ UNCHANGED <<boot, launches, disk, window, active, cancelled, at, outcome,
                   stopped, panicked, late, remover>>

\* Its row is set to running, also when a stop has come since.
BeginStep(r) ==
    /\ pc[r] = "begin"
    /\ SetStep(r, at[r], "running")
    /\ pc' = [pc EXCEPT ![r] = "exec"]
    /\ late' = IF r \in cancelled THEN late \union {r} ELSE late
    /\ UNCHANGED <<boot, launches, row, saved, window, active, cancelled, buf, at,
                   outcome, stopped, panicked, remover>>

\* A mutant: the last step alone decides the status of the run.
LastOutcome(r, err) ==
    CASE ~err                    -> "success"
      [] err /\ r \in cancelled  -> "stopped"
      [] OTHER                   -> "failed"

\* A mutant: a stopped run gets a status only a step can have.
SkippedOutcome(r, err) ==
    CASE ~err                    -> outcome[r]
      [] err /\ r \in cancelled  -> "skipped"
      [] OTHER                   -> "failed"

\* finalStatus after a step: only a failure changes it.
Outcome(r, err) ==
    CASE ~err                    -> outcome[r]
      [] err /\ r \in cancelled  -> "stopped"
      [] OTHER                   -> "failed"

\* executeStepSafe has returned (a panic inside the step is an error too):
\* the status is chosen, the outcome logged unless the run was cancelled,
\* the row updated and the loop goes on.
EndStep(r, err) ==
    /\ pc[r] = "exec"
    /\ outcome' = [outcome EXCEPT ![r] = Outcome(r, err)]
    /\ stopped' = [stopped EXCEPT ![r] =
            @ \/ (err /\ (r \in cancelled \/ OnFailure[r][at[r]] # "continue"))]
    /\ buf' = [buf EXCEPT ![r] = IF err /\ r \in cancelled THEN @ ELSE @ + 1]
    /\ SetStep(r, at[r], IF err THEN "failed" ELSE "success")
    /\ Advance(r)
    /\ UNCHANGED <<boot, launches, row, saved, window, active, cancelled, panicked,
                   late, remover>>

\* The command of the step ends by itself, well or badly, or on its timeout.
StepReturns(r) == \E err \in BOOLEAN : EndStep(r, err)

\* A mutant: no watchdog looks at the context.
NeverInterrupts(r) == FALSE

\* The watchdog of runShell, and the waits of the define, build, deploy and
\* wait steps, react to the cancelled context.
Interrupts(r) == r \in cancelled /\ at[r] \in Watched[r]
Interrupt(r) == Interrupts(r) /\ EndStep(r, TRUE)

Sweep(r) ==
    /\ pc[r] = "sweep"
    /\ step' = [step EXCEPT ![r] = Move(r, {"pending"}, "skipped")]
    /\ pc' = [pc EXCEPT ![r] = "flush"]
    /\ UNCHANGED <<boot, launches, row, saved, window, active, cancelled, buf, at,
                   outcome, stopped, panicked, late, remover>>

Flush(r) ==
    /\ pc[r] = "flush"
    /\ SetRow(r, outcome[r])
    /\ saved' = IF row[r] = "none" THEN saved ELSE [saved EXCEPT ![r] = buf[r]]
    /\ pc' = [pc EXCEPT ![r] = "leave"]
    /\ UNCHANGED <<boot, launches, step, window, active, cancelled, buf, at,
                   outcome, stopped, panicked, late, remover>>

\* A panic outside a step: the deferred function fails what is unfinished.
Panic(r) ==
    /\ "panic" \in Faults
    /\ pc[r] \in {"loop", "begin", "sweep", "flush"}
    /\ panicked' = panicked \union {r}
    /\ pc' = [pc EXCEPT ![r] = "rescue_steps"]
    /\ UNCHANGED <<boot, launches, disk, window, active, cancelled, buf, at,
                   outcome, stopped, late, remover>>

RescueSteps(r) ==
    /\ pc[r] = "rescue_steps"
    /\ step' = [step EXCEPT ![r] = Move(r, Unfinished, "failed")]
    /\ pc' = [pc EXCEPT ![r] = "rescue_row"]
    /\ UNCHANGED <<boot, launches, row, saved, window, active, cancelled, buf, at,
                   outcome, stopped, panicked, late, remover>>

RescueRow(r) ==
    /\ pc[r] = "rescue_row"
    /\ row' = IF row[r] = "running" THEN [row EXCEPT ![r] = "failed"] ELSE row
    /\ pc' = [pc EXCEPT ![r] = "leave"]
    /\ UNCHANGED <<boot, launches, saved, step, window, active, cancelled, buf, at,
                   outcome, stopped, panicked, late, remover>>

Leave(r) ==
    /\ pc[r] = "leave"
    /\ active' = active \ {r}
    /\ pc' = [pc EXCEPT ![r] = "over"]
    /\ UNCHANGED <<boot, launches, disk, window, cancelled, buf, at, outcome,
                   stopped, panicked, late, remover>>

-----------------------------------------------------------------------------
(* DeleteRun, and ClearRuns for each run it has listed: the test, then two  *)
(* statements.  The user learns of a run from RunWorkflow or from a list;   *)
(* "early_remove" lets a list show it before it is registered.              *)

\* A mutant: the removal does not ask activeRuns.
RemovableAlways(r) == pc[r] = "commit" => "early_remove" \in Faults

Removable(r) == r \notin active /\ (pc[r] = "commit" => "early_remove" \in Faults)

RemoveCheck(r) ==
    /\ Up /\ remover[r] = "no" /\ row[r] # "none"
    /\ Removable(r)
    /\ remover' = [remover EXCEPT ![r] = "steps"]
    /\ UNCHANGED <<boot, launches, disk, executor, window, active, cancelled>>

RemoveSteps(r) ==
    /\ remover[r] = "steps"
    /\ step' = [step EXCEPT ![r] = [k \in Steps |-> "none"]]
    /\ remover' = [remover EXCEPT ![r] = "row"]
    /\ UNCHANGED <<boot, launches, row, saved, executor, window, active, cancelled>>

\* The second DELETE; when it fails the call returns the error.
RemoveRow(r) ==
    /\ remover[r] = "row"
    /\ \/ /\ row' = [row EXCEPT ![r] = "none"]
          /\ saved' = [saved EXCEPT ![r] = 0]
       \/ "delete_error" \in Faults /\ UNCHANGED <<row, saved>>
    /\ remover' = [remover EXCEPT ![r] = "no"]
    /\ UNCHANGED <<boot, launches, step, executor, window, active, cancelled>>

-----------------------------------------------------------------------------
(* PollRunLogs: the status, then the steps, then the log, each its own      *)
(* read.  The window polls the runs it started until told they are done.    *)

PollStatus(r) ==
    /\ Up /\ reader[r].pc = "idle" /\ r \notin told
    /\ pc[r] \notin {"none", "commit", "dead"}
    /\ row[r] # "none"
    /\ reader' = [reader EXCEPT ![r] = [pc |-> "steps", done |-> row[r] # "running", live |-> FALSE]]
    /\ UNCHANGED <<boot, launches, disk, executor, active, cancelled, remover, seen, told>>

PollSteps(r) ==
    /\ reader[r].pc = "steps"
    /\ reader' = [reader EXCEPT ![r].pc = "log", ![r].live = LiveSteps(r)]
    /\ UNCHANGED <<boot, launches, disk, executor, active, cancelled, remover, seen, told>>

\* A mutant: the log is only ever read from the buffer.
BufferOnly(r) == IF r \in active THEN buf[r] ELSE 0

\* The whole log as PollRunLogs finds it: the buffer, or the saved column.
LogLength(r) == IF r \in active THEN buf[r] ELSE saved[r]

PollLog(r) ==
    /\ reader[r].pc = "log"
    /\ seen' = [seen EXCEPT ![r] = IF @ < LogLength(r) THEN LogLength(r) ELSE @]
    /\ told' = IF reader[r].done THEN told \union {r} ELSE told
    /\ reader' = [reader EXCEPT ![r].pc = "idle"]
    /\ UNCHANGED <<boot, launches, disk, executor, active, cancelled, remover>>

-----------------------------------------------------------------------------
Process(p) == Launch(p) \/ RecoverSteps(p) \/ RecoverRuns(p) \/ Exit(p)

\* The steps of the goroutine the Go scheduler must let happen.
Execute(r) ==
    Register(r) \/ SkipStep(r) \/ EnterStep(r) \/ BeginStep(r) \/ Sweep(r) \/ Flush(r)
    \/ RescueSteps(r) \/ RescueRow(r) \/ Leave(r)

User(r) ==
    \/ \E start \in Steps : Insert(r, start)
    \/ StopRun(r)
    \/ RemoveCheck(r) \/ RemoveSteps(r) \/ RemoveRow(r)
    \/ PollStatus(r) \/ PollSteps(r) \/ PollLog(r)

Next ==
    \/ \E p \in Instances : Process(p)
    \/ \E r \in Runs : Execute(r) \/ StepReturns(r) \/ Interrupt(r) \/ Panic(r) \/ User(r)

Spec == Init /\ [][Next]_vars

FairSpec ==
    /\ Spec
    /\ \A r \in Runs : WF_vars(Execute(r)) /\ WF_vars(Interrupt(r))

-----------------------------------------------------------------------------
TypeOK ==
    /\ boot \in [Instances -> {"off", "steps", "runs", "on"}]
    /\ launches \in 0 .. MaxLaunches
    /\ row \in [Runs -> RunStatus]
    /\ saved \in [Runs -> 0 .. MaxLog]
    /\ step \in [Runs -> [Steps -> StepStatus]]
    /\ active \subseteq Runs /\ cancelled \subseteq Runs
    /\ buf \in [Runs -> 0 .. MaxLog]
    /\ pc \in [Runs -> Places]
    /\ at \in [Runs -> 1 .. NSteps + 1]
    /\ outcome \in [Runs -> Final]
    /\ stopped \in [Runs -> BOOLEAN]
    /\ panicked \subseteq Runs /\ late \subseteq Runs
    /\ remover \in [Runs -> {"no", "steps", "row"}]
    /\ reader \in [Runs -> [pc : {"idle", "steps", "log"}, done : BOOLEAN, live : BOOLEAN]]
    /\ seen \in [Runs -> 0 .. MaxLog]
    /\ told \subseteq Runs

-----------------------------------------------------------------------------
(* Correctness. *)

\* Steps run one after another in the order of the workflow: a step is set to
\* running only if every earlier one has ended and none of them failed with
\* on_failure other than "continue".  After a stop at most one step is: the one
\* whose check of the context preceded the stop.
StepsInOrder ==
    [][\A r \in Runs : \A k \in Steps :
         step[r][k] # "running" /\ step'[r][k] = "running" =>
            /\ r \in cancelled => r \notin late
            /\ \A j \in 1 .. k - 1 :
                  /\ step[r][j] \notin Unfinished
                  /\ step[r][j] = "failed" => OnFailure[r][j] = "continue"]_vars

\* The status of a run agrees with its steps: no step of a successful run
\* failed, and a run that is called stopped has a failed step and no step
\* that ran after it.
StatusMatchesSteps ==
    \A r \in Runs :
       /\ row[r] = "success" => \A k \in Steps : step[r][k] # "failed"
       /\ row[r] = "stopped" /\ remover[r] = "no" /\ ~(\A k \in Steps : step[r][k] = "none") =>
            \E k \in Steps : /\ step[r][k] = "failed"
                             /\ \A j \in k + 1 .. NSteps : step[r][j] = "skipped"

\* After start-up recovery no row says running unless a goroutine of this
\* process is still to write its final status (the rows "could never
\* advance" otherwise), whatever statement the last process died at.
NoOrphans ==
    Up => \A r \in Runs : row[r] = "running" => pc[r] \in Live \ {"leave"}

\* A window that was told a run is done was shown no unfinished step and has
\* received the whole log, though the status, the steps, the map and the log
\* are read at four different moments.  A panic outside a step loses the log.
PollComplete ==
    \A r \in told : row[r] # "none" =>
        /\ ~reader[r].live
        /\ r \notin panicked => seen[r] = buf[r]

\* The rows implement the abstract life of a run: see RunLifecycle.
Lifecycle == INSTANCE RunLifecycle WITH
    status <- row,
    busy <- [r \in Runs |-> LiveSteps(r)],
    begun <- {r \in Runs : pc[r] # "none"}

LifecycleSpec == Lifecycle!Spec

\* A run stopped by the user ends and leaves activeRuns, also when the stop comes
\* as a step begins, unless it stays inside a git command, which does not watch
\* the context, or the process ends.
Busy(r) == pc[r] = "exec" /\ at[r] \notin Watched[r]
StopEndsRun ==
    \A r \in Runs : <>[]Busy(r) \/ (r \in cancelled ~> r \notin active)

\* recoverOrphanedRuns fails only runs that nothing executes: "the in-memory
\* activeRuns map is always empty at startup, so nothing is genuinely
\* executing" (workflowservice.go:168-169).
OrphansOnly ==
    [][\A r \in Runs : row[r] = "running" /\ row'[r] = "failed" /\ pc'[r] = pc[r]
                       => pc[r] \notin Live]_vars

\* "Active (still-running) runs cannot be deleted." (workflowservice.go:546-547)
ActiveNotDeleted ==
    [][\A r \in Runs : row[r] = "running" => row'[r] # "none"]_vars

-----------------------------------------------------------------------------
(* The inductive invariant behind LifecycleSpec and NoOrphans, for one      *)
(* process and no early removal.                                            *)

\* Only a running application has goroutines, registrations and removals.
OwnedByApp(r) == pc[r] \in Live \/ r \in active \/ remover[r] # "no" => Up

\* A run is registered from Register to Leave.
Registered(r) == r \in active <=> pc[r] \in Live \ {"commit"}

\* Which status the row can have at each place of the goroutine.
RowAtPlace(r) ==
    /\ pc[r] = "none" => row[r] = "none"
    /\ pc[r] \in Live \ {"leave"} => row[r] = "running"
    /\ row[r] = "running" => pc[r] \in (Live \ {"leave"}) \union {"dead"}
    /\ pc[r] = "dead" /\ Up => row[r] # "running"

\* What is being removed has ended and has no goroutine.
RemovesEnded(r) ==
    remover[r] # "no" => pc[r] \notin Live \union {"none"} /\ row[r] # "running"

\* Once a statement has closed the steps of a run they stay closed.
StepsClosed(r) ==
    \A k \in Steps :
       /\ row[r] # "running" => step[r][k] \notin Unfinished
       /\ pc[r] \in {"flush", "rescue_row"} => step[r][k] \notin Unfinished
       /\ row[r] = "running" /\ (\E p \in Instances : boot[p] = "runs")
             => step[r][k] \notin Unfinished

\* The loop leaves ended steps behind it and has pending ones ahead.
LoopPosition(r) ==
    /\ pc[r] \in {"commit", "loop", "begin", "exec"} => at[r] \in Steps
    /\ \A k \in Steps :
          /\ pc[r] \in {"commit", "loop", "begin", "exec"} /\ k < at[r] => step[r][k] \notin Unfinished
          /\ pc[r] = "exec" /\ k = at[r] => step[r][k] = "running"
          /\ pc[r] \in {"commit", "loop", "begin"} /\ k >= at[r] => step[r][k] = "pending"
          /\ pc[r] = "exec" /\ k > at[r] => step[r][k] = "pending"
          /\ pc[r] = "sweep" => step[r][k] \notin Unfinished

RunInv(r) ==
    /\ OwnedByApp(r) /\ Registered(r) /\ RowAtPlace(r) /\ RemovesEnded(r)
    /\ StepsClosed(r) /\ LoopPosition(r)

\* The places, the rows, the registrations and the removals of every run
\* agree: what Implements is proved from.
LifeInv == \A r \in Runs : RunInv(r)
=============================================================================
