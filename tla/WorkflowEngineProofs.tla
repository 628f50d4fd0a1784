------------------------ MODULE WorkflowEngineProofs ------------------------
(***************************************************************************)
(* Proofs about WorkflowEngine, for every set of runs, number of steps,    *)
(* on_failure policy and bound: type correctness, and, for one process and *)
(* no early removal, that the rows implement RunLifecycle, that no orphan  *)
(* is left, that steps run in order, that the status of a run is that of   *)
(* its steps, and that what the window polls is complete.                  *)
(***************************************************************************)
EXTENDS WorkflowEngine, TLAPS

-----------------------------------------------------------------------------
(* Type correctness.  The bound of the log needs the place of the loop:    *)
(* two lines for every step behind it and one for the step it is in.       *)

LogBound ==
    \A r \in Runs :
       /\ pc[r] \in {"none", "commit"} => buf[r] = 0
       /\ pc[r] \in {"commit", "loop", "begin", "exec"} => at[r] \in Steps
       /\ pc[r] = "loop" => buf[r] <= 2 * (at[r] - 1)
       /\ pc[r] \in {"begin", "exec"} => buf[r] <= 2 * at[r] - 1

TypeInv == TypeOK /\ LogBound

\* Every state of the specification starts well typed.
LEMMA InitTyped == Init => TypeInv
  BY NStepsAssumption, LaunchesAssumption
  DEF Init, TypeInv, TypeOK, LogBound, Steps, MaxLog, Places, RunStatus, StepStatus,
      Final, NoRemoval, AllQuiet, Quiet

\* What Move writes is a row of step statuses.
LEMMA MoveTyped ==
    ASSUME step \in [Runs -> [Steps -> StepStatus]],
           NEW r \in Runs, NEW from, NEW to \in StepStatus
    PROVE  Move(r, from, to) \in [Steps -> StepStatus]
  BY DEF Move

LEMMA ProcessTyped == ASSUME NEW p \in Instances, TypeInv, Process(p) PROVE TypeInv'
<1>1. CASE Launch(p)
  BY <1>1, LaunchesAssumption DEF Launch, disk, executor, window, TypeInv, TypeOK, LogBound
<1>2. CASE RecoverSteps(p)
  <2>1. step' \in [Runs -> [Steps -> StepStatus]]
    BY <1>2, MoveTyped DEF RecoverSteps, StepStatus, TypeInv, TypeOK, LogBound
  <2> QED BY <1>2, <2>1 DEF RecoverSteps, executor, window, TypeInv, TypeOK, LogBound
<1>3. CASE RecoverRuns(p)
  <2>1. row' \in [Runs -> RunStatus]
    BY <1>3 DEF RecoverRuns, RunStatus, Final, TypeInv, TypeOK, LogBound
  <2> QED BY <1>3, <2>1 DEF RecoverRuns, executor, window, TypeInv, TypeOK, LogBound
<1>4. CASE Exit(p)
  <2>1. CASE boot[p] = "on"
    <3>1. pc' \in [Runs -> Places]
      BY <1>4, <2>1 DEF Exit, Places, TypeInv, TypeOK, LogBound
    <3>2. \A r \in Runs : pc'[r] = pc[r] \/ pc'[r] = "dead"
      BY <1>4, <2>1 DEF Exit
    <3>3. reader' = AllQuiet /\ seen' = [r \in Runs |-> 0] /\ remover' = NoRemoval
      BY <1>4, <2>1 DEF Exit
    <3>4. AllQuiet \in [Runs -> [pc : {"idle", "steps", "log"}, done : BOOLEAN, live : BOOLEAN]]
      BY Zenon DEF AllQuiet, Quiet
    <3>5. seen' \in [Runs -> 0 .. MaxLog]
      BY <3>3, NStepsAssumption DEF MaxLog
    <3>6. TypeOK'
      BY <1>4, <2>1, <3>1, <3>3, <3>4, <3>5
      DEF Exit, disk, NoRemoval, TypeInv, TypeOK
    <3>7. LogBound'
      BY <1>4, <2>1, <3>2 DEF Exit, TypeInv, LogBound
    <3> QED BY <3>6, <3>7 DEF TypeInv
  <2>2. CASE boot[p] # "on"
    BY <1>4, <2>2 DEF Exit, disk, window, TypeInv, TypeOK, LogBound
  <2> QED BY <2>1, <2>2
<1> QED BY <1>1, <1>2, <1>3, <1>4 DEF Process

\* The statuses SetStep is called with keep the rows well typed.
LEMMA SetStepTyped ==
    ASSUME step \in [Runs -> [Steps -> StepStatus]],
           NEW r \in Runs, NEW k \in Steps, NEW s \in StepStatus, SetStep(r, k, s)
    PROVE  step' \in [Runs -> [Steps -> StepStatus]]
  BY DEF SetStep

\* Advance leaves the loop only past the last step.
LEMMA AdvanceTyped ==
    ASSUME TypeInv, NEW r \in Runs, at[r] \in Steps, Advance(r)
    PROVE  /\ at' \in [Runs -> 1 .. NSteps + 1] /\ pc' \in [Runs -> Places]
           /\ at'[r] = at[r] + 1 /\ pc'[r] \in {"loop", "sweep"}
           /\ pc'[r] = "loop" => at'[r] \in Steps
           /\ \A q \in Runs : q # r => at'[q] = at[q] /\ pc'[q] = pc[q]
  BY NStepsAssumption DEF Advance, TypeInv, TypeOK, Places, Steps

LEMMA EndStepTyped ==
    ASSUME TypeInv, NEW r \in Runs, NEW err \in BOOLEAN, EndStep(r, err)
    PROVE  TypeInv'
<1>1. pc[r] = "exec" /\ at[r] \in Steps
  BY DEF EndStep, TypeInv, LogBound
<1>2. step' \in [Runs -> [Steps -> StepStatus]]
  BY <1>1, SetStepTyped DEF EndStep, TypeInv, TypeOK, StepStatus
<1>3. /\ at' \in [Runs -> 1 .. NSteps + 1] /\ pc' \in [Runs -> Places]
      /\ at'[r] = at[r] + 1 /\ pc'[r] \in {"loop", "sweep"}
      /\ pc'[r] = "loop" => at'[r] \in Steps
      /\ \A q \in Runs : q # r => at'[q] = at[q] /\ pc'[q] = pc[q]
  BY <1>1, AdvanceTyped DEF EndStep
<1>4. buf[r] <= 2 * at[r] - 1 /\ buf[r] \in Nat /\ at[r] \in 1 .. NSteps
  BY <1>1, NStepsAssumption DEF TypeInv, TypeOK, LogBound, Steps, MaxLog
<1>5. /\ buf' \in [Runs -> 0 .. MaxLog] /\ buf'[r] <= 2 * at[r]
      /\ \A q \in Runs : q # r => buf'[q] = buf[q]
  BY <1>4, NStepsAssumption DEF EndStep, TypeInv, TypeOK, MaxLog
<1>6. outcome' \in [Runs -> Final] /\ stopped' \in [Runs -> BOOLEAN]
  <2>1. Outcome(r, err) \in Final
    BY DEF Outcome, TypeInv, TypeOK, Final
  <2>2. outcome' \in [Runs -> Final]
    BY <2>1 DEF EndStep, TypeInv, TypeOK
  <2>3. stopped' \in [Runs -> BOOLEAN]
    BY Zenon DEF EndStep, TypeInv, TypeOK
  <2> QED BY <2>2, <2>3
<1>7. TypeOK'
  BY <1>2, <1>3, <1>5, <1>6 DEF EndStep, TypeInv, TypeOK, window
<1>8. LogBound'
  <2> SUFFICES ASSUME NEW q \in Runs
               PROVE  /\ pc'[q] \in {"none", "commit"} => buf'[q] = 0
                      /\ pc'[q] \in {"commit", "loop", "begin", "exec"} => at'[q] \in Steps
                      /\ pc'[q] = "loop" => buf'[q] <= 2 * (at'[q] - 1)
                      /\ pc'[q] \in {"begin", "exec"} => buf'[q] <= 2 * at'[q] - 1
    BY DEF LogBound
  <2>1. CASE q = r
    BY <2>1, <1>3, <1>4, <1>5
  <2>2. CASE q # r
    BY <2>2, <1>3, <1>5 DEF TypeInv, LogBound
  <2> QED BY <2>1, <2>2
<1> QED BY <1>7, <1>8 DEF TypeInv

\* The steps of the goroutine other than the end of a step.
LEMMA ExecuteTyped ==
    ASSUME TypeInv, NEW r \in Runs, Execute(r) \/ Panic(r)
    PROVE  TypeInv'
<1>1. CASE Register(r)
  BY <1>1 DEF Register, disk, window, TypeInv, TypeOK, LogBound, Places
<1>2. CASE SkipStep(r)
  <2>1. at[r] \in Steps /\ buf[r] <= 2 * (at[r] - 1) /\ buf[r] \in Nat /\ at[r] \in 1 .. NSteps
    BY <1>2, NStepsAssumption DEF SkipStep, TypeInv, TypeOK, LogBound, Steps, MaxLog
  <2>2. step' \in [Runs -> [Steps -> StepStatus]]
    BY <1>2, <2>1, SetStepTyped DEF SkipStep, TypeInv, TypeOK, StepStatus
  <2>3. /\ at' \in [Runs -> 1 .. NSteps + 1] /\ pc' \in [Runs -> Places]
        /\ at'[r] = at[r] + 1 /\ pc'[r] \in {"loop", "sweep"}
        /\ pc'[r] = "loop" => at'[r] \in Steps
        /\ \A q \in Runs : q # r => at'[q] = at[q] /\ pc'[q] = pc[q]
    BY <1>2, <2>1, AdvanceTyped DEF SkipStep
  <2>4. TypeOK'
    BY <1>2, <2>2, <2>3 DEF SkipStep, window, TypeInv, TypeOK
  <2>5. LogBound'
    <3> SUFFICES ASSUME NEW q \in Runs
                 PROVE  /\ pc'[q] \in {"none", "commit"} => buf'[q] = 0
                        /\ pc'[q] \in {"commit", "loop", "begin", "exec"} => at'[q] \in Steps
                        /\ pc'[q] = "loop" => buf'[q] <= 2 * (at'[q] - 1)
                        /\ pc'[q] \in {"begin", "exec"} => buf'[q] <= 2 * at'[q] - 1
      BY DEF LogBound
    <3>1. CASE q = r
      BY <3>1, <1>2, <2>1, <2>3 DEF SkipStep
    <3>2. CASE q # r
      BY <3>2, <1>2, <2>3 DEF SkipStep, TypeInv, LogBound
    <3> QED BY <3>1, <3>2
  <2> QED BY <2>4, <2>5 DEF TypeInv
<1>3. CASE EnterStep(r)
  <2>1. at[r] \in Steps /\ buf[r] <= 2 * (at[r] - 1) /\ buf[r] \in Nat /\ at[r] \in 1 .. NSteps
    BY <1>3, NStepsAssumption DEF EnterStep, TypeInv, TypeOK, LogBound, Steps, MaxLog
  <2>2. /\ buf' \in [Runs -> 0 .. MaxLog] /\ buf'[r] <= 2 * at[r] - 1
        /\ \A q \in Runs : q # r => buf'[q] = buf[q]
    BY <1>3, <2>1, NStepsAssumption DEF EnterStep, TypeInv, TypeOK, MaxLog
  <2>3. /\ pc' \in [Runs -> Places] /\ pc'[r] = "begin"
        /\ \A q \in Runs : q # r => pc'[q] = pc[q]
    BY <1>3 DEF EnterStep, TypeInv, TypeOK, Places
  <2>4. TypeOK'
    BY <1>3, <2>2, <2>3 DEF EnterStep, disk, window, TypeInv, TypeOK
  <2>5. LogBound'
    BY <1>3, <2>1, <2>2, <2>3 DEF EnterStep, TypeInv, LogBound
  <2> QED BY <2>4, <2>5 DEF TypeInv
<1>10. CASE BeginStep(r)
  <2>1. at[r] \in Steps /\ buf[r] <= 2 * at[r] - 1
    BY <1>10 DEF BeginStep, TypeInv, LogBound
  <2>2. step' \in [Runs -> [Steps -> StepStatus]]
    BY <1>10, <2>1, SetStepTyped DEF BeginStep, TypeInv, TypeOK, StepStatus
  <2>3. /\ pc' \in [Runs -> Places] /\ pc'[r] = "exec"
        /\ \A q \in Runs : q # r => pc'[q] = pc[q]
    BY <1>10 DEF BeginStep, TypeInv, TypeOK, Places
  <2>4. TypeOK'
    BY <1>10, <2>2, <2>3 DEF BeginStep, window, TypeInv, TypeOK
  <2>5. LogBound'
    BY <1>10, <2>1, <2>3 DEF BeginStep, TypeInv, LogBound
  <2> QED BY <2>4, <2>5 DEF TypeInv
<1>4. CASE Sweep(r)
  <2>1. Move(r, {"pending"}, "skipped") \in [Steps -> StepStatus]
    BY MoveTyped DEF TypeInv, TypeOK, StepStatus
  <2> QED BY <1>4, <2>1 DEF Sweep, window, TypeInv, TypeOK, LogBound, Places
<1>5. CASE Flush(r)
  <2>1. row' \in [Runs -> RunStatus]
    <3>1. outcome[r] \in RunStatus
      BY DEF TypeInv, TypeOK, RunStatus
    <3> QED BY <1>5, <3>1 DEF Flush, SetRow, TypeInv, TypeOK
  <2> QED BY <1>5, <2>1 DEF Flush, window, TypeInv, TypeOK, LogBound, Places
<1>6. CASE RescueSteps(r)
  <2>1. Move(r, Unfinished, "failed") \in [Steps -> StepStatus]
    BY MoveTyped DEF TypeInv, TypeOK, StepStatus
  <2> QED BY <1>6, <2>1 DEF RescueSteps, window, TypeInv, TypeOK, LogBound, Places
<1>7. CASE RescueRow(r)
  BY <1>7 DEF RescueRow, window, TypeInv, TypeOK, LogBound, Places, RunStatus, Final
<1>8. CASE Leave(r)
  BY <1>8 DEF Leave, disk, window, TypeInv, TypeOK, LogBound, Places
<1>9. CASE Panic(r)
  BY <1>9 DEF Panic, disk, window, TypeInv, TypeOK, LogBound, Places
<1> QED BY <1>1, <1>2, <1>3, <1>4, <1>5, <1>6, <1>7, <1>8, <1>9, <1>10 DEF Execute

\* The calls of the window.
LEMMA UserTyped == ASSUME TypeInv, NEW r \in Runs, User(r) PROVE TypeInv'
<1>1. ASSUME NEW start \in Steps, Insert(r, start) PROVE TypeInv'
  <2>1. [k \in Steps |-> IF k < start THEN "skipped" ELSE "pending"] \in [Steps -> StepStatus]
    BY DEF StepStatus
  <2>2. start \in 1 .. NSteps + 1
    BY NStepsAssumption DEF Steps
  <2> QED BY <1>1, <2>1, <2>2
      DEF Insert, window, TypeInv, TypeOK, LogBound, Places, RunStatus
<1>2. CASE StopRun(r)
  BY <1>2 DEF StopRun, disk, executor, window, TypeInv, TypeOK, LogBound
<1>3. CASE RemoveCheck(r)
  BY <1>3 DEF RemoveCheck, disk, executor, window, TypeInv, TypeOK, LogBound
<1>4. CASE RemoveSteps(r)
  <2>1. [k \in Steps |-> "none"] \in [Steps -> StepStatus]
    BY DEF StepStatus
  <2> QED BY <1>4, <2>1 DEF RemoveSteps, executor, window, TypeInv, TypeOK, LogBound
<1>5. CASE RemoveRow(r)
  <2>1. row' \in [Runs -> RunStatus] /\ saved' \in [Runs -> 0 .. MaxLog]
    <3>1. row' \in [Runs -> RunStatus]
      BY <1>5 DEF RemoveRow, TypeInv, TypeOK, RunStatus
    <3>2. 0 \in 0 .. MaxLog
      BY NStepsAssumption DEF MaxLog
    <3>3. saved' \in [Runs -> 0 .. MaxLog]
      BY <1>5, <3>2 DEF RemoveRow, TypeInv, TypeOK
    <3> QED BY <3>1, <3>3
  <2> QED BY <1>5, <2>1 DEF RemoveRow, executor, window, TypeInv, TypeOK, LogBound
<1>6. CASE PollStatus(r)
  <2>1. reader' \in [Runs -> [pc : {"idle", "steps", "log"}, done : BOOLEAN, live : BOOLEAN]]
    <3>1. [pc |-> "steps", done |-> row[r] # "running", live |-> FALSE]
             \in [pc : {"idle", "steps", "log"}, done : BOOLEAN, live : BOOLEAN]
      BY Zenon
    <3> QED BY <1>6, <3>1 DEF PollStatus, TypeInv, TypeOK
  <2> QED BY <1>6, <2>1 DEF PollStatus, disk, executor, TypeInv, TypeOK, LogBound
<1>7. CASE PollSteps(r)
  <2>1. reader' \in [Runs -> [pc : {"idle", "steps", "log"}, done : BOOLEAN, live : BOOLEAN]]
    <3>1. LiveSteps(r) \in BOOLEAN
      BY Zenon DEF LiveSteps
    <3> QED BY <1>7, <3>1 DEF PollSteps, TypeInv, TypeOK
  <2> QED BY <1>7, <2>1 DEF PollSteps, disk, executor, TypeInv, TypeOK, LogBound
<1>8. CASE PollLog(r)
  <2>1. LogLength(r) \in 0 .. MaxLog
    BY DEF LogLength, TypeInv, TypeOK
  <2> QED BY <1>8, <2>1 DEF PollLog, disk, executor, TypeInv, TypeOK, LogBound
<1> QED BY <1>1, <1>2, <1>3, <1>4, <1>5, <1>6, <1>7, <1>8 DEF User

LEMMA StepTyped == TypeInv /\ [Next]_vars => TypeInv'
<1> SUFFICES ASSUME TypeInv, [Next]_vars PROVE TypeInv'
  OBVIOUS
<1>1. CASE UNCHANGED vars
  BY <1>1 DEF vars, TypeInv, TypeOK, LogBound
<1>2. ASSUME NEW p \in Instances, Process(p) PROVE TypeInv'
  BY <1>2, ProcessTyped
<1>3. ASSUME NEW r \in Runs, StepReturns(r) \/ Interrupt(r) PROVE TypeInv'
  BY <1>3, EndStepTyped DEF StepReturns, Interrupt
<1>4. ASSUME NEW r \in Runs, Execute(r) \/ Panic(r) PROVE TypeInv'
  BY <1>4, ExecuteTyped
<1>5. ASSUME NEW r \in Runs, User(r) PROVE TypeInv'
  BY <1>5, UserTyped
<1> QED BY <1>1, <1>2, <1>3, <1>4, <1>5 DEF Next

\* Every variable keeps its type in every reachable state; in particular no
\* log outgrows a header and an outcome line for every step.
THEOREM TypeCorrect == Spec => []TypeOK
<1>1. TypeInv => TypeOK
  BY DEF TypeInv
<1> QED BY InitTyped, StepTyped, <1>1, PTL DEF Spec

-----------------------------------------------------------------------------
(* The life of a run.  From here on one process runs the application and   *)
(* the user learns of a run only after RunWorkflow has registered it.      *)

OneProcess == \A p, q \in Instances : p = q
NoEarlyRemove == "early_remove" \notin Faults

LEMMA InitLife == Init => LifeInv
  BY DEF Init, LifeInv, RunInv, OwnedByApp, Registered, RowAtPlace, RemovesEnded,
         StepsClosed, LoopPosition, Up, Live, Unfinished, NoRemoval

\* A run none of whose state changes keeps its part of the invariant.
LEMMA Frame ==
    ASSUME NEW q \in Runs, RunInv(q), boot' = boot,
           row'[q] = row[q], step'[q] = step[q], pc'[q] = pc[q], at'[q] = at[q],
           remover'[q] = remover[q], q \in active' <=> q \in active
    PROVE  RunInv(q)'
  BY DEF RunInv, OwnedByApp, Registered, RowAtPlace, RemovesEnded, StepsClosed,
         LoopPosition, Up

\* A step of the application is taken while it runs: nothing is in recovery.
LEMMA NoRecovery ==
    ASSUME OneProcess, Up
    PROVE  ~\E p \in Instances : boot[p] \in {"steps", "runs"}
  BY DEF OneProcess, Up

LEMMA ProcessLife ==
    ASSUME TypeOK, LifeInv, OneProcess, NEW p \in Instances, Process(p), NEW q \in Runs
    PROVE  RunInv(q)'
<1>1. RunInv(q)
  BY DEF LifeInv
<1>2. \A o \in Instances : o = p
  BY DEF OneProcess
<1>3. boot[p] # "on" => /\ ~Up /\ pc[q] \notin Live /\ q \notin active /\ remover[q] = "no"
  BY <1>1, <1>2 DEF RunInv, OwnedByApp, Up
<1>4. CASE Launch(p)
  <2>1. ~Up' /\ ~\E o \in Instances : boot'[o] = "runs"
    BY <1>2, <1>4 DEF Launch, Up, TypeOK
  <2> QED BY <1>1, <1>3, <1>4, <2>1
      DEF Launch, disk, executor, RunInv, OwnedByApp, Registered, RowAtPlace,
          RemovesEnded, StepsClosed, LoopPosition, Live
<1>5. CASE RecoverSteps(p)
  <2>1. ~Up' /\ boot[p] = "steps"
    BY <1>2, <1>5 DEF RecoverSteps, Up, TypeOK
  <2>2. row' = row /\ pc' = pc /\ active' = active /\ remover' = remover /\ at' = at
    BY <1>5 DEF RecoverSteps, executor
  <2>3. row[q] # "running" => step'[q] = step[q]
    BY <1>5 DEF RecoverSteps, Orphaned
  <2>4. row[q] = "running" => \A k \in Steps : step'[q][k] \notin Unfinished
    BY <1>5 DEF RecoverSteps, Orphaned, Move, Unfinished
  <2> QED BY <1>1, <1>3, <2>1, <2>2, <2>3, <2>4
      DEF RunInv, OwnedByApp, Registered, RowAtPlace, RemovesEnded, StepsClosed,
          LoopPosition, Live
<1>6. CASE RecoverRuns(p)
  <2>1. boot[p] = "runs"
    BY <1>6 DEF RecoverRuns
  <2>2. /\ step' = step /\ pc' = pc /\ active' = active /\ remover' = remover /\ at' = at
        /\ row'[q] = IF row[q] = "running" THEN "failed" ELSE row[q]
    BY <1>6 DEF RecoverRuns, executor, Orphaned
  <2> QED BY <1>1, <1>3, <2>1, <2>2
      DEF RunInv, OwnedByApp, Registered, RowAtPlace, RemovesEnded, StepsClosed,
          LoopPosition, Live
<1>7. CASE Exit(p)
  <2>1. ~Up' /\ ~\E o \in Instances : boot'[o] = "runs"
    BY <1>2, <1>7 DEF Exit, Up, TypeOK
  <2>2. row' = row /\ step' = step /\ at' = at
    BY <1>7 DEF Exit, disk
  <2>3. CASE boot[p] = "on"
    <3>1. /\ q \notin active' /\ remover'[q] = "no"
          /\ pc'[q] = IF pc[q] \in Live THEN "dead" ELSE pc[q]
      BY <1>7, <2>3 DEF Exit, NoRemoval
    <3> QED BY <1>1, <2>1, <2>2, <3>1
        DEF RunInv, OwnedByApp, Registered, RowAtPlace, RemovesEnded, StepsClosed,
            LoopPosition, Live
  <2>4. CASE boot[p] # "on"
    <3>1. pc' = pc /\ active' = active /\ remover' = remover
      BY <1>7, <2>4 DEF Exit
    <3> QED BY <1>1, <1>3, <2>1, <2>2, <2>4, <3>1
        DEF RunInv, OwnedByApp, Registered, RowAtPlace, RemovesEnded, StepsClosed,
            LoopPosition, Live
  <2> QED BY <2>3, <2>4
<1> QED BY <1>4, <1>5, <1>6, <1>7 DEF Process

\* What is known of a run whose goroutine is about to take a step.
LEMMA Actor ==
    ASSUME LifeInv, OneProcess, NEW r \in Runs, pc[r] \in Live
    PROVE  /\ Up /\ ~\E p \in Instances : boot[p] = "runs"
           /\ remover[r] = "no"
           /\ pc[r] # "leave" => row[r] = "running"
           /\ r \in active <=> pc[r] # "commit"
<1>1. RunInv(r)
  BY DEF LifeInv
<1>2. Up
  BY <1>1 DEF RunInv, OwnedByApp
<1> QED BY <1>1, <1>2, NoRecovery DEF RunInv, Registered, RowAtPlace, RemovesEnded, Live

\* An UPDATE of one step of a run whose rows exist.
LEMMA SetStepEffect ==
    ASSUME TypeOK, NEW r \in Runs, NEW k \in Steps, NEW s \in StepStatus,
           step[r][k] # "none", SetStep(r, k, s)
    PROVE  /\ step'[r][k] = s
           /\ \A j \in Steps : j # k => step'[r][j] = step[r][j]
           /\ \A q \in Runs : q # r => step'[q] = step[q]
  BY DEF SetStep, TypeOK

LEMMA AdvanceEffect ==
    ASSUME TypeInv, NEW r \in Runs, at[r] \in Steps, Advance(r)
    PROVE  /\ at'[r] = at[r] + 1
           /\ pc'[r] = IF at[r] = NSteps THEN "sweep" ELSE "loop"
           /\ \A q \in Runs : q # r => at'[q] = at[q] /\ pc'[q] = pc[q]
  BY DEF Advance, TypeInv, TypeOK

\* The loop has dealt with the step it was at and goes on: used for a step
\* that is passed over and for one that has ended.
LEMMA PassLife ==
    ASSUME TypeInv, LifeInv, OneProcess, NEW r \in Runs, pc[r] \in {"loop", "exec"},
           NEW s \in {"success", "failed", "skipped"}, SetStep(r, at[r], s), Advance(r),
           UNCHANGED <<boot, row, active, remover>>, NEW q \in Runs
    PROVE  RunInv(q)'
<1>1. RunInv(q) /\ RunInv(r)
  BY DEF LifeInv
<1>2. /\ Up /\ ~\E p \in Instances : boot[p] = "runs"
      /\ remover[r] = "no" /\ row[r] = "running" /\ r \in active
  BY Actor DEF Live
<1>3. at[r] \in Steps /\ step[r][at[r]] # "none" /\ s \in StepStatus /\ s \notin Unfinished
  BY <1>1 DEF RunInv, LoopPosition, StepStatus, Unfinished, Steps
<1>4. /\ at'[r] = at[r] + 1
      /\ pc'[r] = IF at[r] = NSteps THEN "sweep" ELSE "loop"
      /\ \A o \in Runs : o # r => at'[o] = at[o] /\ pc'[o] = pc[o]
  BY <1>3, AdvanceEffect
<1>5. /\ step'[r][at[r]] = s
      /\ \A j \in Steps : j # at[r] => step'[r][j] = step[r][j]
      /\ \A o \in Runs : o # r => step'[o] = step[o]
  BY <1>3, SetStepEffect DEF TypeInv
<1>6. CASE q # r
  BY <1>1, <1>4, <1>5, <1>6, Frame
<1>7. CASE q = r
  <2>1. (OwnedByApp(r) /\ Registered(r) /\ RowAtPlace(r) /\ RemovesEnded(r))'
    BY <1>2, <1>4 DEF OwnedByApp, Registered, RowAtPlace, RemovesEnded, Up, Live
  <2>2. \A k \in Steps : k < at[r] => step[r][k] \notin Unfinished
    BY <1>1 DEF RunInv, LoopPosition
  <2>3. \A k \in Steps : k > at[r] => step[r][k] = "pending"
    BY <1>1, <1>3, NStepsAssumption DEF RunInv, LoopPosition, Steps
  <2>4. StepsClosed(r)'
    BY <1>2, <1>4 DEF StepsClosed
  <2>5. at'[r] \in Steps \/ pc'[r] = "sweep"
    BY <1>3, <1>4, NStepsAssumption DEF Steps
  <2>6. \A k \in Steps : k < at'[r] => step'[r][k] \notin Unfinished
    BY <1>3, <1>4, <1>5, <2>2, NStepsAssumption DEF Steps
  <2>7. \A k \in Steps : k >= at'[r] => step'[r][k] = "pending"
    BY <1>3, <1>4, <1>5, <2>3, NStepsAssumption DEF Steps
  <2>8. pc'[r] = "sweep" => \A k \in Steps : k < at'[r]
    BY <1>3, <1>4, NStepsAssumption DEF Steps
  <2>9. LoopPosition(r)'
    BY <1>4, <2>5, <2>6, <2>7, <2>8 DEF LoopPosition
  <2> QED BY <1>7, <2>1, <2>4, <2>9 DEF RunInv
<1> QED BY <1>6, <1>7

\* The other steps of the goroutine, one by one.
LEMMA ExecuteLife ==
    ASSUME TypeInv, LifeInv, OneProcess, NEW r \in Runs, Execute(r) \/ Panic(r),
           NEW q \in Runs
    PROVE  RunInv(q)'
<1>1. RunInv(q) /\ RunInv(r)
  BY DEF LifeInv
<1>2. CASE SkipStep(r)
  BY <1>2, PassLife DEF SkipStep
<1>3. ASSUME pc[r] \in Live, pc'[r] \in Live, boot' = boot, remover' = remover,
             \A o \in Runs : o # r => /\ row'[o] = row[o] /\ step'[o] = step[o]
                                      /\ pc'[o] = pc[o] /\ at'[o] = at[o]
                                      /\ o \in active' <=> o \in active,
             r \in active', pc'[r] # "commit",
             pc'[r] # "leave" => row'[r] = "running",
             row'[r] = "running" => pc'[r] # "leave",
             StepsClosed(r)', LoopPosition(r)'
      PROVE  RunInv(q)'
  <2>1. Up /\ remover[r] = "no"
    BY <1>3, Actor
  <2>2. CASE q # r
    BY <1>1, <1>3, <2>2, Frame
  <2>3. CASE q = r
    BY <1>3, <2>1, <2>3
    DEF RunInv, OwnedByApp, Registered, RowAtPlace, RemovesEnded, Up, Live
  <2> QED BY <2>2, <2>3
<1>4. CASE Register(r)
  <2>1. /\ pc[r] = "commit" /\ active' = active \union {r} /\ row' = row /\ step' = step
        /\ boot' = boot /\ at' = at /\ remover' = remover /\ pc'[r] = "loop"
        /\ \A o \in Runs : o # r => pc'[o] = pc[o]
    BY <1>4 DEF Register, disk, TypeInv, TypeOK
  <2>2. row[r] = "running" /\ ~\E p \in Instances : boot[p] = "runs"
    BY <2>1, Actor DEF Live
  <2>3. StepsClosed(r)' /\ LoopPosition(r)'
    BY <1>1, <2>1, <2>2 DEF RunInv, StepsClosed, LoopPosition
  <2> QED BY <1>3, <2>1, <2>2, <2>3 DEF Live
<1>12. CASE EnterStep(r)
  <2>1. /\ pc[r] = "loop" /\ active' = active /\ row' = row /\ step' = step /\ boot' = boot
        /\ at' = at /\ remover' = remover /\ pc'[r] = "begin"
        /\ \A o \in Runs : o # r => pc'[o] = pc[o]
    BY <1>12 DEF EnterStep, disk, TypeInv, TypeOK
  <2>2. row[r] = "running" /\ r \in active /\ ~\E p \in Instances : boot[p] = "runs"
    BY <2>1, Actor DEF Live
  <2>3. StepsClosed(r)' /\ LoopPosition(r)'
    BY <1>1, <2>1, <2>2 DEF RunInv, StepsClosed, LoopPosition
  <2> QED BY <1>3, <2>1, <2>2, <2>3 DEF Live
<1>5. CASE BeginStep(r)
  <2>1. /\ pc[r] = "begin" /\ active' = active /\ row' = row /\ boot' = boot /\ at' = at
        /\ remover' = remover /\ pc'[r] = "exec" /\ \A o \in Runs : o # r => pc'[o] = pc[o]
    BY <1>5 DEF BeginStep, TypeInv, TypeOK
  <2>2. row[r] = "running" /\ r \in active /\ ~\E p \in Instances : boot[p] = "runs"
    BY <2>1, Actor DEF Live
  <2>3. at[r] \in Steps /\ step[r][at[r]] = "pending"
    BY <1>1, <2>1 DEF RunInv, LoopPosition, Steps
  <2>4. /\ step'[r][at[r]] = "running"
        /\ \A j \in Steps : j # at[r] => step'[r][j] = step[r][j]
        /\ \A o \in Runs : o # r => step'[o] = step[o]
    <3>1. SetStep(r, at[r], "running") /\ "running" \in StepStatus
      BY <1>5 DEF BeginStep, StepStatus
    <3> QED BY <2>3, <3>1, SetStepEffect DEF TypeInv
  <2>5. StepsClosed(r)'
    BY <2>1, <2>2 DEF StepsClosed
  <2>6. LoopPosition(r)'
    BY <1>1, <2>1, <2>3, <2>4, NStepsAssumption DEF RunInv, LoopPosition, Steps
  <2> QED BY <1>3, <2>1, <2>2, <2>4, <2>5, <2>6 DEF Live
<1>6. CASE Sweep(r)
  <2>1. /\ pc[r] = "sweep" /\ active' = active /\ row' = row /\ boot' = boot /\ at' = at
        /\ remover' = remover /\ pc'[r] = "flush" /\ \A o \in Runs : o # r => pc'[o] = pc[o]
        /\ step' = [step EXCEPT ![r] = Move(r, {"pending"}, "skipped")]
    BY <1>6 DEF Sweep, TypeInv, TypeOK
  <2>2. row[r] = "running" /\ r \in active /\ ~\E p \in Instances : boot[p] = "runs"
    BY <2>1, Actor DEF Live
  <2>3. \A k \in Steps : step'[r][k] \notin Unfinished
    BY <1>1, <2>1 DEF RunInv, LoopPosition, Move, Unfinished, TypeInv, TypeOK
  <2>4. \A o \in Runs : o # r => step'[o] = step[o]
    BY <2>1 DEF TypeInv, TypeOK
  <2>5. StepsClosed(r)' /\ LoopPosition(r)'
    BY <2>1, <2>2, <2>3 DEF StepsClosed, LoopPosition
  <2> QED BY <1>3, <2>1, <2>2, <2>4, <2>5 DEF Live
<1>7. CASE Flush(r)
  <2>1. /\ pc[r] = "flush" /\ active' = active /\ step' = step /\ boot' = boot /\ at' = at
        /\ remover' = remover /\ pc'[r] = "leave" /\ \A o \in Runs : o # r => pc'[o] = pc[o]
    BY <1>7 DEF Flush, TypeInv, TypeOK
  <2>2. row[r] = "running" /\ r \in active /\ ~\E p \in Instances : boot[p] = "runs"
    BY <2>1, Actor DEF Live
  <2>3. row'[r] \in Final /\ \A o \in Runs : o # r => row'[o] = row[o]
    BY <1>7, <2>2 DEF Flush, SetRow, TypeInv, TypeOK
  <2>4. StepsClosed(r)' /\ LoopPosition(r)'
    BY <1>1, <2>1, <2>2 DEF RunInv, StepsClosed, LoopPosition
  <2> QED BY <1>3, <2>1, <2>2, <2>3, <2>4 DEF Live, Final
<1>8. CASE Panic(r)
  <2>1. /\ pc[r] \in {"loop", "begin", "sweep", "flush"} /\ active' = active /\ row' = row
        /\ step' = step /\ boot' = boot /\ at' = at /\ remover' = remover
        /\ pc'[r] = "rescue_steps" /\ \A o \in Runs : o # r => pc'[o] = pc[o]
    BY <1>8 DEF Panic, disk, TypeInv, TypeOK
  <2>2. row[r] = "running" /\ r \in active /\ ~\E p \in Instances : boot[p] = "runs"
    BY <2>1, Actor DEF Live
  <2>3. StepsClosed(r)' /\ LoopPosition(r)'
    BY <2>1, <2>2 DEF StepsClosed, LoopPosition
  <2> QED BY <1>3, <2>1, <2>2, <2>3 DEF Live
<1>9. CASE RescueSteps(r)
  <2>1. /\ pc[r] = "rescue_steps" /\ active' = active /\ row' = row /\ boot' = boot
        /\ at' = at /\ remover' = remover /\ pc'[r] = "rescue_row"
        /\ \A o \in Runs : o # r => pc'[o] = pc[o]
        /\ step' = [step EXCEPT ![r] = Move(r, Unfinished, "failed")]
    BY <1>9 DEF RescueSteps, TypeInv, TypeOK
  <2>2. row[r] = "running" /\ r \in active /\ ~\E p \in Instances : boot[p] = "runs"
    BY <2>1, Actor DEF Live
  <2>3. \A k \in Steps : step'[r][k] \notin Unfinished
    BY <2>1 DEF Move, Unfinished, TypeInv, TypeOK
  <2>4. \A o \in Runs : o # r => step'[o] = step[o]
    BY <2>1 DEF TypeInv, TypeOK
  <2>5. StepsClosed(r)' /\ LoopPosition(r)'
    BY <2>1, <2>2, <2>3 DEF StepsClosed, LoopPosition
  <2> QED BY <1>3, <2>1, <2>2, <2>4, <2>5 DEF Live
<1>10. CASE RescueRow(r)
  <2>1. /\ pc[r] = "rescue_row" /\ active' = active /\ step' = step /\ boot' = boot
        /\ at' = at /\ remover' = remover /\ pc'[r] = "leave"
        /\ \A o \in Runs : o # r => pc'[o] = pc[o]
    BY <1>10 DEF RescueRow, TypeInv, TypeOK
  <2>2. row[r] = "running" /\ r \in active /\ ~\E p \in Instances : boot[p] = "runs"
    BY <2>1, Actor DEF Live
  <2>3. row'[r] = "failed" /\ \A o \in Runs : o # r => row'[o] = row[o]
    BY <1>10, <2>2 DEF RescueRow, TypeInv, TypeOK
  <2>4. StepsClosed(r)' /\ LoopPosition(r)'
    BY <1>1, <2>1, <2>2 DEF RunInv, StepsClosed, LoopPosition
  <2> QED BY <1>3, <2>1, <2>2, <2>3, <2>4 DEF Live
<1>11. CASE Leave(r)
  <2>1. /\ pc[r] = "leave" /\ active' = active \ {r} /\ row' = row /\ step' = step
        /\ boot' = boot /\ at' = at /\ remover' = remover /\ pc'[r] = "over"
        /\ \A o \in Runs : o # r => pc'[o] = pc[o]
    BY <1>11 DEF Leave, disk, TypeInv, TypeOK
  <2>2. remover[r] = "no" /\ ~\E p \in Instances : boot[p] = "runs"
    BY <2>1, Actor DEF Live
  <2>3. CASE q # r
    BY <1>1, <2>1, <2>3, Frame
  <2>4. CASE q = r
    BY <1>1, <2>1, <2>2, <2>4
    DEF RunInv, OwnedByApp, Registered, RowAtPlace, RemovesEnded, StepsClosed,
        LoopPosition, Live
  <2> QED BY <2>3, <2>4
<1> QED BY <1>2, <1>4, <1>5, <1>6, <1>7, <1>8, <1>9, <1>10, <1>11, <1>12 DEF Execute

\* The calls of the window.
LEMMA UserLife ==
    ASSUME TypeInv, LifeInv, OneProcess, NoEarlyRemove, NEW r \in Runs, User(r),
           NEW q \in Runs
    PROVE  RunInv(q)'
<1>1. RunInv(q) /\ RunInv(r)
  BY DEF LifeInv
<1>2. ASSUME NEW start \in Steps, Insert(r, start) PROVE RunInv(q)'
  <2>1. /\ Up /\ pc[r] = "none" /\ row'[r] = "running" /\ pc'[r] = "commit" /\ at'[r] = start
        /\ boot' = boot /\ active' = active /\ remover' = remover
        /\ \A o \in Runs : o # r => /\ row'[o] = row[o] /\ step'[o] = step[o]
                                    /\ pc'[o] = pc[o] /\ at'[o] = at[o]
    BY <1>2 DEF Insert, TypeInv, TypeOK
  <2>2. \A k \in Steps : step'[r][k] = IF k < start THEN "skipped" ELSE "pending"
    BY <1>2 DEF Insert, TypeInv, TypeOK
  <2>3. CASE q # r
    BY <1>1, <2>1, <2>3, Frame
  <2>4. CASE q = r
    <3>1. remover[r] = "no" /\ r \notin active /\ ~\E p \in Instances : boot[p] = "runs"
      BY <1>1, <2>1, NoRecovery DEF RunInv, Registered, RemovesEnded, Live
    <3>2. (OwnedByApp(r) /\ Registered(r) /\ RowAtPlace(r) /\ RemovesEnded(r) /\ StepsClosed(r))'
      BY <2>1, <3>1
      DEF OwnedByApp, Registered, RowAtPlace, RemovesEnded, StepsClosed, Up, Live
    <3>3. LoopPosition(r)'
      BY <2>1, <2>2, NStepsAssumption DEF LoopPosition, Unfinished, Steps
    <3> QED BY <2>4, <3>2, <3>3 DEF RunInv
  <2> QED BY <2>3, <2>4
<1>3. CASE StopRun(r)
  BY <1>1, <1>3, Frame DEF StopRun, disk, executor
<1>4. CASE RemoveCheck(r)
  <2>1. /\ Up /\ row[r] # "none" /\ r \notin active /\ pc[r] # "commit"
        /\ remover'[r] = "steps" /\ \A o \in Runs : o # r => remover'[o] = remover[o]
        /\ UNCHANGED <<boot, row, step, active, pc, at>>
    BY <1>4 DEF RemoveCheck, Removable, NoEarlyRemove, disk, executor, TypeInv, TypeOK
  <2>2. CASE q # r
    BY <1>1, <2>1, <2>2, Frame
  <2>3. CASE q = r
    BY <1>1, <2>1, <2>3
    DEF RunInv, OwnedByApp, Registered, RowAtPlace, RemovesEnded, StepsClosed,
        LoopPosition, Up, Live
  <2> QED BY <2>2, <2>3
<1>5. CASE RemoveSteps(r)
  <2>1. /\ remover[r] = "steps" /\ remover'[r] = "row"
        /\ \A o \in Runs : o # r => remover'[o] = remover[o] /\ step'[o] = step[o]
        /\ \A k \in Steps : step'[r][k] = "none"
        /\ UNCHANGED <<boot, row, active, pc, at>>
    BY <1>5 DEF RemoveSteps, executor, TypeInv, TypeOK
  <2>2. CASE q # r
    BY <1>1, <2>1, <2>2, Frame
  <2>3. CASE q = r
    BY <1>1, <2>1, <2>3
    DEF RunInv, OwnedByApp, Registered, RowAtPlace, RemovesEnded, StepsClosed,
        LoopPosition, Up, Live, Unfinished
  <2> QED BY <2>2, <2>3
<1>6. CASE RemoveRow(r)
  <2>1. /\ remover[r] = "row" /\ remover'[r] = "no"
        /\ \A o \in Runs : o # r => remover'[o] = remover[o] /\ row'[o] = row[o]
        /\ row'[r] \in {row[r], "none"}
        /\ UNCHANGED <<boot, step, active, pc, at>>
    BY <1>6 DEF RemoveRow, executor, TypeInv, TypeOK
  <2>2. CASE q # r
    BY <1>1, <2>1, <2>2, Frame
  <2>3. CASE q = r
    BY <1>1, <2>1, <2>3
    DEF RunInv, OwnedByApp, Registered, RowAtPlace, RemovesEnded, StepsClosed,
        LoopPosition, Up, Live, Unfinished
  <2> QED BY <2>2, <2>3
<1>7. CASE PollStatus(r) \/ PollSteps(r) \/ PollLog(r)
  BY <1>1, <1>7, Frame DEF PollStatus, PollSteps, PollLog, disk, executor
<1> QED BY <1>2, <1>3, <1>4, <1>5, <1>6, <1>7 DEF User

LEMMA StepLife ==
    ASSUME TypeInv, LifeInv, OneProcess, NoEarlyRemove, [Next]_vars
    PROVE  LifeInv'
<1> SUFFICES ASSUME NEW q \in Runs PROVE RunInv(q)'
  BY DEF LifeInv
<1>1. CASE UNCHANGED vars
  BY <1>1, Frame DEF LifeInv, vars
<1>2. ASSUME NEW p \in Instances, Process(p) PROVE RunInv(q)'
  BY <1>2, ProcessLife DEF TypeInv
<1>3. ASSUME NEW r \in Runs, NEW err \in BOOLEAN, EndStep(r, err) PROVE RunInv(q)'
  <2>1. PICK s \in {"success", "failed", "skipped"} : SetStep(r, at[r], s)
    BY <1>3 DEF EndStep
  <2> QED BY <1>3, <2>1, PassLife DEF EndStep
<1>4. ASSUME NEW r \in Runs, Execute(r) \/ Panic(r) PROVE RunInv(q)'
  BY <1>4, ExecuteLife
<1>5. ASSUME NEW r \in Runs, User(r) PROVE RunInv(q)'
  BY <1>5, UserLife
<1> QED BY <1>1, <1>2, <1>3, <1>4, <1>5 DEF Next, StepReturns, Interrupt

\* In every reachable state the goroutines, rows, registrations and removals
\* of all runs agree.
THEOREM LifeIsCoherent ==
    ASSUME OneProcess, NoEarlyRemove
    PROVE  Spec => []LifeInv
<1>1. Init => TypeInv /\ LifeInv
  BY InitTyped, InitLife
<1>2. TypeInv /\ LifeInv /\ [Next]_vars => (TypeInv /\ LifeInv)'
  BY StepTyped, StepLife
<1> QED BY <1>1, <1>2, PTL DEF Spec

\* After the recovery of start-up, a row says running only while a goroutine
\* of this process is still to write its final status.
THEOREM NoOrphanLeft ==
    ASSUME OneProcess, NoEarlyRemove
    PROVE  Spec => []NoOrphans
<1>1. LifeInv => NoOrphans
  BY DEF LifeInv, RunInv, RowAtPlace, NoOrphans
<1> QED BY <1>1, LifeIsCoherent, PTL

-----------------------------------------------------------------------------
(* The rows implement RunLifecycle: what one step can do to the record of   *)
(* one run, then that this is what RunLifecycle allows.                     *)

\* The record of an existing run changes only as far as RunLifecycle allows.
Moves(q) ==
    /\ \/ row'[q] = row[q]
       \/ row[q] = "running" /\ row'[q] \in Final
       \/ row[q] \in Final /\ row'[q] = "none"
    /\ \A k \in Steps : step'[q][k] \in Unfinished => step[q][k] \in Unfinished
    /\ pc'[q] = "none" <=> pc[q] = "none"

\* The record of the run appears.
Appears(q) ==
    /\ pc[q] = "none" /\ pc'[q] # "none"
    /\ row'[q] = "running"
    /\ \E k \in Steps : step'[q][k] \in Unfinished

LEMMA ProcessMoves ==
    ASSUME TypeOK, NEW p \in Instances, Process(p), NEW q \in Runs
    PROVE  Moves(q)
<1>1. CASE Launch(p)
  BY <1>1 DEF Launch, disk, executor, Moves
<1>2. CASE RecoverSteps(p)
  BY <1>2 DEF RecoverSteps, executor, Moves, Orphaned, Move, Unfinished
<1>3. CASE RecoverRuns(p)
  BY <1>3 DEF RecoverRuns, executor, Moves, Orphaned, Final
<1>4. CASE Exit(p)
  <2>1. row' = row /\ step' = step
    BY <1>4 DEF Exit, disk
  <2>2. pc'[q] = "none" <=> pc[q] = "none"
    BY <1>4 DEF Exit, Live
  <2> QED BY <2>1, <2>2 DEF Moves
<1> QED BY <1>1, <1>2, <1>3, <1>4 DEF Process

\* A step that is passed over or has ended is not unfinished.
LEMMA PassMoves ==
    ASSUME TypeInv, LifeInv, NEW r \in Runs, pc[r] \in {"loop", "exec"},
           NEW s \in {"success", "failed", "skipped"}, SetStep(r, at[r], s), Advance(r),
           row' = row, NEW q \in Runs
    PROVE  Moves(q)
<1>1. at[r] \in Steps
  BY DEF LifeInv, RunInv, LoopPosition
<1>2. pc'[r] \in {"sweep", "loop"} /\ \A o \in Runs : o # r => pc'[o] = pc[o]
  BY <1>1, AdvanceEffect
<1>3. \A k \in Steps : step'[q][k] \in Unfinished => step[q][k] \in Unfinished
  BY <1>1 DEF SetStep, TypeInv, TypeOK, Unfinished
<1> QED BY <1>2, <1>3 DEF Moves

LEMMA ExecuteMoves ==
    ASSUME TypeInv, LifeInv, OneProcess, NEW r \in Runs, Execute(r) \/ Panic(r),
           NEW q \in Runs
    PROVE  Moves(q)
<1>1. CASE Register(r)
  BY <1>1 DEF Register, disk, Moves, TypeInv, TypeOK
<1>2. CASE SkipStep(r)
  BY <1>2, PassMoves DEF SkipStep
<1>10. CASE EnterStep(r)
  BY <1>10 DEF EnterStep, disk, Moves, TypeInv, TypeOK
<1>3. CASE BeginStep(r)
  <2>1. pc[r] = "begin" /\ at[r] \in Steps /\ step[r][at[r]] = "pending"
    BY <1>3 DEF BeginStep, LifeInv, RunInv, LoopPosition, Steps
  <2>2. \A k \in Steps : step'[q][k] \in Unfinished => step[q][k] \in Unfinished
    BY <1>3, <2>1 DEF BeginStep, SetStep, TypeInv, TypeOK, Unfinished
  <2> QED BY <1>3, <2>1, <2>2 DEF BeginStep, Moves, TypeInv, TypeOK
<1>4. CASE Sweep(r)
  BY <1>4 DEF Sweep, Move, Moves, Unfinished, TypeInv, TypeOK
<1>5. CASE Flush(r)
  <2>1. row'[q] = row[q] \/ (row[q] = "running" /\ row'[q] \in Final)
    <3>1. row[r] = "running"
      BY <1>5, Actor DEF Flush, Live
    <3> QED BY <1>5, <3>1 DEF Flush, SetRow, TypeInv, TypeOK
  <2> QED BY <1>5, <2>1 DEF Flush, Moves, TypeInv, TypeOK
<1>6. CASE RescueSteps(r)
  BY <1>6 DEF RescueSteps, Move, Moves, Unfinished, TypeInv, TypeOK
<1>7. CASE RescueRow(r)
  BY <1>7 DEF RescueRow, Moves, Final, TypeInv, TypeOK
<1>8. CASE Leave(r)
  BY <1>8 DEF Leave, disk, Moves, TypeInv, TypeOK
<1>9. CASE Panic(r)
  BY <1>9 DEF Panic, disk, Moves, TypeInv, TypeOK
<1> QED BY <1>1, <1>2, <1>3, <1>4, <1>5, <1>6, <1>7, <1>8, <1>9, <1>10 DEF Execute

LEMMA UserMoves ==
    ASSUME TypeInv, LifeInv, NEW r \in Runs, User(r), NEW q \in Runs
    PROVE  Moves(q) \/ Appears(q)
<1>1. ASSUME NEW start \in Steps, Insert(r, start) PROVE Moves(q) \/ Appears(q)
  <2>1. CASE q = r
    <3>1. step'[q][start] = "pending"
      BY <1>1, <2>1, NStepsAssumption DEF Insert, TypeInv, TypeOK, Steps
    <3> QED BY <1>1, <2>1, <3>1 DEF Insert, Appears, Unfinished, TypeInv, TypeOK
  <2>2. CASE q # r
    BY <1>1, <2>2 DEF Insert, Moves, TypeInv, TypeOK
  <2> QED BY <2>1, <2>2
<1>2. CASE StopRun(r) \/ RemoveCheck(r)
  BY <1>2 DEF StopRun, RemoveCheck, disk, executor, Moves
<1>3. CASE RemoveSteps(r)
  BY <1>3 DEF RemoveSteps, executor, Moves, Unfinished, TypeInv, TypeOK
<1>4. CASE RemoveRow(r)
  <2>1. row[r] # "running"
    BY <1>4 DEF RemoveRow, LifeInv, RunInv, RemovesEnded
  <2>2. row[r] \in Final \/ row[r] = "none"
    BY <2>1 DEF TypeInv, TypeOK, RunStatus
  <2> QED BY <1>4, <2>2 DEF RemoveRow, executor, Moves, TypeInv, TypeOK
<1>5. CASE PollStatus(r) \/ PollSteps(r) \/ PollLog(r)
  BY <1>5 DEF PollStatus, PollSteps, PollLog, disk, executor, Moves
<1> QED BY <1>1, <1>2, <1>3, <1>4, <1>5 DEF User

LEMMA StepMoves ==
    ASSUME TypeInv, LifeInv, OneProcess, [Next]_vars, NEW q \in Runs
    PROVE  Moves(q) \/ Appears(q)
<1>1. CASE UNCHANGED vars
  BY <1>1 DEF vars, Moves
<1>2. ASSUME NEW p \in Instances, Process(p) PROVE Moves(q)
  BY <1>2, ProcessMoves DEF TypeInv
<1>3. ASSUME NEW r \in Runs, NEW err \in BOOLEAN, EndStep(r, err) PROVE Moves(q)
  <2>1. PICK s \in {"success", "failed", "skipped"} : SetStep(r, at[r], s)
    BY <1>3 DEF EndStep
  <2> QED BY <1>3, <2>1, PassMoves DEF EndStep
<1>4. ASSUME NEW r \in Runs, Execute(r) \/ Panic(r) PROVE Moves(q)
  BY <1>4, ExecuteMoves
<1>5. ASSUME NEW r \in Runs, User(r) PROVE Moves(q) \/ Appears(q)
  BY <1>5, UserMoves
<1> QED BY <1>1, <1>2, <1>3, <1>4, <1>5 DEF Next, StepReturns, Interrupt

\* One step, seen through the refinement mapping.
LEMMA StepImplements ==
    ASSUME TypeInv, LifeInv, TypeInv', LifeInv', OneProcess, [Next]_vars
    PROVE  Lifecycle!Next
<1> SUFFICES ASSUME NEW q \in Runs
             PROVE  \/ Lifecycle!Begin(q) \/ Lifecycle!Work(q) \/ Lifecycle!End(q)
                    \/ Lifecycle!Remove(q) \/ Lifecycle!Rest(q)
  BY DEF Lifecycle!Next
<1>1. Moves(q) \/ Appears(q)
  BY StepMoves
<1>2. /\ row[q] # "running" => ~LiveSteps(q)
      /\ row[q] \in Final \/ row[q] = "running" => pc[q] # "none"
      /\ pc[q] = "none" => row[q] = "none"
  BY DEF LifeInv, RunInv, RowAtPlace, StepsClosed, LiveSteps, Final
<1>3. row'[q] # "running" => ~(\E k \in Steps : step'[q][k] \in Unfinished)
  BY DEF LifeInv, RunInv, StepsClosed
<1>4. CASE Appears(q)
  BY <1>2, <1>4 DEF Appears, Lifecycle!Begin, LiveSteps
<1>5. CASE Moves(q)
  <2>1. CASE row[q] = "running" /\ row'[q] = "running"
    BY <1>2, <1>5, <2>1 DEF Moves, Lifecycle!Work, LiveSteps
  <2>2. CASE row[q] = "running" /\ row'[q] \in Final
    BY <1>2, <1>3, <1>5, <2>2 DEF Moves, Lifecycle!End, Lifecycle!Final, Final, LiveSteps
  <2>3. CASE row[q] \in Final /\ row'[q] = "none"
    BY <1>2, <1>3, <1>5, <2>3 DEF Moves, Lifecycle!Remove, Lifecycle!Final, Final, LiveSteps
  <2>4. CASE row[q] # "running" /\ row'[q] = row[q]
    BY <1>2, <1>3, <1>5, <2>4 DEF Moves, Lifecycle!Rest, LiveSteps
  <2> QED BY <1>5, <2>1, <2>2, <2>3, <2>4 DEF Moves
<1> QED BY <1>1, <1>4, <1>5

\* The history of runs keeps the promises of RunLifecycle: a run appears
\* once, ends once with all its steps closed, and its final status never
\* changes, through crashes at every statement, recoveries, panics, stops
\* and removals.
THEOREM Implements ==
    ASSUME OneProcess, NoEarlyRemove
    PROVE  Spec => LifecycleSpec
<1>1. Init => Lifecycle!Init
  BY DEF Init, Lifecycle!Init, LiveSteps, Unfinished
<1>2. Init => TypeInv /\ LifeInv
  BY InitTyped, InitLife
<1>3. TypeInv /\ LifeInv /\ [Next]_vars => (TypeInv /\ LifeInv)'
  BY StepTyped, StepLife
<1>4. TypeInv /\ LifeInv /\ (TypeInv /\ LifeInv)' /\ [Next]_vars
         => [Lifecycle!Next]_<<row, [r \in Runs |-> LiveSteps(r)], {r \in Runs : pc[r] # "none"}>>
  BY StepImplements
<1> QED BY <1>1, <1>2, <1>3, <1>4, PTL DEF Spec, LifecycleSpec, Lifecycle!Spec

-----------------------------------------------------------------------------
(* Steps run in order.  The local variable stopped of executeRun stands for *)
(* a fact about the rows: while it is false, every failed step behind the   *)
(* loop has on_failure "continue".  And a goroutine that set a step running *)
(* after a stop finds its context cancelled when it is back in the loop.    *)

Tolerated(r) ==
    /\ pc[r] \in {"commit", "loop", "begin", "exec"} /\ ~stopped[r] =>
          \A j \in Steps : j < at[r] /\ step[r][j] = "failed" => OnFailure[r][j] = "continue"
    /\ pc[r] = "begin" => ~stopped[r]

OnceAfterStop(r) ==
    /\ pc[r] \in {"none", "begin"} => r \notin late
    /\ pc[r] \in {"commit", "loop", "exec"} /\ r \in late => r \in cancelled

Turn(r) == Tolerated(r) /\ OnceAfterStop(r)

FailureInv == \A r \in Runs : Turn(r)

LEMMA InitTolerated == Init => FailureInv
  BY DEF Init, FailureInv, Turn, Tolerated, OnceAfterStop

\* Only BeginStep sets a step to running.
NoStart(q) == \A k \in Steps : step'[q][k] = "running" => step[q][k] = "running"

LEMMA ProcessTolerated ==
    ASSUME TypeOK, LifeInv, FailureInv, OneProcess, NEW p \in Instances, Process(p),
           NEW q \in Runs
    PROVE  Turn(q)' /\ NoStart(q)
<1>1. boot[p] # "on" => pc[q] \notin Live
  BY DEF LifeInv, RunInv, OwnedByApp, OneProcess, Up
<1>2. CASE Launch(p)
  BY <1>2 DEF Launch, disk, executor, Turn, Tolerated, OnceAfterStop, NoStart, FailureInv
<1>3. CASE RecoverSteps(p)
  BY <1>1, <1>3 DEF RecoverSteps, executor, Orphaned, Move, Turn, Tolerated, OnceAfterStop,
     NoStart, Live, FailureInv
<1>4. CASE RecoverRuns(p)
  BY <1>4 DEF RecoverRuns, executor, Turn, Tolerated, OnceAfterStop, NoStart, FailureInv
<1>5. CASE Exit(p)
  <2>1. step' = step /\ at' = at /\ stopped' = stopped
    BY <1>5 DEF Exit, disk
  <2>3. late' = late
    BY <1>5 DEF Exit
  <2>2. pc'[q] \in {"none", "commit", "loop", "begin", "exec"} =>
          pc[q] = pc'[q] /\ (pc[q] = "none" \/ cancelled' = cancelled)
    BY <1>5 DEF Exit, Live
  <2> QED BY <2>1, <2>2, <2>3 DEF Turn, Tolerated, OnceAfterStop, NoStart, FailureInv
<1> QED BY <1>2, <1>3, <1>4, <1>5 DEF Process

\* The end of a step: a failure that is not tolerated sets stopped.
LEMMA EndStepTolerated ==
    ASSUME TypeInv, LifeInv, FailureInv, NEW r \in Runs, NEW err \in BOOLEAN,
           EndStep(r, err), NEW q \in Runs
    PROVE  Turn(q)' /\ NoStart(q)
<1>1. at[r] \in Steps /\ pc[r] = "exec" /\ step[r][at[r]] = "running"
  BY DEF EndStep, LifeInv, RunInv, LoopPosition, Steps
<1>2. /\ at'[r] = at[r] + 1 /\ \A o \in Runs : o # r => at'[o] = at[o] /\ pc'[o] = pc[o]
  BY <1>1, AdvanceEffect DEF EndStep
<1>3. /\ step'[r][at[r]] = IF err THEN "failed" ELSE "success"
      /\ \A j \in Steps : j # at[r] => step'[r][j] = step[r][j]
      /\ \A o \in Runs : o # r => step'[o] = step[o]
  BY <1>1 DEF EndStep, SetStep, TypeInv, TypeOK
<1>4. /\ ~stopped'[r] => ~stopped[r] /\ (err => OnFailure[r][at[r]] = "continue")
      /\ \A o \in Runs : o # r => stopped'[o] = stopped[o]
  BY DEF EndStep, TypeInv, TypeOK
<1>5. NoStart(q)
  BY <1>3 DEF NoStart
<1>8. pc'[r] \in {"loop", "sweep"} /\ UNCHANGED <<cancelled, late>>
  BY <1>1, AdvanceEffect DEF EndStep
<1>9. OnceAfterStop(q)'
  BY <1>1, <1>2, <1>8 DEF FailureInv, Turn, OnceAfterStop
<1>6. CASE q # r
  BY <1>2, <1>3, <1>4, <1>5, <1>6, <1>9 DEF Turn, Tolerated, FailureInv
<1>7. CASE q = r
  <2> SUFFICES ASSUME ~stopped'[r], NEW j \in Steps, j < at'[r], step'[r][j] = "failed"
               PROVE  OnFailure[r][j] = "continue"
    BY <1>5, <1>7, <1>8, <1>9 DEF Turn, Tolerated
  <2>1. CASE j = at[r]
    BY <1>3, <1>4, <2>1
  <2>2. CASE j # at[r]
    BY <1>1, <1>2, <1>3, <1>4, <2>2 DEF Turn, Tolerated, OnceAfterStop, FailureInv, Steps
  <2> QED BY <2>1, <2>2
<1> QED BY <1>6, <1>7

LEMMA ExecuteTolerated ==
    ASSUME TypeInv, LifeInv, FailureInv, NEW r \in Runs, Execute(r) \/ Panic(r),
           ~BeginStep(r), NEW q \in Runs
    PROVE  Turn(q)' /\ NoStart(q)
<1>1. Turn(q)
  BY DEF FailureInv
<1>2. CASE Register(r)
  BY <1>1, <1>2 DEF Register, disk, Turn, Tolerated, OnceAfterStop, NoStart, TypeInv, TypeOK
<1>3. CASE SkipStep(r)
  <2>1. at[r] \in Steps /\ pc[r] = "loop"
    BY <1>3 DEF SkipStep, LifeInv, RunInv, LoopPosition
  <2>2. at'[r] = at[r] + 1 /\ \A o \in Runs : o # r => at'[o] = at[o] /\ pc'[o] = pc[o]
    BY <1>3, <2>1, AdvanceEffect DEF SkipStep
  <2>3. /\ step'[r][at[r]] \in {"none", "skipped"}
        /\ \A j \in Steps : j # at[r] => step'[r][j] = step[r][j]
        /\ \A o \in Runs : o # r => step'[o] = step[o]
    BY <1>3, <2>1 DEF SkipStep, SetStep, TypeInv, TypeOK
  <2>4. UNCHANGED <<stopped, cancelled, late>> /\ pc'[r] \in {"loop", "sweep"}
    BY <1>3, <2>1, AdvanceEffect DEF SkipStep
  <2>5. NoStart(q)
    BY <2>3 DEF NoStart
  <2>6. Turn(q)'
    BY <1>1, <2>1, <2>2, <2>3, <2>4 DEF Turn, Tolerated, OnceAfterStop, Steps
  <2> QED BY <2>5, <2>6
<1>4. CASE Sweep(r)
  BY <1>1, <1>4 DEF Sweep, Move, Turn, Tolerated, OnceAfterStop, NoStart, TypeInv, TypeOK
<1>5. CASE Flush(r)
  BY <1>1, <1>5 DEF Flush, Turn, Tolerated, OnceAfterStop, NoStart, TypeInv, TypeOK
<1>6. CASE RescueSteps(r)
  BY <1>1, <1>6 DEF RescueSteps, Move, Turn, Tolerated, OnceAfterStop, NoStart, TypeInv, TypeOK
<1>7. CASE RescueRow(r)
  BY <1>1, <1>7 DEF RescueRow, Turn, Tolerated, OnceAfterStop, NoStart, TypeInv, TypeOK
<1>8. CASE Leave(r)
  BY <1>1, <1>8 DEF Leave, disk, Turn, Tolerated, OnceAfterStop, NoStart, TypeInv, TypeOK
<1>10. CASE EnterStep(r)
  BY <1>1, <1>10 DEF EnterStep, Halted, disk, Turn, Tolerated, OnceAfterStop, NoStart,
     TypeInv, TypeOK
<1>9. CASE Panic(r)
  BY <1>1, <1>9 DEF Panic, disk, Turn, Tolerated, OnceAfterStop, NoStart, TypeInv, TypeOK
<1> QED BY <1>2, <1>3, <1>4, <1>5, <1>6, <1>7, <1>8, <1>9, <1>10 DEF Execute

\* The start of a step, the only one that sets a row to running.
LEMMA BeginStepOrdered ==
    ASSUME TypeInv, LifeInv, FailureInv, NEW r \in Runs, BeginStep(r), NEW q \in Runs
    PROVE  /\ Turn(q)'
           /\ \A k \in Steps : step[q][k] # "running" /\ step'[q][k] = "running" =>
                 /\ q \in cancelled => q \notin late
                 /\ \A j \in 1 .. k - 1 :
                       /\ step[q][j] \notin Unfinished
                       /\ step[q][j] = "failed" => OnFailure[q][j] = "continue"
<1>1. /\ pc[r] = "begin" /\ r \notin late /\ ~stopped[r] /\ at[r] \in Steps
      /\ pc'[r] = "exec" /\ \A o \in Runs : o # r => pc'[o] = pc[o]
      /\ at' = at /\ stopped' = stopped
  BY DEF BeginStep, FailureInv, Turn, Tolerated, OnceAfterStop, LifeInv, RunInv, LoopPosition,
         TypeInv, TypeOK
<1>2. /\ step'[r][at[r]] = "running"
      /\ \A j \in Steps : j # at[r] => step'[r][j] = step[r][j]
      /\ \A o \in Runs : o # r => step'[o] = step[o]
  <2>1. step[r][at[r]] = "pending"
    BY <1>1 DEF LifeInv, RunInv, LoopPosition, Steps
  <2> QED BY <1>1, <2>1 DEF BeginStep, SetStep, TypeInv, TypeOK
<1>3. \A j \in Steps : j < at[r] =>
         step[r][j] \notin Unfinished /\ (step[r][j] = "failed" => OnFailure[r][j] = "continue")
  BY <1>1 DEF LifeInv, RunInv, LoopPosition, FailureInv, Turn, Tolerated, OnceAfterStop
<1>4. Turn(q)'
  <2>1. Tolerated(q)'
    BY <1>1, <1>2 DEF FailureInv, Turn, Tolerated
  <2>2. OnceAfterStop(q)'
    BY <1>1 DEF BeginStep, FailureInv, Turn, OnceAfterStop
  <2> QED BY <2>1, <2>2 DEF Turn
<1>5. \A k \in Steps : step[q][k] # "running" /\ step'[q][k] = "running" => q = r /\ k = at[r]
  BY <1>2
<1>6. \A j \in 1 .. at[r] - 1 : j \in Steps /\ j < at[r]
  BY <1>1, NStepsAssumption DEF Steps
<1> QED BY <1>1, <1>3, <1>4, <1>5, <1>6

LEMMA UserTolerated ==
    ASSUME TypeInv, LifeInv, FailureInv, NEW r \in Runs, User(r), NEW q \in Runs
    PROVE  Turn(q)' /\ NoStart(q)
<1>1. Turn(q)
  BY DEF FailureInv
<1>2. ASSUME NEW start \in Steps, Insert(r, start) PROVE Turn(q)' /\ NoStart(q)
  BY <1>1, <1>2 DEF Insert, Turn, Tolerated, OnceAfterStop, NoStart, TypeInv, TypeOK
<1>3. CASE StopRun(r) \/ RemoveCheck(r)
  BY <1>1, <1>3 DEF StopRun, RemoveCheck, disk, executor, Turn, Tolerated, OnceAfterStop, NoStart
<1>4. CASE RemoveSteps(r)
  BY <1>1, <1>4 DEF RemoveSteps, executor, Turn, Tolerated, OnceAfterStop, NoStart, TypeInv, TypeOK
<1>5. CASE RemoveRow(r)
  BY <1>1, <1>5 DEF RemoveRow, executor, Turn, Tolerated, OnceAfterStop, NoStart
<1>6. CASE PollStatus(r) \/ PollSteps(r) \/ PollLog(r)
  BY <1>1, <1>6 DEF PollStatus, PollSteps, PollLog, disk, executor, Turn, Tolerated, OnceAfterStop, NoStart
<1> QED BY <1>2, <1>3, <1>4, <1>5, <1>6 DEF User

\* One step of the system starts a step of a workflow only in its turn.
InTurn ==
    \A r \in Runs : \A k \in Steps :
       step[r][k] # "running" /\ step'[r][k] = "running" =>
          /\ r \in cancelled => r \notin late
          /\ \A j \in 1 .. k - 1 :
                /\ step[r][j] \notin Unfinished
                /\ step[r][j] = "failed" => OnFailure[r][j] = "continue"

LEMMA StepInTurn ==
    ASSUME TypeInv, LifeInv, FailureInv, OneProcess, [Next]_vars
    PROVE  FailureInv' /\ InTurn
<1>1. CASE UNCHANGED vars
  BY <1>1 DEF vars, FailureInv, Turn, Tolerated, OnceAfterStop, InTurn
<1>2. CASE \A q \in Runs : Turn(q)' /\ NoStart(q)
  BY <1>2 DEF FailureInv, NoStart, InTurn
<1>3. ASSUME NEW r \in Runs, BeginStep(r) PROVE FailureInv' /\ InTurn
  BY <1>3, BeginStepOrdered DEF FailureInv, InTurn
<1>4. ASSUME NEW p \in Instances, Process(p) PROVE \A q \in Runs : Turn(q)' /\ NoStart(q)
  BY <1>4, ProcessTolerated DEF TypeInv
<1>5. ASSUME NEW r \in Runs, NEW err \in BOOLEAN, EndStep(r, err)
      PROVE  \A q \in Runs : Turn(q)' /\ NoStart(q)
  BY <1>5, EndStepTolerated
<1>6. ASSUME NEW r \in Runs, Execute(r) \/ Panic(r), ~BeginStep(r)
      PROVE  \A q \in Runs : Turn(q)' /\ NoStart(q)
  BY <1>6, ExecuteTolerated
<1>7. ASSUME NEW r \in Runs, User(r) PROVE \A q \in Runs : Turn(q)' /\ NoStart(q)
  BY <1>7, UserTolerated
<1> QED BY <1>1, <1>2, <1>3, <1>4, <1>5, <1>6, <1>7 DEF Next, StepReturns, Interrupt

\* A step of a run starts only when every earlier step has ended, none of
\* them with a failure that stops the run.  After the user has stopped it at
\* most one does, the one whose check of the context came before the stop.
THEOREM StepsRunInOrder ==
    ASSUME OneProcess, NoEarlyRemove
    PROVE  Spec => StepsInOrder
<1>1. Init => TypeInv /\ LifeInv /\ FailureInv
  BY InitTyped, InitLife, InitTolerated
<1>2. TypeInv /\ LifeInv /\ FailureInv /\ [Next]_vars => (TypeInv /\ LifeInv /\ FailureInv)'
  BY StepTyped, StepLife, StepInTurn
<1>3. TypeInv /\ LifeInv /\ FailureInv /\ [Next]_vars => InTurn
  BY StepInTurn
<1>4. TypeInv /\ LifeInv /\ FailureInv /\ [Next]_vars => [InTurn]_vars
  BY <1>3
<1> QED BY <1>1, <1>2, <1>4, PTL DEF Spec, StepsInOrder, InTurn

-----------------------------------------------------------------------------
(* The verdict on a run.  The local variable outcome of executeRun stands   *)
(* for a fact about the rows, from the first step until Flush writes it.    *)

NoFailure(r) == \A k \in Steps : step[r][k] # "failed"

\* Some step of the run failed and all later ones are in after.
StoppedAt(r, after) ==
    \E k \in Steps :
       step[r][k] = "failed" /\ \A j \in Steps : j > k => step[r][j] \in after

InWork == {"commit", "loop", "begin", "exec", "sweep", "flush"}

\* Outcome "success" means that no step has failed, and outcome "stopped" that one
\* has, that the loop runs no other and that none ran after it.  The row of an
\* ended run says the same; a removal takes all step rows at once.
Verdict(r) ==
    /\ pc[r] \in {"none", "commit"} => outcome[r] = "success"
    /\ pc[r] \in InWork =>
          /\ outcome[r] = "success" => NoFailure(r)
          /\ outcome[r] = "stopped" =>
                stopped[r] /\ pc[r] \notin {"begin", "exec"} /\ StoppedAt(r, {"pending", "skipped"})
    /\ row[r] = "success" => NoFailure(r)
    /\ row[r] = "stopped" =>
          (\A k \in Steps : step[r][k] = "none") \/ StoppedAt(r, {"skipped"})

VerdictInv == \A r \in Runs : Verdict(r)

\* A run whose rows and local variables a step leaves alone; its goroutine may die.
LEMMA VerdictFrame ==
    ASSUME NEW q \in Runs, Verdict(q), row'[q] = row[q], step'[q] = step[q],
           outcome'[q] = outcome[q], stopped'[q] = stopped[q],
           pc'[q] = pc[q] \/ pc'[q] \notin InWork \union {"none"}
    PROVE  Verdict(q)'
  BY DEF Verdict, NoFailure, StoppedAt, InWork

LEMMA ProcessVerdict ==
    ASSUME TypeOK, LifeInv, VerdictInv, OneProcess, NEW p \in Instances, Process(p),
           NEW q \in Runs
    PROVE  Verdict(q)'
<1>1. Verdict(q) /\ RunInv(q)
  BY DEF VerdictInv, LifeInv
<1>2. CASE Launch(p) \/ Exit(p)
  <2>1. UNCHANGED <<row, step, outcome, stopped>>
    BY <1>2 DEF Launch, Exit, disk, executor
  <2>2. pc'[q] = pc[q] \/ pc'[q] = "dead"
    BY <1>2 DEF Launch, Exit, executor
  <2> QED BY <1>1, <2>1, <2>2, VerdictFrame DEF InWork
<1>3. CASE RecoverSteps(p)
  <2>1. pc[q] \notin Live
    BY <1>1, <1>3 DEF RecoverSteps, RunInv, OwnedByApp, OneProcess, Up
  <2>2. row' = row /\ pc' = pc /\ outcome' = outcome
    BY <1>3 DEF RecoverSteps, executor
  <2>3. row[q] # "running" => step'[q] = step[q]
    BY <1>3 DEF RecoverSteps, Orphaned
  <2> QED BY <1>1, <2>1, <2>2, <2>3
      DEF Verdict, NoFailure, StoppedAt, InWork, Live
<1>4. CASE RecoverRuns(p)
  <2>1. UNCHANGED <<step, pc, outcome, stopped>> /\ row'[q] \in {row[q], "failed"}
    BY <1>4 DEF RecoverRuns, executor
  <2> QED BY <1>1, <2>1 DEF Verdict, NoFailure, StoppedAt
<1> QED BY <1>2, <1>3, <1>4 DEF Process

\* A step that is passed over leaves the verdict as it is.
LEMMA SkipVerdict ==
    ASSUME TypeInv, LifeInv, VerdictInv, OneProcess, NEW r \in Runs, SkipStep(r)
    PROVE  Verdict(r)'
<1>1. Verdict(r) /\ RunInv(r) /\ row[r] = "running" /\ pc[r] = "loop"
  BY Actor DEF VerdictInv, LifeInv, SkipStep, Live
<1>2. at[r] \in Steps /\ step[r][at[r]] = "pending"
  BY <1>1 DEF RunInv, LoopPosition, Steps
<1>3. pc'[r] \in {"loop", "sweep"}
  BY <1>2, AdvanceEffect DEF SkipStep
<1>4. /\ step'[r][at[r]] = "skipped"
      /\ \A j \in Steps : j # at[r] => step'[r][j] = step[r][j]
  BY <1>2, SetStepEffect DEF SkipStep, TypeInv, StepStatus
<1>5. UNCHANGED <<row, outcome, stopped>>
  BY DEF SkipStep
<1>6. NoFailure(r) => NoFailure(r)'
  BY <1>4 DEF NoFailure
<1>7. StoppedAt(r, {"pending", "skipped"}) => StoppedAt(r, {"pending", "skipped"})'
  BY <1>2, <1>4 DEF StoppedAt
<1> QED BY <1>1, <1>3, <1>5, <1>6, <1>7 DEF Verdict, InWork

\* A step is entered only while the loop is not stopped.
LEMMA EnterVerdict ==
    ASSUME TypeInv, VerdictInv, NEW r \in Runs, EnterStep(r)
    PROVE  Verdict(r)'
  BY DEF EnterStep, Halted, disk, VerdictInv, Verdict, NoFailure, StoppedAt, InWork,
         TypeInv, TypeOK

\* A step begins only while the outcome is not "stopped".
LEMMA BeginVerdict ==
    ASSUME TypeInv, LifeInv, VerdictInv, OneProcess, NEW r \in Runs, BeginStep(r)
    PROVE  Verdict(r)'
<1>1. Verdict(r) /\ RunInv(r) /\ row[r] = "running" /\ pc[r] = "begin"
  BY Actor DEF VerdictInv, LifeInv, BeginStep, Live
<1>2. at[r] \in Steps /\ step[r][at[r]] = "pending"
  BY <1>1 DEF RunInv, LoopPosition, Steps
<1>3. /\ step'[r][at[r]] = "running"
      /\ \A j \in Steps : j # at[r] => step'[r][j] = step[r][j]
  BY <1>2, SetStepEffect DEF BeginStep, TypeInv, StepStatus
<1>4. UNCHANGED <<row, outcome, stopped>> /\ pc'[r] = "exec"
  BY DEF BeginStep, TypeInv, TypeOK
<1>5. NoFailure(r) => NoFailure(r)'
  BY <1>3 DEF NoFailure
<1> QED BY <1>1, <1>4, <1>5 DEF Verdict, InWork

\* The end of a step decides: a failure ends success, and the failure of a cancelled
\* run leaves only pending steps behind it.
LEMMA EndVerdict ==
    ASSUME TypeInv, LifeInv, VerdictInv, OneProcess, NEW r \in Runs,
           NEW err \in BOOLEAN, EndStep(r, err)
    PROVE  Verdict(r)'
<1>1. Verdict(r) /\ RunInv(r) /\ row[r] = "running" /\ pc[r] = "exec"
  BY Actor DEF VerdictInv, LifeInv, EndStep, Live
<1>2. /\ at[r] \in Steps /\ step[r][at[r]] = "running"
      /\ \A j \in Steps : j > at[r] => step[r][j] = "pending"
  BY <1>1 DEF RunInv, LoopPosition
<1>3. pc'[r] \in {"loop", "sweep"} /\ row' = row
  BY <1>2, AdvanceEffect DEF EndStep
<1>4. /\ step'[r][at[r]] = IF err THEN "failed" ELSE "success"
      /\ \A j \in Steps : j # at[r] => step'[r][j] = step[r][j]
  BY <1>2, SetStepEffect DEF EndStep, TypeInv, StepStatus
<1>5. outcome'[r] = Outcome(r, err)
  BY DEF EndStep, TypeInv, TypeOK
<1>6. err /\ r \in cancelled => stopped'[r]
  BY DEF EndStep, TypeInv, TypeOK
<1>7. outcome[r] # "stopped"
  BY <1>1 DEF Verdict, InWork
<1>8. CASE ~err
  <2>1. outcome'[r] = outcome[r]
    BY <1>5, <1>8 DEF Outcome
  <2>2. NoFailure(r) => NoFailure(r)'
    BY <1>4, <1>8 DEF NoFailure
  <2> QED BY <1>1, <1>3, <1>7, <2>1, <2>2 DEF Verdict, InWork
<1>9. CASE err /\ r \in cancelled
  <2>1. outcome'[r] = "stopped"
    BY <1>5, <1>9 DEF Outcome
  <2>2. \A j \in Steps : j > at[r] => step'[r][j] = "pending"
    BY <1>2, <1>4, NStepsAssumption DEF Steps
  <2>3. StoppedAt(r, {"pending", "skipped"})'
    BY <1>2, <1>4, <1>9, <2>2 DEF StoppedAt
  <2> QED BY <1>1, <1>3, <1>6, <1>9, <2>1, <2>3 DEF Verdict, InWork
<1>10. CASE err /\ r \notin cancelled
  <2>1. outcome'[r] = "failed"
    BY <1>5, <1>10 DEF Outcome
  <2> QED BY <1>1, <1>3, <2>1 DEF Verdict, InWork
<1> QED BY <1>8, <1>9, <1>10

\* The steps of a goroutine that touch only its own run.
LEMMA OthersUntouched ==
    ASSUME TypeInv, LifeInv, OneProcess, NEW r \in Runs,
           Execute(r) \/ Panic(r) \/ StepReturns(r) \/ Interrupt(r),
           NEW q \in Runs, q # r
    PROVE  /\ row'[q] = row[q] /\ step'[q] = step[q] /\ pc'[q] = pc[q]
           /\ outcome'[q] = outcome[q] /\ stopped'[q] = stopped[q]
           /\ saved'[q] = saved[q] /\ buf'[q] = buf[q]
           /\ q \in panicked' <=> q \in panicked
<1> USE DEF TypeInv, TypeOK, disk
<1>1. CASE Register(r) \/ Leave(r) \/ Panic(r)
  BY <1>1 DEF Register, Leave, Panic
<1>2. CASE Sweep(r) \/ RescueSteps(r) \/ RescueRow(r)
  BY <1>2 DEF Sweep, RescueSteps, RescueRow
<1>3. CASE Flush(r)
  BY <1>3 DEF Flush, SetRow
<1>4. CASE SkipStep(r) \/ EnterStep(r) \/ BeginStep(r)
  BY <1>4 DEF SkipStep, EnterStep, BeginStep, SetStep, Advance
<1>5. ASSUME NEW err \in BOOLEAN, EndStep(r, err)
      PROVE  /\ row'[q] = row[q] /\ step'[q] = step[q] /\ pc'[q] = pc[q]
             /\ outcome'[q] = outcome[q] /\ stopped'[q] = stopped[q]
             /\ saved'[q] = saved[q] /\ buf'[q] = buf[q]
             /\ q \in panicked' <=> q \in panicked
  BY <1>5 DEF EndStep, SetStep, Advance
<1> QED BY <1>1, <1>2, <1>3, <1>4, <1>5 DEF Execute, StepReturns, Interrupt

LEMMA ExecuteVerdict ==
    ASSUME TypeInv, LifeInv, VerdictInv, OneProcess, NEW r \in Runs,
           Execute(r) \/ Panic(r), NEW q \in Runs
    PROVE  Verdict(q)'
<1>1. Verdict(q) /\ RunInv(q)
  BY DEF VerdictInv, LifeInv
<1>2. CASE q # r
  BY <1>1, <1>2, OthersUntouched, VerdictFrame
<1>3. CASE q = r /\ (Register(r) \/ Leave(r) \/ Panic(r))
  BY <1>1, <1>3 DEF Register, Leave, Panic, disk, Verdict, NoFailure, StoppedAt, InWork,
     TypeInv, TypeOK
<1>4. CASE q = r /\ Sweep(r)
  <2>1. /\ row[r] = "running" /\ pc[r] = "sweep" /\ pc'[r] = "flush"
        /\ UNCHANGED <<row, outcome, stopped>>
    BY <1>4, Actor DEF Sweep, Live, TypeInv, TypeOK
  <2>2. \A k \in Steps :
           step'[r][k] = IF step[r][k] = "pending" THEN "skipped" ELSE step[r][k]
    BY <1>4 DEF Sweep, Move, TypeInv, TypeOK
  <2>3. NoFailure(r) => NoFailure(r)'
    BY <2>2 DEF NoFailure
  <2>4. StoppedAt(r, {"pending", "skipped"}) => StoppedAt(r, {"pending", "skipped"})'
    BY <2>2 DEF StoppedAt
  <2> QED BY <1>1, <1>4, <2>1, <2>3, <2>4 DEF Verdict, InWork
<1>5. CASE q = r /\ Flush(r)
  <2>1. /\ row[r] = "running" /\ pc[r] = "flush" /\ pc'[r] = "leave"
        /\ UNCHANGED <<step, outcome, stopped>>
    BY <1>5, Actor DEF Flush, Live, TypeInv, TypeOK
  <2>2. row'[r] = outcome[r]
    BY <1>5, <2>1 DEF Flush, SetRow, TypeInv, TypeOK
  <2>3. \A k \in Steps : step[r][k] # "pending"
    BY <1>1, <1>5, <2>1 DEF RunInv, StepsClosed, Unfinished
  <2>4. StoppedAt(r, {"pending", "skipped"}) => StoppedAt(r, {"skipped"})'
    BY <2>1, <2>3 DEF StoppedAt
  <2> QED BY <1>1, <1>5, <2>1, <2>2, <2>4 DEF Verdict, NoFailure, InWork
<1>6. CASE q = r /\ RescueSteps(r)
  <2>1. row[r] = "running" /\ pc'[r] = "rescue_row" /\ row' = row
    BY <1>6, Actor DEF RescueSteps, Live, TypeInv, TypeOK
  <2> QED BY <1>6, <2>1 DEF Verdict, InWork
<1>7. CASE q = r /\ RescueRow(r)
  <2>1. row[r] = "running" /\ row'[r] = "failed" /\ pc'[r] = "leave"
    BY <1>7, Actor DEF RescueRow, Live, TypeInv, TypeOK
  <2> QED BY <1>7, <2>1 DEF Verdict, InWork
<1> QED BY <1>2, <1>3, <1>4, <1>5, <1>6, <1>7, SkipVerdict, EnterVerdict,
           BeginVerdict DEF Execute

LEMMA UserVerdict ==
    ASSUME TypeInv, LifeInv, VerdictInv, NEW r \in Runs, User(r), NEW q \in Runs
    PROVE  Verdict(q)'
<1>1. Verdict(q) /\ RunInv(q)
  BY DEF VerdictInv, LifeInv
<1>2. ASSUME NEW start \in Steps, Insert(r, start) PROVE Verdict(q)'
  <2>1. CASE q # r
    BY <1>1, <1>2, <2>1, VerdictFrame DEF Insert, TypeInv, TypeOK
  <2>2. CASE q = r
    <3>1. /\ pc[r] = "none" /\ outcome' = outcome /\ pc'[r] = "commit"
          /\ row'[r] = "running" /\ \A k \in Steps : step'[r][k] # "failed"
      BY <1>2 DEF Insert, TypeInv, TypeOK
    <3> QED BY <1>1, <2>2, <3>1 DEF Verdict, NoFailure, InWork
  <2> QED BY <2>1, <2>2
<1>3. CASE StopRun(r) \/ RemoveCheck(r) \/ PollStatus(r) \/ PollSteps(r) \/ PollLog(r)
  <2>1. UNCHANGED <<row, step, outcome, stopped, pc>>
    BY <1>3 DEF StopRun, RemoveCheck, PollStatus, PollSteps, PollLog, disk, executor
  <2> QED BY <1>1, <2>1, VerdictFrame
<1>4. CASE RemoveSteps(r)
  <2>1. UNCHANGED <<row, outcome, stopped, pc>>
    BY <1>4 DEF RemoveSteps, executor
  <2>2. CASE q # r
    BY <1>1, <1>4, <2>1, <2>2, VerdictFrame DEF RemoveSteps, TypeInv, TypeOK
  <2>3. CASE q = r
    <3>1. \A k \in Steps : step'[r][k] = "none"
      BY <1>4 DEF RemoveSteps, TypeInv, TypeOK
    <3>2. pc[r] \notin InWork
      BY <1>1, <1>4, <2>3 DEF RemoveSteps, RunInv, RemovesEnded, Live, InWork
    <3> QED BY <1>1, <2>1, <2>3, <3>1, <3>2 DEF Verdict, NoFailure
  <2> QED BY <2>2, <2>3
<1>5. CASE RemoveRow(r)
  <2>1. UNCHANGED <<step, outcome, stopped, pc>> /\ row'[q] \in {row[q], "none"}
    BY <1>5 DEF RemoveRow, executor, TypeInv, TypeOK
  <2> QED BY <1>1, <2>1 DEF Verdict, NoFailure, StoppedAt
<1> QED BY <1>2, <1>3, <1>4, <1>5 DEF User

LEMMA StepVerdict ==
    ASSUME TypeInv, LifeInv, VerdictInv, OneProcess, [Next]_vars
    PROVE  VerdictInv'
<1> SUFFICES ASSUME NEW q \in Runs PROVE Verdict(q)'
  BY DEF VerdictInv
<1>1. CASE UNCHANGED vars
  BY <1>1, VerdictFrame DEF VerdictInv, vars
<1>2. ASSUME NEW p \in Instances, Process(p) PROVE Verdict(q)'
  BY <1>2, ProcessVerdict DEF TypeInv
<1>3. ASSUME NEW r \in Runs, StepReturns(r) \/ Interrupt(r) PROVE Verdict(q)'
  <2>1. CASE q = r
    BY <1>3, <2>1, EndVerdict DEF StepReturns, Interrupt
  <2>2. CASE q # r
    BY <1>3, <2>2, OthersUntouched, VerdictFrame DEF VerdictInv
  <2> QED BY <2>1, <2>2
<1>4. ASSUME NEW r \in Runs, Execute(r) \/ Panic(r) PROVE Verdict(q)'
  BY <1>4, ExecuteVerdict
<1>5. ASSUME NEW r \in Runs, User(r) PROVE Verdict(q)'
  BY <1>5, UserVerdict
<1> QED BY <1>1, <1>2, <1>3, <1>4, <1>5 DEF Next

\* The status of a run agrees with its steps, however its steps fail, panic or are
\* cancelled, and wherever the process dies: no step of a successful run failed,
\* and after the failed step of a stopped run none ran.
THEOREM StatusIsOfSteps ==
    ASSUME OneProcess, NoEarlyRemove
    PROVE  Spec => []StatusMatchesSteps
<1>1. Init => VerdictInv
  BY DEF Init, VerdictInv, Verdict, NoFailure, InWork
<1>2. TypeInv /\ LifeInv /\ [Next]_vars => (TypeInv /\ LifeInv)'
  BY StepTyped, StepLife
<1>3. TypeInv /\ LifeInv /\ VerdictInv /\ [Next]_vars => VerdictInv'
  BY StepVerdict
<1>4. VerdictInv => StatusMatchesSteps
  <2> SUFFICES ASSUME NEW r \in Runs, StoppedAt(r, {"skipped"})
               PROVE  \E k \in Steps : /\ step[r][k] = "failed"
                                       /\ \A j \in k + 1 .. NSteps : step[r][j] = "skipped"
    BY DEF VerdictInv, Verdict, NoFailure, StatusMatchesSteps
  <2>1. PICK k \in Steps :
           step[r][k] = "failed" /\ \A j \in Steps : j > k => step[r][j] = "skipped"
    BY DEF StoppedAt
  <2>2. \A j \in k + 1 .. NSteps : j \in Steps /\ j > k
    BY NStepsAssumption DEF Steps
  <2> QED BY <2>1, <2>2
<1> QED BY InitTyped, InitLife, <1>1, <1>2, <1>3, <1>4, PTL DEF Spec

-----------------------------------------------------------------------------
(* What the window is told.  PollRunLogs reads the status first; once that  *)
(* is final the steps are closed and the log no longer grows, so what it    *)
(* reads later is complete.                                                 *)

\* The log: the window has no more of it than was written, and after the final
\* statement of executeRun the column holds all of it.
LogKept(r) ==
    /\ saved[r] <= buf[r] /\ seen[r] <= buf[r]
    /\ pc[r] \in {"rescue_steps", "rescue_row"} => r \in panicked
    /\ pc[r] \in {"leave", "over"} /\ r \notin panicked /\ row[r] # "none" =>
          saved[r] = buf[r]

\* The poll: a reader that has found the run ended never sees a live step, and a
\* window that was told so has stopped reading with the whole log.
ReadsEnd(r) ==
    /\ reader[r].done =>
          pc[r] \in {"leave", "over"} /\ row[r] # "running" /\ ~reader[r].live
    /\ r \in told =>
          /\ reader[r].pc = "idle" /\ reader[r].done
          /\ row[r] # "none" /\ r \notin panicked => seen[r] = buf[r]

Polled(r) == LogKept(r) /\ ReadsEnd(r)
PollInv == \A r \in Runs : Polled(r)

\* A run of which a step changes nothing the poll depends on; a removed row is not
\* asked about again, and no row comes back.
LEMMA PollFrame ==
    ASSUME NEW q \in Runs, Polled(q), buf'[q] = buf[q], pc'[q] = pc[q],
           q \in panicked' <=> q \in panicked,
           row'[q] = row[q] \/ (row'[q] = "none" /\ pc[q] # "none"),
           saved'[q] = saved[q] \/ (saved'[q] = 0 /\ row'[q] = "none"),
           TypeOK, reader'[q] = reader[q], seen'[q] = seen[q], q \in told' <=> q \in told
    PROVE  Polled(q)'
<1>1. buf[q] \in Nat
  BY NStepsAssumption DEF TypeOK, MaxLog
<1> QED BY <1>1 DEF Polled, LogKept, ReadsEnd

LEMMA ProcessPolled ==
    ASSUME TypeOK, LifeInv, PollInv, OneProcess, NEW p \in Instances, Process(p),
           NEW q \in Runs
    PROVE  Polled(q)'
<1>1. Polled(q) /\ RunInv(q)
  BY DEF PollInv, LifeInv
<1>2. CASE Launch(p)
  BY <1>1, <1>2, PollFrame DEF Launch, disk, executor, window
<1>3. CASE RecoverSteps(p)
  BY <1>1, <1>3, PollFrame DEF RecoverSteps, executor, window
<1>4. CASE RecoverRuns(p)
  <2>1. /\ UNCHANGED <<pc, buf, panicked, saved, reader, seen, told>>
        /\ row'[q] = IF row[q] = "running" THEN "failed" ELSE row[q]
    BY <1>4 DEF RecoverRuns, Orphaned, executor, window
  <2>2. row[q] = "running" => pc[q] \notin {"leave", "over"}
    BY <1>1 DEF RunInv, RowAtPlace, Live
  <2> QED BY <1>1, <2>1, <2>2 DEF Polled, LogKept, ReadsEnd
<1>5. CASE Exit(p)
  <2>1. UNCHANGED <<row, saved, buf, panicked>>
    BY <1>5 DEF Exit, disk
  <2>2. CASE boot[p] = "on"
    <3>1. /\ told' = {} /\ seen'[q] = 0 /\ ~reader'[q].done
          /\ pc'[q] = IF pc[q] \in Live THEN "dead" ELSE pc[q]
      BY <1>5, <2>2 DEF Exit, AllQuiet, Quiet
    <3>2. buf[q] \in Nat
      BY NStepsAssumption DEF TypeOK, MaxLog
    <3> QED BY <1>1, <2>1, <3>1, <3>2 DEF Polled, LogKept, ReadsEnd, Live
  <2>3. CASE boot[p] # "on"
    BY <1>1, <1>5, <2>1, <2>3, PollFrame DEF Exit, window
  <2> QED BY <2>2, <2>3
<1> QED BY <1>2, <1>3, <1>4, <1>5 DEF Process

\* No step of a goroutine is a poll.
LEMMA WindowUntouched ==
    ASSUME NEW r \in Runs, Execute(r) \/ Panic(r) \/ StepReturns(r) \/ Interrupt(r)
    PROVE  UNCHANGED <<reader, seen, told>>
BY DEF Execute, StepReturns, Interrupt, EndStep, Register, SkipStep, EnterStep, BeginStep,
   Sweep, Flush, Panic, RescueSteps, RescueRow, Leave, window

\* While the run is at work nobody was told that it is done.
LEMMA NotDoneAtWork ==
    ASSUME NEW r \in Runs, Polled(r), pc[r] \notin {"leave", "over"}
    PROVE  ~reader[r].done /\ r \notin told
BY DEF Polled, ReadsEnd

\* A goroutine that goes on, in its loop or to its end, lets the log grow only.
LEMMA WorkPolled ==
    ASSUME TypeOK, NEW r \in Runs, Polled(r), pc[r] \notin {"leave", "over"},
           UNCHANGED <<reader, seen, told>>, saved'[r] = saved[r],
           buf'[r] \in Nat, buf'[r] >= buf[r],
           pc'[r] \notin {"leave", "over", "rescue_steps", "rescue_row"}
    PROVE  Polled(r)'
<1>1. saved[r] \in Nat /\ seen[r] \in Nat /\ buf[r] \in Nat
  BY NStepsAssumption DEF TypeOK, MaxLog
<1> QED BY <1>1, NotDoneAtWork DEF Polled, LogKept, ReadsEnd

LEMMA GoroutinePolled ==
    ASSUME TypeInv, LifeInv, PollInv, OneProcess, NEW r \in Runs,
           Execute(r) \/ Panic(r) \/ StepReturns(r) \/ Interrupt(r), NEW q \in Runs
    PROVE  Polled(q)'
<1>1. Polled(q) /\ RunInv(q) /\ UNCHANGED <<reader, seen, told>>
  BY WindowUntouched DEF PollInv, LifeInv
<1>2. CASE q # r
  BY <1>1, <1>2, OthersUntouched, PollFrame DEF TypeInv
<1>3. SUFFICES ASSUME q = r PROVE Polled(r)'
  BY <1>2
<1>4. buf[r] \in Nat /\ saved[r] \in Nat /\ seen[r] \in Nat
  BY NStepsAssumption DEF TypeInv, TypeOK, MaxLog
<1>5. CASE Register(r) \/ Sweep(r)
  <2>1. /\ pc[r] \notin {"leave", "over"} /\ UNCHANGED <<saved, buf>>
        /\ pc'[r] \in {"loop", "flush"}
    BY <1>5 DEF Register, Sweep, disk, TypeInv, TypeOK
  <2> QED BY <1>1, <1>3, <1>4, <2>1, WorkPolled DEF TypeInv
<1>6. CASE SkipStep(r)
  <2>1. /\ pc[r] = "loop" /\ UNCHANGED <<saved, buf>> /\ pc'[r] \in {"loop", "sweep"}
    BY <1>6 DEF SkipStep, Advance, TypeInv, TypeOK
  <2> QED BY <1>1, <1>3, <1>4, <2>1, WorkPolled DEF TypeInv
<1>7. CASE EnterStep(r) \/ BeginStep(r)
  <2>1. /\ pc[r] \notin {"leave", "over"} /\ saved' = saved /\ buf'[r] \in {buf[r], buf[r] + 1}
        /\ pc'[r] \in {"begin", "exec"}
    BY <1>7 DEF EnterStep, BeginStep, disk, TypeInv, TypeOK
  <2> QED BY <1>1, <1>3, <1>4, <2>1, WorkPolled DEF TypeInv
<1>8. ASSUME NEW err \in BOOLEAN, EndStep(r, err) PROVE Polled(r)'
  <2>1. /\ pc[r] = "exec" /\ saved' = saved /\ buf'[r] \in {buf[r], buf[r] + 1}
        /\ pc'[r] \in {"loop", "sweep"}
    BY <1>8 DEF EndStep, Advance, TypeInv, TypeOK
  <2> QED BY <1>1, <1>3, <1>4, <2>1, WorkPolled DEF TypeInv
<1>9. CASE Flush(r)
  <2>1. row[r] = "running" /\ pc[r] = "flush"
    BY <1>9, Actor DEF Flush, Live
  <2>2. /\ saved'[r] = buf[r] /\ row'[r] \in Final /\ pc'[r] = "leave"
        /\ UNCHANGED <<buf, panicked>>
    BY <1>9, <2>1 DEF Flush, SetRow, TypeInv, TypeOK
  <2> QED BY <1>1, <1>3, <1>4, <2>1, <2>2, NotDoneAtWork DEF Polled, LogKept, ReadsEnd
<1>10. CASE Panic(r) \/ RescueSteps(r) \/ RescueRow(r)
  <2>1. /\ pc[r] \notin {"leave", "over"} /\ UNCHANGED <<saved, buf>>
        /\ pc'[r] \in {"rescue_steps", "rescue_row", "leave"}
    BY <1>10 DEF Panic, RescueSteps, RescueRow, disk, TypeInv, TypeOK
  <2>2. r \in panicked'
    BY <1>1, <1>3, <1>10 DEF Panic, RescueSteps, RescueRow, Polled, LogKept
  <2> QED BY <1>1, <1>3, <2>1, <2>2, NotDoneAtWork DEF Polled, LogKept, ReadsEnd
<1>11. CASE Leave(r)
  <2>1. /\ pc[r] = "leave" /\ pc'[r] = "over" /\ UNCHANGED <<row, saved, buf, panicked>>
    BY <1>11 DEF Leave, disk, TypeInv, TypeOK
  <2> QED BY <1>1, <1>3, <2>1 DEF Polled, LogKept, ReadsEnd
<1> QED BY <1>5, <1>6, <1>7, <1>8, <1>9, <1>10, <1>11 DEF Execute, StepReturns, Interrupt

LEMMA UserPolled ==
    ASSUME TypeInv, LifeInv, PollInv, NEW r \in Runs, User(r), NEW q \in Runs
    PROVE  Polled(q)'
<1>1. Polled(q) /\ RunInv(q)
  BY DEF PollInv, LifeInv
<1>2. buf[q] \in Nat /\ saved[q] \in Nat /\ seen[q] \in Nat
  BY NStepsAssumption DEF TypeInv, TypeOK, MaxLog
<1>3. ASSUME NEW start \in Steps, Insert(r, start) PROVE Polled(q)'
  <2>1. UNCHANGED <<saved, buf, panicked, reader, seen, told>>
    BY <1>3 DEF Insert, window
  <2>2. CASE q # r
    BY <1>1, <1>3, <2>1, <2>2, PollFrame DEF Insert, TypeInv, TypeOK
  <2>3. CASE q = r
    <3>1. pc[r] = "none" /\ pc'[r] = "commit"
      BY <1>3 DEF Insert, TypeInv, TypeOK
    <3> QED BY <1>1, <2>1, <2>3, <3>1, NotDoneAtWork DEF Polled, LogKept, ReadsEnd
  <2> QED BY <2>2, <2>3
<1>4. CASE StopRun(r) \/ RemoveCheck(r)
  BY <1>1, <1>4, PollFrame DEF StopRun, RemoveCheck, disk, executor, window, TypeInv
<1>5. CASE RemoveSteps(r)
  BY <1>1, <1>5, PollFrame DEF RemoveSteps, executor, window, TypeInv
<1>6. CASE RemoveRow(r)
  <2>1. UNCHANGED <<buf, pc, panicked, reader, seen, told>>
    BY <1>6 DEF RemoveRow, executor, window
  <2>2. \/ row'[q] = row[q] /\ saved'[q] = saved[q]
        \/ q = r /\ row'[q] = "none" /\ saved'[q] = 0
    BY <1>6 DEF RemoveRow, TypeInv, TypeOK
  <2>3. remover[r] # "no" => pc[r] # "none"
    BY DEF LifeInv, RunInv, RemovesEnded
  <2>4. remover[r] # "no"
    BY <1>6 DEF RemoveRow
  <2> QED BY <1>1, <2>1, <2>2, <2>3, <2>4, PollFrame DEF TypeInv
<1>7. CASE PollStatus(r)
  <2>1. UNCHANGED <<row, saved, buf, pc, panicked, seen, told>>
    BY <1>7 DEF PollStatus, disk, executor
  <2>2. CASE q # r
    BY <1>1, <1>7, <2>1, <2>2, PollFrame DEF PollStatus, TypeInv, TypeOK
  <2>3. CASE q = r
    <3>1. /\ reader'[r].done <=> row[r] # "running"
          /\ ~reader'[r].live
          /\ r \notin told /\ pc[r] \notin {"none", "commit", "dead"} /\ row[r] # "none"
      BY <1>7 DEF PollStatus, TypeInv, TypeOK
    <3>2. row[r] # "running" => pc[r] \in {"leave", "over"}
      BY <1>1, <2>3, <3>1 DEF RunInv, RowAtPlace, Live, TypeInv, TypeOK, Places
    <3> QED BY <1>1, <2>1, <2>3, <3>1, <3>2 DEF Polled, LogKept, ReadsEnd
  <2> QED BY <2>2, <2>3
<1>8. CASE PollSteps(r)
  <2>1. UNCHANGED <<row, saved, buf, pc, panicked, seen, told>>
    BY <1>8 DEF PollSteps, disk, executor
  <2>2. CASE q # r
    BY <1>1, <1>8, <2>1, <2>2, PollFrame DEF PollSteps, TypeInv, TypeOK
  <2>3. CASE q = r
    <3>1. reader[r].pc = "steps" /\ reader'[r].done = reader[r].done
      BY <1>8 DEF PollSteps, TypeInv, TypeOK
    <3>2. reader'[r].live <=> LiveSteps(r)
      BY <1>8 DEF PollSteps, TypeInv, TypeOK
    <3>3. row[r] # "running" => ~LiveSteps(r)
      BY <1>1, <2>3 DEF RunInv, StepsClosed, LiveSteps
    <3>4. r \notin told
      BY <1>1, <2>3, <3>1 DEF Polled, ReadsEnd
    <3> QED BY <1>1, <2>1, <2>3, <3>1, <3>2, <3>3, <3>4 DEF Polled, LogKept, ReadsEnd
  <2> QED BY <2>2, <2>3
<1>9. CASE PollLog(r)
  <2>1. UNCHANGED <<row, saved, buf, pc, panicked>>
    BY <1>9 DEF PollLog, disk, executor
  <2>2. CASE q # r
    BY <1>1, <1>9, <2>1, <2>2, PollFrame DEF PollLog, TypeInv, TypeOK
  <2>3. CASE q = r
    <3>1. /\ reader[r].pc = "log" /\ reader'[r].pc = "idle"
          /\ reader'[r].done = reader[r].done /\ reader'[r].live = reader[r].live
      BY <1>9 DEF PollLog, TypeInv, TypeOK
    <3>2. r \notin told /\ (r \in told' => reader[r].done)
      BY <1>1, <1>9, <2>3, <3>1 DEF PollLog, Polled, ReadsEnd
    <3>3. seen'[r] = IF seen[r] < LogLength(r) THEN LogLength(r) ELSE seen[r]
      BY <1>9 DEF PollLog, TypeInv, TypeOK
    <3>4. LogLength(r) \in Nat /\ LogLength(r) <= buf[r] /\ seen'[r] <= buf[r]
      BY <1>1, <1>2, <2>3, <3>3 DEF LogLength, Polled, LogKept
    <3>5. reader[r].done /\ row[r] # "none" /\ r \notin panicked => LogLength(r) = buf[r]
      BY <1>1, <2>3 DEF LogLength, Polled, LogKept, ReadsEnd
    <3>6. reader[r].done /\ row[r] # "none" /\ r \notin panicked => seen'[r] = buf[r]
      BY <1>2, <2>3, <3>3, <3>4, <3>5
    <3> QED BY <1>1, <2>1, <2>3, <3>1, <3>2, <3>4, <3>6 DEF Polled, LogKept, ReadsEnd
  <2> QED BY <2>2, <2>3
<1> QED BY <1>3, <1>4, <1>5, <1>6, <1>7, <1>8, <1>9 DEF User

LEMMA StepPolled ==
    ASSUME TypeInv, LifeInv, PollInv, OneProcess, [Next]_vars
    PROVE  PollInv'
<1> SUFFICES ASSUME NEW q \in Runs PROVE Polled(q)'
  BY DEF PollInv
<1>1. CASE UNCHANGED vars
  BY <1>1, PollFrame DEF PollInv, TypeInv, vars
<1>2. ASSUME NEW p \in Instances, Process(p) PROVE Polled(q)'
  BY <1>2, ProcessPolled DEF TypeInv
<1>3. ASSUME NEW r \in Runs, Execute(r) \/ Panic(r) \/ StepReturns(r) \/ Interrupt(r)
      PROVE  Polled(q)'
  BY <1>3, GoroutinePolled
<1>4. ASSUME NEW r \in Runs, User(r) PROVE Polled(q)'
  BY <1>4, UserPolled
<1> QED BY <1>1, <1>2, <1>3, <1>4 DEF Next

\* A window that PollRunLogs has told that a run is done was shown no unfinished
\* step and, unless the goroutine panicked outside a step, has the whole log:
\* though the status, the steps, the map and the log are read at four moments,
\* and whatever the goroutine, a removal or the end of the process do in between.
THEOREM PollsAreComplete ==
    ASSUME OneProcess, NoEarlyRemove
    PROVE  Spec => []PollComplete
<1>1. Init => PollInv
  BY DEF Init, PollInv, Polled, LogKept, ReadsEnd, AllQuiet, Quiet
<1>2. TypeInv /\ LifeInv /\ [Next]_vars => (TypeInv /\ LifeInv)'
  BY StepTyped, StepLife
<1>3. TypeInv /\ LifeInv /\ PollInv /\ [Next]_vars => PollInv'
  BY StepPolled
<1>4. TypeInv /\ PollInv => PollComplete
  BY DEF TypeInv, TypeOK, PollInv, Polled, ReadsEnd, PollComplete
<1> QED BY InitTyped, InitLife, <1>1, <1>2, <1>3, <1>4, PTL DEF Spec

=============================================================================
