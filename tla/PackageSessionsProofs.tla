------------------------ MODULE PackageSessionsProofs ------------------------
(***************************************************************************)
(* PackageSessions, for any scripts, batches and overlapping ticks: a       *)
(* notification that waits always has a session that runs, and a session    *)
(* that has ended shows all its output.                                     *)
(***************************************************************************)
EXTENDS PackageSessions, TLAPS

\* A session exists only for a script that was started, and ticks poll sessions
\* only; so a poll reports a script as running or ended.
HasSession(r) == r \in Runs /\ session[r] # "absent"
Polls(t) == /\ \A r \in t.todo : HasSession(r)
            /\ t.run # 0 => HasSession(t.run)
Started ==
  /\ \A r \in Runs : HasSession(r) => proc[r].end # "none"
  /\ \A k \in Ticks : Polls(tick[k])
TaskInv == TypeOK /\ Started /\ NoStuckTask

Proc == [end: {"none", "running", "ended"}, out: 0..MaxOut]
Session == {"absent", "running", "ended", "closed"}
TickType == [todo: SUBSET Runs, run: Runs \cup {0}, from: 0..MaxOut, upto: 0..MaxOut,
             end: {"asked", "running", "ended"}]

LEMMA Initial == MaxOut \in Nat /\ Init => TaskInv
<1> SUFFICES ASSUME MaxOut \in Nat, Init PROVE TaskInv
  OBVIOUS
<1>1. NoTick \in TickType /\ NoTick.todo = {} /\ NoTick.run = 0
  BY DEF NoTick, TickType
<1>2. TypeOK
  BY <1>1 DEF Init, TypeOK, NoTask, TickType
<1>3. Started
  BY <1>1 DEF Init, Started, HasSession, Polls
<1>. QED BY <1>2, <1>3 DEF Init, TaskInv, NoStuckTask

\* checkAllDone after a change that leaves a session open: if none runs any more,
\* the task is over.
LEMMA ChangedKeeps ==
  ASSUME TypeOK, NEW ss \in [Runs -> Session],
         NEW t \in Batches \cup {NoTask}, NEW nt \in [Batches -> {"none", "running", "ended"}],
         Changed(ss, t, nt), t = NoTask \/ Open(ss) # {}
  PROVE  /\ session' = ss /\ NoStuckTask'
         /\ task' \in Batches \cup {NoTask}
         /\ note' \in [Batches -> {"none", "running", "ended"}]
BY DEF Changed, Open, NoStuckTask, Running, NoTask

LEMMA CancelledKeeps ==
  ASSUME TypeOK, NEW ss \in [Runs -> Session], Cancelled(ss)
  PROVE  /\ session' = ss /\ NoStuckTask'
         /\ task' \in Batches \cup {NoTask}
         /\ note' \in [Batches -> {"none", "running", "ended"}]
<1> DEFINE nt == IF task = NoTask THEN note ELSE [note EXCEPT ![task] = "ended"]
<1>1. nt \in [Batches -> {"none", "running", "ended"}] /\ Changed(ss, NoTask, nt)
  BY DEF TypeOK, Cancelled
<1>. QED BY <1>1, ChangedKeeps

LEMMA KilledKeeps ==
  ASSUME TypeOK, NEW rs, Killed(rs)
  PROVE  /\ proc' \in [Runs -> Proc]
         /\ \A r \in Runs : proc[r].end # "none" => proc'[r].end # "none"
BY DEF Killed, TypeOK, Proc

\* The tick's next poll is of a session.
LEMMA AskedKeeps ==
  ASSUME TypeOK, NEW k \in Ticks, NEW todo \in SUBSET Runs, NEW os \in [Runs -> 0..MaxOut],
         MaxOut \in Nat, Asked(k, todo, os), \A r \in todo : HasSession(r)',
         \A j \in Ticks : Polls(tick[j]), \A r \in Runs : HasSession(r) => HasSession(r)'
  PROVE  tick' \in [Ticks -> TickType] /\ \A j \in Ticks : Polls(tick[j])'
<1>1. tick \in [Ticks -> TickType]
  BY DEF TypeOK, TickType
<1>2. CASE todo = {}
  <2>1. NoTick \in TickType /\ NoTick.todo = {} /\ NoTick.run = 0
    BY DEF NoTick, TickType
  <2>2. tick' = [tick EXCEPT ![k] = NoTick]
    BY <1>2 DEF Asked
  <2>. QED BY <1>1, <2>1, <2>2 DEF Polls, HasSession
<1>3. CASE todo # {}
  <2>1. PICK r \in todo :
          tick' = [tick EXCEPT ![k] = [NoTick EXCEPT !.todo = todo \ {r}, !.run = r,
                                                     !.from = os[r]]]
    BY <1>3 DEF Asked
  <2> DEFINE new == [NoTick EXCEPT !.todo = todo \ {r}, !.run = r, !.from = os[r]]
  <2>2. tick' = [tick EXCEPT ![k] = new]
    BY <2>1
  <2>3. new \in TickType /\ new.todo = todo \ {r} /\ new.run = r
    <3>1. NoTick \in TickType
      BY DEF NoTick, TickType
    <3>. QED BY <3>1 DEF TickType
  <2> HIDE DEF new
  <2>. QED BY <1>1, <2>2, <2>3 DEF Polls, HasSession
<1>. QED BY <1>2, <1>3

\* One step per action; checkAllDone and notifyCancelled keep the task's session.
LEMMA Inductive ==
  ASSUME MaxOut \in Nat, TaskInv, [Next]_packageVars
  PROVE  TaskInv'
<1> USE DEF Proc, Session, TickType
<1>t. /\ batchOf \in [Runs -> Batches] /\ proc \in [Runs -> Proc]
      /\ session \in [Runs -> Session] /\ offset \in [Runs -> 0..MaxOut]
      /\ printed \in [Runs -> SUBSET (1..MaxOut)] /\ tick \in [Ticks -> TickType]
      /\ task \in Batches \cup {NoTask}
      /\ note \in [Batches -> {"none", "running", "ended"}] /\ TypeOK
  BY DEF TaskInv, TypeOK
<1>1. ASSUME NEW r \in Runs, StartScript(r) \/ Output(r) \/ Exit(r) PROVE TaskInv'
  <2>1. /\ proc' \in [Runs -> Proc]
        /\ \A q \in Runs : proc[q].end # "none" => proc'[q].end # "none"
        /\ UNCHANGED <<batchOf, session, offset, printed, tick, task, note>>
    <3>1. CASE StartScript(r)
      BY <3>1, <1>t DEF StartScript
    <3>2. CASE Output(r)
      <4>1. proc[r] \in Proc /\ proc[r].out + 1 \in 0..MaxOut
        BY <3>2, <1>t DEF Output
      <4>. QED BY <3>2, <4>1, <1>t DEF Output
    <3>3. CASE Exit(r)
      BY <3>3, <1>t DEF Exit
    <3>. QED BY <1>1, <3>1, <3>2, <3>3
  <2>. QED BY <2>1, <1>t DEF TaskInv, TypeOK, Started, HasSession, Polls, NoStuckTask, Running
<1>2. ASSUME NEW b \in Batches, AddSessions(b) PROVE TaskInv'
  <2>1. PICK r \in Runs : batchOf[r] = b /\ session'[r] = "running"
    BY <1>2 DEF AddSessions
  <2>2. TypeOK'
    BY <1>2, <1>t DEF AddSessions, TypeOK
  <2>3. Started'
    BY <1>2, <1>t DEF AddSessions, TaskInv, Started, HasSession, Polls
  <2>. QED BY <2>1, <2>2, <2>3 DEF TaskInv, NoStuckTask, Running
<1>3. ASSUME NEW r \in Runs, CloseSession(r) PROVE TaskInv'
  <2> DEFINE ss == [session EXCEPT ![r] = "closed"]
  <2>1. ss \in [Runs -> Session] /\ UNCHANGED <<batchOf, offset, printed, tick>>
    BY <1>3, <1>t DEF CloseSession
  <2>2. /\ proc' \in [Runs -> Proc]
        /\ \A q \in Runs : proc[q].end # "none" => proc'[q].end # "none"
    BY <1>3, <1>t, KilledKeeps DEF CloseSession
  <2>3. /\ session' = ss /\ NoStuckTask' /\ task' \in Batches \cup {NoTask}
        /\ note' \in [Batches -> {"none", "running", "ended"}]
    <3>1. CASE LastRunning(r)
      BY <1>3, <1>t, <2>1, <3>1, CancelledKeeps DEF CloseSession
    <3>2. CASE ~LastRunning(r)
      <4>1. Changed(ss, task, note)
        BY <1>3, <3>2 DEF CloseSession
      <4>2. task = NoTask \/ Open(ss) # {}
        BY <3>2, <1>t DEF TaskInv, NoStuckTask, LastRunning, Running, Open
      <4>. QED BY <4>1, <4>2, <1>t, <2>1, ChangedKeeps
    <3>. QED BY <3>1, <3>2
  <2>4. \A q \in Runs : session[q] # "absent" <=> ss[q] # "absent"
    BY <1>3, <1>t DEF CloseSession, Open
  <2>. QED BY <2>1, <2>2, <2>3, <2>4, <1>t DEF TaskInv, TypeOK, Started, HasSession, Polls
<1>4. CASE ClearSessions
  <2> DEFINE ss == [r \in Runs |-> IF r \in Open(session) THEN "closed" ELSE session[r]]
  <2>1. ss \in [Runs -> Session] /\ UNCHANGED <<batchOf, offset, printed, tick>>
    BY <1>4, <1>t DEF ClearSessions
  <2>2. /\ proc' \in [Runs -> Proc]
        /\ \A q \in Runs : proc[q].end # "none" => proc'[q].end # "none"
    BY <1>4, <1>t, KilledKeeps DEF ClearSessions
  <2>3. /\ session' = ss /\ NoStuckTask' /\ task' \in Batches \cup {NoTask}
        /\ note' \in [Batches -> {"none", "running", "ended"}]
    <3>1. CASE Running # {}
      BY <1>4, <1>t, <2>1, <3>1, CancelledKeeps DEF ClearSessions
    <3>2. CASE Running = {}
      <4>1. Changed(ss, task, note)
        BY <1>4, <3>2 DEF ClearSessions
      <4>2. task = NoTask
        BY <3>2 DEF TaskInv, NoStuckTask
      <4>. QED BY <4>1, <4>2, <1>t, <2>1, ChangedKeeps
    <3>. QED BY <3>1, <3>2
  <2>4. \A q \in Runs : session[q] # "absent" <=> ss[q] # "absent"
    BY <1>t DEF Open
  <2>. QED BY <2>1, <2>2, <2>3, <2>4, <1>t DEF TaskInv, TypeOK, Started, HasSession, Polls
<1>5. ASSUME NEW k \in Ticks, Tick(k) PROVE TaskInv'
  <2>1. /\ Running \in SUBSET Runs /\ Asked(k, Running, offset)
        /\ UNCHANGED <<batchOf, proc, session, offset, printed, task, note>>
        /\ \A r \in Runs : HasSession(r) <=> HasSession(r)'
        /\ \A r \in Running : HasSession(r)'
    BY <1>5 DEF Tick, Running, HasSession
  <2>2. tick' \in [Ticks -> TickType] /\ \A j \in Ticks : Polls(tick[j])'
    BY <2>1, <1>t, AskedKeeps DEF TaskInv, Started
  <2>. QED BY <2>1, <2>2, <1>t DEF TaskInv, TypeOK, Started, HasSession, NoStuckTask, Running
<1>6. ASSUME NEW k \in Ticks, Serve(k) PROVE TaskInv'
  <2> DEFINE r == tick[k].run
  <2>1. /\ r \in Runs /\ proc[r].end \in {"running", "ended"} /\ proc[r].out \in 0..MaxOut
        /\ UNCHANGED <<batchOf, proc, session, offset, printed, task, note>>
        /\ tick' = [tick EXCEPT ![k].upto = proc[r].out, ![k].end = proc[r].end]
    BY <1>6, <1>t DEF Serve, Length, TaskInv, Started, Polls, HasSession
  <2>2. /\ tick' \in [Ticks -> TickType]
        /\ \A j \in Ticks : tick'[j].todo = tick[j].todo /\ tick'[j].run = tick[j].run
    BY <2>1, <1>t
  <2> HIDE DEF r
  <2>3. TypeOK'
    BY <2>1, <2>2, <1>t DEF TypeOK
  <2>4. Started'
    BY <2>1, <2>2, <1>t DEF TaskInv, Started, HasSession, Polls
  <2>5. NoStuckTask'
    BY <2>1 DEF TaskInv, NoStuckTask, Running
  <2>. QED BY <2>3, <2>4, <2>5 DEF TaskInv
<1>7. ASSUME NEW k \in Ticks, Answer(k) PROVE TaskInv'
  <2> DEFINE t == tick[k]
             ss == [session EXCEPT ![t.run] = t.end]
  <2>1. /\ t \in TickType /\ t.run \in Runs /\ HasSession(t.run) /\ t.end \in {"running", "ended"}
        /\ offset' = [offset EXCEPT ![t.run] = t.upto]
        /\ printed' = [printed EXCEPT ![t.run] = @ \cup ((t.from + 1)..t.upto)]
        /\ Asked(k, t.todo, offset') /\ UNCHANGED <<batchOf, proc>>
    BY <1>7, <1>t DEF Answer, TaskInv, Started, Polls
  <2>2. offset' \in [Runs -> 0..MaxOut]
    BY <2>1, <1>t
  <2>3. printed' \in [Runs -> SUBSET (1..MaxOut)]
    BY <2>1, <1>t
  <2>4. /\ session' \in [Runs -> Session] /\ NoStuckTask' /\ task' \in Batches \cup {NoTask}
        /\ note' \in [Batches -> {"none", "running", "ended"}]
        /\ \A q \in Runs : session[q] # "absent" <=> session'[q] # "absent"
    <3>1. CASE t.end # "running" /\ t.run \in Open(session)
      <4>1. Changed(ss, task, note) /\ ss \in [Runs -> Session] /\ t.run \in Open(ss)
        BY <1>7, <3>1, <2>1, <1>t DEF Answer, Open
      <4>2. session' = ss /\ NoStuckTask' /\ task' \in Batches \cup {NoTask}
            /\ note' \in [Batches -> {"none", "running", "ended"}]
        BY <4>1, <1>t, ChangedKeeps
      <4>. QED BY <4>1, <4>2, <2>1, <1>t DEF HasSession
    <3>2. CASE ~(t.end # "running" /\ t.run \in Open(session))
      <4>1. UNCHANGED <<session, task, note>>
        BY <1>7, <3>2 DEF Answer
      <4>. QED BY <4>1, <1>t DEF TaskInv, NoStuckTask, Running
    <3>. QED BY <3>1, <3>2
  <2>5. /\ \A r \in Runs : HasSession(r) => HasSession(r)'
        /\ \A r \in t.todo : HasSession(r)' /\ t.todo \in SUBSET Runs
    BY <2>1, <2>4 DEF HasSession, TaskInv, Started, Polls
  <2>6. tick' \in [Ticks -> TickType] /\ \A j \in Ticks : Polls(tick[j])'
    BY <2>1, <2>2, <2>5, <1>t, AskedKeeps DEF TaskInv, Started
  <2>7. \A r \in Runs : HasSession(r)' => proc'[r].end # "none"
    BY <2>1, <2>4 DEF HasSession, TaskInv, Started
  <2>. QED BY <2>1, <2>2, <2>3, <2>4, <2>6, <2>7, <1>t DEF TaskInv, TypeOK, Started, HasSession
<1>8. CASE UNCHANGED packageVars
  BY <1>8, <1>t DEF packageVars, TaskInv, TypeOK, Started, HasSession, Polls, NoStuckTask, Running
<1>. QED BY <1>1, <1>2, <1>3, <1>4, <1>5, <1>6, <1>7, <1>8 DEF Next, AnyTick, PollStep

-----------------------------------------------------------------------------
(* The output.                                                              *)

\* What has been read of a run is on the screen, and nothing that it has not put
\* out.  A poll continues what is on the screen; one that saw the end of the script
\* saw all its output.
RunOk(r) ==
  /\ 1..offset[r] \subseteq printed[r]
  /\ printed[r] \subseteq 1..proc[r].out
  /\ session[r] = "ended" => proc[r].end = "ended" /\ printed[r] = 1..proc[r].out
PollOk(t, p, shown) ==
  t.run # 0 =>
    /\ 1..t.from \subseteq shown[t.run]
    /\ t.end # "asked" => t.upto <= p[t.run].out
    /\ t.end = "ended" => p[t.run].end = "ended" /\ t.upto = p[t.run].out
PrintedInv ==
  /\ \A r \in Runs : RunOk(r)
  /\ \A k \in Ticks : PollOk(tick[k], proc, printed)

\* The script of a run goes on, or has ended and puts out nothing more.
GoesOn(r) ==
  /\ proc'[r].out \in 0..MaxOut /\ proc[r].out <= proc'[r].out
  /\ proc[r].end = "ended" => proc'[r].end = "ended" /\ proc'[r].out = proc[r].out

LEMMA ProcessGoesOn ==
  ASSUME MaxOut \in Nat, TypeOK,
         \/ \E r \in Runs : StartScript(r) \/ Output(r) \/ Exit(r)
         \/ \E rs : Killed(rs)
         \/ proc' = proc
  PROVE  \A r \in Runs : GoesOn(r)
<1>t. proc \in [Runs -> Proc] /\ \A r \in Runs : proc[r].out \in Nat
  BY DEF TypeOK, Proc
<1>1. ASSUME NEW r \in Runs, StartScript(r) PROVE \A q \in Runs : GoesOn(q)
  BY <1>1, <1>t DEF StartScript, GoesOn, Proc
<1>2. ASSUME NEW r \in Runs, Output(r) PROVE \A q \in Runs : GoesOn(q)
  <2>1. proc[r].out + 1 \in 0..MaxOut /\ proc[r].end = "running"
    BY <1>2, <1>t DEF Output, Proc
  <2>. QED BY <1>2, <2>1, <1>t DEF Output, GoesOn, Proc
<1>3. ASSUME NEW r \in Runs, Exit(r) PROVE \A q \in Runs : GoesOn(q)
  BY <1>3, <1>t DEF Exit, GoesOn, Proc
<1>4. ASSUME NEW rs, Killed(rs) PROVE \A q \in Runs : GoesOn(q)
  BY <1>4, <1>t DEF Killed, GoesOn, Proc
<1>5. CASE proc' = proc
  BY <1>5, <1>t DEF GoesOn, Proc
<1>. QED BY <1>1, <1>2, <1>3, <1>4, <1>5

\* As long as a script goes on, a poll of it stays good, and so does its session
\* unless it is shown as ended.
LEMMA GoesOnKeeps ==
  ASSUME MaxOut \in Nat, TaskInv, PrintedInv, \A r \in Runs : GoesOn(r),
         UNCHANGED <<offset, printed>>,
         \A r \in Runs : session'[r] = "ended" => session[r] = "ended"
  PROVE  /\ \A r \in Runs : RunOk(r)'
         /\ \A k \in Ticks : PollOk(tick[k], proc', printed')
<1>1. ASSUME NEW r \in Runs PROVE RunOk(r)'
  <2>1. RunOk(r) /\ GoesOn(r) /\ proc[r].out \in Nat /\ proc'[r].out \in Nat
    BY DEF PrintedInv, TaskInv, TypeOK, GoesOn
  <2>2. 1..proc[r].out \subseteq 1..proc'[r].out
    BY <2>1 DEF GoesOn
  <2>. QED BY <2>1, <2>2 DEF RunOk, GoesOn
<1>2. ASSUME NEW k \in Ticks PROVE PollOk(tick[k], proc', printed')
  <2>. SUFFICES ASSUME tick[k].run # 0 PROVE PollOk(tick[k], proc', printed')
    BY DEF PollOk
  <2>1. tick[k].run \in Runs /\ tick[k] \in TickType
    BY DEF TaskInv, TypeOK, Started, Polls, HasSession, TickType
  <2>. DEFINE r == tick[k].run
  <2>2. GoesOn(r) /\ proc[r].out \in Nat /\ proc'[r].out \in Nat /\ tick[k].upto \in Nat
    BY <2>1 DEF GoesOn, TaskInv, TypeOK, TickType
  <2>. QED BY <2>1, <2>2 DEF PrintedInv, PollOk, GoesOn
<1>. QED BY <1>1, <1>2

\* The tick's next poll begins where the output has been read.
LEMMA AskedIsOk ==
  ASSUME MaxOut \in Nat, TypeOK, NEW k \in Ticks, NEW todo \in SUBSET Runs, NEW os \in [Runs -> 0..MaxOut],
         Asked(k, todo, os), \A r \in Runs : 1..os[r] \subseteq printed'[r],
         \A j \in Ticks : PollOk(tick[j], proc', printed')
  PROVE  \A j \in Ticks : PollOk(tick'[j], proc', printed')
<1>1. tick \in [Ticks -> TickType] /\ NoTick \in TickType
      /\ NoTick.run = 0 /\ NoTick.end = "asked"
  BY DEF TypeOK, TickType, NoTick
<1>2. CASE todo = {}
  BY <1>1, <1>2 DEF Asked, PollOk
<1>3. CASE todo # {}
  <2>1. PICK r \in todo :
          tick' = [tick EXCEPT ![k] = [NoTick EXCEPT !.todo = todo \ {r}, !.run = r,
                                                     !.from = os[r]]]
    BY <1>3 DEF Asked
  <2>. DEFINE new == [NoTick EXCEPT !.todo = todo \ {r}, !.run = r, !.from = os[r]]
  <2>2. new.run = r /\ new.from = os[r] /\ new.end = "asked"
    BY <1>1 DEF TickType
  <2>3. tick' = [tick EXCEPT ![k] = new]
    BY <2>1
  <2>. HIDE DEF new
  <2>. QED BY <1>1, <2>2, <2>3 DEF PollOk
<1>. QED BY <1>2, <1>3

LEMMA PrintedStep ==
  ASSUME MaxOut \in Nat, TaskInv, PrintedInv, [Next]_packageVars
  PROVE  PrintedInv'
<1>t. /\ proc \in [Runs -> Proc] /\ session \in [Runs -> Session]
      /\ offset \in [Runs -> 0..MaxOut] /\ printed \in [Runs -> SUBSET (1..MaxOut)]
      /\ tick \in [Ticks -> TickType] /\ TypeOK
  BY DEF TaskInv, TypeOK, Proc, Session, TickType
<1>1. ASSUME UNCHANGED <<offset, printed, tick>>, \A r \in Runs : GoesOn(r),
             \A r \in Runs : session'[r] = "ended" => session[r] = "ended"
      PROVE  PrintedInv'
  BY <1>1, GoesOnKeeps DEF PrintedInv
<1>2. ASSUME NEW r \in Runs, StartScript(r) \/ Output(r) \/ Exit(r) PROVE PrintedInv'
  <2>1. \A q \in Runs : GoesOn(q)
    BY <1>2, <1>t, ProcessGoesOn
  <2>2. UNCHANGED <<offset, printed, tick, session>>
    BY <1>2 DEF StartScript, Output, Exit
  <2>. QED BY <2>1, <2>2, <1>1
<1>3. ASSUME NEW b \in Batches, AddSessions(b) PROVE PrintedInv'
  <2>1. \A q \in Runs : GoesOn(q)
    BY <1>3, <1>t, ProcessGoesOn DEF AddSessions
  <2>2. UNCHANGED <<offset, printed, tick>>
        /\ \A r \in Runs : session'[r] = "ended" => session[r] = "ended"
    BY <1>3, <1>t DEF AddSessions
  <2>. QED BY <2>1, <2>2, <1>1
<1>4. ASSUME NEW r \in Runs, CloseSession(r) PROVE PrintedInv'
  <2>1. \A q \in Runs : GoesOn(q)
    BY <1>4, <1>t, ProcessGoesOn DEF CloseSession
  <2>2. UNCHANGED <<offset, printed, tick>> /\ session' = [session EXCEPT ![r] = "closed"]
    BY <1>4 DEF CloseSession, Cancelled, Changed
  <2>. QED BY <2>1, <2>2, <1>t, <1>1
<1>5. CASE ClearSessions
  <2>1. \A q \in Runs : GoesOn(q)
    BY <1>5, <1>t, ProcessGoesOn DEF ClearSessions
  <2>2. /\ UNCHANGED <<offset, printed, tick>>
        /\ session' = [r \in Runs |-> IF r \in Open(session) THEN "closed" ELSE session[r]]
    BY <1>5 DEF ClearSessions, Cancelled, Changed
  <2>. QED BY <2>1, <2>2, <1>t, <1>1
<1>6. ASSUME NEW k \in Ticks, Tick(k) PROVE PrintedInv'
  <2>1. /\ UNCHANGED <<proc, session, offset, printed>> /\ Asked(k, Running, offset)
        /\ Running \in SUBSET Runs
    BY <1>6 DEF Tick, Running
  <2>2. /\ \A r \in Runs : RunOk(r)'
        /\ \A j \in Ticks : PollOk(tick[j], proc', printed')
    BY <2>1 DEF PrintedInv, RunOk
  <2>3. \A r \in Runs : 1..offset[r] \subseteq printed'[r]
    BY <2>1 DEF PrintedInv, RunOk
  <2>4. \A j \in Ticks : PollOk(tick'[j], proc', printed')
    BY <2>1, <2>2, <2>3, <1>t, AskedIsOk
  <2>. QED BY <2>2, <2>4 DEF PrintedInv
<1>7. ASSUME NEW k \in Ticks, Serve(k) PROVE PrintedInv'
  <2>. DEFINE r == tick[k].run
  <2>1. /\ r \in Runs /\ tick[k] \in TickType /\ proc[r] \in Proc
        /\ UNCHANGED <<proc, session, offset, printed>>
        /\ tick' = [tick EXCEPT ![k].upto = proc[r].out, ![k].end = proc[r].end]
    BY <1>7, <1>t DEF Serve, Length, TaskInv, Started, Polls, HasSession
  <2>2. /\ tick'[k].run = r /\ tick'[k].from = tick[k].from
        /\ tick'[k].upto = proc[r].out /\ tick'[k].end = proc[r].end
        /\ \A j \in Ticks \ {k} : tick'[j] = tick[j]
    BY <2>1, <1>t DEF TickType
  <2>3. proc[r].out <= proc[r].out
    BY <2>1 DEF Proc
  <2>4. PollOk(tick'[k], proc', printed')
    BY <2>1, <2>2, <2>3 DEF PrintedInv, PollOk
  <2>. QED BY <2>1, <2>2, <2>4 DEF PrintedInv, RunOk
<1>8. ASSUME NEW k \in Ticks, Answer(k) PROVE PrintedInv'
  <2>. DEFINE t == tick[k]
  <2>1. /\ t \in TickType /\ t.run \in Runs /\ t.run # 0 /\ t.end # "asked"
        /\ offset' = [offset EXCEPT ![t.run] = t.upto]
        /\ printed' = [printed EXCEPT ![t.run] = @ \cup ((t.from + 1)..t.upto)]
        /\ Asked(k, t.todo, offset') /\ proc' = proc
    BY <1>8, <1>t DEF Answer, TaskInv, Started, Polls, HasSession
  <2>2. /\ session' = [session EXCEPT ![t.run] = t.end] /\ t.end = "ended"
        \/ session' = session
    BY <1>8, <2>1 DEF Answer, Changed, TickType
  <2>3. /\ 1..t.from \subseteq printed[t.run] /\ t.upto <= proc[t.run].out
        /\ t.end = "ended" => proc[t.run].end = "ended" /\ t.upto = proc[t.run].out
        /\ t.from \in Nat /\ t.upto \in Nat /\ proc[t.run].out \in Nat
    BY <2>1, <1>t DEF PrintedInv, PollOk, TickType, Proc
  <2>. HIDE DEF t
  <2>4. /\ (t.from + 1)..t.upto \subseteq 1..proc[t.run].out
        /\ 1..t.upto \subseteq (1..t.from) \cup ((t.from + 1)..t.upto)
    BY <2>3
  <2>5. /\ printed'[t.run] = printed[t.run] \cup ((t.from + 1)..t.upto)
        /\ offset'[t.run] = t.upto
        /\ \A q \in Runs \ {t.run} : printed'[q] = printed[q] /\ offset'[q] = offset[q]
    BY <2>1, <1>t
  <2>6. ASSUME NEW r \in Runs, r = t.run PROVE RunOk(r)'
    <3>1. RunOk(r)
      BY DEF PrintedInv
    <3>2. session'[r] = "ended" => t.end = "ended" \/ session[r] = "ended"
      BY <2>1, <2>2, <2>6, <1>t
    <3>3. printed'[r] \subseteq 1..proc[r].out
      BY <2>4, <2>5, <2>6, <3>1 DEF RunOk
    <3>4. 1..t.upto \subseteq printed'[r]
      BY <2>3, <2>4, <2>5, <2>6
    <3>5. session[r] = "ended" => 1..proc[r].out \subseteq printed'[r]
      BY <2>5, <2>6, <3>1 DEF RunOk
    <3>6. session'[r] = "ended" =>
            proc[r].end = "ended" /\ 1..proc[r].out \subseteq printed'[r]
      BY <2>3, <2>6, <3>1, <3>2, <3>4, <3>5 DEF RunOk
    <3>. QED BY <2>1, <2>5, <2>6, <3>3, <3>4, <3>6 DEF RunOk
  <2>7. ASSUME NEW r \in Runs, r # t.run PROVE RunOk(r)'
    <3>1. session'[r] = session[r]
      BY <2>1, <2>2, <2>7, <1>t
    <3>. QED BY <2>1, <2>5, <2>7, <3>1 DEF PrintedInv, RunOk
  <2>8. \A j \in Ticks : PollOk(tick[j], proc', printed')
    <3>1. \A j \in Ticks : tick[j].run # 0 => tick[j].run \in Runs
      BY <1>t DEF TickType
    <3>2. \A q \in Runs : printed[q] \subseteq printed'[q]
      BY <2>1, <2>5
    <3>. QED BY <2>1, <3>1, <3>2 DEF PrintedInv, PollOk
  <2>9. \A j \in Ticks : PollOk(tick'[j], proc', printed')
    <3>1. offset' \in [Runs -> 0..MaxOut] /\ t.todo \in SUBSET Runs
      BY <2>1, <1>t DEF TickType
    <3>2. \A q \in Runs : 1..offset'[q] \subseteq printed'[q]
      BY <2>6, <2>7 DEF RunOk
    <3>. QED BY <2>1, <2>8, <3>1, <3>2, <1>t, AskedIsOk
  <2>. QED BY <2>6, <2>7, <2>9 DEF PrintedInv
<1>9. CASE UNCHANGED packageVars
  BY <1>9 DEF packageVars, PrintedInv, RunOk
<1>. QED BY <1>2, <1>3, <1>4, <1>5, <1>6, <1>7, <1>8, <1>9 DEF Next, AnyTick, PollStep

-----------------------------------------------------------------------------
(* The theorems.                                                            *)

\* Every variable of the package scripts keeps its type.
THEOREM TypeCorrect == ASSUME MaxOut \in Nat PROVE Spec => []TypeOK
<1>1. TaskInv => TypeOK
  BY DEF TaskInv
<1>2. Init => TaskInv
  BY Initial
<1>3. TaskInv /\ [Next]_packageVars => TaskInv'
  BY Inductive
<1>. QED BY <1>1, <1>2, <1>3, PTL DEF Spec

\* While a notification waits to be completed some session runs, so a poll, a
\* close or a clear is still to come that completes it.
THEOREM TaskHasSession == ASSUME MaxOut \in Nat PROVE Spec => []NoStuckTask
<1>1. TaskInv => NoStuckTask
  BY DEF TaskInv
<1>2. Init => TaskInv
  BY Initial
<1>3. TaskInv /\ [Next]_packageVars => TaskInv'
  BY Inductive
<1>. QED BY <1>1, <1>2, <1>3, PTL DEF Spec

\* A session that has ended shows all its output, however its polls overlapped.
THEOREM NothingIsSkipped == ASSUME MaxOut \in Nat PROVE Spec => []NothingSkipped
<1>1. Init => TaskInv /\ PrintedInv
  <2>. SUFFICES ASSUME Init PROVE TaskInv /\ PrintedInv
    OBVIOUS
  <2>1. TaskInv
    BY Initial
  <2>2. PrintedInv
    BY DEF Init, PrintedInv, RunOk, PollOk, NoTick
  <2>. QED BY <2>1, <2>2
<1>2. TaskInv /\ PrintedInv /\ [Next]_packageVars => (TaskInv /\ PrintedInv)'
  BY Inductive, PrintedStep
<1>3. PrintedInv => NothingSkipped
  BY DEF PrintedInv, RunOk, NothingSkipped
<1>. QED BY <1>1, <1>2, <1>3, PTL DEF Spec
=============================================================================
