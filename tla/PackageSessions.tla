-------------------------- MODULE PackageSessions --------------------------
(***************************************************************************)
(* Package scripts (stores/packageSessions.ts, PackagesPane.doRunScripts,   *)
(* packageservice.go): scripts started in batches, each in a terminal of    *)
(* its own; polls that collect their output, a tick of which may overlap    *)
(* the one before; the notification that follows a batch.  How a script     *)
(* ends (exit, error, cancelled) is left out: only the wording depends on   *)
(* it.                                                                      *)
(***************************************************************************)
EXTENDS Naturals, FiniteSets

CONSTANTS
  Runs,        \* bound: run ids, numbered in the order of the session list
  Batches,     \* bound: clicks on run
  Ticks,       \* bound: poll ticks in flight
  MaxOut       \* bound: chunks of output of a script

VARIABLES
  batchOf,     \* the batch of each run, chosen at the start
  proc,        \* packageProcess of the backend
  session,     \* the entry of each run in sessions
  offset,      \* pkgOffsets
  printed,     \* chunks written to the terminal pane
  tick,        \* ticks in flight: runs left to poll, and the poll under way
  task,        \* taskId: the batch whose notification is to be completed
  note         \* the notification of each batch

packageVars == <<batchOf, proc, session, offset, printed, tick, task, note>>

NoTask == 0
NoTick == [todo |-> {}, run |-> 0, from |-> 0, upto |-> 0, end |-> "asked"]

TypeOK ==
  /\ batchOf \in [Runs -> Batches]
  /\ proc \in [Runs -> [end: {"none", "running", "ended"}, out: 0..MaxOut]]
  /\ session \in [Runs -> {"absent", "running", "ended", "closed"}]
  /\ offset \in [Runs -> 0..MaxOut]
  /\ printed \in [Runs -> SUBSET (1..MaxOut)]
  /\ tick \in [Ticks -> [todo: SUBSET Runs, run: Runs \cup {0}, from: 0..MaxOut,
                         upto: 0..MaxOut, end: {"asked", "running", "ended"}]]
  /\ task \in Batches \cup {NoTask}
  /\ note \in [Batches -> {"none", "running", "ended"}]

Running == {r \in Runs : session[r] = "running"}
Open(ss) == {r \in Runs : ss[r] \in {"running", "ended"}}

-----------------------------------------------------------------------------
(* The backend.                                                             *)

\* doRunScripts starts the scripts of a batch one after the other; a terminal
\* that cannot be opened is a script that has ended.
StartScript(r) ==
  /\ proc[r].end = "none"
  /\ \E end \in {"running", "ended"} : proc' = [proc EXCEPT ![r].end = end]
  /\ UNCHANGED <<batchOf, session, offset, printed, tick, task, note>>

Output(r) ==
  /\ proc[r].end = "running" /\ proc[r].out < MaxOut
  /\ proc' = [proc EXCEPT ![r].out = @ + 1]
  /\ UNCHANGED <<batchOf, session, offset, printed, tick, task, note>>

Exit(r) ==
  /\ proc[r].end = "running"
  /\ proc' = [proc EXCEPT ![r].end = "ended"]
  /\ UNCHANGED <<batchOf, session, offset, printed, tick, task, note>>

\* CancelPackageRun: the process is killed.
Killed(rs) ==
  proc' = [r \in Runs |-> IF r \in rs /\ proc[r].end = "running"
                         THEN [proc[r] EXCEPT !.end = "ended"] ELSE proc[r]]

-----------------------------------------------------------------------------
(* The store.                                                               *)

\* checkAllDone, run after every change of the session list.
Changed(ss, t, nt) ==
  LET done == t # NoTask /\ Open(ss) # {} /\ \A r \in Open(ss) : ss[r] # "running"
  IN /\ session' = ss
     /\ task' = IF done THEN NoTask ELSE t
     /\ note' = IF done THEN [nt EXCEPT ![t] = "ended"] ELSE nt

\* All scripts of a batch have been started: its sessions are added (an earlier
\* task is not complete by that, they run), its notification becomes the task.
AddSessions(b) ==
  LET mine == {r \in Runs : batchOf[r] = b}
  IN /\ note[b] = "none" /\ mine # {}
     /\ \A r \in mine : proc[r].end # "none" /\ session[r] = "absent"
     /\ session' = [r \in Runs |-> IF r \in mine THEN "running" ELSE session[r]]
     /\ task' = b
     /\ note' = [note EXCEPT ![b] = "running"]
     /\ UNCHANGED <<batchOf, proc, offset, printed, tick>>

\* notifyCancelled
Cancelled(ss) ==
  Changed(ss, NoTask, IF task = NoTask THEN note ELSE [note EXCEPT ![task] = "ended"])

\* The user closes one session, or all of them.
NeverLast(r) == FALSE                          \* mutant: left to checkAllDone
LastRunning(r) == Running = {r}
CloseSession(r) ==
  /\ r \in Open(session)
  /\ Killed({r})
  /\ LET ss == [session EXCEPT ![r] = "closed"]
     IN IF LastRunning(r) THEN Cancelled(ss) ELSE Changed(ss, task, note)
  /\ UNCHANGED <<batchOf, offset, printed, tick>>

ClearSessions ==
  /\ Open(session) # {}
  /\ Killed(Running)
  /\ LET ss == [r \in Runs |-> IF r \in Open(session) THEN "closed" ELSE session[r]]
     IN IF Running # {} THEN Cancelled(ss) ELSE Changed(ss, task, note)
  /\ UNCHANGED <<batchOf, offset, printed, tick>>

-----------------------------------------------------------------------------
(* The polls.  The timer runs while a session does; it does not wait for    *)
(* the tick before.                                                         *)

\* The tick asks for the output of its next session, from where it has been read.
Asked(k, todo, offsets) ==
  IF todo = {} THEN tick' = [tick EXCEPT ![k] = NoTick]
  ELSE \E r \in todo :
         /\ \A q \in todo : r <= q
         /\ tick' = [tick EXCEPT ![k] = [NoTick EXCEPT !.todo = todo \ {r}, !.run = r,
                                                       !.from = offsets[r]]]

AllRunning == Open(session) # {} /\ Running = Open(session) \* mutant: every, not some
Polling == Running # {}
Tick(k) ==
  /\ Polling /\ tick[k] = NoTick /\ \A j \in Ticks : j < k => tick[j] # NoTick
  /\ Asked(k, Running, offset)
  /\ UNCHANGED <<batchOf, proc, session, offset, printed, task, note>>

\* PollPackageRun: the output and the end are read under one lock.
LengthBefore(k) == tick[k].from..proc[tick[k].run].out \* mutant: read before the lock
LengthPast(k) == {proc[tick[k].run].out + 1}   \* mutant: off by one
Length(k) == {proc[tick[k].run].out}
Serve(k) ==
  /\ tick[k].run # 0 /\ tick[k].end = "asked"
  /\ \E n \in Length(k) :
       tick' = [tick EXCEPT ![k].upto = n, ![k].end = proc[tick[k].run].end]
  /\ UNCHANGED <<batchOf, proc, session, offset, printed, task, note>>

\* The answer: its content is written whatever was written meanwhile, and the
\* tick goes on.
Answer(k) ==
  LET t == tick[k]
  IN /\ t.run # 0 /\ t.end # "asked"
     /\ printed' = [printed EXCEPT ![t.run] = @ \cup ((t.from + 1)..t.upto)]
     /\ offset' = [offset EXCEPT ![t.run] = t.upto]
     /\ IF t.end # "running" /\ t.run \in Open(session)
        THEN Changed([session EXCEPT ![t.run] = t.end], task, note)
        ELSE UNCHANGED <<session, task, note>>
     /\ Asked(k, t.todo, offset')
     /\ UNCHANGED <<batchOf, proc>>

-----------------------------------------------------------------------------
Init ==
  /\ batchOf \in {f \in [Runs -> Batches] : \A r \in Runs : f[r] <= r}
  /\ proc = [r \in Runs |-> [end |-> "none", out |-> 0]]
  /\ session = [r \in Runs |-> "absent"]
  /\ offset = [r \in Runs |-> 0] /\ printed = [r \in Runs |-> {}]
  /\ tick = [k \in Ticks |-> NoTick]
  /\ task = NoTask
  /\ note = [b \in Batches |-> "none"]

PollStep(k) == Serve(k) \/ Answer(k)
AnyTick == \E k \in Ticks : Tick(k)
Next ==
  \/ \E r \in Runs : StartScript(r) \/ Output(r) \/ Exit(r) \/ CloseSession(r)
  \/ \E b \in Batches : AddSessions(b)
  \/ ClearSessions \/ AnyTick
  \/ \E k \in Ticks : PollStep(k)

Spec == Init /\ [][Next]_packageVars

-----------------------------------------------------------------------------
(* Properties.                                                              *)

\* While a notification waits to be completed some session runs: whichever of a
\* poll, a close or a clear ends the last one also completes it.
NoStuckTask == task # NoTask => Running # {}

\* A session that has ended shows all its output, however its polls overlapped.
NothingSkipped ==
  \A r \in Runs : session[r] = "ended" => printed[r] = 1..proc[r].out

\* When the scripts have ended, the notification of the last batch is completed.
\* (That of a batch another one follows before its end is not: taskId is one.)
TaskSettles == <>[](\A r \in Runs : proc[r].end # "running") => []<>(task = NoTask)
=============================================================================
