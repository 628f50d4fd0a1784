------------------------------ MODULE LocalAI ------------------------------
(***************************************************************************)
(* Local AI (stores/localai.ts, LocalAISetupCard.tsx, localaiservice.go):   *)
(* the Ollama binary and its download, the processes StartOllama spawns,    *)
(* model pulls, status queries, and what the card shows and offers.         *)
(* Generation (a counter around a call) is left out.                        *)
(***************************************************************************)
EXTENDS Naturals, FiniteSets

CONSTANTS
  Models,      \* the models of the card
  Procs,       \* bound: processes spawned
  Queries      \* bound: status queries in flight

VARIABLES
  binary,      \* the Ollama binary is on disk
  proc,        \* the spawned processes: one of them can have the port
  child,       \* the process StartOllama has spawned and not stored yet
  cmd,         \* ollamaCmd, the managed process
  unanswered,  \* the processes alive when the probe of StartOllama found no API
  displaced,   \* those of them another took the place of in ollamaCmd (history)
  unheld,      \* those not stored when StopOllama ran, or spawned after it (history)
  pulled,      \* the models Ollama has
  start,       \* the StartOllama call
  job,         \* the download and the pull that run in the backend
  query,       \* fetchStatus calls
  ui,          \* LocalAIState
  app          \* the application: it stops from ServiceShutdown to its exit

localVars ==
  <<binary, proc, child, cmd, unanswered, displaced, unheld, pulled, start, job, query,
    ui, app>>

Idle == [phase |-> "idle", model |-> "none", api |-> FALSE, binary |-> FALSE, has |-> FALSE]
NoJobs == [download |-> "idle", pull |-> "idle", pulling |-> "none"]
Blank(m) == [model |-> m, binary |-> FALSE, downloading |-> FALSE, running |-> FALSE,
             starting |-> FALSE, has |-> FALSE, pulling |-> FALSE]
JobPhase == {"idle", "running", "done", "error"}

TypeOK ==
  /\ binary \in BOOLEAN /\ app \in {"up", "stopping", "off"}
  /\ proc \in [Procs -> {"none", "loading", "serving", "dead"}]
  /\ child \in Procs \cup {0} /\ cmd \in Procs \cup {0}
  /\ unanswered \subseteq Procs /\ displaced \subseteq Procs /\ unheld \subseteq Procs
  /\ pulled \subseteq Models
  /\ start \in {"idle", "called", "probed", "spawned", "waiting", "ok", "error"}
  /\ job \in [download: JobPhase, pull: JobPhase, pulling: Models \cup {"none"}]
  /\ query \in [Queries -> [phase: {"idle", "sent", "status", "answered"},
                            model: Models \cup {"none"}, api: BOOLEAN,
                            binary: BOOLEAN, has: BOOLEAN]]
  /\ ui \in [model: Models, binary: BOOLEAN, downloading: BOOLEAN, running: BOOLEAN,
             starting: BOOLEAN, has: BOOLEAN, pulling: BOOLEAN]

Alive == {p \in Procs : proc[p] \in {"loading", "serving"}}
Api == \E p \in Procs : proc[p] = "serving"
CheckOllama == IF Api THEN BOOLEAN ELSE {FALSE} \* a process may serve and not answer in 2 s

heldVars == <<displaced, unheld>>
procVars == <<proc, child, cmd, unanswered, heldVars>>

-----------------------------------------------------------------------------
(* The Ollama process.                                                      *)

\* The retry button after an error, or the automatic start at bootstrap.  (A retry
\* pressed after a refresh has shown it running, or no binary, is left out.)
StartOllama ==
  /\ app = "up" /\ start = "idle" /\ ui.binary /\ ~ui.starting /\ ~ui.running
  /\ start' = "called"
  /\ ui' = [ui EXCEPT !.starting = TRUE]
  /\ UNCHANGED <<binary, procVars, pulled, job, query, app>>

\* The call asks for the API, spawns a process when there is none, and stores it.
\* It goes on while the application stops.
Probe ==
  /\ app # "off" /\ start = "called"
  /\ \E up \in CheckOllama :
       /\ start' = IF up THEN "ok" ELSE "probed"
       /\ unanswered' = IF up THEN {} ELSE Alive
  /\ UNCHANGED <<binary, proc, child, cmd, heldVars, pulled, job, query, ui, app>>
Spawn(p) ==
  /\ app # "off" /\ start = "probed" /\ binary
  /\ proc[p] = "none" /\ \A q \in Procs : q < p => proc[q] # "none"
  /\ start' = "spawned"
  /\ proc' = [proc EXCEPT ![p] = "loading"] /\ child' = p
  /\ unheld' = IF app = "up" THEN unheld ELSE unheld \cup {p}
  /\ UNCHANGED <<binary, cmd, unanswered, displaced, pulled, job, query, ui, app>>
SpawnError ==
  /\ app # "off" /\ start = "probed"
  /\ start' = "error" /\ unanswered' = {}
  /\ UNCHANGED <<binary, proc, child, cmd, heldVars, pulled, job, query, ui, app>>
Forgotten == cmd                               \* mutant: not stored
Remembered == child
Store ==
  /\ app # "off" /\ start = "spawned"
  /\ start' = "waiting"
  /\ cmd' = Remembered /\ child' = 0
  /\ displaced' = displaced \cup (unanswered \cap {cmd}) /\ unanswered' = {}
  /\ UNCHANGED <<binary, proc, unheld, pulled, job, query, ui, app>>

\* The wait ends: the API answers, or 10 s have passed.
WaitEnds ==
  /\ app # "off" /\ start = "waiting"
  /\ \E up \in CheckOllama : start' = IF up THEN "ok" ELSE "error"
  /\ UNCHANGED <<binary, procVars, pulled, job, query, ui, app>>

\* A process takes the port, or finds it taken and ends; or it dies.
Serve(p) ==
  /\ proc[p] = "loading"
  /\ proc' = [proc EXCEPT ![p] = IF Api THEN "dead" ELSE "serving"]
  /\ UNCHANGED <<binary, child, cmd, unanswered, heldVars, pulled, start, job, query, ui, app>>
Die(p) ==
  /\ p \in Alive
  /\ proc' = [proc EXCEPT ![p] = "dead"]
  /\ UNCHANGED <<binary, child, cmd, unanswered, heldVars, pulled, start, job, query, ui, app>>

Started ==
  /\ app = "up" /\ start \in {"ok", "error"}
  /\ start' = "idle"
  /\ IF start = "ok" THEN ui' = [ui EXCEPT !.starting = FALSE, !.running = TRUE]
     ELSE \E up \in {ui.running, FALSE} :     \* cleared by the start at bootstrap only
            ui' = [ui EXCEPT !.starting = FALSE, !.running = up]
  /\ UNCHANGED <<binary, procVars, pulled, job, query, app>>

\* ServiceShutdown calls StopOllama, which kills the process stored by then.  The
\* window is over; a StartOllama goes on until the application has ended.
ServiceShutdown ==
  /\ app = "up" /\ app' = "stopping"
  /\ proc' = IF cmd = 0 THEN proc ELSE [proc EXCEPT ![cmd] = "dead"]
  /\ cmd' = 0
  /\ unheld' = unheld \cup ({child} \ {0})
  /\ query' = [q \in Queries |-> Idle]
  /\ job' = NoJobs /\ ui' = Blank(ui.model)
  /\ UNCHANGED <<binary, child, unanswered, displaced, pulled, start>>
Exit ==
  /\ app = "stopping" /\ app' = "off"
  /\ child' = 0 /\ cmd' = 0 /\ start' = "idle" /\ unanswered' = {}
  /\ UNCHANGED <<binary, proc, heldVars, pulled, job, query, ui>>

-----------------------------------------------------------------------------
(* The downloads; each ends with one event.                                 *)

StartDownload ==
  /\ app = "up" /\ ~ui.binary /\ ~ui.downloading
  /\ job' = [job EXCEPT !.download = "running"]
  /\ ui' = [ui EXCEPT !.downloading = TRUE]
  /\ UNCHANGED <<binary, procVars, pulled, start, query, app>>
Downloaded ==
  /\ app = "up" /\ job.download = "running"
  /\ \E end \in {"done", "error"} : /\ job' = [job EXCEPT !.download = end]
                                    /\ binary' = (binary \/ end = "done")
  /\ UNCHANGED <<procVars, pulled, start, query, ui, app>>
DownloadEvent ==
  /\ app = "up" /\ job.download \in {"done", "error"}
  /\ job' = [job EXCEPT !.download = "idle"]
  /\ ui' = [ui EXCEPT !.downloading = FALSE, !.binary = @ \/ job.download = "done"]
  /\ UNCHANGED <<binary, procVars, pulled, start, query, app>>

\* The download button, or the retry button, which does not ask whether it runs.
StartPull ==
  /\ app = "up" /\ ~ui.has /\ ~ui.pulling
  /\ job' = [job EXCEPT !.pull = "running", !.pulling = ui.model]
  /\ ui' = [ui EXCEPT !.pulling = TRUE]
  /\ UNCHANGED <<binary, procVars, pulled, start, query, app>>

\* The stream ends, with or without "success".
PullEnds == IF Api THEN {"done", "error"} ELSE {"error"}
Pulled ==
  /\ app = "up" /\ job.pull = "running"
  /\ \E end \in PullEnds :
       /\ job' = [job EXCEPT !.pull = end]
       /\ pulled' = IF end = "done" THEN pulled \cup {job.pulling} ELSE pulled
  /\ UNCHANGED <<binary, procVars, start, query, ui, app>>
StillPulling(end) == end = "error"             \* mutant: the error event is not handled
Pulling(end) == FALSE
PullEvent ==
  /\ app = "up" /\ job.pull \in {"done", "error"}
  /\ job' = [job EXCEPT !.pull = "idle", !.pulling = "none"]
  /\ ui' = [ui EXCEPT !.pulling = Pulling(job.pull), !.has = @ \/ job.pull = "done"]
  /\ UNCHANGED <<binary, procVars, pulled, start, query, app>>

-----------------------------------------------------------------------------
(* fetchStatus, of the bootstrap and of refresh: the model is read first,   *)
(* then GetOllamaStatus and GetPulledModels are awaited.                    *)

Query(q) ==
  /\ app = "up" /\ query[q].phase = "idle"
  /\ ui.running \/ ~(ui.downloading \/ ui.starting \/ ui.pulling)
  /\ query' = [query EXCEPT ![q] = [Idle EXCEPT !.phase = "sent", !.model = ui.model]]
  /\ UNCHANGED <<binary, procVars, pulled, start, job, ui, app>>
Status(q) ==
  /\ app = "up" /\ query[q].phase = "sent"
  /\ \E up \in CheckOllama :
       query' = [query EXCEPT ![q].phase = IF up THEN "status" ELSE "answered",
                              ![q].api = up, ![q].binary = binary]
  /\ UNCHANGED <<binary, procVars, pulled, start, job, ui, app>>
PulledModels(q) ==
  /\ app = "up" /\ query[q].phase = "status"
  /\ query' = [query EXCEPT ![q].phase = "answered",
                            ![q].has = Api /\ query[q].model \in pulled]
  /\ UNCHANGED <<binary, procVars, pulled, start, job, ui, app>>
QueryAnswer(q) ==
  /\ app = "up" /\ query[q].phase = "answered"
  /\ query' = [query EXCEPT ![q] = Idle]
  /\ ui' = [ui EXCEPT !.binary = query[q].binary, !.running = query[q].api,
                      !.has = query[q].has]
  /\ UNCHANGED <<binary, procVars, pulled, start, job, app>>

\* The model selector is disabled during a pull.
AnyTime == TRUE                                \* mutant: it is not
Selectable == ~ui.pulling /\ ~ui.downloading
SetModel(m) ==
  /\ app = "up" /\ Selectable
  /\ ui' = [ui EXCEPT !.model = m, !.has = FALSE]
  /\ UNCHANGED <<binary, procVars, pulled, start, job, query, app>>

-----------------------------------------------------------------------------
Init ==
  /\ binary \in BOOLEAN
  /\ proc = [p \in Procs |-> "none"] /\ child = 0 /\ cmd = 0
  /\ unanswered = {} /\ displaced = {} /\ unheld = {}
  /\ pulled \in SUBSET Models
  /\ start = "idle"
  /\ job = NoJobs
  /\ query = [q \in Queries |-> Idle]
  /\ \E m \in Models : ui = Blank(m)
  /\ app = "up"

StartStep == Probe \/ (\E p \in Procs : Spawn(p)) \/ SpawnError \/ Store \/ WaitEnds \/ Started
QueryStep(q) == Status(q) \/ PulledModels(q) \/ QueryAnswer(q)
Next ==
  \/ StartOllama \/ StartStep \/ ServiceShutdown \/ Exit
  \/ \E p \in Procs : Serve(p) \/ Die(p)
  \/ StartDownload \/ Downloaded \/ DownloadEvent
  \/ StartPull \/ Pulled \/ PullEvent
  \/ \E q \in Queries : Query(q) \/ QueryStep(q)
  \/ \E m \in Models : SetModel(m)

Spec == Init /\ [][Next]_localVars

-----------------------------------------------------------------------------
(* Properties.                                                              *)

\* The card says that the model is there only after Ollama had it, except when
\* the answer to a query about the model selected before comes late.
HasModel ==
  [][ui'.has /\ ~ui.has =>
       \/ ui'.model \in pulled
       \/ \E q \in Queries : QueryAnswer(q) /\ query[q].model # ui.model]_localVars

\* The card leaves its busy states, in which every control of that kind is off and
\* only an answer or an event ends it.  A start ends in its 10 s; a pull or a
\* download reads a stream without a time limit, so what is promised of it is that
\* the card does not show it for ever when it has ended, however it ended.
CardSettles ==
  /\ []<>(~ui.starting \/ app # "up")
  /\ []<>(~ui.pulling \/ job.pull = "running" \/ app # "up")
  /\ []<>(~ui.downloading \/ job.download = "running" \/ app # "up")

\* StopOllama terminates the managed subprocess: when the application has ended,
\* no process it spawned is left, except one that was not stored yet when StopOllama
\* ran and one whose place in ollamaCmd another took as it did not answer (it still
\* loaded, or it was slow).
OllamaStopped == app = "off" => Alive \subseteq displaced \cup unheld
=============================================================================
