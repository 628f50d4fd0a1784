----------------------------- MODULE RunPolling -----------------------------
(***************************************************************************)
(* The window's side of workflow runs, frontend/src/app/stores/            *)
(* workflowRuns.ts: startRun, the 500 ms timer, its pollTick and           *)
(* mergeChunk, and the task notification that each run completes through   *)
(* lib/taskNotify.ts.                                                      *)
(*                                                                         *)
(* JavaScript runs one callback at a time, up to its next await: an action *)
(* is one such piece, or the service handling one call.  setInterval does  *)
(* not wait for pollTick, so a slow call leaves several ticks in flight.   *)
(* PollRunLogs is one step here, with what WorkflowEngine shows of it: a   *)
(* chunk that says done carries the rest of the log.                       *)
(***************************************************************************)
EXTENDS Naturals, Sequences, FiniteSets

CONSTANTS
    Workflows,   \* the workflows of the list
    NoWorkflow,  \* the workflow of a run that was not asked for
    MaxRuns,     \* bound: how often the user presses Run
    MaxLog,      \* bound: length of the log of one run
    MaxTicks,    \* bound: how many ticks are in flight at a time
    MaxErrors    \* bound: how many calls of PollRunLogs fail

ASSUME WorkflowsAssumption == NoWorkflow \notin Workflows
ASSUME BoundsAssumption ==
    MaxRuns \in Nat /\ MaxLog \in Nat /\ MaxTicks \in Nat /\ MaxErrors \in Nat

VARIABLES
    asked,     \* the workflow each run was asked for, NoWorkflow if it was not
    entry,     \* the store: what the window shows of each workflow
    note,      \* the task notification of each run
    told,      \* how often each run was announced as completed
    len,       \* service: length of the run's log
    over,      \* service: the runs with a final status
    tick,      \* the ticks in flight, and what each waits for
    errors,    \* how many calls have failed
    overlap    \* history: two ticks were once in flight together

vars == <<asked, entry, note, told, len, over, tick, errors, overlap>>
service == <<len, over>>

Runs == 1 .. MaxRuns
Ticks == 1 .. MaxTicks

NoEntry == [run |-> 0, offset |-> 0, text |-> <<>>, done |-> FALSE]
Shown(w) == entry[w].run # 0

\* A tick holds the entries it took from the store when it started and has yet
\* to poll, the one it polls now, and the answer if there is one.
Item == [workflow : Workflows, run : Runs, offset : 0 .. MaxLog]
NoChunk == [upto |-> 0, done |-> FALSE]
Idle == [at |-> {}, todo |-> {}, pc |-> "idle", chunk |-> NoChunk]

Init ==
    /\ asked = [r \in Runs |-> NoWorkflow]
    /\ entry = [w \in Workflows |-> NoEntry]
    /\ note = [r \in Runs |-> "none"]
    /\ told = [r \in Runs |-> 0]
    /\ len = [r \in Runs |-> 0]
    /\ over = {}
    /\ tick = [t \in Ticks |-> Idle]
    /\ errors = 0
    /\ overlap = FALSE

-----------------------------------------------------------------------------
(* startRun.                                                                *)

\* The Run button is enabled unless the workflow shows a run that is not done.
\* A notification appears and RunWorkflow is called; until it answers, the
\* entry is still the old one and the button still enabled.
AskRun(w) ==
    /\ Shown(w) => entry[w].done
    /\ \E r \in Runs :
          /\ asked[r] = NoWorkflow
          /\ \A q \in 1 .. r - 1 : asked[q] # NoWorkflow
          /\ asked' = [asked EXCEPT ![r] = w]
          /\ note' = [note EXCEPT ![r] = "asked"]
    /\ UNCHANGED <<entry, told, service, tick, errors, overlap>>

\* RunWorkflow answers with the run, whose entry replaces what was there.
RunStarted(r) ==
    /\ note[r] = "asked"
    /\ note' = [note EXCEPT ![r] = "running"]
    /\ entry' = [entry EXCEPT ![asked[r]] = [NoEntry EXCEPT !.run = r]]
    /\ UNCHANGED <<asked, told, service, tick, errors, overlap>>

\* RunWorkflow fails: the notification is completed at once.
RunRefused(r) ==
    /\ note[r] = "asked" /\ len[r] = 0 /\ r \notin over
    /\ note' = [note EXCEPT ![r] = "complete"]
    /\ told' = [told EXCEPT ![r] = @ + 1]
    /\ UNCHANGED <<asked, entry, service, tick, errors, overlap>>

-----------------------------------------------------------------------------
(* The service: the log grows, the run ends, calls are answered.            *)

Log(r) ==
    /\ note[r] \in {"asked", "running"} /\ r \notin over /\ len[r] < MaxLog
    /\ len' = [len EXCEPT ![r] = @ + 1]
    /\ UNCHANGED <<asked, entry, note, told, over, tick, errors, overlap>>

End(r) ==
    /\ note[r] \in {"asked", "running"} /\ r \notin over
    /\ over' = over \union {r}
    /\ UNCHANGED <<asked, entry, note, told, len, tick, errors, overlap>>

\* PollRunLogs: the log from the caller's offset on, and whether it is all.
Serve(t) ==
    /\ tick[t].pc = "waiting"
    /\ \E i \in tick[t].at :
          tick' = [tick EXCEPT ![t].pc = "answered",
                               ![t].chunk = [upto |-> IF len[i.run] > i.offset THEN len[i.run]
                                                      ELSE i.offset,
                                             done |-> i.run \in over]]
    /\ UNCHANGED <<asked, entry, note, told, service, errors, overlap>>

-----------------------------------------------------------------------------
(* pollTick.                                                                *)

Unfinished(w) == Shown(w) /\ ~entry[w].done

\* A mutant: the timer runs only as long as every run is unfinished.
PollingAll == \A w \in Workflows : Unfinished(w)

\* syncPolling: the timer runs as long as some entry is not done.
Polling == \E w \in Workflows : Unfinished(w)

\* The tick polls the next of its entries, or ends.
GoOn(t, todo) ==
    IF todo = {} THEN tick' = [tick EXCEPT ![t] = Idle]
    ELSE \E i \in todo :
           tick' = [tick EXCEPT ![t] = [Idle EXCEPT !.at = {i}, !.todo = todo \ {i},
                                                    !.pc = "waiting"]]

\* The timer fires: a tick takes all unfinished entries with their offsets.
Fire(t) ==
    /\ Polling
    /\ tick[t].pc = "idle"
    /\ \A u \in 1 .. t - 1 : tick[u].pc # "idle"
    /\ GoOn(t, {[workflow |-> w, run |-> entry[w].run, offset |-> entry[w].offset] :
                    w \in {v \in Workflows : Unfinished(v)}})
    /\ overlap' = (overlap \/ \E u \in Ticks \ {t} : tick[u].pc # "idle")
    /\ UNCHANGED <<asked, entry, note, told, service, errors>>

\* The call fails: the tick goes on to its next entry.
Fail(t) ==
    /\ tick[t].pc = "waiting" /\ errors < MaxErrors
    /\ errors' = errors + 1
    /\ GoOn(t, tick[t].todo)
    /\ UNCHANGED <<asked, entry, note, told, service, overlap>>

\* A mutant: whatever the workflow shows by now takes the chunk.
AnyRun(i) == Shown(i.workflow)

\* The entry that was polled is still the one shown.
StillShown(i) == Shown(i.workflow) /\ entry[i.workflow].run = i.run

\* The text of a chunk: the positions of run r after offset, up to upto.
Piece(r, offset, upto) == [k \in 1 .. upto - offset |-> <<r, offset + k>>]

\* A mutant: the next offset is one too far.
MergeTooFar(cur, i, chunk) ==
    [cur EXCEPT !.text = @ \o Piece(i.run, i.offset, chunk.upto),
                !.offset = chunk.upto + 1,
                !.done = chunk.done]

\* A mutant: the entry keeps its offset.
MergeKeepsOffset(cur, i, chunk) ==
    [cur EXCEPT !.text = @ \o Piece(i.run, i.offset, chunk.upto), !.done = chunk.done]

\* mergeChunk: the text is appended, offset and done are those of the chunk.
MergeChunk(cur, i, chunk) ==
    [cur EXCEPT !.text = @ \o Piece(i.run, i.offset, chunk.upto),
                !.offset = chunk.upto,
                !.done = chunk.done]

\* The tick goes on with the answer: merge, notify, and the next entry.
Resume(t) ==
    /\ tick[t].pc = "answered"
    /\ \E i \in tick[t].at :
         LET next == MergeChunk(entry[i.workflow], i, tick[t].chunk)
         IN IF StillShown(i)
            THEN /\ entry' = [entry EXCEPT ![i.workflow] = next]
                 /\ IF next.done
                    THEN /\ note' = [note EXCEPT ![i.run] = "complete"]
                         /\ told' = [told EXCEPT ![i.run] = @ + 1]
                    ELSE UNCHANGED <<note, told>>
            ELSE UNCHANGED <<entry, note, told>>
    /\ GoOn(t, tick[t].todo)
    /\ UNCHANGED <<asked, service, errors, overlap>>

-----------------------------------------------------------------------------
Run(r) == RunStarted(r) \/ RunRefused(r) \/ Log(r) \/ End(r)
Poll(t) == Fire(t) \/ Serve(t) \/ Fail(t) \/ Resume(t)

Next ==
    \/ \E w \in Workflows : AskRun(w)
    \/ \E r \in Runs : Run(r)
    \/ \E t \in Ticks : Poll(t)

Spec == Init /\ [][Next]_vars

\* The timer fires, calls are answered, and callbacks run.
FairSpec ==
    /\ Spec
    /\ \A t \in Ticks : WF_vars(Poll(t))

-----------------------------------------------------------------------------
TypeOK ==
    /\ asked \in [Runs -> Workflows \union {NoWorkflow}]
    /\ \A w \in Workflows :
          /\ entry[w].run \in 0 .. MaxRuns /\ entry[w].offset \in 0 .. MaxLog
          /\ entry[w].done \in BOOLEAN
          /\ \A k \in DOMAIN entry[w].text : entry[w].text[k] \in Runs \X (1 .. MaxLog)
    /\ note \in [Runs -> {"none", "asked", "running", "complete"}]
    /\ len \in [Runs -> 0 .. MaxLog]
    /\ over \subseteq Runs
    /\ \A t \in Ticks :
          /\ tick[t].pc \in {"idle", "waiting", "answered"}
          /\ tick[t].at \subseteq Item /\ tick[t].todo \subseteq Item
          /\ Cardinality(tick[t].at) = IF tick[t].pc = "idle" THEN 0 ELSE 1
          /\ tick[t].chunk \in [upto : 0 .. MaxLog, done : BOOLEAN]
    /\ errors \in 0 .. MaxErrors
    /\ overlap \in BOOLEAN

Positions(w) == {entry[w].text[k] : k \in DOMAIN entry[w].text}

\* However ticks overlap, whatever order their answers arrive in: the window
\* shows only the log of its run, all of it up to the offset it polls from, and
\* all of it to the end once it shows the run as done.
NothingLost ==
    \A w \in Workflows : Shown(w) =>
       LET r == entry[w].run
           known == IF entry[w].done THEN len[r] ELSE entry[w].offset
       IN /\ Positions(w) \subseteq {<<r, k>> : k \in 1 .. len[r]}
          /\ {<<r, k>> : k \in 1 .. known} \subseteq Positions(w)
          /\ entry[w].done => r \in over

\* As long as no two ticks were in flight together, the window shows the log
\* exactly once and in order, and announces no run twice.
PromptPollsExact ==
    ~overlap =>
       /\ \A w \in Workflows : entry[w].text = Piece(entry[w].run, 0, entry[w].offset)
       /\ \A r \in Runs : told[r] <= 1

\* A run that has ended is announced, unless a second start of its workflow
\* took its place in the window: overlapping ticks and failing calls delay it.
RunAnnounced ==
    \A r \in Runs : \A w \in Workflows :
       entry[w].run = r /\ r \in over ~> entry[w].run # r \/ note[r] = "complete"

\* "Call once per Run outcome, never on start." (lib/taskNotify.ts:18)
CompletedOnce == \A r \in Runs : told[r] <= 1
=============================================================================
