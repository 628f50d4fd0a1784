------------------------------ MODULE GitRepo ------------------------------
(***************************************************************************)
(* One repository on the Git page (stores/git.ts): the repository, the      *)
(* watcher that reports its changes, what the page shows of it, and the     *)
(* refreshes and git calls in flight.  A call is begun by the user, run by  *)
(* the service and answered later; calls and refreshes overlap freely.      *)
(* Whether the working tree has edits is left open: every control that      *)
(* depends on it may be offered.                                            *)
(***************************************************************************)
EXTENDS Naturals, FiniteSets

CONSTANTS
  MaxVer,      \* bound: changes of the repository under .git
  Slots,       \* bound: git calls in flight
  Refreshes,   \* bound: refreshes in flight
  Uses         \* bound: the sets of operations one behaviour combines

ASSUME GitRepoBounds ==
  /\ MaxVer \in Nat /\ IsFiniteSet(Slots) /\ IsFiniteSet(Refreshes) /\ 0 \notin Slots

VARIABLES
  repo,        \* the repository; ver counts the changes the watcher can see
  watcher,     \* what is under way of {"timer", "event"}
  shown,       \* what the page shows of the repository
  refresh,     \* refreshRepo calls
  calls,       \* git calls
  page,        \* commit text, open dialog, busy flags, result banner
  using        \* the operations of this behaviour, chosen at its start

gitRepoVars == <<repo, watcher, shown, refresh, calls, page, using>>

Repo == [ver: 0..MaxVer, ahead: 0..(MaxVer + 1), behind: 0..(MaxVer + 1), merging: BOOLEAN]
NoRepo == [ver |-> 0, ahead |-> 0, behind |-> 0, merging |-> FALSE]

Op == {"stage", "stageAll", "discard", "commit", "merge", "generate", "push", "pull",
       "clear", "checkout", "switch", "createBranch", "undo"}
Outcome == {"none", "ok", "error", "index_lock"}
Free == [op |-> "none", phase |-> "free", outcome |-> "none", push |-> FALSE]
NoRefresh == [phase |-> "idle", got |-> {}, snap |-> NoRepo, owner |-> 0]

TypeOK ==
  /\ repo \in Repo
  /\ watcher \subseteq {"timer", "event"}
  /\ shown \in [seen: Repo, error: BOOLEAN]
  /\ refresh \in [Refreshes ->
       [phase: {"idle", "reading", "prefill", "answered"},
        got: SUBSET {"sync", "merging", "message"},
        snap: Repo, owner: Slots \cup {0}]]
  /\ calls \in [Slots -> [op: Op \cup {"none"}, phase: {"free", "sent", "done"},
                          outcome: Outcome, push: BOOLEAN]]
  /\ page \in [text: {"empty", "typed", "made"},
               ask: {"none", "discard", "checkout", "undo"},
               flags: SUBSET {"discarding", "committing", "generating",
                              "pushing", "pulling", "checkingOut", "undoing"},
               result: Outcome, lastOp: {"none", "push", "pull"}]
  /\ using \in Uses

-----------------------------------------------------------------------------
(* refreshRepo: reads that are answered one by one, then one patch.         *)

Idle(r) == refresh[r].phase = "idle"
StartedOver(r, owner, sh) ==   \* the first idle one: they are alike
  /\ Idle(r) /\ \A q \in Refreshes : q < r => ~Idle(q)
  /\ refresh' = [refresh EXCEPT ![r].phase = "reading", ![r].owner = owner]
  /\ shown' = [sh EXCEPT !.error = FALSE]
Started(r, owner) == StartedOver(r, owner, shown)

\* The page is opened, made visible again, or the user asks for a refresh (bound:
\* when none is in flight).
Reload(r) ==
  /\ \A q \in Refreshes : Idle(q)
  /\ Started(r, 0)
  /\ UNCHANGED <<repo, watcher, calls, page>>

\* The reads are handled at different moments; a snapshot can mix two states of
\* the repository, and is as old as its first read.
Read(r, part) ==
  /\ refresh[r].phase = "reading" /\ part \notin refresh[r].got
  /\ LET s == refresh[r].snap
         now == IF part = "merging" THEN [s EXCEPT !.merging = repo.merging]
                ELSE [s EXCEPT !.ahead = repo.ahead, !.behind = repo.behind]
         ver == IF refresh[r].got = {} THEN repo.ver ELSE s.ver
     IN refresh' = [refresh EXCEPT ![r].got = @ \cup {part},
                                   ![r].snap = [now EXCEPT !.ver = ver]]
  /\ UNCHANGED <<repo, watcher, shown, calls, page>>

\* The end of a refresh; confirmUndo has awaited the one it started.
Ended(r, pg) ==
  LET s == refresh[r].owner
  IN /\ refresh' = [refresh EXCEPT ![r] = NoRefresh]
     /\ calls' = IF s = 0 THEN calls ELSE [calls EXCEPT ![s] = Free]
     /\ page' = IF s = 0 THEN pg
                ELSE [pg EXCEPT !.flags = @ \ {"undoing"}, !.ask = "none"]

\* All reads are there: whatever was shown before is replaced.
Apply(r) ==
  /\ refresh[r].phase = "reading" /\ refresh[r].got = {"sync", "merging"}
  /\ shown' = [shown EXCEPT !.seen = refresh[r].snap]
  /\ IF refresh[r].snap.merging
     THEN /\ refresh' = [refresh EXCEPT ![r].phase = "prefill"]
          /\ UNCHANGED <<calls, page>>
     ELSE Ended(r, page)
  /\ UNCHANGED <<repo, watcher>>

\* A read failed.
ReadError(r) ==
  /\ refresh[r].phase \in {"reading", "prefill"}
  /\ shown' = [shown EXCEPT !.error = TRUE]
  /\ Ended(r, page)
  /\ UNCHANGED <<repo, watcher>>

\* GetMergeMessage reads a message while there is a merge; its answer fills an
\* empty text.
ReadMessage(r) ==
  /\ refresh[r].phase = "prefill"
  /\ refresh' = [refresh EXCEPT ![r].phase = "answered",
                                ![r].got = IF repo.merging THEN @ \cup {"message"} ELSE @]
  /\ UNCHANGED <<repo, watcher, shown, calls, page>>

HasMessage(r) == "message" \in refresh[r].got
PrefillUntested(r) == IF HasMessage(r) THEN "made" ELSE page.text  \* mutant: no test
Prefill(r) == IF HasMessage(r) /\ page.text = "empty" THEN "made" ELSE page.text
MergeMessage(r) ==
  /\ refresh[r].phase = "answered"
  /\ Ended(r, [page EXCEPT !.text = Prefill(r)])
  /\ UNCHANGED <<repo, watcher, shown>>

-----------------------------------------------------------------------------
(* The user: what the page's controls allow.                                *)

FlagOf(op) == CASE op = "discard" -> {"discarding"}
                [] op \in {"commit", "merge"} -> {"committing"}
                [] op = "generate" -> {"generating"}
                [] op = "push" -> {"pushing"}
                [] op = "pull" -> {"pulling"}
                [] op = "switch" -> {"checkingOut"}
                [] op = "undo" -> {"undoing"}
                [] OTHER -> {}
AskAsNamed(op) == op                           \* mutant: a dialog per operation
AskOf(op) == CASE op = "switch" -> "checkout" [] OTHER -> op

\* What an operation sets before its call.
Busy(op) ==
  LET p == [page EXCEPT !.flags = @ \cup FlagOf(op)]
  IN CASE op \in {"push", "pull"} -> [p EXCEPT !.lastOp = op, !.result = "none"]
       [] op \in {"checkout", "switch"} -> [p EXCEPT !.lastOp = "none", !.result = "none"]
       [] OTHER -> p
Sent(s, op, push) ==
  calls' = [calls EXCEPT ![s] = [op |-> op, phase |-> "sent", outcome |-> "none",
                                 push |-> push]]

\* What the controls offer.  Commit, push and pull also have shortcuts, which do
\* not look at the busy flags; a checkout over edits asks first ("switch").
Offered(op) ==
  CASE op = "commit" -> page.text # "empty"
    [] op = "merge" -> shown.seen.merging /\ "committing" \notin page.flags
    [] op = "generate" -> page.flags \cap {"generating", "committing"} = {}
    [] op = "clear" -> page.result = "index_lock"
    [] op \in {"discard", "switch", "undo"} ->
         page.ask = AskOf(op) /\ FlagOf(op) \cap page.flags = {}
    [] OTHER -> TRUE

Begin(s, op) ==
  /\ calls[s] = Free /\ op \in using /\ Offered(op)
  /\ Sent(s, op, FALSE)
  /\ page' = Busy(op)
  /\ UNCHANGED <<repo, watcher, shown, refresh>>

\* sync: pull if the page shows commits behind, then push if it showed some ahead.
Sync(s) ==
  LET first == IF shown.seen.behind > 0 THEN "pull" ELSE "push"
  IN /\ {"push", "pull"} \subseteq using
     /\ calls[s] = Free /\ shown.seen.behind + shown.seen.ahead > 0
     /\ Sent(s, first, first = "pull" /\ shown.seen.ahead > 0)
     /\ page' = Busy(first)
     /\ UNCHANGED <<repo, watcher, shown, refresh>>

\* A dialog is opened; it can be closed until it is confirmed.
Ask(op) ==
  /\ op \in using /\ page.ask = "none"
  /\ op = "undo" => shown.seen.ahead > 0
  /\ page' = [page EXCEPT !.ask = AskOf(op)]
  /\ UNCHANGED <<repo, watcher, shown, refresh, calls>>
Cancel ==
  /\ page.ask # "none"
  /\ page.flags \cap {"discarding", "checkingOut", "undoing"} = {}
  /\ page' = [page EXCEPT !.ask = "none"]
  /\ UNCHANGED <<repo, watcher, shown, refresh, calls>>

Type(t) ==
  /\ page.text # t /\ using \cap {"commit", "merge", "generate"} # {}
  /\ page' = [page EXCEPT !.text = t]
  /\ UNCHANGED <<repo, watcher, shown, refresh, calls>>

Dismiss ==
  /\ page.result # "none"
  /\ page' = [page EXCEPT !.result = "none"]
  /\ UNCHANGED <<repo, watcher, shown, refresh, calls>>

-----------------------------------------------------------------------------
(* The service runs git.                                                    *)

\* What git may make of an operation: its outcome and the repository after it.
\* Pushing changes no watched file.
Ran(op) ==
  LET done(r) == [kind |-> "ok", repo |-> [r EXCEPT !.ver = repo.ver + 1]]
      same(k) == [kind |-> k, repo |-> repo]
  IN CASE op \in {"stage", "stageAll"} -> {done(repo)}
       [] op \in {"discard", "generate", "clear"} -> {same("ok")}
       [] op = "commit" -> {done([repo EXCEPT !.ahead = @ + 1, !.merging = FALSE])}
       [] op = "merge" /\ repo.merging ->
            {done([repo EXCEPT !.ahead = @ + 1, !.behind = 0, !.merging = FALSE])}
       [] op = "push" -> {IF repo.behind > 0 THEN same("error")
                          ELSE [kind |-> "ok", repo |-> [repo EXCEPT !.ahead = 0]]}
       [] op = "pull" -> {same("index_lock"),
                          IF repo.behind = 0 THEN same("ok")
                          ELSE IF repo.ahead = 0 THEN done([repo EXCEPT !.behind = 0])
                          ELSE [done([repo EXCEPT !.merging = TRUE]) EXCEPT !.kind = "error"]}
       [] op \in {"checkout", "switch", "createBranch"} ->
            {done([repo EXCEPT !.ahead = 0, !.behind = 0])}
       [] op = "undo" -> {IF repo.ahead > 0 THEN done([repo EXCEPT !.ahead = @ - 1])
                          ELSE done([repo EXCEPT !.behind = @ + 1])}
       [] OTHER -> {}

Run(s) ==
  /\ calls[s].phase = "sent"
  /\ \E o \in Ran(calls[s].op) \cup {[kind |-> "error", repo |-> repo]} :
       /\ o.repo \in Repo
       /\ repo' = o.repo
       /\ watcher' = watcher \cup (IF o.repo.ver # repo.ver THEN {"timer"} ELSE {})
                             \cup (IF calls[s].op = "clear" /\ o.kind = "ok" THEN {"event"} ELSE {})
       /\ calls' = [calls EXCEPT ![s].phase = "done", ![s].outcome = o.kind]
  /\ UNCHANGED <<shown, refresh, page>>

-----------------------------------------------------------------------------
(* The answers.                                                             *)

Failed(s) == calls[s].outcome # "ok"
Freed(s) == calls' = [calls EXCEPT ![s] = Free]

\* What the answer does to the page, the flag of the operation included.
FlagKept(s) == IF Failed(s) THEN {} ELSE FlagOf(calls[s].op)  \* mutant: not in a finally
FlagCleared(s) == FlagOf(calls[s].op)
Answered(s) ==
  LET op == calls[s].op
      p == [page EXCEPT !.flags = @ \ FlagCleared(s)]
  IN CASE op = "discard" -> [p EXCEPT !.ask = "none"]
       [] op \in {"commit", "merge"} /\ ~Failed(s) -> [p EXCEPT !.text = "empty"]
       [] op = "generate" /\ ~Failed(s) -> [p EXCEPT !.text = "made"]
       [] op \in {"push", "pull", "checkout"} /\ Failed(s) ->
            [p EXCEPT !.result = calls[s].outcome]
       [] op = "switch" -> [p EXCEPT !.result = IF Failed(s) THEN "error" ELSE @,
                                     !.ask = "none"]
       [] OTHER -> p

\* A thrown error is shown, except that nobody catches those of stageAll and
\* createBranch; push, pull and checkout report results and always refresh.
\* continueMerge leaves the merge state before its refresh does.
Answer(s, r) ==
  LET op == calls[s].op
      caught == Failed(s) /\ op \in {"stage", "discard", "commit", "merge", "generate"}
      lost == Failed(s) /\ op \in {"stageAll", "createBranch"}
  IN /\ calls[s].phase = "done" /\ op \notin {"clear", "undo"} /\ ~calls[s].push
     /\ Freed(s)
     /\ page' = Answered(s)
     /\ IF caught \/ lost \/ op = "generate"
        THEN shown' = [shown EXCEPT !.error = @ \/ caught] /\ UNCHANGED refresh
        ELSE StartedOver(r, 0, [shown EXCEPT !.seen.merging = @ /\ op # "merge"])
     /\ UNCHANGED <<repo, watcher>>

\* The pull of a sync is answered, whatever its result: it refreshes and the push
\* follows.
AnswerThenPush(s, r) ==
  /\ calls[s].phase = "done" /\ calls[s].push
  /\ Sent(s, "push", FALSE)
  /\ page' = [page EXCEPT !.flags = (@ \ FlagCleared(s)) \cup {"pushing"},
                          !.lastOp = "push", !.result = "none"]
  /\ Started(r, 0)
  /\ UNCHANGED <<repo, watcher>>

\* The lock is cleared: the operation that is the last one by now is repeated.
AnswerClear(s, r) ==
  /\ calls[s].phase = "done" /\ calls[s].op = "clear"
  /\ \/ /\ Failed(s)
        /\ Freed(s)
        /\ UNCHANGED <<page, refresh, shown>>
     \/ /\ ~Failed(s) /\ page.lastOp # "none"
        /\ Sent(s, page.lastOp, FALSE)
        /\ page' = Busy(page.lastOp)
        /\ UNCHANGED <<refresh, shown>>
     \/ /\ ~Failed(s) /\ page.lastOp = "none"
        /\ Freed(s)
        /\ page' = [page EXCEPT !.result = "none"]
        /\ Started(r, 0)
  /\ UNCHANGED <<repo, watcher>>

\* confirmUndo awaits a refresh after the reset, so its call is not over yet.
AnswerUndo(s, r) ==
  /\ calls[s].phase = "done" /\ calls[s].op = "undo"
  /\ \A q \in Refreshes : refresh[q].owner # s
  /\ Started(r, s)
  /\ UNCHANGED <<repo, watcher, calls, page>>

-----------------------------------------------------------------------------
(* The repository and its watcher.                                          *)

\* Somebody else works in the repository: a commit, or a fetch that finds the
\* remote ahead.
Outside ==
  /\ repo.ver < MaxVer
  /\ \/ repo' = [repo EXCEPT !.ver = @ + 1, !.ahead = @ + 1]
     \/ repo' = [repo EXCEPT !.ver = @ + 1, !.behind = @ + 1]
  /\ repo' \in Repo
  /\ watcher' = watcher \cup {"timer"}
  /\ UNCHANGED <<shown, refresh, calls, page>>

\* 400 ms after the last event of the file system git:changed is emitted.
TimerFires ==
  /\ "timer" \in watcher
  /\ watcher' = (watcher \ {"timer"}) \cup {"event"}
  /\ UNCHANGED <<repo, shown, refresh, calls, page>>

\* The window handles git:changed.
SkippedIfBusy(r) ==                            \* mutant: skipped while one is running
  IF \E q \in Refreshes : ~Idle(q) THEN UNCHANGED <<refresh, shown>> ELSE Started(r, 0)
OnChanged(r) == Started(r, 0)
Changed(r) ==
  /\ "event" \in watcher
  /\ watcher' = watcher \ {"event"}
  /\ OnChanged(r)
  /\ UNCHANGED <<repo, calls, page>>

-----------------------------------------------------------------------------
Init ==
  /\ repo \in {[NoRepo EXCEPT !.ahead = 1], [NoRepo EXCEPT !.ahead = 1, !.behind = 1],
               [NoRepo EXCEPT !.ahead = 1, !.behind = 1, !.merging = TRUE]}
  /\ watcher = {}
  /\ shown = [seen |-> repo, error |-> FALSE]
  /\ refresh = [r \in Refreshes |-> NoRefresh]
  /\ calls = [s \in Slots |-> Free]
  /\ page = [text |-> "empty", ask |-> "none", flags |-> {}, result |-> "none",
             lastOp |-> "none"]
  /\ using \in Uses

\* What the user and others do.
User ==
  \/ \E r \in Refreshes : Reload(r)
  \/ \E s \in Slots : Sync(s) \/ \E op \in Op : Begin(s, op)
  \/ \E op \in {"discard", "switch", "undo"} : Ask(op)
  \/ \E t \in {"empty", "typed"} : Type(t)
  \/ Cancel \/ Dismiss \/ Outside

\* What the program does on its own.
RefreshStep(r) ==
  \/ \E part \in {"sync", "merging"} : Read(r, part)
  \/ Apply(r) \/ ReadError(r) \/ ReadMessage(r) \/ MergeMessage(r)
CallStep(s) ==
  \/ Run(s)
  \/ \E r \in Refreshes : \/ Answer(s, r) \/ AnswerThenPush(s, r)
                          \/ AnswerClear(s, r) \/ AnswerUndo(s, r)
Notice == \E r \in Refreshes : Changed(r)

Next ==
  /\ \/ User
     \/ \E r \in Refreshes : RefreshStep(r)
     \/ \E s \in Slots : CallStep(s)
     \/ TimerFires \/ Notice
  /\ UNCHANGED using

Spec == Init /\ [][Next]_gitRepoVars
Fairness ==
  /\ WF_gitRepoVars(TimerFires /\ UNCHANGED using)
  /\ SF_gitRepoVars(Notice /\ UNCHANGED using)
  /\ \A r \in Refreshes : WF_gitRepoVars(RefreshStep(r) /\ UNCHANGED using)
FairSpec == Spec /\ Fairness

-----------------------------------------------------------------------------
(* Properties.                                                              *)

\* Every change of the repository that the watcher sees is read and shown, or an
\* error is: the debounce, the event, the refresh it starts and the answers that
\* overlap with it never lose one (a later answer to an older refresh may put
\* the older state back).
EveryChangeShown ==
  \A v \in 1..MaxVer :
    <>(repo.ver >= v) => <>(shown.seen.ver >= v \/ (shown.error /\ repo.ver >= v))

\* A busy flag is on only while a call that will turn it off is in flight: no
\* path through an operation leaves its button disabled.
FlagsHaveCalls ==
  \A f \in page.flags : \E s \in Slots : f \in FlagOf(calls[s].op)

\* Text the user typed is replaced only by the user, by a commit or a merge that
\* succeeded, or by a generated message that was asked for; the merge message
\* that a refresh prefills never overwrites it.
TypedTextKept ==
  [][page.text = "typed" /\ page'.text # "typed"
       => \/ Type("empty")
          \/ \E s \in Slots, r \in Refreshes :
               Answer(s, r) /\ calls[s].op \in {"commit", "merge", "generate"}
    ]_gitRepoVars
=============================================================================
