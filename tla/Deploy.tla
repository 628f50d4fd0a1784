------------------------------ MODULE Deploy ------------------------------
(***************************************************************************)
(* The deploys of one neuron (DeployPane.tsx, developTabs.tsx,              *)
(* deployservice.go): the tab and its session, the call that starts an      *)
(* operation of the backend, polls of it that overlap, and the notification *)
(* of each deploy, from which a tab is restored.  The panes are mounted     *)
(* while the window is in its workspace; the tabs and their sessions stay.  *)
(* The environments of a deploy share one operation and end together: they  *)
(* are one here.                                                            *)
(***************************************************************************)
EXTENDS Naturals

CONSTANTS
  Deploys,     \* bound: deploys of the neuron, in the order they are started
  MaxPolls,    \* bound: polls of a deploy under way
  MaxLoads,    \* bound: loads of a tab under way
  MaxLeaves    \* bound: times the user leaves the workspace

VARIABLES
  mounted,     \* the panes are
  leaves,      \* how often they were unmounted (bounds it)
  pane,        \* the tab's session, taskIdRef (task), notificationId (tab), the
               \* notification it was restored from, as it was then, and its loads
  notice,      \* the notification of each deploy, envOps of its meta (saved)
  told,        \* completions of it: each one is a toast and a system notification
  again,       \* deploys a tab restored from them was mounted again with (history)
  launch,      \* RunDeploy under way, "orphaned" once the tab that called it is gone
  poll,        \* PollDeployOperation under way, of each deploy
  operation    \* the backend's operation of each deploy

deployVars == <<mounted, leaves, pane, notice, told, again, launch, poll, operation>>

\* How a run is shown to end: as its operation, or by a call that failed.
Ends == {"none", "ok", "error", "lost"}
NoRuns == [of |-> 0, named |-> FALSE, end |-> "none"]
NotRestored == [of |-> 0, step |-> "none", saved |-> "none"]
NoPane == [step |-> "none", ready |-> FALSE, runs |-> NoRuns, task |-> 0, tab |-> 0,
           restored |-> NotRestored, loads |-> 0]
Gone == [status |-> "gone", saved |-> "none"]

Saved == {"none", "blank", "named"}
Shown == [of: Deploys \cup {0}, named: BOOLEAN, end: Ends]

TypeOK ==
  /\ mounted \in BOOLEAN /\ leaves \in 0..MaxLeaves
  /\ pane \in [step: {"none", "loading", "confirm", "running", "result"},
               ready: BOOLEAN,                 \* loaded: what to deploy can be selected
               runs: Shown,
               task: Deploys \cup {0}, tab: Deploys \cup {0},
               restored: [of: Deploys \cup {0}, step: {"none", "running", "result"},
                          saved: Saved],
               loads: 0..MaxLoads]
  /\ notice \in [Deploys -> [status: {"none", "running", "done", "error", "gone"},
                             saved: Saved]]
  /\ told \in [Deploys -> 0..2]
  /\ again \subseteq Deploys
  /\ launch \in [Deploys -> {"none", "open", "orphaned"}]
  /\ poll \in [Deploys -> 0..MaxPolls]
  /\ operation \in [Deploys -> {"none", "running", "ok", "error"}]

-----------------------------------------------------------------------------
(* The tab.  A new tab replaces the one of the same neuron: its session goes *)
(* and its polls are answered in vain, but the answer to its start is still  *)
(* saved.                                                                    *)

Replaced(p) ==
  /\ mounted
  /\ pane' = p
  /\ launch' = [d \in Deploys |-> IF launch[d] = "open" THEN "orphaned" ELSE launch[d]]
  /\ poll' = [d \in Deploys |-> 0]
  /\ UNCHANGED <<mounted, leaves, again>>

Open ==
  /\ Replaced([NoPane EXCEPT !.step = "loading", !.loads = 1])
  /\ UNCHANGED <<notice, told, operation>>

\* Closing the tab dismisses the notification of the deploy it started.
Close ==
  /\ pane.step # "none"
  /\ Replaced(NoPane)
  /\ notice' = [d \in Deploys |->
       IF d = pane.tab THEN Gone ELSE notice[d]]
  /\ UNCHANGED <<told, operation>>

Dismiss(d) ==
  /\ notice[d].status \notin {"none", "gone"}
  /\ notice' = [notice EXCEPT ![d] = Gone]
  /\ UNCHANGED <<mounted, leaves, pane, told, again, launch, poll, operation>>

\* A click on a notification whose tab is not open.  The step it has saved is
\* "result" once it is completed.  Its runs are shown as under way.
SavedAsStarted(d) == "running"                \* mutant: not saved at completion
SavedStep(d) == IF notice[d].status = "running" THEN "running" ELSE "result"
Followed(r) == r.step = "running" /\ r.saved # "none"
SavedRuns(r) == [of |-> r.of, named |-> r.saved = "named", end |-> "none"]
Restore(d) ==
  LET r == [of |-> d, step |-> SavedStep(d), saved |-> notice[d].saved]
  IN /\ notice[d].status \notin {"none", "gone"} /\ pane.tab # d
     /\ Replaced([NoPane EXCEPT !.step = r.step, !.task = d, !.restored = r,
                    !.runs = IF Followed(r) THEN SavedRuns(r) ELSE NoRuns])
     /\ UNCHANGED <<notice, told, operation>>

\* loadDeployInfo, when the tab opens, at "Run again" and when a tab that loads is
\* mounted: its end shows the choice, whatever the tab shows by then.
Loading(p) == [p EXCEPT !.step = "loading", !.ready = FALSE, !.runs = NoRuns,
                        !.loads = @ + 1]
Loaded ==
  /\ pane.loads > 0
  /\ pane' = [pane EXCEPT !.step = "confirm", !.ready = TRUE, !.loads = @ - 1]
  /\ UNCHANGED <<mounted, leaves, notice, told, again, launch, poll, operation>>
RunAgain ==
  /\ mounted /\ pane.step = "result" /\ pane.loads < MaxLoads
  /\ pane' = Loading(pane)
  /\ UNCHANGED <<mounted, leaves, notice, told, again, launch, poll, operation>>

-----------------------------------------------------------------------------
(* Completing a notification.                                               *)

NoError(rs) == rs.end = "ok"                   \* mutant: an error is not an end
Finished(rs) == rs.of # 0 /\ rs.end # "none"

\* The notifications n, when t is completed as the runs rs ended: nothing of one
\* that was dismissed changes but its toast.
Announce(t, rs, n) ==
  /\ told' = [d \in Deploys |-> IF d = t /\ told[d] < 2 THEN told[d] + 1 ELSE told[d]]
  /\ notice' = [d \in Deploys |->
       IF d = t /\ n[d].status # "gone"
       THEN [n[d] EXCEPT !.status = IF rs.end = "ok" THEN "done" ELSE "error"]
       ELSE n[d]]

\* The runs rs are shown in the tab.  React runs the effect on them before any
\* other callback: when all are done the notification of taskIdRef is completed.
Show(rs, n) ==
  IF mounted /\ pane.step = "running" /\ Finished(rs)
  THEN /\ pane' = [pane EXCEPT !.step = "result", !.runs = rs, !.task = 0]
       /\ Announce(pane.task, rs, n)
  ELSE /\ pane' = [pane EXCEPT !.runs = rs]
       /\ notice' = n
       /\ UNCHANGED told

-----------------------------------------------------------------------------
(* Leaving the workspace and coming back to it.                             *)

\* The timer goes with the pane, calls and loads go on.  (Without a tab there is
\* nothing to unmount.)
Unmount ==
  /\ mounted /\ pane.step # "none"
  /\ leaves < MaxLeaves
  /\ mounted' = FALSE /\ leaves' = leaves + 1
  /\ UNCHANGED <<pane, notice, told, again, launch, poll, operation>>

\* A tab that was not restored has no taskIdRef any more: what ended meanwhile, or
\* ends from now, is shown and not announced.
MountNew ==
  /\ ~mounted /\ pane.restored.of = 0
  /\ pane.step = "loading" => pane.loads < MaxLoads
  /\ mounted' = TRUE
  /\ pane' = [(IF pane.step = "loading" THEN Loading(pane)
               ELSE IF pane.step = "running" /\ Finished(pane.runs)
               THEN [pane EXCEPT !.step = "result"]
               ELSE pane) EXCEPT !.task = 0]
  /\ UNCHANGED <<leaves, notice, told, again, launch, poll, operation>>

\* A tab that was restored is restored again from what the notification was then.
\* The effect that completes it sees the runs the session had, as it is rendered
\* first, or has still, as nothing was saved.
MountRestored ==
  LET r == pane.restored
      ends == /\ Finished(pane.runs)
              /\ pane.step = "running" \/ (r.step = "running" /\ ~Followed(r))
  IN /\ ~mounted /\ r.of # 0
     /\ mounted' = TRUE
     /\ pane' = [pane EXCEPT !.step = IF ends THEN "result" ELSE r.step,
                             !.runs = IF Followed(r) THEN SavedRuns(r) ELSE pane.runs,
                             !.task = IF ends THEN 0 ELSE r.of]
     /\ IF ends THEN Announce(r.of, pane.runs, notice) ELSE UNCHANGED <<told, notice>>
     /\ again' = again \cup {r.of}
     /\ UNCHANGED <<leaves, launch, poll, operation>>

-----------------------------------------------------------------------------
(* Starting a deploy.                                                       *)

\* runDeployNow, from the tab or from a page the palette has kept: whatever the
\* tab shows by then.
RunDeployNow(d) ==
  /\ mounted /\ pane.ready
  /\ notice[d].status = "none" /\ \A e \in Deploys : e < d => notice[e].status # "none"
  /\ pane' = [pane EXCEPT !.step = "running", !.task = d, !.tab = d,
                          !.runs = [of |-> d, named |-> FALSE, end |-> "none"]]
  /\ notice' = [notice EXCEPT ![d].status = "running"]
  /\ launch' = [launch EXCEPT ![d] = "open"]
  /\ UNCHANGED <<mounted, leaves, told, again, poll, operation>>

\* The answer: the backend has begun the operation, or the call failed, and an
\* operation it may have begun is never asked about.  It is shown in the tab that
\* called and saved in the notification.
RunDeployAnswer(d, named) ==
  LET rs == [of |-> d, named |-> named, end |-> IF named THEN "none" ELSE "lost"]
      n == IF notice[d].status = "gone" THEN notice
           ELSE [notice EXCEPT ![d].saved = IF named THEN "named" ELSE "blank"]
  IN /\ launch[d] # "none"
     /\ IF launch[d] = "open" THEN Show(rs, n)
        ELSE notice' = n /\ UNCHANGED <<pane, told>>
     /\ launch' = [launch EXCEPT ![d] = "none"]
     /\ operation' = IF named THEN [operation EXCEPT ![d] = "running"] ELSE operation
     /\ UNCHANGED <<mounted, leaves, again, poll>>

OperationEnds(d) ==
  /\ operation[d] = "running"
  /\ \E end \in {"ok", "error"} : operation' = [operation EXCEPT ![d] = end]
  /\ UNCHANGED <<mounted, leaves, pane, notice, told, again, launch, poll>>

-----------------------------------------------------------------------------
(* Polling it.                                                              *)

Polled == mounted /\ pane.step = "running" /\ pane.runs.named /\ pane.runs.end = "none"
Tick(d) ==
  /\ Polled /\ d = pane.runs.of /\ poll[d] < MaxPolls
  /\ poll' = [poll EXCEPT ![d] = @ + 1]
  /\ UNCHANGED <<mounted, leaves, pane, notice, told, again, launch, operation>>

\* The runs of the operation that was asked for, as they are shown by now.
AnyRuns(d) == pane.runs.of # 0 /\ pane.runs.end = "none"   \* mutant: of any operation
Matches(d) == pane.runs.of = d /\ pane.runs.named /\ pane.runs.end = "none"

\* An answer.  One that was true when it was given and is late is either final
\* or changes nothing, so it is the operation as it is now.
PollAnswer(d) ==
  /\ poll[d] > 0
  /\ \E answer \in {operation[d], "lost"} :
       IF Matches(d) /\ answer # "running"
       THEN Show([pane.runs EXCEPT !.end = answer], notice)
       ELSE UNCHANGED <<pane, notice, told>>
  /\ poll' = [poll EXCEPT ![d] = @ - 1]
  /\ UNCHANGED <<mounted, leaves, again, launch, operation>>

-----------------------------------------------------------------------------
Init ==
  /\ mounted = TRUE /\ leaves = 0 /\ pane = NoPane
  /\ notice = [d \in Deploys |-> [status |-> "none", saved |-> "none"]]
  /\ told = [d \in Deploys |-> 0] /\ again = {}
  /\ launch = [d \in Deploys |-> "none"]
  /\ poll = [d \in Deploys |-> 0]
  /\ operation = [d \in Deploys |-> "none"]

Backend ==
  \E d \in Deploys : OperationEnds(d) \/ \E named \in BOOLEAN : RunDeployAnswer(d, named)
AnyTick == \E d \in Deploys : Tick(d)
AnyAnswer == \E d \in Deploys : PollAnswer(d)
Next ==
  \/ Open \/ Close \/ Loaded \/ RunAgain \/ Backend \/ AnyTick \/ AnyAnswer
  \/ Unmount \/ MountNew \/ MountRestored
  \/ \E d \in Deploys : Dismiss(d) \/ Restore(d) \/ RunDeployNow(d)

Spec == Init /\ [][Next]_deployVars

-----------------------------------------------------------------------------
(* Properties.                                                              *)

\* A deploy is announced once (taskNotify.ts: "once per Run outcome"), however
\* often its tab is closed, replaced, restored and left, and however its polls
\* overlap, except one whose restored tab was mounted again.
ToldOnce == \A d \in Deploys : told[d] <= 1 \/ d \in again

\* What is announced is what became of the operation, or that a call about it
\* failed, also when the answer is to a poll of an earlier deploy or tab, and when
\* a tab mounted again announces the runs it had shown.  A tab that announces another
\* deploy than the one whose runs it shows (an older start was answered after a
\* newer one, or it was mounted again after a second deploy) is left out.
DeployTold ==
  [][\A d \in Deploys : told'[d] # told[d] =>
       \A rs \in {pane.runs, pane'.runs} :
         rs.of = d /\ rs.end # "none" => rs.end \in {operation[d], "lost"}]_deployVars

\* A tab does not run forever while its pane is mounted, unless the user restores
\* or leaves it over and over, or it was restored from a notification that holds no
\* operation to poll (its start had not been answered, or had failed after its tab
\* was gone).
Unfollowable ==
  ~pane.runs.named /\ \A d \in Deploys : launch[d] # "open"
Return == MountNew \/ MountRestored
DeploySettles ==
  \/ []<>(pane.step # "running" \/ Unfollowable \/ ~mounted)
  \/ []<><<Return \/ \E d \in Deploys : Restore(d)>>_deployVars
=============================================================================
