------------------------------ MODULE Window ------------------------------
(***************************************************************************)
(* The stores of the window that talk to the backend on their own, the      *)
(* start of the application, and the configuration it keeps for git.  They  *)
(* share no state, so what one may do does not depend on the others: a      *)
(* behaviour picks one of them and runs it with all its interleavings.      *)
(***************************************************************************)
EXTENDS Naturals, FiniteSets, Sequences

CONSTANTS
  Products, Files, Loads,                      \* GitSelection
  Runs, Batches, Ticks, MaxOut,                \* PackageSessions
  Downloads, MaxEvents,                        \* Updates
  Models, Procs, Queries,                      \* LocalAI
  Versions, Alters, Values, MaxLaunches, MaxErrors,  \* Boot
  Repos, Ticker, Others, MaxToken, MaxEdits,   \* GitAuthSync
  Deploys, MaxPolls, MaxLoads, MaxLeaves       \* Deploy

ASSUME WindowBounds ==
  /\ Runs \cup Batches \cup Ticks \cup Procs \cup Loads \cup Repos \cup Deploys \subseteq Nat \ {0}
  /\ MaxPolls \in Nat \ {0} /\ MaxLoads \in Nat \ {0} /\ MaxLeaves \in Nat
  /\ MaxOut \in Nat /\ MaxEvents \in Nat
  /\ Versions \in Nat /\ Alters \subseteq 1..Versions
  /\ MaxLaunches \in Nat /\ MaxErrors \in Nat /\ Values \cap {"none", "legacy"} = {}
  /\ Ticks # {} /\ Downloads # {}
  /\ Ticker \notin Others /\ MaxToken \in Nat \ {0} /\ MaxEdits \in Nat
  /\ "none" \notin Products \cup Files \cup Models

VARIABLES
  product, paths, selected, diff, load, crossed,
  batchOf, proc, session, offset, printed, tick, task, note,
  known, announced, bar, listeners, download, events, staged,
  binary, ollama, child, cmd, unanswered, displaced, unheld, pulled, start, job, query, ui, app,
  hub, boot, cache, writes, legacy, faults,
  token, auth, config, timer, sync, edits,
  mounted, leaves, pane, notice, told, again, launch, poll, operation,
  active       \* the store that runs

selVars == <<product, paths, selected, diff, load, crossed>>
pkgVars == <<batchOf, proc, session, offset, printed, tick, task, note>>
updVars == <<known, announced, bar, listeners, download, events, staged>>
locVars == <<binary, ollama, child, cmd, unanswered, displaced, unheld, pulled, start, job, query, ui, app>>
bootVars == <<hub, boot, cache, writes, legacy, faults>>
authVars == <<token, auth, config, timer, sync, edits>>
depVars == <<mounted, leaves, pane, notice, told, again, launch, poll, operation>>
vars == <<selVars, pkgVars, updVars, locVars, bootVars, authVars, depVars, active>>

Sel == INSTANCE GitSelection
Pkg == INSTANCE PackageSessions
Upd == INSTANCE Updates
Loc == INSTANCE LocalAI WITH proc <- ollama
Bt == INSTANCE Boot
Auth == INSTANCE GitAuthSync
Dep == INSTANCE Deploy

\* The stores a behaviour does not run start in one state only.
OneStart ==
  /\ active # "selection" => product = CHOOSE p \in Products : TRUE
  /\ active # "packages" => batchOf = [r \in Runs |-> CHOOSE b \in Batches : TRUE]
  /\ active # "ai" => /\ ~binary /\ pulled = {}
                      /\ ui.model = CHOOSE m \in Models : TRUE
  /\ active # "boot" => hub.version = 0 /\ ~legacy
  /\ active # "auth" => \A r \in Repos : ~config[r].stale

Init ==
  /\ Sel!Init /\ Pkg!Init /\ Upd!Init /\ Loc!Init /\ Bt!Init /\ Auth!Init
  /\ Dep!Init
  /\ active \in {"selection", "packages", "updates", "ai", "boot", "auth", "deploy"}
  /\ OneStart

\* The steps of one store leave the others alone.
SelOnly ==
  active = "selection" /\ UNCHANGED <<pkgVars, updVars, locVars, bootVars, authVars, depVars, active>>
PkgOnly ==
  active = "packages" /\ UNCHANGED <<selVars, updVars, locVars, bootVars, authVars, depVars, active>>
UpdOnly ==
  active = "updates" /\ UNCHANGED <<selVars, pkgVars, locVars, bootVars, authVars, depVars, active>>
LocOnly ==
  active = "ai" /\ UNCHANGED <<selVars, pkgVars, updVars, bootVars, authVars, depVars, active>>
BootOnly ==
  active = "boot" /\ UNCHANGED <<selVars, pkgVars, updVars, locVars, authVars, depVars, active>>
AuthOnly ==
  active = "auth" /\ UNCHANGED <<selVars, pkgVars, updVars, locVars, bootVars, depVars, active>>
DepOnly ==
  active = "deploy" /\ UNCHANGED <<selVars, pkgVars, updVars, locVars, bootVars, authVars, active>>

Next ==
  \/ SelOnly /\ Sel!Next
  \/ PkgOnly /\ Pkg!Next
  \/ UpdOnly /\ Upd!Next
  \/ LocOnly /\ Loc!Next
  \/ BootOnly /\ Bt!Next
  \/ AuthOnly /\ Auth!Next
  \/ DepOnly /\ Dep!Next

Spec == Init /\ [][Next]_vars

\* Calls are answered, timers fire and events are handled.  Strong where a step
\* waits for room in what a bound limits.  A behaviour has the steps of one store,
\* so a condition on "this step of one or that of another" is one on each (and the
\* same for every k, s or d where it does not depend on it).
Fairness ==
  /\ WF_vars(\/ active = "updates" /\ Upd!Handling /\ UpdOnly
             \/ active = "ai" /\ Loc!StartStep /\ LocOnly
             \/ active = "auth" /\ Auth!Tick /\ AuthOnly
             \/ active = "deploy" /\ Dep!Backend /\ DepOnly)
  /\ \A k \in Ticks :
       WF_vars(\/ active = "packages" /\ Pkg!PollStep(k) /\ PkgOnly
               \/ active = "ai" /\ Loc!DownloadEvent /\ LocOnly
               \/ active = "deploy" /\ Dep!AnyAnswer /\ DepOnly)
  /\ \A s \in {Ticker} \cup Others :
       WF_vars(\/ active = "auth" /\ Auth!SyncStep(s) /\ AuthOnly
               \/ active = "ai" /\ Loc!PullEvent /\ LocOnly)
  /\ \A d \in Downloads :
       SF_vars(\/ active = "updates" /\ Upd!Ending(d) /\ UpdOnly
               \/ active = "packages" /\ Pkg!AnyTick /\ PkgOnly
               \/ active = "auth" /\ Auth!AnyTimer /\ AuthOnly
               \/ active = "deploy" /\ Dep!AnyTick /\ DepOnly)
FairSpec == Spec /\ Fairness

-----------------------------------------------------------------------------
(* Every variable of every store has its type.                              *)
TypeOK == /\ Sel!TypeOK /\ Pkg!TypeOK /\ Upd!TypeOK
          /\ Loc!TypeOK /\ Bt!TypeOK /\ Auth!TypeOK /\ Dep!TypeOK

(* The promises of the stores, each stated in its module.                   *)
DiffMatches == Sel!DiffMatches
NoStuckTask == Pkg!NoStuckTask
NothingSkipped == Pkg!NothingSkipped
TaskSettles == Pkg!TaskSettles
DoneMeansStaged == Upd!DoneMeansStaged
DownloadSettles == Upd!DownloadSettles
OllamaStopped == Loc!OllamaStopped
HasModel == Loc!HasModel
CardSettles == Loc!CardSettles
SchemaComplete == Bt!SchemaComplete
StartsAgain == Bt!StartsAgain
MigratesOnce == Bt!MigratesOnce
TableFollows == Bt!TableFollows
SyncSettles == <>[](active = "auth" => Auth!AtRest)
ToldOnce == Dep!ToldOnce
DeployTold == Dep!DeployTold
DeploySettles == Dep!DeploySettles
=============================================================================
