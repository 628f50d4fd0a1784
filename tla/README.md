# Alis Hub: specifications, model checks and proofs

Alis Hub is a desktop application: a Go backend (`src/*.go`, `src/internal`) whose services are
called from a web view (`src/frontend`, React with zustand stores). The program has little shared
state, but what it has is touched by goroutines, by several operating-system processes and by
callbacks of the window that overlap. This directory models those parts in TLA+, checks them with
TLC and proves the main results with TLAPS.

    tlc -workers 2 -config FlowRun.cfg MCWorkflowEngine     # one of the runs listed below
    tlapm WorkflowEngineProofs.tla                          # the proofs of one module

## 1. The system and its parts

| Part | State | Operations | Who interferes | Modelled in |
|---|---|---|---|---|
| Console credentials (`alisauth.go`, `product_auth.go`) | `~/.alis/console-credentials.json`, its `.lock` file, `ConsoleTokenSource.mu` | `freshCreds` (behind `Token`, `AccessToken`, `CookieHeader`), `Login`, `Logout` | goroutines of the app; every `git-credential-alis` helper is a process; the identity server rotates refresh tokens | `CredentialRefresh` |
| Git credential helper (`gitcredential.go`, watcher of `gitservice.go`, ticker of `main.go`) | `git-auth.gitconfig`, every repository's `.git/config`, `configFixTimers` | `SyncGitAuth`, `RunAsCredentialHelper` | the ticker, a login, helpers and the watcher call it without a lock; the old extension edits the same files | `GitAuthSync`; a helper's token is a call of `CredentialRefresh` |
| Workflow engine (`workflowservice.go`) | `workflow_runs`, `workflow_step_runs` in `hub.db`; the `activeRuns` map; a goroutine, a context and a log buffer per run | `RunWorkflow`, `executeRun`, `StopRun`, `DeleteRun`, `ClearRuns`, `PollRunLogs`, `recoverOrphanedRuns` | concurrent service calls, process death between statements, a second launch | `WorkflowEngine`, abstractly `RunLifecycle` |
| Run polling (`stores/workflowRuns.ts`, `lib/taskNotify.ts`) | one entry per workflow, one notification per run, the interval timer | `startRun`, `pollTick`, `mergeChunk`, `syncPolling` | overlapping ticks, a restart of the workflow, failing calls | `RunPolling` |
| A repository on the Git page (`gitservice.go`, `stores/git.ts`, `stores/sourceControl.ts`) | the repository, the watcher's timers, one store entry, busy flags, dialogs, the commit text | refresh, stage, discard, commit, merge, generate, push, pull, sync, checkout, branch creation, undo, clearing the index lock | answers out of order, changes from outside, the watcher's event | `GitRepo` |
| Selection on the Git page (`stores/git.ts`) | repository paths, selected file, diff | `loadPaths`, `selectFile`, `selectCommitFile`, `loadWorkingDiff`, `loadCommitDiff` | answers for an earlier selection | `GitSelection` |
| Package scripts (`packageservice.go`, `stores/packageSessions.ts`, `PackagesPane.tsx`) | process table, output, session list, offsets, the one `taskId` | run a batch, poll, close, clear | overlapping ticks, a second batch, closing during a poll | `PackageSessions` |
| Updater (`internal/updater`, `stores/update.ts`) | `downloadProgress`, `downloading`, listeners, the staged artifact | check, download, background check | downloads that overlap, each listener gets the events of all | `Updates` |
| Local AI (`localaiservice.go`, `stores/localai.ts`, `LocalAISetupCard.tsx`) | spawned processes, `ollamaCmd`, download and pull, the card's flags | start, stop, download, pull, status queries, model selection | a retry while a process loads, late answers, a process that dies | `LocalAI` |
| Start-up and settings (`hubdb.go`, `settingsservice.go`, `lib/settingsClient.ts`, `main.tsx`) | `schema_version`, the tables, the `settings` row, the cache, `localStorage` | migrate, hydrate, copy once, set | kills between statements, failing calls, unordered writes | `Boot` |
| Deploys (`DeployPane.tsx`, `stores/developTabs.tsx`, `stores/developSessions.ts`, `deployservice.go`) | the tab's session, `taskIdRef`, the tab's `notificationId`, a notification per deploy with its `envOps` | open, close, restore, load, run, poll | overlapping polls, a slow start, a tab replaced meanwhile, a second deploy from the palette | `Deploy` |
| Everything else | none that is shared | request and response | - | section 7 |

How the parts meet. The stores call the services through Wails bindings, each call in a goroutine
of its own; services answer or emit events. Every service that talks to the console asks
`ConsoleTokenSource` for a token: `GitAuthSync`'s `token` is what `CredentialRefresh` returns, and a
helper process is a caller of both. The workflow engine runs the git, define, build, deploy and
package services inside its steps; `RunPolling`'s atomic `Serve` is what `WorkflowEngine`'s
`PollComplete` promises of `PollRunLogs`. The watcher of `GitRepo` and that of `GitAuthSync` are the
two debounce timers of one `WatchRepo`. `hub.db` is opened with one connection per process, so
single statements of one process are atomic and nothing larger is, except `RunWorkflow`'s
transaction; `Boot` is what happens to it before `WorkflowEngine`'s recovery.

`PROJECT.json`, "hazards", lists what is hard to test, at its line, with the property that covers it.

## 2. CredentialRefresh

One action per system call or server round trip of `freshCreds`, for every caller:
`FirstRead` (mutex, stat, read) - `CreateLock` / `CreateLockError` (O_EXCL) - `InspectLock`
(stat, deadline, sleep) - `ReclaimLock` (remove by path) - `ReRead` - `Redeem` (what the server does
with the refresh token) - `Finish` (the answer, and the atomic write) - `Release`. `Login` and
`Logout` change the file without mutex or lock, as in the code. `Crash(p)` removes the calls of a
process and leaves its lock file. `Tick` and `Expire` are time.

Data. Tokens are numbers in the order of issue; a credential is its access token, its refresh token
and the session (the login) it descends from. Tests of time (`isFreshCreds`, the two lock limits)
become comparisons with `lapsed`/`dead` (which access tokens have entered the grace window or
expired) and with ages counted in ticks. `MaxHold` bounds the time from the re-read to the return,
which the code bounds by its 30 s HTTP limit.

What holds, and under which assumptions:

* `LockExclusive`: two callers never hold the lock file together, *if no holder is slower than
  `credentialLockStaleAfter` and no process is killed*. Without that the stale file is removed by path
  and `release()` removes whatever file is there; this is the design, and the next properties
  say what it may cost.
* `RejectionIsGenuine`: while no call has gone on without the lock, `errAuthRejected` is reported only
  when the session cannot be continued any more. It depends on the re-read under the lock: without
  it (the mutant) the second of two waiters redeems a rotated token.
* `SessionNotStranded`: whatever the timing, with reclaims, unlocked calls, logins and logouts, once
  nothing is in flight the refresh token on disk is one the server redeems, unless a fault
  (lost reply, failed write, crash with an unwritten answer, revocation) destroyed it.
* `DiskNeverRegresses`: with a rotating server no late write puts an older credential of a session over
  a newer one. Three issued tokens give a session two refresh answers, of which the older may be late.
* `CallReturns`: every call returns, past orphaned locks, failed writes, failed lock creations and
  queues, *once no holder is slower than the stale limit any more* (`<>[]Prompt`). The premise is
  needed: a waiter that finds the lock stale `continue`s before it looks at its deadline, so as long
  as slow holders lock again each time, it goes round for ever. `CredHostile` lets holders take
  twice the limit, so both kinds of holder occur. Fairness: time passes and a caller that has begun
  goes on (goroutines and processes are scheduled, the HTTP client returns at its limit at the
  latest). Starting calls, logins and faults are not fair.

Two runs show where the code differs from what it says: `CredSlowRefresh` (a refresh slower than 10 s
ends in a spurious "sign in again") and `CredLogout` (a refresh in flight undoes `Logout`).

Not modelled: answers without `expires_in` (the token then never counts as fresh), a file that cannot be
parsed (writes are atomic), the late write of an old session over a `Login`, which leaves a
working but unwanted session.

## 3. WorkflowEngine and RunLifecycle

One action per SQL statement or per operation on `activeRuns`, because each can interleave with each.
`row`, `saved` and `step` are the tables and survive `Exit`; `active`, `cancelled`, `buf`, `pc`, `at`,
`outcome` and `stopped` are the map, the contexts, the buffers and the goroutines' positions and
locals, and do not. The path of a run is

    Insert (transaction) - Register
      - { SkipStep | EnterStep - BeginStep - StepReturns/Interrupt }* - Sweep - Flush - Leave

with `Panic - RescueSteps - RescueRow - Leave` from any place outside a step. `Launch`, `RecoverSteps` and
`RecoverRuns` are a process' start; a process that finds the application running leaves only *after*
them, because `main` builds the service before it takes the single-instance lock. `RemoveCheck`,
`RemoveSteps`, `RemoveRow` are `DeleteRun`, and `ClearRuns` for one of the runs it listed. `PollStatus`,
`PollSteps`, `PollLog` are the three reads of `PollRunLogs`.

Data. A step's command is its outcome: it returns well or badly, or, if it watches its context, is
interrupted by a stop. A log is its length in lines (a header and an outcome per step).
`Insert` lets the run start at any step, as `startPosition` does.

`RunLifecycle` is what the history of runs promises its readers: a run appears once, running; it ends
once, in a final status, when none of its steps is open; then its record changes no more except
that it may disappear. `LifecycleSpec` is the refinement: `status <- row`, `busy <- LiveSteps`,
`begun <-` the runs that were ever inserted. Deletion in two statements, panics and recovery in
two statements implement it because the steps are always closed before the row.

Further properties: `StepsInOrder` (a step is set to running only after all earlier ones ended, none of them so
that the rest is skipped; as the look at `ctx.Err()` and the UPDATE are two statements, a stop between them
sets that one step running all the same, which the history `late` allows once and not twice),
`StatusMatchesSteps` (the locals of `executeRun` agree with the rows, whenever a stop or a failure arrives), `NoOrphans` (after recovery a running row has a goroutine),
`PollComplete` (a window told "done" has seen no open step and the whole log, though the reads are not
atomic), `StopEndsRun`.

Fairness: `WF` of `Execute(r)`, the goroutine's own steps, and of `Interrupt(r)`, the watchdog and the
`ctx.Done()` branches. A command's own return is *not* fair, it may hang; so `StopEndsRun` is about runs
whose current step watches its context, which every type of step but the git ones does.
Inside such a step single service calls are assumed to return (they have their own timeouts).

Worth knowing, and visible in the model: a stop that arrives after the last step's work, or
between two steps, leaves the status at "success" with skipped steps; a panic outside a step loses
the log (`PollComplete` excludes it). Errors of the executor's own statements, which the code ignores, are
not modelled.

`FlowSecondLaunch` and `FlowEarlyRemove` show two places where the code does not do what its comments say.

## 4. RunPolling

An action is a piece of JavaScript up to its next `await`, or the service handling a call. A tick holds
the entries it took when it fired, so `Ticks` of them may be in flight, with old offsets. The service
side is abstract: `Log`, `End` and an atomic `Serve`, which `WorkflowEngine`'s `PollComplete` justifies
(a chunk that says done carries the rest of the log). Ticks overlap only when `PollRunLogs` takes
longer than the interval of 500 ms, which one connection to `hub.db` and a slow disk allow.

`NothingLost` holds under any overlap: the text shown is of the run shown, complete up to the offset, and
complete to the end once the entry is done, because an answer always starts at an offset whose text
is already there. `PromptPollsExact` says that without overlap the log is shown exactly once and in
order. `RunAnnounced`: the end of a shown run is announced (fairness: the timer fires, calls are answered or
fail, callbacks run; failures are bounded by `MaxErrors`). It excludes a run that a second click on Run
replaced before it appeared. `PollTwice` shows that overlapping ticks announce one outcome twice.

Left out: `stopping`, section folding, polls of a run that was deleted.

## 5. The Git page and the other stores

As in `RunPolling`, an action is a piece of JavaScript up to its next `await`, a service handling a
call, a timer, or an event being handled. A call in flight keeps what it captured (its record), and
everything may happen between two of its actions.

### GitRepo

One repository. `repo` is the repository itself (commits ahead and behind, a merge in progress, and
`ver`, the number of changes under `.git` so far); `watcher` the 400 ms debounce and its event; `shown` what
the store shows; `refresh` the `refreshRepo` calls, whose reads (`Read`) are answered one by one and
applied together (`Apply`), before `GetMergeMessage` is awaited (`ReadMessage` in the service, `MergeMessage` when
its answer arrives); `calls` the git calls: `Begin`/`Sync` (the click), `Run` (git), `Answer`, `AnswerThenPush`, `AnswerClear`, `AnswerUndo`
(the continuation, with its flags, banner and refresh). `Ran` says what git may make of each operation.
`Offered` is what the controls allow; the shortcuts for commit, push and pull do not look at the
busy flags, so these calls overlap with themselves.

* `EveryChangeShown`: the debounce, the event, the refresh and the answers that overlap with it never
  lose a change: each is read and shown once, or an error is. A refresh that began before the change and
  answers later may put the older state back until the next refresh; that is left to the code.
* `FlagsHaveCalls`: a busy flag is on only while a call is in flight that clears it, on every path through
  errors, results, the index-lock retry and the awaited refresh of an undo.
* `TypedTextKept`: text the user typed is not overwritten by the merge message of a refresh.

Fairness: the debounce timer fires, events are handled (strong, because `Refreshes` bounds the calls in
flight and the handler waits for a free one), reads are answered or fail. Git itself need not return.

### GitSelection

`product`, `paths`, `selected`, `diff` and the loads in flight. A file has two diffs, of its staged and of its
unstaged changes, and is selected in one of the two lists. An answer is taken if the selection is still the one
it was loaded for: a file by its name and not by its side, a commit's file by the identity of its object (the
`serial`). `DiffMatches`: a diff shown as loaded is that of the selected file or commit, and of the side the file is
selected in, *unless the other side of that file was loading when it was selected* (the history `crossed`). The
exception is real: `selectFile` does not compare `selectedStaged`, so the late answer for the other side is
then shown as loaded.

### PackageSessions

`StartScript` for each script of a batch, then `AddSessions` (the list, the notification, `taskId`); `Output`
and `Exit` of the processes; ticks that poll the running sessions one after the other (`Asked`, `Serve`,
`Answer`); `CloseSession`, `ClearSessions`. `Changed` is `checkAllDone`, which follows every change of
the list. `NoStuckTask`: while a notification waits, a session runs that will complete it. `NothingSkipped`: an
ended session shows its whole output, although overlapping ticks may set the offset back. `TaskSettles`: when the
scripts have ended the last batch's notification is completed. A batch that is followed by another before its
end is never completed (`taskId` is one variable); no comment promises otherwise.

### Updates

`DownloadUpdate` is started by the user or by the `update:available` handler, which clears the downloading
flag first, so downloads overlap; each `startDownload` listens to `update:progress` of all of them, and the first
last event removes all listeners. `DoneMeansStaged`: the window offers to install only what is
staged. `DownloadSettles`: the flag that disables a further download is cleared again. It excludes the
two error paths of the updater that return without an event (`updater.go:181`, `:211`), which are
in the model as `"silent"` and do leave the flag on.

### LocalAI

`StartOllama` is four steps, between which anything may happen: the probe of the API (`Probe`; a process that serves may
fail to answer within the 2 s, so its outcome is not `Api` but a member of `CheckOllama`), `cmd.Start` (`Spawn`), the store
into `ollamaCmd` (`Store`), and the wait for the API (`WaitEnds`). Processes `Serve` (or find the port taken) and `Die`.
`ServiceShutdown` runs `StopOllama` and ends the window; the goroutine of a `StartOllama` goes on until `Exit`. Around
them the binary download and the pull, each ending with an event, `fetchStatus` as three actions, and the card.

* `OllamaStopped`: when the application has ended, no process it spawned is left, with two exceptions, each kept in
  a history: `unheld`, a process spawned and not stored yet when `StopOllama` ran, or spawned after it; and
  `displaced`, one that was alive and did not answer the probe (it loaded, or it was slow), so that the next one
  took its place in `ollamaCmd`. Both are defects of the code that the model reaches; nothing else leaves one behind.
* `HasModel`: the card says that the model is there only after Ollama had it, except when a query about the model
  selected before answers late.
* `CardSettles`: "starting" ends, because the wait does. Downloads and pulls read streams without a time limit
  (`localaiservice.go:387` posts with no timeout), so of "downloading" and "pulling" it says only that they are not shown
  for ever *after the job has ended*, whether well or badly.

A retry of the start that is pressed after a refresh has shown Ollama running, or its binary missing, is left out, and
so are an Ollama that the user runs, a kill of the application, and calls of the window after `ServiceShutdown`.

### Boot

`Launch`, then `Exec` and `Bump` for each pending migration, then `settingsClient.init` (`ReadAll`, `Copy`,
`CopyWritten`, `FlagWritten`), then the user's changes of one setting (`Set`, and `Written` in any order), with `Kill`
anywhere. A database may be of any earlier schema. `SchemaComplete`: what `schema_version` records has
been executed, and the settings are read from a complete schema. `StartsAgain`: a start is refused only
when a process was killed between an `ALTER TABLE` and its record; the model reaches that state.
`MigratesOnce`: the copy from `localStorage` never replaces what the user has set since, unless this launch
could not read the table. `TableFollows`: with no write in flight, and none failed or overtaken, the table
has what the window shows.

### GitAuthSync

`SyncGitAuth` as `Begin` (the token), `Discover`, `TruncateAuth`/`WriteAuth`, and per repository `ReadConfig`,
`TruncateConfig`/`WriteConfig`: `os.WriteFile` truncates before it writes. It is begun by the ticker (`Tick`), a
login or a helper (`Call`), and by the watcher's timer (`TimerFires`), which its own writes start.
`SyncSettles`: when tokens and the extension have come to rest, so do the syncs, with the last token and the
include in place. It excludes configurations that were ruined, and `GitConfigTorn` shows how that
happens: a call reads what another has truncated, and writes it back with nothing but the include,
against "Safe to call on every startup" (`gitcredential.go:21`).

### Deploy

One neuron and its deploys. `Open`, `Close` and `Restore` replace the tab: the session of the old one is gone, so
what its polls answer is lost, but the answer to its `RunDeploy` still goes to the notification (`envOps`). `RunDeployNow`
may come from a page that the palette has kept, so also while another deploy is shown. `Show` patches the runs and
contains the effect that follows, because React flushes it before any other callback; it completes the
notification of `taskIdRef`. All environments of a deploy share one operation and its end, and are one here.

The panes are mounted only in the workspace phase; the tabs and their sessions live in stores and stay. `Unmount` stops
the timer; calls and loads go on and patch the session. `MountNew` is the mount of a tab that was not restored: its
`taskIdRef` is gone, so what ends from then on is shown and not announced. `MountRestored` is the mount of a tab that was
restored: the mount effect runs again with the snapshot of the notification the tab was restored from, shows the runs
as under way, polls an operation that may have ended long ago, and completes the notification again.

* `ToldOnce`: a deploy is announced at most once, *unless a tab restored from it was mounted again* (`again`). There
  the code announces an outcome twice, against "once per Run outcome" (`taskNotify.ts:17`).
* `DeployTold`: what is announced is the end of its own operation, or that a call about it failed (one rejected poll ends
  a deploy with an error, as in the code). Excluded is the tab that announces another deploy than the one whose runs
  it shows: an older start was answered after a newer one, or it was mounted again after a second deploy.
* `DeploySettles`: a mounted tab does not run for ever, unless the user restores or leaves it over and over. Excluded is a tab
  restored from a notification without an operation, which has nothing to poll.

### Window

These stores (but `GitRepo`) share no state, so `Window` composes them by letting a behaviour pick the one that runs
(`active`) and run it with all its interleavings. A step of one neither enables nor disables a step of
another, so every reachable state of a store, and every fair behaviour of it, is reached in this way, and
the product of their state spaces is not. `OneStart` gives the stores that do not run one initial
state each. The fairness conditions are those of the single stores; where two are joined by a
disjunction, the condition is one on each, because `active` never changes.

Fairness: service calls are answered (package polls, the steps of a start, the updater's downloads, whose client has a
limit of 10 min; not the streams of `LocalAI`'s download and pull, of which only the final events are fair), the window
handles its events, the timers fire, the ticker ticks, and a `SyncGitAuth` that has begun goes on. Strong fairness is used where a bound limits the room: a tick needs a free slot of `Ticks`, a timer a
free call of `Others`, a download a free place in the event queue. What the user does is never fair; nor is
a script's end, which is the premise of `TaskSettles`. An operation of the backend ends.

## 6. Runs, bounds and proofs

| Run | Expected | Shows | Bounds |
|---|---|---|---|
| CredPrompt | pass | `TypeOK`, `LockExclusive`, `RejectionIsGenuine` | 3 callers (two threads of the app, one helper), 3 tokens, limits of 1 and 2 ticks, holders up to 1 tick |
| CredHostile | pass | `SessionNotStranded`, `DiskNeverRegresses`, `CallReturns` | 2 callers in two processes, 3 tokens, holders up to twice the stale limit, lock creation and writes fail, logins, 1 crash |
| CredSlowRefresh | violation | `RejectionIsGenuine` | holders up to twice the stale limit |
| CredLogout | violation | `LogoutSticks` | 2 callers |
| FlowRun | pass | `TypeOK`, `NoOrphans`, `LifeInv`, `StatusMatchesSteps`, `PollComplete`, `StepsInOrder`, `LifecycleSpec`, `StopEndsRun` | 1 run of 3 steps (stop, continue on a git step, continue), 3 launches, panics, failing delete |
| FlowSecondLaunch | violation | `OrphansOnly` | 2 processes |
| FlowEarlyRemove | violation | `ActiveNotDeleted` | a removal may come before `Register` |
| PollOverlap | pass | `TypeOK`, `NothingLost`, `PromptPollsExact`, `RunAnnounced` | 2 workflows, 2 runs, 2 ticks in flight, 1 failing call, logs of length 1 |
| PollTwice | violation | `CompletedOnce` | 1 workflow, 1 run, 2 ticks |
| GitPage | pass | `TypeOK`, `FlagsHaveCalls`, `TypedTextKept`, `EveryChangeShown` | 1 call and 2 refreshes in flight, 1 change of the repository, the operations in five groups (`Uses`) |
| WindowStores | pass | `TypeOK`, `DiffMatches`, `NoStuckTask`, `NothingSkipped`, `TaskSettles`, `DoneMeansStaged`, `DownloadSettles`, `OllamaStopped`, `HasModel`, `CardSettles`, `SchemaComplete`, `StartsAgain`, `MigratesOnce`, `TableFollows`, `SyncSettles`, `ToldOnce`, `DeployTold`, `DeploySettles` | see below |
| GitConfigTorn | violation | `ConfigSurvives` | 1 repository, 2 calls |

Why these are enough. Credentials: three tokens are the initial one, a rotation and a further rotation or
login, which every wrong order needs; three callers give a holder, a waiter of the same process (mutex
only) and one of another (lock only). Ticks count only relative to the limits, and one tick below,
at and above each limit is reached. `CredHostile` needs the three tokens too: the initial one and two refresh
answers of its session, of which the older may be written late. Engine: runs share no row, so one run shows everything but the
set-wise statements (recovery), for which the theorems are about any number; three steps give one
before and one after the step that fails. Polling: two ticks, each with an old and a new offset,
are the smallest overlap; two workflows are needed for a tick that polls several entries.

`GitPage`: two refreshes are the smallest overlap, and one version is the change that could be lost; the two
reads of a refresh may see the states before and after it. One call slot still gives the overlaps with
refreshes and with outside changes; two calls of the same kind (a shortcut pressed twice) are not in this
run. Operations of different groups meet only through the repository's state and the refreshes, both of which
each group has.

`WindowStores`: 2 loads on 2 files, each with two sides, of 2 products (an old answer and the one that is wanted);
2 scripts in 1 or 2 batches with 2 ticks and 1 chunk of output each; 2 downloads and 3 events under way (the user's and the
auto-started one); 2 models, 2 processes, 1 query; 4 schema versions of which one is an
`ALTER TABLE`, 3 launches, 2 failing calls, 2 values; 2 repositories, 2 calls, 2 tokens, 1 edit by the
extension; 2 deploys with 2 polls each under way (an answer for the earlier one, and two for the same), 2 loads of the tab and 1 time
its pane is unmounted (which is enough to restore, leave, come back and announce again). Constants named `Max...` and those marked "bound" are bounds, not properties of the code.

Runs with `CHECK_DEADLOCK FALSE` are those of systems that may really stop: all runs over and the
launches used up, or nothing left to start.

### Proofs

TLAPS proves, for all values of the constants that meet the named assumptions:

| Theorem | Statement | Argument |
|---|---|---|
| `CredentialRefreshProofs!TypeCorrect` | `[]TypeOK` | by action |
| `...!LockIsExclusive` | `MaxHold <= StaleAfter /\ MaxCrashes = 0` imply `[]LockExclusive` | `LockInv`: a caller that holds the lock is its recorded owner, and the age of the file is at most the owner's timer, so it is never stale while the owner works; nobody at "reclaim" |
| `...!SessionSurvives` | `[]SessionNotStranded` | `SessionInv`: every refresh token in use was issued; unless stranded, the one on disk is valid or is the one that a caller with an unwritten answer has redeemed, every unwritten answer holds a valid token, and with a rotating server nobody else knows it, so nobody can use it up before it is written |
| `...!WritesAreNewer` | `DiskNeverRegresses` | `OrderInv`: with a rotating server at most one refresh token of a session is valid among the credentials on disk and in callers' hands, none is while an answer of that session is pending, and that answer is newer than all of them; so at most one is pending. A step that only forgets keeps this (`OrderForget`), which leaves the redemption, the write and the login |
| `...!RejectionsAreGenuine` | `MaxHold <= StaleAfter /\ MaxCrashes = 0` imply `RejectionIsGenuine` | `AllLocked` and `LockInv`: while no call went on without the lock the caller that works is alone; `RejectInv`: it redeems the token on disk, or a login or logout has replaced the session, and once it is rejected its session stays over |
| `WorkflowEngineProofs!TypeCorrect` | `[]TypeOK` | with `LogBound`: the buffer is bounded by twice the number of steps passed |
| `...!LifeIsCoherent` | `[]LifeInv` for one process and no early removal | `LifeInv` is itself inductive; one lemma per conjunct, one step per action |
| `...!NoOrphanLeft` | `[]NoOrphans` | a consequence of `RowAtPlace` |
| `...!Implements` | `Spec => LifecycleSpec` | every step maps, run by run, to a disjunct of `RunLifecycle!Next`, using `LifeInv` before and after |
| `...!StepsRunInOrder` | `StepsInOrder` | `LifeInv` and `FailureInv`: a failed step that is not tolerated sets `stopped` (`Tolerated`); a run at "begin" has set no step running after a stop yet, and one that has finds its context cancelled when it is back in the loop (`OnceAfterStop`) |
| `...!StatusIsOfSteps` | `[]StatusMatchesSteps` | `VerdictInv`: from the first step to `Flush`, outcome "success" means no failed step, and "stopped" means `stopped`, no running step, and a failed step with only pending and skipped ones after it; the final statement writes that outcome when the steps are closed |
| `...!PollsAreComplete` | `[]PollComplete` | `PollInv`: a reader that found the run ended finds its goroutine past `Flush` (`RowAtPlace`) and its steps closed (`StepsClosed`); from there the log no longer grows, and its column equals the buffer until the row is removed |
| `RunPollingProofs!TypeCorrect` | `[]TypeOK` | with the shape of every item and entry |
| `...!NothingIsLost` | `[]NothingLost` | `EntryInv`, `ItemInv`, `ChunkInv`: an item of a tick has an offset whose text its entry already shows, an answer starts at that offset and ends where the log did, and a done answer at the log's end; entries only grow, so an old item stays good |
| `...!PromptPollsAreExact` | `[]PromptPollsExact` | `PromptInv`: without overlap one tick is in flight, it polls a workflow once and from where its entry ends, and a run that may still be announced has not been |
| `GitRepoProofs!TypeCorrect` | `[]TypeOK` | by action |
| `...!FlagsComeOff` | `[]FlagsHaveCalls` | with `OwnerInv`: the refresh that an undo awaits belongs to that call and to no other, so the call that is to clear the flag stays in flight until then; and `PushInv`: only the pull of a sync is followed by a push |
| `...!TypedTextIsKept` | `TypedTextKept` | by action: only an answer of a commit, merge or generation, and the user, replace typed text; a refresh fills in only where the user has not typed |
| `WindowProofs!TypeCorrect` | `[]TypeOK` | store by store |
| `...!DiffIsOfSelection` | `[]DiffMatches` | `SelectionInv`: every load in flight whose answer would be accepted carries the selected file or commit, and, unless `crossed`, its side; an answer copies them |
| `...!TaskHasSession` | `[]NoStuckTask` | `PackageSessionsProofs`: the type invariant, and a session that a tick has still to poll was added; every change of the list ends in `Changed`, which clears the task with the last running one |
| `...!NothingIsSkipped` | `[]NothingSkipped` | `PackageSessionsProofs`: what a session shows reaches at least to its offset and to that of every poll of it in flight, and an answer that says ended carries the rest |
| `...!ModelIsThere` | `HasModel` | `LocalInv`: a pull under way is of the model of the card, and what a finished pull or a query reports as there has been there |
| `...!DoneIsStaged` | `[]DoneMeansStaged` | `UpdatesProofs`: every "done" in the queue, and every download that extracted, was preceded by a staging, which is never undone |
| `...!NoneLeft` | `[]OllamaStopped` | `ProcessInv`: a live process is in `displaced` or `unheld`, or the application is up and it is `cmd` or `child`; between the probe and the store every one that is neither `child` nor lost already is among the `unanswered`, so the store displaces nothing else |
| `...!SchemaIsComplete`, `...!StartIsRefusedOnlyTorn` | `[]SchemaComplete`, `[]StartsAgain` | `BootProofs`: `done` is `1..version`, plus `version + 1` at "bump" or after a kill there, which for an `ALTER TABLE` sets `torn` |
| `...!TableIsCache` | `[]TableFollows` | `BootProofs`: unless dirty, the table differs from the cache only by the one write in flight or the copy under way |
| `...!CopyHappensOnce` | `MigratesOnce` | `BootProofs`: a user's value in the table implies, unless this launch read nothing, that the copy is not under way |
| `...!DeployToldOnce` | `[]ToldOnce` | `ToldInv`, over the window itself: a notification that can still be restored as running, and the one a running tab will complete, has not been completed, or is in `again`; only `Show` and `MountRestored` complete, and each ends both states |
| `...!OutcomeIsTold` | `DeployTold` | `RunsInv`: runs that are shown as ended ended as their operation did or by a failed call (`Right`), and a deploy has no operation before the answer to its one start (`Unasked`), so an outcome stays true; a poll's answer is applied only to the operation that was asked about |

The proofs about `PackageSessions`, `Updates` and `Boot` are in modules of their own and about their own
specifications; those about the small stores `GitSelection`, `LocalAI` and `Deploy` are in `WindowProofs`, about the window
itself. For the former, `WindowProofs` shows that a behaviour of `Window` is, store by store, one of each (`...IsPart`: the initial states
agree, and a step of the window is a step of the store or leaves its variables alone) and carries the
theorems over, under the named assumption `WindowBounds` on the constants.

The assumption "one process" (`Instances` is a singleton) is what the single-instance lock is meant to give;
`FlowSecondLaunch` shows it is not quite given. "No early removal" is the gap of `FlowEarlyRemove`.
Both are needed: without them `LifeInv` is false.

So every safety property and every action property of the passing runs is a theorem. Model-checked only is liveness:
`CallReturns`, `StopEndsRun`, `RunAnnounced`, `EveryChangeShown`, `TaskSettles`, `DownloadSettles`, `CardSettles`, `SyncSettles`,
`DeploySettles`. They need fairness and `ENABLED`, which are out of the prover's reach. `GitAuthSync` has no safety
property that the code meets (see `GitConfigTorn`), so only its types are proved. No module declares a
`RECURSIVE` operator, and no theorem is about what a recursive definition computes.

## 7. Not modelled

* The generated and bundled code under `src/re` and `src/frontend/bindings`, which is most of the repository's lines
  and none of its logic.
* Request/response wrappers without state of their own: products, organisations, environments, blocks, IAM, Google Cloud,
  build kit, share page, changelog.
* The gRPC-web framing and protobuf codec (pure functions; planned), logging, terminals and platform shims (operating-system
  glue), pages (rendering), notifications and workspace state (written by one callback at a time).
* The define and build panes. They follow their operations as the deploy pane does, but `DefinePane.tsx:180` takes the
  answer of a poll without comparing its operation with the one shown. Deploy logs and the choice of versions and
  environments.
* Of modelled parts: `ApplyUpdate` (it swaps files and quits), conflict editing, pull requests, suggestions and the
  periodic fetch of the Git page, workflow CRUD and what a step's command does, terminal input and resizing, Local AI generation,
  the OAuth callback server.
* Hazards without a property are in `PROJECT.json` with the reason, among them the undo of a commit that was pushed from
  outside meanwhile (`git.ts:744`).

## 8. Plan

1. Proofs: what `CredentialRefresh` keeps when processes are killed (which of the lock's promises survive a reclaim), the
   engine's promises without the assumption on early removals, the safety half of the liveness properties (a flag or a
   notification that waits has somebody who will end it, in `Updates`, `LocalAI` and `Deploy`).
2. `WorkflowEngine`: the kinds of git results tested by the git steps, failing statements of the executor.
3. `RunPolling`: polls of a run that was deleted, the `stopping` flag.
4. The codec of `internal/alisclient/client.go` as functions on short byte sequences against a reference.
5. The define and build panes as further task flows beside `Deploy`.
