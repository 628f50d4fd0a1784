---------------------------- MODULE WindowProofs ----------------------------
(***************************************************************************)
(* The theorems about the stores of the window.  The package scripts, the  *)
(* updates and the start have proofs in modules of their own: here it is   *)
(* shown that a behaviour of the window is one of each of them, possibly   *)
(* one that does nothing, and the theorems are carried over.  The other    *)
(* stores are proved of the window itself.                                 *)
(***************************************************************************)
EXTENDS Window, TLAPS

PkgP == INSTANCE PackageSessionsProofs
UpdP == INSTANCE UpdatesProofs
BtP == INSTANCE BootProofs

-----------------------------------------------------------------------------
(* A step of the window is a step of the store or leaves it alone.          *)

\* Package scripts.
LEMMA PackageSessionsIsPart == Spec => PkgP!Spec
<1>1. Pkg!Init => PkgP!Init
  BY DEF Pkg!Init, Pkg!NoTick, Pkg!NoTask, PkgP!Init, PkgP!NoTick, PkgP!NoTask
<1>2. Pkg!Next => PkgP!Next
  BY DEF Pkg!Next, Pkg!StartScript, Pkg!Output, Pkg!Exit, Pkg!CloseSession,
    Pkg!AddSessions, Pkg!ClearSessions, Pkg!AnyTick, Pkg!PollStep, Pkg!Open, Pkg!Killed,
    Pkg!LastRunning, Pkg!Cancelled, Pkg!Changed, Pkg!Running, Pkg!Tick, Pkg!Serve,
    Pkg!Answer, Pkg!NoTask, Pkg!Polling, Pkg!NoTick, Pkg!Asked, Pkg!Length, PkgP!Next,
    PkgP!StartScript, PkgP!Output, PkgP!Exit, PkgP!CloseSession, PkgP!AddSessions,
    PkgP!ClearSessions, PkgP!AnyTick, PkgP!PollStep, PkgP!Open, PkgP!Killed,
    PkgP!LastRunning, PkgP!Cancelled, PkgP!Changed, PkgP!Running, PkgP!Tick, PkgP!Serve,
    PkgP!Answer, PkgP!NoTask, PkgP!Polling, PkgP!NoTick, PkgP!Asked, PkgP!Length
<1>3. [Next]_vars => [PkgP!Next]_PkgP!packageVars
  BY <1>2 DEF Next, SelOnly, PkgOnly, UpdOnly, LocOnly, BootOnly, AuthOnly, DepOnly,
    vars, pkgVars, PkgP!packageVars
<1>. QED BY <1>1, <1>3, PTL DEF Spec, Init, PkgP!Spec

\* Updates.
LEMMA UpdatesIsPart == Spec => UpdP!Spec
<1>1. Upd!Init => UpdP!Init
  BY DEF Upd!Init, UpdP!Init
<1>2. Upd!Next => UpdP!Next
  BY DEF Upd!Next, Upd!CheckForUpdate, Upd!BackgroundCheck, Upd!Handling,
    Upd!StartDownload, Upd!Progress, Upd!Ending, Upd!Room, Upd!Available, Upd!Shown,
    Upd!Start, Upd!Emit, Upd!Fail, Upd!Succeed, Upd!Handled, Upd!Reset, Upd!StagedFirst,
    UpdP!Next, UpdP!CheckForUpdate, UpdP!BackgroundCheck, UpdP!Handling,
    UpdP!StartDownload, UpdP!Progress, UpdP!Ending, UpdP!Room, UpdP!Available, UpdP!Shown,
    UpdP!Start, UpdP!Emit, UpdP!Fail, UpdP!Succeed, UpdP!Handled, UpdP!Reset,
    UpdP!StagedFirst
<1>3. [Next]_vars => [UpdP!Next]_UpdP!updateVars
  BY <1>2 DEF Next, SelOnly, PkgOnly, UpdOnly, LocOnly, BootOnly, AuthOnly, DepOnly,
    vars, updVars, UpdP!updateVars
<1>. QED BY <1>1, <1>3, PTL DEF Spec, Init, UpdP!Spec

\* The start and the settings.
LEMMA BootIsPart == Spec => BtP!Spec
<1>1. Bt!Init => BtP!Init
  BY DEF Bt!Init, Bt!NoRows, BtP!Init, BtP!NoRows
<1>2. Bt!Next => BtP!Next
  BY DEF Bt!Next, Bt!Launch, Bt!BootStep, Bt!Kill, Bt!Set, Bt!Written, Bt!Migrated,
    Bt!NoRows, Bt!Exec, Bt!Bump, Bt!ReadAll, Bt!ReadAllError, Bt!Copy, Bt!CopyWritten,
    Bt!FlagWritten, Bt!NextVersion, Bt!CacheSet, Bt!Error, Bt!Executed, Bt!Loaded,
    Bt!Copied, BtP!Next, BtP!Launch, BtP!BootStep, BtP!Kill, BtP!Set, BtP!Written,
    BtP!Migrated, BtP!NoRows, BtP!Exec, BtP!Bump, BtP!ReadAll, BtP!ReadAllError, BtP!Copy,
    BtP!CopyWritten, BtP!FlagWritten, BtP!NextVersion, BtP!CacheSet, BtP!Error,
    BtP!Executed, BtP!Loaded, BtP!Copied
<1>3. [Next]_vars => [BtP!Next]_BtP!bootVars
  BY <1>2 DEF Next, SelOnly, PkgOnly, UpdOnly, LocOnly, BootOnly, AuthOnly, DepOnly,
    vars, bootVars, BtP!bootVars
<1>. QED BY <1>1, <1>3, PTL DEF Spec, Init, BtP!Spec

-----------------------------------------------------------------------------
(* The selection of the Git page (stores/git.ts), proved of the window.     *)

\* What is loaded is of its kind.  There is one selection at most; the serial of a
\* selected commit's file is that of the load it began with.
LoadInv ==
  \A l \in Loads :
    /\ load[l].kind = "paths" => load[l].of \in Products
    /\ load[l].kind \in {"file", "commit"} => load[l].of \in Files
    /\ load[l].kind = "commit" => load[l].serial = l
OneSelection ==
  /\ selected.commit # "none" => selected.file = "none"
  /\ \A l \in Loads :
       load[l].kind = "commit" /\ selected.commit # "none" /\ selected.serial = l
         => load[l].of = selected.commit
\* All loads of the selected file are of the side it is selected in, but after a crossing.
OneSide ==
  \A l \in Loads :
     load[l].kind = "file" /\ load[l].of = selected.file /\ ~crossed
       => load[l].staged = selected.staged
SelectionInv == Sel!TypeOK /\ LoadInv /\ OneSelection /\ OneSide /\ Sel!DiffMatches

Selection == [file: Sel!Target, staged: BOOLEAN, commit: Sel!Target, serial: {0} \cup Loads]
Shown == [kind: {"none", "file", "commit"}, of: Sel!Target, staged: BOOLEAN, loading: BOOLEAN]
Loading == [kind: {"none", "paths", "file", "commit"}, of: Sel!Target \cup Products,
            staged: BOOLEAN, serial: {0} \cup Loads]

LEMMA NoSelectionTypes ==
  /\ Sel!Nothing \in Selection /\ Sel!NoLoad \in Loading
  /\ \A b \in BOOLEAN : Sel!Empty(b) \in Shown
BY DEF Sel!Nothing, Sel!NoLoad, Sel!Empty, Sel!Target, Selection, Loading, Shown

\* A loaded diff stays that of the selection: an answer is taken only for what is
\* selected now, and a new selection sets the loading flag.
LEMMA SelectionKept == SelectionInv /\ [Next]_vars => SelectionInv'
<1> SUFFICES ASSUME SelectionInv, [Next]_vars PROVE SelectionInv'
  OBVIOUS
<1>t. /\ product \in Products /\ paths \in Products \cup {"none"} /\ crossed \in BOOLEAN
      /\ selected \in Selection /\ diff \in Shown /\ load \in [Loads -> Loading]
  BY DEF SelectionInv, Sel!TypeOK, Selection, Shown, Loading
<1>q. ASSUME product' \in Products, paths' \in Products \cup {"none"}, crossed' \in BOOLEAN,
             selected' \in Selection, diff' \in Shown, load' \in [Loads -> Loading],
             LoadInv', OneSelection', OneSide', Sel!DiffMatches'
      PROVE  SelectionInv'
  BY <1>q DEF SelectionInv, Sel!TypeOK, Selection, Shown, Loading
<1>i. LoadInv /\ OneSelection /\ OneSide /\ Sel!DiffMatches /\ "none" \notin Files
  BY WindowBounds DEF SelectionInv
<1>1. ASSUME NEW p \in Products, Sel!SelectProduct(p) PROVE SelectionInv'
  BY <1>1, <1>t, <1>q, <1>i
  DEF Sel!SelectProduct, LoadInv, OneSelection, OneSide, Sel!DiffMatches
\* A load begins: of paths, of the file just selected, or of a commit's file.
<1>b. ASSUME NEW l \in Loads, NEW new \in Loading,
             load' = [load EXCEPT ![l] = new]
      PROVE  /\ load' \in [Loads -> Loading] /\ load'[l] = new
             /\ \A k \in Loads \ {l} : load'[k] = load[k]
  BY <1>b, <1>t
<1>2. ASSUME NEW l \in Loads, Sel!LoadPaths(l) PROVE SelectionInv'
  <2>. DEFINE new == [kind |-> "paths", of |-> product, staged |-> FALSE, serial |-> 0]
  <2>1. /\ UNCHANGED <<product, paths, selected, diff, crossed>>
        /\ load' = [load EXCEPT ![l] = new]
    BY <1>2 DEF Sel!LoadPaths, Sel!Begin
  <2>2. new \in Loading /\ new.kind = "paths" /\ new.of \in Products
    BY <1>t DEF Loading
  <2>. HIDE DEF new
  <2>3. LoadInv' /\ OneSelection' /\ OneSide' /\ Sel!DiffMatches'
    BY <2>1, <2>2, <1>b, <1>i DEF LoadInv, OneSelection, OneSide, Sel!DiffMatches
  <2>. QED BY <2>1, <2>2, <2>3, <1>b, <1>q, <1>t
<1>3. ASSUME NEW l \in Loads, Sel!PathsAnswer(l) PROVE SelectionInv'
  <2>1. /\ UNCHANGED <<product, crossed>> /\ load' = [load EXCEPT ![l] = Sel!NoLoad]
        /\ load[l].kind = "paths"
    BY <1>3 DEF Sel!PathsAnswer, Sel!Over
  <2>2. \/ UNCHANGED <<paths, selected, diff>>
        \/ /\ paths' \in Products /\ selected' = Sel!Nothing
           /\ \E b \in BOOLEAN : diff' = Sel!Empty(b)
    BY <1>3, <1>t, <1>i DEF Sel!PathsAnswer, LoadInv, Shown
  <2>3. /\ load' \in [Loads -> Loading] /\ load'[l].kind = "none"
        /\ \A k \in Loads \ {l} : load'[k] = load[k]
    BY <2>1, <1>b, NoSelectionTypes DEF Sel!NoLoad
  <2>4. LoadInv' /\ OneSelection' /\ OneSide' /\ Sel!DiffMatches'
    BY <2>1, <2>2, <2>3, <1>i
    DEF LoadInv, OneSelection, OneSide, Sel!DiffMatches, Sel!Nothing, Sel!Empty
  <2>. QED BY <2>1, <2>2, <2>3, <2>4, <1>q, <1>t, NoSelectionTypes
<1>4. ASSUME NEW l \in Loads, NEW f \in Files, NEW side \in BOOLEAN, Sel!SelectFile(l, f, side)
      PROVE  SelectionInv'
  <2>. DEFINE new == [kind |-> "file", of |-> f, staged |-> side, serial |-> 0]
              sel == [Sel!Nothing EXCEPT !.file = f, !.staged = side]
  <2>1. /\ UNCHANGED <<product, paths>> /\ load' = [load EXCEPT ![l] = new]
        /\ selected' = sel /\ diff' = [diff EXCEPT !.loading = TRUE]
        /\ crossed' = \E k \in Loads :
             load[k].kind = "file" /\ load[k].of = f /\ load[k].staged # side
    BY <1>4 DEF Sel!SelectFile, Sel!Begin
  <2>2. /\ new \in Loading /\ new.kind = "file" /\ new.of = f /\ new.staged = side
        /\ sel \in Selection /\ sel.file = f /\ sel.staged = side /\ sel.commit = "none"
    BY DEF Loading, Selection, Sel!Nothing, Sel!Target
  <2>3. diff' \in Shown /\ diff'.loading
    BY <2>1, <1>t DEF Shown
  <2>. HIDE DEF new, sel
  <2>4. LoadInv' /\ OneSelection' /\ Sel!DiffMatches'
    BY <2>1, <2>2, <2>3, <1>b, <1>i DEF LoadInv, OneSelection, Sel!DiffMatches
  <2>5. OneSide'
    BY <2>1, <2>2, <1>b DEF OneSide
  <2>. QED BY <2>1, <2>2, <2>3, <2>4, <2>5, <1>b, <1>q, <1>t
<1>5. ASSUME NEW l \in Loads, NEW f \in Files, Sel!SelectCommitFile(l, f)
      PROVE  SelectionInv'
  <2>. DEFINE new == [kind |-> "commit", of |-> f, staged |-> FALSE, serial |-> l]
              sel == [Sel!Nothing EXCEPT !.staged = selected.staged, !.commit = f, !.serial = l]
  <2>1. /\ UNCHANGED <<product, paths, crossed>> /\ load' = [load EXCEPT ![l] = new]
        /\ selected' = sel /\ diff' = [diff EXCEPT !.loading = TRUE]
    BY <1>5 DEF Sel!SelectCommitFile, Sel!Begin
  <2>2. /\ new \in Loading /\ new.kind = "commit" /\ new.of = f /\ new.serial = l
        /\ sel \in Selection /\ sel.file = "none" /\ sel.commit = f /\ sel.serial = l
    BY <1>t DEF Loading, Selection, Sel!Nothing, Sel!Target
  <2>3. diff' \in Shown /\ diff'.loading
    BY <2>1, <1>t DEF Shown
  <2>. HIDE DEF new, sel
  <2>4. LoadInv' /\ Sel!DiffMatches'
    BY <2>1, <2>2, <2>3, <1>b, <1>i DEF LoadInv, Sel!DiffMatches
  <2>5. OneSelection'
    BY <2>1, <2>2, <1>b, <1>i DEF LoadInv, OneSelection
  <2>6. OneSide'
    BY <2>1, <2>2, <1>b, <1>i DEF LoadInv, OneSide
  <2>. QED BY <2>1, <2>2, <2>3, <2>4, <2>5, <2>6, <1>b, <1>q, <1>t
<1>6. CASE Sel!SelectGraphCommit
  <2>1. /\ UNCHANGED <<product, paths, crossed, load>>
        /\ selected' = [selected EXCEPT !.file = "none"]
        /\ diff' = IF selected.commit = "none" THEN Sel!Empty(diff.loading) ELSE diff
    BY <1>6 DEF Sel!SelectGraphCommit
  <2>2. /\ selected' \in Selection /\ selected'.file = "none"
        /\ selected'.commit = selected.commit /\ selected'.serial = selected.serial
    BY <2>1, <1>t DEF Selection, Sel!Target
  <2>3. diff' \in Shown
    BY <2>1, <1>t, NoSelectionTypes DEF Shown
  <2>4. LoadInv' /\ OneSelection' /\ OneSide'
    BY <2>1, <2>2, <1>i DEF LoadInv, OneSelection, OneSide
  <2>5. CASE selected.commit = "none"
    <3>1. diff'.kind = "none"
      BY <2>1, <2>5 DEF Sel!Empty
    <3>. QED BY <2>1, <2>2, <2>3, <2>4, <3>1, <1>q, <1>t DEF Sel!DiffMatches
  <2>6. CASE selected.commit # "none"
    <3>1. diff' = diff /\ selected.file = "none"
      BY <2>1, <2>6, <1>i DEF OneSelection
    <3>2. selected' = selected
      BY <2>1, <3>1, <1>t DEF Selection
    <3>3. Sel!DiffMatches'
      BY <2>1, <3>1, <3>2, <1>i DEF Sel!DiffMatches
    <3>. QED BY <2>1, <2>2, <2>3, <2>4, <3>3, <1>q, <1>t
  <2>. QED BY <2>5, <2>6
<1>o. ASSUME NEW l \in Loads, Sel!Over(l), UNCHANGED <<product, paths, selected, crossed>>
      PROVE  /\ load' \in [Loads -> Loading] /\ LoadInv' /\ OneSelection' /\ OneSide'
  <2>1. /\ load' \in [Loads -> Loading] /\ load'[l].kind = "none"
        /\ \A k \in Loads \ {l} : load'[k] = load[k]
    BY <1>o, <1>b, NoSelectionTypes DEF Sel!Over, Sel!NoLoad
  <2>. QED BY <1>o, <2>1, <1>i DEF LoadInv, OneSelection, OneSide
<1>7. ASSUME NEW l \in Loads, Sel!DiffAnswer(l) PROVE SelectionInv'
  <2>. DEFINE new == [kind |-> load[l].kind, of |-> load[l].of, staged |-> load[l].staged,
                      loading |-> FALSE]
  <2>1. /\ Sel!Over(l) /\ UNCHANGED <<product, paths, selected, crossed>>
        /\ load[l].kind \in {"file", "commit"}
        /\ diff' = IF Sel!Wanted(l) THEN new ELSE diff
    BY <1>7 DEF Sel!DiffAnswer
  <2>2. /\ new \in Shown /\ new.kind = load[l].kind /\ new.of = load[l].of
        /\ new.staged = load[l].staged
    BY <2>1, <1>t, <1>i DEF Loading, Shown, LoadInv, Sel!Target
  <2>. HIDE DEF new
  <2>3. Sel!DiffMatches'
    BY <2>1, <2>2, <1>i DEF Sel!Wanted, LoadInv, OneSelection, OneSide, Sel!DiffMatches
  <2>. QED BY <2>1, <2>2, <2>3, <1>o, <1>q, <1>t
<1>8. ASSUME NEW l \in Loads, Sel!DiffError(l) PROVE SelectionInv'
  <2>1. /\ Sel!Over(l) /\ UNCHANGED <<product, paths, selected, crossed>>
        /\ diff' = Sel!Empty(FALSE)
    BY <1>8 DEF Sel!DiffError
  <2>2. Sel!DiffMatches'
    BY <2>1 DEF Sel!DiffMatches, Sel!Empty
  <2>. QED BY <2>1, <2>2, <1>o, <1>q, <1>t, NoSelectionTypes
<1>9. CASE UNCHANGED selVars
  BY <1>9, <1>t, <1>q, <1>i DEF selVars, LoadInv, OneSelection, OneSide, Sel!DiffMatches
<1>10. Sel!Next \/ UNCHANGED selVars
  BY DEF Next, SelOnly, PkgOnly, UpdOnly, LocOnly, BootOnly, AuthOnly, DepOnly, vars
<1>. QED BY <1>1, <1>2, <1>3, <1>4, <1>5, <1>6, <1>7, <1>8, <1>9, <1>10 DEF Sel!Next

LEMMA SelectionHolds == Spec => []SelectionInv
<1>1. Init => SelectionInv
  <2>. SUFFICES ASSUME Sel!Init PROVE SelectionInv
    BY DEF Init
  <2>1. /\ selected = Sel!Nothing /\ diff = Sel!Empty(FALSE)
        /\ \A l \in Loads : load[l] = Sel!NoLoad
    BY DEF Sel!Init
  <2>2. Sel!TypeOK
    BY NoSelectionTypes DEF Sel!Init, Sel!TypeOK, Selection, Loading, Shown
  <2>3. /\ selected.commit = "none" /\ diff.kind = "none"
        /\ \A l \in Loads : load[l].kind = "none"
    BY <2>1 DEF Sel!Nothing, Sel!NoLoad, Sel!Empty
  <2>4. LoadInv /\ OneSelection /\ OneSide /\ Sel!DiffMatches
    BY <2>3 DEF LoadInv, OneSelection, OneSide, Sel!DiffMatches
  <2>. QED BY <2>2, <2>4 DEF SelectionInv
<1>. QED BY <1>1, SelectionKept, PTL DEF Spec

-----------------------------------------------------------------------------
(* Local AI (localai.ts, localaiservice.go), proved of the window.          *)

\* A spawned process that is alive is known to the application, as ollamaCmd or as
\* the one StartOllama is about to store there, or is one of the two kinds that may
\* be left.  What the next store displaces is what the probe found not to answer.
ProcessInv ==
  /\ \A p \in Procs : ollama[p] \in {"loading", "serving"} =>
       p \in displaced \cup unheld \/ (app = "up" /\ p \in {cmd, child})
  /\ app = "up" /\ start \in {"probed", "spawned"} =>
       \A p \in Procs : ollama[p] \in {"loading", "serving"} =>
         p \in unanswered \cup displaced \cup unheld \cup {child}
  /\ start # "spawned" => child = 0

\* A pull is of the model of the card, which cannot be changed during it; what a
\* pull or a query reports as there has been there.
PullInv ==
  /\ job.pull # "idle" => ui.pulling /\ job.pulling = ui.model
  /\ job.pull = "done" => job.pulling \in pulled
  /\ \A q \in Queries : query[q].has => query[q].model \in pulled
LocalInv == Loc!TypeOK /\ ProcessInv /\ PullInv

Card == [model: Models, binary: BOOLEAN, downloading: BOOLEAN, running: BOOLEAN,
         starting: BOOLEAN, has: BOOLEAN, pulling: BOOLEAN]
Jobs == [download: Loc!JobPhase, pull: Loc!JobPhase, pulling: Models \cup {"none"}]
Asked == [phase: {"idle", "sent", "status", "answered"}, model: Models \cup {"none"},
          api: BOOLEAN, binary: BOOLEAN, has: BOOLEAN]

LEMMA IdleTypes ==
  /\ Loc!NoJobs \in Jobs /\ Loc!Idle \in Asked /\ Loc!Idle.has = FALSE
  /\ \A m \in Models : Loc!Blank(m) \in Card /\ Loc!Blank(m).model = m /\ ~Loc!Blank(m).has
BY DEF Loc!NoJobs, Loc!Idle, Loc!Blank, Jobs, Asked, Card, Loc!JobPhase

StartPhase == {"idle", "called", "probed", "spawned", "waiting", "ok", "error"}

\* The steps that leave the processes, the pull, and what is there, alone.
LEMMA CardStep ==
  ASSUME LocalInv,
         UNCHANGED <<ollama, child, cmd, unanswered, displaced, unheld, pulled, app>>,
         binary' \in BOOLEAN,
         \/ start' = start
         \/ start # "spawned" /\ start' \in {"idle", "called", "ok", "error"},
         job' \in Jobs, job'.pull = job.pull, job'.pulling = job.pulling,
         query' \in [Queries -> Asked],
         \A q \in Queries : query'[q].has => query'[q].model \in pulled,
         ui' \in Card, ui'.pulling = ui.pulling, ui'.model = ui.model
  PROVE  LocalInv'
<1>1. ProcessInv'
  BY DEF LocalInv, ProcessInv
<1>2. PullInv'
  BY DEF LocalInv, PullInv
<1>3. start' \in StartPhase
  BY DEF LocalInv, Loc!TypeOK, StartPhase
<1>. QED BY <1>1, <1>2, <1>3 DEF LocalInv, Loc!TypeOK, Card, Jobs, Asked, StartPhase

\* The steps that leave the card, the jobs and the queries alone.
LEMMA ProcessStep ==
  ASSUME LocalInv, UNCHANGED <<binary, pulled, job, query, ui>>, ProcessInv',
         ollama' \in [Procs -> {"none", "loading", "serving", "dead"}],
         child' \in Procs \cup {0}, cmd' \in Procs \cup {0}, unanswered' \subseteq Procs,
         displaced' \subseteq Procs, unheld' \subseteq Procs, start' \in StartPhase,
         app' \in {"up", "stopping", "off"}
  PROVE  LocalInv'
BY DEF LocalInv, Loc!TypeOK, PullInv, StartPhase

LEMMA StartKeeps ==
  ASSUME LocalInv, NEW p \in Procs \cup {0},
         \/ Loc!Probe \/ Loc!SpawnError \/ Loc!Store
         \/ p \in Procs /\ (Loc!Spawn(p) \/ Loc!Serve(p) \/ Loc!Die(p))
  PROVE  LocalInv'
<1>t. /\ ollama \in [Procs -> {"none", "loading", "serving", "dead"}]
      /\ child \in Procs \cup {0} /\ cmd \in Procs \cup {0} /\ unanswered \subseteq Procs
      /\ displaced \subseteq Procs /\ unheld \subseteq Procs /\ start \in StartPhase
      /\ app \in {"up", "stopping", "off"} /\ ProcessInv
  BY DEF LocalInv, Loc!TypeOK, StartPhase
<1>1. CASE Loc!Probe
  <2>1. PICK up \in BOOLEAN : /\ start' = IF up THEN "ok" ELSE "probed"
                              /\ unanswered' = IF up THEN {} ELSE Loc!Alive
    BY <1>1 DEF Loc!Probe, Loc!CheckOllama
  <2>2. /\ start = "called"
        /\ UNCHANGED <<binary, ollama, child, cmd, displaced, unheld, pulled, job, query, ui, app>>
    BY <1>1 DEF Loc!Probe, Loc!heldVars
  <2>3. ProcessInv'
    BY <1>t, <2>1, <2>2 DEF ProcessInv, Loc!Alive
  <2>4. unanswered' \subseteq Procs /\ start' \in StartPhase
    BY <2>1 DEF Loc!Alive, StartPhase
  <2>. QED BY <1>t, <2>2, <2>3, <2>4, ProcessStep
<1>2. CASE p \in Procs /\ Loc!Spawn(p)
  <2>1. /\ start = "probed" /\ start' = "spawned" /\ ollama[p] = "none"
        /\ ollama' = [ollama EXCEPT ![p] = "loading"] /\ child' = p
        /\ unheld' = IF app = "up" THEN unheld ELSE unheld \cup {p}
        /\ UNCHANGED <<binary, cmd, unanswered, displaced, pulled, job, query, ui, app>>
    BY <1>2 DEF Loc!Spawn
  <2>2. child = 0 /\ 0 \notin Procs
    BY <1>t, <2>1, WindowBounds DEF ProcessInv
  <2>3. ProcessInv'
    BY <1>t, <2>1, <2>2 DEF ProcessInv
  <2>4. /\ ollama' \in [Procs -> {"none", "loading", "serving", "dead"}]
        /\ child' \in Procs \cup {0} /\ unheld' \subseteq Procs /\ start' \in StartPhase
    BY <1>2, <1>t, <2>1 DEF StartPhase
  <2>5. /\ UNCHANGED <<binary, pulled, job, query, ui, cmd, unanswered, displaced, app>>
        /\ ProcessInv'
    BY <2>1, <2>3
  <2>. HIDE DEF StartPhase
  <2>. QED BY <1>t, <2>4, <2>5, ProcessStep
<1>3. CASE Loc!SpawnError
  <2>1. /\ start = "probed" /\ start' = "error" /\ unanswered' = {}
        /\ UNCHANGED <<binary, ollama, child, cmd, displaced, unheld, pulled, job, query, ui, app>>
    BY <1>3 DEF Loc!SpawnError, Loc!heldVars
  <2>2. ProcessInv'
    BY <1>t, <2>1 DEF ProcessInv
  <2>. QED BY <1>t, <2>1, <2>2, ProcessStep DEF StartPhase
<1>4. CASE Loc!Store
  <2>1. /\ start = "spawned" /\ start' = "waiting" /\ cmd' = child /\ child' = 0
        /\ displaced' = displaced \cup (unanswered \cap {cmd}) /\ unanswered' = {}
        /\ UNCHANGED <<binary, ollama, unheld, pulled, job, query, ui, app>>
    BY <1>4 DEF Loc!Store, Loc!Remembered
  <2>2. ProcessInv'
    BY <1>t, <2>1 DEF ProcessInv
  <2>. QED BY <1>t, <2>1, <2>2, ProcessStep DEF StartPhase
<1>5. CASE p \in Procs /\ (Loc!Serve(p) \/ Loc!Die(p))
  <2>1. /\ ollama[p] \in {"loading", "serving"}
        /\ \E new \in {"dead", "serving"} : ollama' = [ollama EXCEPT ![p] = new]
        /\ UNCHANGED <<binary, child, cmd, unanswered, displaced, unheld, pulled, start, job,
             query, ui, app>>
    BY <1>5 DEF Loc!Serve, Loc!Die, Loc!Alive, Loc!heldVars
  <2>2. ollama' \in [Procs -> {"none", "loading", "serving", "dead"}]
    BY <1>t, <2>1
  <2>3. \A q \in Procs : ollama'[q] \in {"loading", "serving"} =>
                          ollama[q] \in {"loading", "serving"}
    BY <1>t, <2>1
  <2>4. ProcessInv'
    BY <1>t, <2>1, <2>3 DEF ProcessInv
  <2>. QED BY <1>t, <2>1, <2>2, <2>4, ProcessStep
<1>. QED BY <1>1, <1>2, <1>3, <1>4, <1>5

LEMMA ExitKeeps == ASSUME LocalInv, Loc!Exit PROVE LocalInv'
<1>1. /\ app = "stopping" /\ app' = "off" /\ child' = 0 /\ cmd' = 0 /\ start' = "idle"
      /\ unanswered' = {}
      /\ UNCHANGED <<binary, ollama, displaced, unheld, pulled, job, query, ui>>
  BY DEF Loc!Exit, Loc!heldVars
<1>2. ProcessInv'
  BY <1>1 DEF LocalInv, ProcessInv
<1>. QED BY <1>1, <1>2, ProcessStep DEF LocalInv, Loc!TypeOK, StartPhase

LEMMA ShutdownKeeps == ASSUME LocalInv, Loc!ServiceShutdown PROVE LocalInv'
<1>1. /\ app' = "stopping" /\ app = "up" /\ query' = [q \in Queries |-> Loc!Idle]
      /\ job' = Loc!NoJobs /\ ui' = Loc!Blank(ui.model) /\ cmd' = 0
      /\ unheld' = unheld \cup ({child} \ {0})
      /\ UNCHANGED <<binary, child, unanswered, displaced, pulled, start>>
      /\ ollama' = IF cmd = 0 THEN ollama ELSE [ollama EXCEPT ![cmd] = "dead"]
  BY DEF Loc!ServiceShutdown
<1>2. ollama' \in [Procs -> {"none", "loading", "serving", "dead"}] /\ ProcessInv'
  <2>1. 0 \notin Procs
    BY WindowBounds
  <2>. QED BY <1>1, <2>1 DEF LocalInv, Loc!TypeOK, ProcessInv
<1>3. ui.model \in Models /\ unheld' \subseteq Procs
  BY <1>1 DEF LocalInv, Loc!TypeOK
<1>4. Loc!TypeOK'
  BY <1>1, <1>2, <1>3, IdleTypes DEF LocalInv, Loc!TypeOK, Card, Jobs, Asked
<1>5. PullInv'
  BY <1>1, IdleTypes DEF PullInv, Loc!NoJobs
<1>. QED BY <1>2, <1>4, <1>5 DEF LocalInv

LEMMA LocalKept == LocalInv /\ [Next]_vars => LocalInv'
<1>. SUFFICES ASSUME LocalInv, [Next]_vars PROVE LocalInv'
  OBVIOUS
<1>t. /\ ui \in Card /\ job \in Jobs /\ query \in [Queries -> Asked]
      /\ binary \in BOOLEAN /\ pulled \subseteq Models
      /\ ollama \in [Procs -> {"none", "loading", "serving", "dead"}]
  BY DEF LocalInv, Loc!TypeOK, Card, Jobs, Asked
<1>h. \A q \in Queries : query[q].has => query[q].model \in pulled
  BY DEF LocalInv, PullInv
<1>1. CASE Loc!StartOllama
  <2>1. ui' \in Card /\ ui'.pulling = ui.pulling /\ ui'.model = ui.model
    BY <1>1, <1>t DEF Loc!StartOllama, Card
  <2>. QED BY <1>1, <1>t, <1>h, <2>1, CardStep DEF Loc!StartOllama, Loc!procVars,
      Loc!heldVars
<1>2. CASE Loc!WaitEnds
  <2>1. start # "spawned" /\ start' \in {"ok", "error"}
    BY <1>2 DEF Loc!WaitEnds
  <2>. QED BY <1>2, <1>t, <1>h, <2>1, CardStep DEF Loc!WaitEnds, Loc!procVars, Loc!heldVars
<1>3. CASE Loc!Started
  <2>1. PICK up \in BOOLEAN : ui' = [ui EXCEPT !.starting = FALSE, !.running = up]
    BY <1>3, <1>t DEF Loc!Started, Card
  <2>2. ui' \in Card /\ ui'.pulling = ui.pulling /\ ui'.model = ui.model
    BY <1>t, <2>1 DEF Card
  <2>. QED BY <1>3, <1>t, <1>h, <2>2, CardStep DEF Loc!Started, Loc!procVars,
      Loc!heldVars
<1>4. CASE Loc!StartDownload
  <2>1. ui' \in Card /\ ui'.pulling = ui.pulling /\ ui'.model = ui.model
    BY <1>4, <1>t DEF Loc!StartDownload, Card
  <2>2. job' \in Jobs /\ job'.pull = job.pull /\ job'.pulling = job.pulling
    BY <1>4, <1>t DEF Loc!StartDownload, Jobs, Loc!JobPhase
  <2>. QED BY <1>4, <1>t, <1>h, <2>1, <2>2, CardStep DEF Loc!StartDownload, Loc!procVars,
      Loc!heldVars
<1>5. CASE Loc!Downloaded
  <2>1. job' \in Jobs /\ job'.pull = job.pull /\ job'.pulling = job.pulling
    BY <1>5, <1>t DEF Loc!Downloaded, Jobs, Loc!JobPhase
  <2>2. binary' \in BOOLEAN
    BY <1>5 DEF Loc!Downloaded
  <2>. QED BY <1>5, <1>t, <1>h, <2>1, <2>2, CardStep DEF Loc!Downloaded, Loc!procVars,
      Loc!heldVars
<1>6. CASE Loc!DownloadEvent
  <2>1. PICK there \in BOOLEAN : ui' = [ui EXCEPT !.downloading = FALSE, !.binary = there]
    <3>1. (ui.binary \/ job.download = "done") \in BOOLEAN
      OBVIOUS
    <3>. QED BY <1>6, <3>1 DEF Loc!DownloadEvent
  <2>2. ui' \in Card /\ ui'.pulling = ui.pulling /\ ui'.model = ui.model
    BY <1>t, <2>1 DEF Card
  <2>3. job' \in Jobs /\ job'.pull = job.pull /\ job'.pulling = job.pulling
    BY <1>6, <1>t DEF Loc!DownloadEvent, Jobs, Loc!JobPhase
  <2>. QED BY <1>6, <1>t, <1>h, <2>2, <2>3, CardStep DEF Loc!DownloadEvent, Loc!procVars,
      Loc!heldVars
<1>7. ASSUME NEW q \in Queries, Loc!Query(q) PROVE LocalInv'
  <2>. DEFINE new == [Loc!Idle EXCEPT !.phase = "sent", !.model = ui.model]
  <2>1. new \in Asked /\ new.has = FALSE
    BY <1>t DEF Loc!Idle, Asked, Card
  <2>2. query' = [query EXCEPT ![q] = new]
    BY <1>7 DEF Loc!Query
  <2>. HIDE DEF new
  <2>3. /\ query' \in [Queries -> Asked]
        /\ \A r \in Queries : query'[r].has => query'[r].model \in pulled
    BY <1>t, <1>h, <2>1, <2>2
  <2>. QED BY <1>7, <1>t, <2>3, CardStep DEF Loc!Query, Loc!procVars,
      Loc!heldVars
<1>8. ASSUME NEW q \in Queries, Loc!Status(q) PROVE LocalInv'
  <2>1. PICK phase \in {"status", "answered"}, api \in BOOLEAN :
          query' = [query EXCEPT ![q].phase = phase, ![q].api = api, ![q].binary = binary]
    <3>1. PICK up \in BOOLEAN :
            query' = [query EXCEPT ![q].phase = IF up THEN "status" ELSE "answered",
                                   ![q].api = up, ![q].binary = binary]
      BY <1>8 DEF Loc!Status, Loc!CheckOllama
    <3>2. (IF up THEN "status" ELSE "answered") \in {"status", "answered"}
      OBVIOUS
    <3>. QED BY <3>1, <3>2
  <2>2. query' \in [Queries -> Asked]
    BY <1>t, <2>1 DEF Asked
  <2>3. \A r \in Queries : query'[r].has = query[r].has /\ query'[r].model = query[r].model
    BY <1>t, <2>1 DEF Asked
  <2>. QED BY <1>8, <1>t, <1>h, <2>2, <2>3, CardStep DEF Loc!Status, Loc!procVars,
      Loc!heldVars
<1>9. ASSUME NEW q \in Queries, Loc!PulledModels(q) PROVE LocalInv'
  <2>1. PICK has \in BOOLEAN : /\ query' = [query EXCEPT ![q].phase = "answered", ![q].has = has]
                               /\ has => query[q].model \in pulled
    <3>1. (Loc!Api /\ query[q].model \in pulled) \in BOOLEAN
      OBVIOUS
    <3>. QED BY <1>9, <3>1 DEF Loc!PulledModels
  <2>2. /\ query' \in [Queries -> Asked] /\ query'[q].has = has
        /\ \A r \in Queries : query'[r].model = query[r].model
        /\ \A r \in Queries \ {q} : query'[r].has = query[r].has
    BY <1>t, <2>1 DEF Asked
  <2>. QED BY <1>9, <1>t, <1>h, <2>1, <2>2, CardStep DEF Loc!PulledModels, Loc!procVars,
      Loc!heldVars
<1>10. ASSUME NEW q \in Queries, Loc!QueryAnswer(q) PROVE LocalInv'
  <2>1. /\ query' \in [Queries -> Asked]
        /\ \A r \in Queries : query'[r].has => query'[r].model \in pulled
    BY <1>10, <1>t, <1>h, IdleTypes DEF Loc!QueryAnswer
  <2>2. ui' \in Card /\ ui'.pulling = ui.pulling /\ ui'.model = ui.model
    <3>1. query[q] \in Asked
      BY <1>t
    <3>. QED BY <1>10, <1>t, <3>1 DEF Loc!QueryAnswer, Card, Asked
  <2>. QED BY <1>10, <1>t, <2>1, <2>2, CardStep DEF Loc!QueryAnswer, Loc!procVars,
      Loc!heldVars
<1>11. ASSUME NEW p \in Procs, Loc!Serve(p) \/ Loc!Die(p) \/ Loc!Spawn(p) PROVE LocalInv'
  BY <1>11, StartKeeps
<1>s. CASE Loc!Probe \/ Loc!SpawnError \/ Loc!Store
  BY <1>s, StartKeeps
<1>p. ASSUME UNCHANGED <<binary, ollama, child, cmd, unanswered, displaced, unheld, start, query, app>>,
             ui' \in Card, job' \in Jobs, pulled' \subseteq Models, pulled \subseteq pulled',
             job'.pull # "idle" => ui'.pulling /\ job'.pulling = ui'.model,
             job'.pull = "done" => job'.pulling \in pulled'
      PROVE  LocalInv'
  BY <1>p DEF LocalInv, Loc!TypeOK, ProcessInv, PullInv, Card, Jobs, Asked
<1>q. /\ job.pull # "idle" => ui.pulling /\ job.pulling = ui.model
      /\ job.pull = "done" => job.pulling \in pulled
  BY DEF LocalInv, PullInv
<1>12. CASE Loc!StartPull
  <2>1. ui' \in Card /\ ui'.pulling = TRUE /\ ui'.model = ui.model
    BY <1>12, <1>t DEF Loc!StartPull, Card
  <2>2. job' \in Jobs /\ job'.pull = "running" /\ job'.pulling = ui.model
    BY <1>12, <1>t DEF Loc!StartPull, Jobs, Card, Loc!JobPhase
  <2>. QED BY <1>12, <1>t, <2>1, <2>2, <1>p DEF Loc!StartPull, Loc!procVars, Loc!heldVars
<1>13. CASE Loc!Pulled
  <2>1. PICK end \in {"done", "error"} :
          /\ job' = [job EXCEPT !.pull = end]
          /\ pulled' = IF end = "done" THEN pulled \cup {job.pulling} ELSE pulled
    BY <1>13 DEF Loc!Pulled, Loc!PullEnds
  <2>2. job' \in Jobs /\ job'.pull = end /\ job'.pulling = job.pulling
    BY <1>t, <2>1 DEF Jobs, Loc!JobPhase
  <2>3. ui' = ui /\ job.pulling = ui.model /\ ui.pulling /\ ui.model \in Models
    BY <1>13, <1>q, <1>t DEF Loc!Pulled, Card
  <2>4. UNCHANGED <<binary, ollama, child, cmd, unanswered, displaced, unheld, start, query, app>>
    BY <1>13 DEF Loc!Pulled, Loc!procVars, Loc!heldVars
  <2>. QED BY <1>t, <2>1, <2>2, <2>3, <2>4, <1>p
<1>14. CASE Loc!PullEvent
  <2>1. PICK there \in BOOLEAN : ui' = [ui EXCEPT !.pulling = FALSE, !.has = there]
    <3>1. (ui.has \/ job.pull = "done") \in BOOLEAN
      OBVIOUS
    <3>. QED BY <1>14, <3>1 DEF Loc!PullEvent, Loc!Pulling
  <2>2. ui' \in Card
    BY <1>t, <2>1 DEF Card
  <2>3. job' \in Jobs /\ job'.pull = "idle"
    BY <1>14, <1>t DEF Loc!PullEvent, Jobs, Loc!JobPhase
  <2>. QED BY <1>14, <1>t, <2>2, <2>3, <1>p DEF Loc!PullEvent, Loc!procVars, Loc!heldVars
<1>15. ASSUME NEW m \in Models, Loc!SetModel(m) PROVE LocalInv'
  <2>1. ui' \in Card /\ ~ui.pulling
    BY <1>15, <1>t DEF Loc!SetModel, Loc!Selectable, Card
  <2>. QED BY <1>15, <1>t, <1>q, <2>1, <1>p DEF Loc!SetModel, Loc!procVars, Loc!heldVars
<1>16. CASE UNCHANGED locVars
  BY <1>16 DEF locVars, LocalInv, Loc!TypeOK, ProcessInv, PullInv
<1>17. Loc!Next \/ UNCHANGED locVars
  BY DEF Next, SelOnly, PkgOnly, UpdOnly, LocOnly, BootOnly, AuthOnly, DepOnly, vars
<1>. QED BY ShutdownKeeps, ExitKeeps, <1>s, <1>1, <1>2, <1>3, <1>4, <1>5, <1>6, <1>7, <1>8, <1>9,
  <1>10, <1>11, <1>12, <1>13, <1>14, <1>15, <1>16, <1>17
  DEF Loc!Next, Loc!StartStep, Loc!QueryStep

LEMMA LocalHolds == Spec => []LocalInv
<1>1. Init => LocalInv
  <2>. SUFFICES ASSUME Loc!Init PROVE LocalInv
    BY DEF Init
  <2>1. PICK m \in Models : ui = Loc!Blank(m)
    BY DEF Loc!Init
  <2>2. Loc!TypeOK
    BY <2>1, IdleTypes DEF Loc!Init, Loc!TypeOK, Card, Jobs, Asked
  <2>3. ProcessInv
    BY DEF Loc!Init, ProcessInv
  <2>4. PullInv
    BY IdleTypes DEF Loc!Init, PullInv, Loc!NoJobs
  <2>. QED BY <2>2, <2>3, <2>4 DEF LocalInv
<1>. QED BY <1>1, LocalKept, PTL DEF Spec

-----------------------------------------------------------------------------
(* The configuration for git (gitcredential.go): types.                     *)

Step == {"idle", "discover", "auth", "writeAuth", "read"} \cup {"truncate", "write"}
Call == [at: Step, token: 0..MaxToken, todo: SUBSET Repos, text: Auth!Text]

LEMMA FollowingType ==
  ASSUME NEW s \in Auth!Syncs, sync[s] \in Call, NEW todo \in SUBSET Repos
  PROVE  Auth!Following(s, todo) \in Call /\ Auth!Idle \in Call /\ Auth!Empty \in Auth!Text
<1>1. Auth!Empty \in Auth!Text
  BY DEF Auth!Empty, Auth!Text
<1>2. Auth!Idle \in Call
  BY <1>1, WindowBounds DEF Auth!Idle, Call, Step
<1>. QED BY <1>1, <1>2 DEF Auth!Following, Call, Step

LEMMA CallChanged ==
  ASSUME sync \in [Auth!Syncs -> Call], NEW s \in Auth!Syncs, NEW at \in Step,
         NEW tk \in 0..MaxToken, sync' = [sync EXCEPT ![s].at = at, ![s].token = tk]
  PROVE  sync' \in [Auth!Syncs -> Call]
<1>. DEFINE first == [sync EXCEPT ![s].at = at]
<1>1. first \in [Auth!Syncs -> Call]
  BY DEF Call
<1>2. sync' = [first EXCEPT ![s].token = tk]
  OBVIOUS
<1>. HIDE DEF first
<1>. QED BY <1>1, <1>2 DEF Call

LEMMA AuthTypesKept == Auth!TypeOK /\ [Next]_vars => Auth!TypeOK'
<1>. SUFFICES ASSUME Auth!TypeOK, [Next]_vars PROVE Auth!TypeOK'
  OBVIOUS
<1>t. /\ token \in 1..MaxToken /\ edits \in 0..MaxEdits /\ timer \subseteq Repos
      /\ auth \in [token: 0..MaxToken, hosts: SUBSET Repos]
      /\ config \in [Repos -> Auth!Text] /\ sync \in [Auth!Syncs -> Call]
  BY DEF Auth!TypeOK, Call, Step
<1>q. ASSUME token' \in 1..MaxToken, edits' \in 0..MaxEdits, timer' \subseteq Repos,
             auth' \in [token: 0..MaxToken, hosts: SUBSET Repos],
             config' \in [Repos -> Auth!Text], sync' \in [Auth!Syncs -> Call]
      PROVE  Auth!TypeOK'
  BY <1>q DEF Auth!TypeOK, Call, Step
<1>b. MaxToken \in Nat /\ MaxEdits \in Nat /\ Ticker \in Auth!Syncs /\ Others \subseteq Auth!Syncs
  BY WindowBounds DEF Auth!Syncs
<1>1. ASSUME NEW s \in Auth!Syncs, Auth!Begin(s), UNCHANGED <<token, auth, config, edits>>,
             timer' \subseteq timer
      PROVE  Auth!TypeOK'
  <2>1. sync' \in [Auth!Syncs -> Call]
    <3>1. sync' = [sync EXCEPT ![s].at = "discover", ![s].token = token]
      BY <1>1 DEF Auth!Begin, Auth!AccessToken
    <3>2. token \in 0..MaxToken /\ "discover" \in Step
      BY <1>t, <1>b DEF Step
    <3>. QED BY <1>t, <3>1, <3>2, CallChanged
  <2>. QED BY <1>1, <1>t, <1>q, <2>1
<1>2. ASSUME NEW s \in Auth!Syncs, Auth!Discover(s) PROVE Auth!TypeOK'
  <2>1. PICK found \in SUBSET Repos :
          sync' = [sync EXCEPT ![s] = IF found = {} THEN Auth!Idle
                                      ELSE [@ EXCEPT !.at = "auth", !.todo = found]]
    BY <1>2 DEF Auth!Discover
  <2>2. [sync[s] EXCEPT !.at = "auth", !.todo = found] \in Call
    BY <1>t DEF Call, Step
  <2>3. sync' \in [Auth!Syncs -> Call]
    BY <1>t, <2>1, <2>2, FollowingType
  <2>. QED BY <1>2, <1>t, <1>q, <2>3 DEF Auth!Discover
<1>3. ASSUME NEW s \in Auth!Syncs, Auth!TruncateAuth(s) PROVE Auth!TypeOK'
  <2>1. sync' \in [Auth!Syncs -> Call]
    BY <1>3, <1>t DEF Auth!TruncateAuth, Call, Step
  <2>2. auth' \in [token: 0..MaxToken, hosts: SUBSET Repos]
    BY <1>3, <1>b DEF Auth!TruncateAuth, Auth!NoAuth
  <2>. QED BY <1>3, <1>t, <1>q, <2>1, <2>2 DEF Auth!TruncateAuth
<1>4. ASSUME NEW s \in Auth!Syncs, Auth!WriteAuth(s) PROVE Auth!TypeOK'
  <2>1. sync' \in [Auth!Syncs -> Call]
    <3>1. sync' = [sync EXCEPT ![s].at = "read", ![s].token = 0]
      BY <1>4 DEF Auth!WriteAuth
    <3>2. 0 \in 0..MaxToken /\ "read" \in Step
      BY <1>b DEF Step
    <3>. QED BY <1>t, <3>1, <3>2, CallChanged
  <2>2. auth' \in [token: 0..MaxToken, hosts: SUBSET Repos]
    BY <1>4, <1>t DEF Auth!WriteAuth, Call
  <2>. QED BY <1>4, <1>t, <1>q, <2>1, <2>2 DEF Auth!WriteAuth
<1>5. ASSUME NEW s \in Auth!Syncs, NEW r \in Repos, Auth!ReadConfig(s, r) PROVE Auth!TypeOK'
  <2>1. Auth!Migrated(config[r]) \in Auth!Text /\ sync[s] \in Call
    BY <1>t DEF Auth!Migrated, Auth!Text
  <2>2. [sync[s] EXCEPT !.at = "truncate", !.text = Auth!Migrated(config[r])] \in Call
    BY <2>1 DEF Call, Step
  <2>3. Auth!Following(s, sync[s].todo \ {r}) \in Call
    BY <2>1, FollowingType DEF Call
  <2>4. sync' \in [Auth!Syncs -> Call]
    BY <1>5, <1>t, <2>2, <2>3 DEF Auth!ReadConfig
  <2>. QED BY <1>5, <1>t, <1>q, <2>4 DEF Auth!ReadConfig
<1>6. ASSUME NEW s \in Auth!Syncs, NEW r \in Repos, Auth!TruncateConfig(s, r)
      PROVE  Auth!TypeOK'
  <2>1. sync' \in [Auth!Syncs -> Call]
    BY <1>6, <1>t DEF Auth!TruncateConfig, Call, Step
  <2>2. Auth!Empty \in Auth!Text
    BY DEF Auth!Empty, Auth!Text
  <2>. QED BY <1>6, <1>t, <1>q, <2>1, <2>2 DEF Auth!TruncateConfig, Auth!Written
<1>7. ASSUME NEW s \in Auth!Syncs, NEW r \in Repos, Auth!WriteConfig(s, r) PROVE Auth!TypeOK'
  <2>1. Auth!Following(s, sync[s].todo \ {r}) \in Call /\ sync[s].text \in Auth!Text
    BY <1>t, FollowingType DEF Call
  <2>. QED BY <1>7, <1>t, <1>q, <2>1 DEF Auth!WriteConfig, Auth!Written
<1>8. CASE Auth!Rotate
  BY <1>8, <1>t, <1>b, <1>q DEF Auth!Rotate
<1>9. ASSUME NEW r \in Repos, Auth!Extension(r) PROVE Auth!TypeOK'
  <2>1. [config[r] EXCEPT !.stale = TRUE] \in Auth!Text
    BY <1>t DEF Auth!Text
  <2>2. edits' \in 0..MaxEdits
    BY <1>9, <1>t, <1>b DEF Auth!Extension
  <2>. QED BY <1>9, <1>t, <1>q, <2>1, <2>2 DEF Auth!Extension, Auth!Written
<1>10. CASE UNCHANGED authVars
  BY <1>10, <1>t, <1>q DEF authVars
<1>11. Auth!Next \/ UNCHANGED authVars
  BY DEF Next, SelOnly, PkgOnly, UpdOnly, LocOnly, BootOnly, AuthOnly, DepOnly, vars
<1>12. CASE Auth!Tick \/ Auth!AnyTimer \/ \E s \in Others : Auth!Call(s)
  BY <1>12, <1>1, <1>b DEF Auth!Tick, Auth!AnyTimer, Auth!TimerFires, Auth!Call
<1>. QED BY <1>2, <1>3, <1>4, <1>5, <1>6, <1>7, <1>8, <1>9, <1>10, <1>11, <1>12
  DEF Auth!Next, Auth!SyncStep

LEMMA AuthTypesHold == Spec => []Auth!TypeOK
<1>1. Init => Auth!TypeOK
  <2>. SUFFICES ASSUME Auth!Init PROVE Auth!TypeOK
    BY DEF Init
  <2>1. Auth!Idle \in Call
    BY WindowBounds DEF Auth!Idle, Auth!Empty, Auth!Text, Call, Step
  <2>2. config \in [Repos -> Auth!Text]
    <3>1. PICK stale \in BOOLEAN :
            config = [r \in Repos |-> [rest |-> TRUE, own |-> FALSE, stale |-> stale]]
      BY DEF Auth!Init
    <3>. QED BY <3>1 DEF Auth!Text
  <2>3. auth \in [token: 0..MaxToken, hosts: SUBSET Repos]
    BY WindowBounds DEF Auth!Init, Auth!NoAuth
  <2>4. sync \in [Auth!Syncs -> Call]
    BY <2>1 DEF Auth!Init
  <2>5. token \in 1..MaxToken /\ edits \in 0..MaxEdits /\ timer \subseteq Repos
    BY WindowBounds DEF Auth!Init
  <2>. QED BY <2>2, <2>3, <2>4, <2>5 DEF Auth!TypeOK, Call, Step
<1>. QED BY <1>1, AuthTypesKept, PTL DEF Spec

-----------------------------------------------------------------------------
(* The deploys (DeployPane.tsx), proved of the window itself.               *)

Panes == [step: {"none", "loading", "confirm", "running", "result"}, ready: BOOLEAN,
          runs: Dep!Shown, task: Deploys \cup {0}, tab: Deploys \cup {0},
          restored: [of: Deploys \cup {0}, step: {"none", "running", "result"},
                     saved: Dep!Saved],
          loads: 0..MaxLoads]
Notes == [Deploys -> [status: {"none", "running", "done", "error", "gone"},
                      saved: Dep!Saved]]
DeployTypes ==
  /\ mounted \in BOOLEAN /\ leaves \in 0..MaxLeaves
  /\ pane \in Panes /\ notice \in Notes
  /\ told \in [Deploys -> 0..2] /\ again \subseteq Deploys
  /\ launch \in [Deploys -> {"none", "open", "orphaned"}]
  /\ poll \in [Deploys -> 0..MaxPolls]
  /\ operation \in [Deploys -> {"none", "running", "ok", "error"}]

LEMMA PaneTypes ==
  /\ Dep!NoRuns \in Dep!Shown /\ Dep!NoPane \in Panes
  /\ \A p \in Panes : /\ p.runs \in Dep!Shown
                      /\ p.task \in Deploys \cup {0} /\ p.loads \in 0..MaxLoads
                      /\ \A rs \in Dep!Shown : [p EXCEPT !.runs = rs] \in Panes
                      /\ [p EXCEPT !.task = 0] \in Panes
                      /\ [p EXCEPT !.step = "result"] \in Panes
<1>1. Dep!NoRuns \in Dep!Shown
  BY DEF Dep!NoRuns, Dep!Shown, Dep!Ends
<1>2. 0 \in 0..MaxLoads
  BY WindowBounds
<1>. HIDE DEF Dep!NoRuns, Dep!Shown
<1>3. Dep!NoPane \in Panes
  BY <1>1, <1>2 DEF Dep!NoPane, Panes, Dep!NotRestored, Dep!Saved
<1>. QED BY <1>1, <1>3 DEF Panes

\* A deploy is completed and shown with the types kept.
LEMMA AnnounceTypes ==
  ASSUME DeployTypes, NEW t, NEW rs, NEW n \in Notes, Dep!Announce(t, rs, n)
  PROVE  /\ told' \in [Deploys -> 0..2] /\ notice' \in Notes
         /\ \A d \in Deploys : /\ d # t => told'[d] = told[d] /\ notice'[d] = n[d]
                               /\ d = t /\ told[d] = 0 => told'[d] = 1
                               /\ d = t => notice'[d].status \in {"done", "error", "gone"}
<1>1. /\ told' = [d \in Deploys |-> IF d = t /\ told[d] < 2 THEN told[d] + 1 ELSE told[d]]
      /\ notice' = [d \in Deploys |->
           IF d = t /\ n[d].status # "gone"
           THEN [n[d] EXCEPT !.status = IF rs.end = "ok" THEN "done" ELSE "error"]
           ELSE n[d]]
  BY DEF Dep!Announce
<1>2. told' \in [Deploys -> 0..2]
  BY <1>1 DEF DeployTypes
<1>3. notice' \in Notes
  BY <1>1 DEF Notes
<1>. QED BY <1>1, <1>2, <1>3 DEF DeployTypes, Notes

LEMMA ShowTypes ==
  ASSUME DeployTypes, NEW rs \in Dep!Shown, NEW n \in Notes, Dep!Show(rs, n)
  PROVE  /\ pane' \in Panes /\ notice' \in Notes /\ told' \in [Deploys -> 0..2]
         /\ pane'.runs = rs
         /\ \/ pane.step = "running" /\ pane'.step = "result" /\ pane'.task = 0
               /\ Dep!Finished(rs) /\ Dep!Announce(pane.task, rs, n)
            \/ pane'.step = pane.step /\ pane'.task = pane.task
               /\ notice' = n /\ told' = told
<1>p. pane \in Panes
  BY DEF DeployTypes
<1>1. CASE mounted /\ pane.step = "running" /\ Dep!Finished(rs)
  <2>1. /\ pane' = [pane EXCEPT !.step = "result", !.runs = rs, !.task = 0]
        /\ Dep!Announce(pane.task, rs, n)
    BY <1>1 DEF Dep!Show
  <2>2. pane' \in Panes /\ pane'.runs = rs /\ pane'.step = "result" /\ pane'.task = 0
    BY <1>p, <2>1 DEF Panes
  <2>. QED BY <1>1, <2>1, <2>2, AnnounceTypes
<1>2. CASE ~(mounted /\ pane.step = "running" /\ Dep!Finished(rs))
  <2>1. pane' = [pane EXCEPT !.runs = rs] /\ notice' = n /\ told' = told
    BY <1>2 DEF Dep!Show
  <2>2. pane' \in Panes /\ pane'.runs = rs /\ pane'.step = pane.step /\ pane'.task = pane.task
    BY <1>p, <2>1 DEF Panes
  <2>. QED BY <2>1, <2>2 DEF DeployTypes
<1>. QED BY <1>1, <1>2

\* The answer to a start shows these runs, and leaves these notifications.
Answered(d, named) == [of |-> d, named |-> named, end |-> IF named THEN "none" ELSE "lost"]
Noted(d, named) ==
  IF notice[d].status = "gone" THEN notice
  ELSE [notice EXCEPT ![d].saved = IF named THEN "named" ELSE "blank"]

LEMMA AnswerEffect ==
  ASSUME DeployTypes, NEW d \in Deploys, NEW named \in BOOLEAN, Dep!RunDeployAnswer(d, named)
  PROVE  /\ Answered(d, named) \in Dep!Shown /\ Noted(d, named) \in Notes
         /\ \A e \in Deploys : Noted(d, named)[e].status = notice[e].status
         /\ launch[d] # "none" /\ launch' = [launch EXCEPT ![d] = "none"]
         /\ operation' = IF named THEN [operation EXCEPT ![d] = "running"] ELSE operation
         /\ UNCHANGED <<mounted, leaves, again, poll>>
         /\ \/ Dep!Show(Answered(d, named), Noted(d, named))
            \/ notice' = Noted(d, named) /\ UNCHANGED <<pane, told>>
<1>1. Answered(d, named) \in Dep!Shown
  BY DEF Answered, Dep!Shown, Dep!Ends
<1>2. Noted(d, named) \in Notes
  BY DEF Noted, Notes, DeployTypes, Dep!Saved
<1>3. \A e \in Deploys : Noted(d, named)[e].status = notice[e].status
  BY DEF Noted, Notes, DeployTypes
<1>. QED BY <1>1, <1>2, <1>3 DEF Dep!RunDeployAnswer, Answered, Noted

\* The answer to a poll shows the end of its operation, or that the call failed.
LEMMA PollEffect ==
  ASSUME DeployTypes, NEW d \in Deploys, Dep!PollAnswer(d)
  PROVE  /\ poll' \in [Deploys -> 0..MaxPolls]
         /\ UNCHANGED <<mounted, leaves, again, launch, operation>>
         /\ \/ UNCHANGED <<pane, notice, told>>
            \/ \E rs \in Dep!Shown : /\ Dep!Show(rs, notice)
                                     /\ rs.of = d /\ rs.end \in {operation[d], "lost"}
<1>1. PICK answer \in {operation[d], "lost"} :
        IF Dep!Matches(d) /\ answer # "running"
        THEN Dep!Show([pane.runs EXCEPT !.end = answer], notice)
        ELSE UNCHANGED <<pane, notice, told>>
  BY DEF Dep!PollAnswer
<1>2. /\ poll[d] > 0 /\ poll' = [poll EXCEPT ![d] = @ - 1]
      /\ UNCHANGED <<mounted, leaves, again, launch, operation>>
  BY DEF Dep!PollAnswer
<1>3. poll' \in [Deploys -> 0..MaxPolls]
  BY <1>2, WindowBounds DEF DeployTypes
<1>4. CASE Dep!Matches(d) /\ answer # "running"
  <2>1. pane.runs \in Dep!Shown /\ pane.runs.of = d
    BY <1>4, PaneTypes DEF DeployTypes, Dep!Matches
  <2>2. answer # "none" => [pane.runs EXCEPT !.end = answer] \in Dep!Shown
    BY <1>4, <2>1 DEF DeployTypes, Dep!Shown, Dep!Ends
  <2>3. answer = "none" => [pane.runs EXCEPT !.end = answer] \in Dep!Shown
    BY <2>1 DEF Dep!Shown, Dep!Ends
  <2>4. /\ [pane.runs EXCEPT !.end = answer].of = d
        /\ [pane.runs EXCEPT !.end = answer].end = answer
    BY <2>1 DEF Dep!Shown
  <2>. QED BY <1>1, <1>2, <1>3, <1>4, <2>2, <2>3, <2>4
<1>. QED BY <1>1, <1>2, <1>3, <1>4

\* The step of a tab that is mounted again, from what its notification was.
LEMMA RemountTypes ==
  ASSUME DeployTypes, Dep!MountRestored
  PROVE  /\ pane' \in Panes /\ notice' \in Notes /\ told' \in [Deploys -> 0..2]
         /\ pane.restored.of \in Deploys /\ again' = again \cup {pane.restored.of}
         /\ pane'.runs = pane.runs \/ pane'.runs.end = "none"
         /\ UNCHANGED <<leaves, launch, poll, operation>> /\ mounted' = TRUE
         /\ \/ pane'.task = 0 /\ Dep!Announce(pane.restored.of, pane.runs, notice)
            \/ pane'.task = pane.restored.of /\ UNCHANGED <<told, notice>>
<1>. DEFINE r == pane.restored
            ends == /\ Dep!Finished(pane.runs)
                    /\ pane.step = "running" \/ (r.step = "running" /\ ~Dep!Followed(r))
            rs == IF Dep!Followed(r) THEN Dep!SavedRuns(r) ELSE pane.runs
<1>1. /\ r.of # 0 /\ again' = again \cup {r.of} /\ mounted' = TRUE
      /\ pane' = [pane EXCEPT !.step = IF ends THEN "result" ELSE r.step,
                              !.runs = rs, !.task = IF ends THEN 0 ELSE r.of]
      /\ IF ends THEN Dep!Announce(r.of, pane.runs, notice) ELSE UNCHANGED <<told, notice>>
      /\ UNCHANGED <<leaves, launch, poll, operation>>
  BY DEF Dep!MountRestored
<1>2. r.of \in Deploys /\ r.step \in {"none", "running", "result"} /\ pane.runs \in Dep!Shown
  BY <1>1, PaneTypes DEF DeployTypes, Panes
<1>3. rs \in Dep!Shown /\ (rs = pane.runs \/ rs.end = "none")
  BY <1>2 DEF Dep!SavedRuns, Dep!Shown, Dep!Ends
<1>4. ends \in BOOLEAN
  BY DEF Dep!Finished
<1>. HIDE DEF ends, rs
<1>5. /\ pane' \in Panes /\ pane'.runs = rs /\ pane'.task = IF ends THEN 0 ELSE r.of
  <2>. HIDE DEF r
  <2>. QED BY <1>1, <1>2, <1>3, <1>4 DEF DeployTypes, Panes
<1>6. notice' \in Notes /\ told' \in [Deploys -> 0..2]
  <2>1. CASE ends
    BY <1>1, <1>2, <2>1, AnnounceTypes DEF DeployTypes
  <2>2. CASE ~ends
    BY <1>1, <2>2 DEF DeployTypes
  <2>. QED BY <2>1, <2>2
<1>. QED BY <1>1, <1>2, <1>3, <1>5, <1>6

LEMMA DeployTypesKept == DeployTypes /\ [Next]_vars => DeployTypes'
<1>. SUFFICES ASSUME DeployTypes, [Next]_vars PROVE DeployTypes'
  OBVIOUS
<1>b. MaxPolls \in Nat /\ MaxLoads \in Nat /\ 1 \in 0..MaxLoads /\ MaxLeaves \in Nat
  BY WindowBounds
<1>p. pane \in Panes /\ pane.loads \in 0..MaxLoads
  BY PaneTypes DEF DeployTypes
<1>1. ASSUME NEW p \in Panes, Dep!Replaced(p), notice' \in Notes, UNCHANGED <<told, operation>>
      PROVE  DeployTypes'
  BY <1>1, <1>b DEF Dep!Replaced, DeployTypes
<1>2. ASSUME pane' \in Panes, UNCHANGED <<mounted, leaves, notice, told, again, launch, poll, operation>>
      PROVE  DeployTypes'
  BY <1>2 DEF DeployTypes
<1>3. CASE Dep!Open
  <2>1. [Dep!NoPane EXCEPT !.step = "loading", !.loads = 1] \in Panes
    BY <1>b, PaneTypes DEF Panes
  <2>. QED BY <1>1, <1>3, <2>1 DEF Dep!Open, DeployTypes
<1>4. CASE Dep!Close
  <2>1. notice' \in Notes
    BY <1>4 DEF Dep!Close, Dep!Gone, Notes, DeployTypes, Dep!Saved
  <2>. QED BY <1>1, <1>4, <2>1, PaneTypes DEF Dep!Close
<1>5. ASSUME NEW d \in Deploys, Dep!Dismiss(d) PROVE DeployTypes'
  <2>1. notice' \in Notes
    BY <1>5 DEF Dep!Dismiss, Dep!Gone, Notes, DeployTypes, Dep!Saved
  <2>. QED BY <1>5, <2>1 DEF Dep!Dismiss, DeployTypes
<1>6. ASSUME NEW d \in Deploys, Dep!Restore(d) PROVE DeployTypes'
  <2>. DEFINE r == [of |-> d, step |-> Dep!SavedStep(d), saved |-> notice[d].saved]
              rs == IF Dep!Followed(r) THEN Dep!SavedRuns(r) ELSE Dep!NoRuns
  <2>1. r \in [of: Deploys \cup {0}, step: {"none", "running", "result"}, saved: Dep!Saved]
        /\ r.step \in {"running", "result"}
    BY DEF Dep!SavedStep, DeployTypes, Notes
  <2>2. rs \in Dep!Shown
    BY <2>1, PaneTypes DEF Dep!SavedRuns, Dep!Shown, Dep!Ends
  <2>3. /\ Dep!Replaced([Dep!NoPane EXCEPT !.step = r.step, !.task = d, !.restored = r,
                          !.runs = rs])
        /\ UNCHANGED <<notice, told, operation>>
    BY <1>6 DEF Dep!Restore
  <2>. HIDE DEF r, rs
  <2>4. [Dep!NoPane EXCEPT !.step = r.step, !.task = d, !.restored = r, !.runs = rs] \in Panes
    BY <2>1, <2>2, PaneTypes DEF Panes
  <2>. QED BY <1>1, <2>3, <2>4 DEF DeployTypes
<1>7. CASE Dep!Loaded
  <2>1. pane.loads - 1 \in 0..MaxLoads
    BY <1>7, <1>p, <1>b DEF Dep!Loaded
  <2>2. pane' = [pane EXCEPT !.step = "confirm", !.ready = TRUE, !.loads = pane.loads - 1]
    BY <1>7, <1>p DEF Dep!Loaded, Panes
  <2>3. pane' \in Panes
    BY <1>p, <2>1, <2>2 DEF Panes
  <2>. QED BY <1>2, <1>7, <2>3 DEF Dep!Loaded
<1>8. ASSUME pane.loads < MaxLoads PROVE Dep!Loading(pane) \in Panes
  <2>1. pane.loads + 1 \in 0..MaxLoads
    BY <1>8, <1>p, <1>b
  <2>2. Dep!Loading(pane) = [pane EXCEPT !.step = "loading", !.ready = FALSE,
                               !.runs = Dep!NoRuns, !.loads = pane.loads + 1]
    BY <1>p DEF Dep!Loading, Panes
  <2>3. Dep!NoRuns \in Dep!Shown
    BY PaneTypes
  <2>. HIDE DEF Dep!NoRuns, Dep!Shown
  <2>. QED BY <1>p, <2>1, <2>2, <2>3 DEF Panes
<1>9. CASE Dep!RunAgain
  BY <1>2, <1>8, <1>9 DEF Dep!RunAgain
<1>10. CASE Dep!Unmount
  <2>1. mounted' = FALSE /\ leaves < MaxLeaves /\ leaves' = leaves + 1
        /\ UNCHANGED <<pane, notice, told, again, launch, poll, operation>>
    BY <1>10 DEF Dep!Unmount
  <2>2. leaves' \in 0..MaxLeaves
    BY <1>b, <2>1 DEF DeployTypes
  <2>. HIDE DEF Panes, Notes
  <2>. QED BY <2>1, <2>2 DEF DeployTypes
<1>11. CASE Dep!MountNew
  <2>. DEFINE p == IF pane.step = "loading" THEN Dep!Loading(pane)
                   ELSE IF pane.step = "running" /\ Dep!Finished(pane.runs)
                   THEN [pane EXCEPT !.step = "result"] ELSE pane
  <2>1. p \in Panes
    BY <1>8, <1>11, <1>p, PaneTypes DEF Dep!MountNew
  <2>2. pane' = [p EXCEPT !.task = 0]
    BY <1>11 DEF Dep!MountNew
  <2>. HIDE DEF p
  <2>3. pane' \in Panes
    BY <2>1, <2>2, PaneTypes
  <2>. QED BY <1>11, <2>3 DEF Dep!MountNew, DeployTypes
<1>12. CASE Dep!MountRestored
  <2>1. /\ pane' \in Panes /\ notice' \in Notes /\ told' \in [Deploys -> 0..2]
        /\ again' = again \cup {pane.restored.of} /\ pane.restored.of \in Deploys
        /\ UNCHANGED <<leaves, launch, poll, operation>> /\ mounted' = TRUE
    BY <1>12, RemountTypes
  <2>. QED BY <2>1 DEF DeployTypes
<1>13. ASSUME NEW d \in Deploys, Dep!RunDeployNow(d) PROVE DeployTypes'
  <2>1. [of |-> d, named |-> FALSE, end |-> "none"] \in Dep!Shown
    BY DEF Dep!Shown, Dep!Ends
  <2>2. pane' \in Panes
    <3>1. pane' = [pane EXCEPT !.step = "running", !.task = d, !.tab = d,
                               !.runs = [of |-> d, named |-> FALSE, end |-> "none"]]
      BY <1>13 DEF Dep!RunDeployNow
    <3>. QED BY <1>p, <2>1, <3>1 DEF Panes
  <2>3. notice' \in Notes
    BY <1>13 DEF Dep!RunDeployNow, Notes, DeployTypes
  <2>. QED BY <1>13, <2>2, <2>3 DEF Dep!RunDeployNow, DeployTypes
<1>14. ASSUME NEW d \in Deploys, NEW named \in BOOLEAN, Dep!RunDeployAnswer(d, named)
       PROVE  DeployTypes'
  <2>1. launch' \in [Deploys -> {"none", "open", "orphaned"}]
        /\ operation' \in [Deploys -> {"none", "running", "ok", "error"}]
        /\ UNCHANGED <<mounted, leaves, again, poll>>
    BY <1>14, AnswerEffect DEF DeployTypes
  <2>2. pane' \in Panes /\ notice' \in Notes /\ told' \in [Deploys -> 0..2]
    <3>1. CASE Dep!Show(Answered(d, named), Noted(d, named))
      BY <1>14, <3>1, AnswerEffect, ShowTypes
    <3>2. CASE notice' = Noted(d, named) /\ UNCHANGED <<pane, told>>
      BY <1>14, <3>2, AnswerEffect DEF DeployTypes
    <3>. QED BY <1>14, <3>1, <3>2, AnswerEffect
  <2>. QED BY <2>1, <2>2 DEF DeployTypes
<1>15. ASSUME NEW d \in Deploys, Dep!OperationEnds(d) PROVE DeployTypes'
  BY <1>15 DEF Dep!OperationEnds, DeployTypes
<1>16. ASSUME NEW d \in Deploys, Dep!Tick(d) PROVE DeployTypes'
  BY <1>16, <1>b DEF Dep!Tick, DeployTypes
<1>17. ASSUME NEW d \in Deploys, Dep!PollAnswer(d) PROVE DeployTypes'
  <2>1. /\ poll' \in [Deploys -> 0..MaxPolls]
        /\ UNCHANGED <<mounted, leaves, again, launch, operation>>
    BY <1>17, PollEffect
  <2>2. pane' \in Panes /\ notice' \in Notes /\ told' \in [Deploys -> 0..2]
    <3>1. CASE UNCHANGED <<pane, notice, told>>
      BY <3>1 DEF DeployTypes
    <3>2. ASSUME NEW rs \in Dep!Shown, Dep!Show(rs, notice)
          PROVE  pane' \in Panes /\ notice' \in Notes /\ told' \in [Deploys -> 0..2]
      BY <3>2, ShowTypes DEF DeployTypes
    <3>. QED BY <1>17, <3>1, <3>2, PollEffect
  <2>. QED BY <2>1, <2>2 DEF DeployTypes
<1>18. CASE UNCHANGED depVars
  BY <1>18 DEF depVars, DeployTypes
<1>19. Dep!Next \/ UNCHANGED depVars
  BY DEF Next, SelOnly, PkgOnly, UpdOnly, LocOnly, BootOnly, AuthOnly, DepOnly, vars
<1>. QED BY <1>3, <1>4, <1>5, <1>6, <1>7, <1>9, <1>10, <1>11, <1>12, <1>13, <1>14, <1>15,
  <1>16, <1>17, <1>18, <1>19 DEF Dep!Next, Dep!Backend, Dep!AnyTick, Dep!AnyAnswer

\* A notification that can still be restored as running, and one that a running
\* tab will complete, has not been completed, or a tab restored from it was mounted
\* again.
Untold(d) == d \in again \/ told[d] = 0
UntoldNotices == \A d \in Deploys : notice[d].status \in {"none", "running"} => Untold(d)
UntoldTask == pane.step = "running" /\ pane.task # 0 => Untold(pane.task)
ToldInv == UntoldNotices /\ UntoldTask /\ Dep!ToldOnce

\* A step that completes nothing keeps it.
LEMMA QuietStep ==
  ASSUME DeployTypes, DeployTypes', ToldInv, told' = told, again \subseteq again',
         \A d \in Deploys : notice'[d].status \in {"none", "running"} =>
                              notice[d].status \in {"none", "running"},
         pane'.step = "running" /\ pane'.task # 0 => pane'.task \in again' \/ Untold(pane'.task)
  PROVE  ToldInv'
<1>1. UntoldNotices' /\ UntoldTask'
  BY DEF ToldInv, UntoldNotices, UntoldTask, Untold
<1>. QED BY <1>1 DEF ToldInv, Dep!ToldOnce

\* Completing a notification keeps it, when it has not been completed.
LEMMA AnnounceStep ==
  ASSUME DeployTypes, ToldInv, NEW n \in Notes, NEW t \in Deploys \cup {0}, NEW rs,
         \A d \in Deploys : n[d].status = notice[d].status, Dep!Announce(t, rs, n),
         again \subseteq again', t # 0 => t \in again' \/ Untold(t), pane'.task = 0
  PROVE  ToldInv'
<1>0. 0 \notin Deploys
  BY WindowBounds
<1>1. \A d \in Deploys : /\ d # t => told'[d] = told[d] /\ notice'[d] = n[d]
                         /\ d = t /\ told[d] = 0 => told'[d] = 1
                         /\ d = t => notice'[d].status \in {"done", "error", "gone"}
  BY AnnounceTypes
<1>2. UntoldNotices'
  BY <1>1 DEF ToldInv, UntoldNotices, Untold
<1>3. Dep!ToldOnce'
  <2>. SUFFICES ASSUME NEW d \in Deploys PROVE told'[d] <= 1 \/ d \in again'
    BY DEF Dep!ToldOnce
  <2>1. CASE d # t
    BY <1>1, <2>1 DEF ToldInv, Dep!ToldOnce
  <2>2. CASE d = t
    BY <1>0, <1>1, <2>2 DEF Untold
  <2>. QED BY <2>1, <2>2
<1>. QED BY <1>2, <1>3 DEF ToldInv, UntoldTask

LEMMA ShowStep ==
  ASSUME DeployTypes, DeployTypes', ToldInv, NEW rs \in Dep!Shown, NEW n \in Notes,
         \A d \in Deploys : n[d].status = notice[d].status, Dep!Show(rs, n), again' = again
  PROVE  ToldInv'
<1>1. CASE /\ pane.step = "running" /\ pane'.task = 0
           /\ Dep!Announce(pane.task, rs, n)
  <2>1. pane.task \in Deploys \cup {0}
    BY PaneTypes DEF DeployTypes
  <2>2. pane.task # 0 => Untold(pane.task)
    BY <1>1 DEF ToldInv, UntoldTask
  <2>. QED BY <1>1, <2>1, <2>2, AnnounceStep
<1>2. CASE /\ pane'.step = pane.step /\ pane'.task = pane.task
           /\ notice' = n /\ told' = told
  <2>1. pane'.step = "running" /\ pane'.task # 0 => Untold(pane'.task)
    BY <1>2 DEF ToldInv, UntoldTask
  <2>. QED BY <1>2, <2>1, QuietStep
<1>. QED BY <1>1, <1>2, ShowTypes

LEMMA ToldInvKept == DeployTypes /\ ToldInv /\ [Next]_vars => ToldInv'
<1>. SUFFICES ASSUME DeployTypes, ToldInv, [Next]_vars PROVE ToldInv'
  OBVIOUS
<1>0. DeployTypes' /\ 0 \notin Deploys
  BY DeployTypesKept, WindowBounds
<1>1. CASE Dep!Open
  <2>1. pane'.step = "loading" /\ UNCHANGED <<notice, told, again>>
    BY <1>1 DEF Dep!Open, Dep!Replaced, Dep!NoPane
  <2>. QED BY <1>0, <2>1, QuietStep
<1>2. CASE Dep!Close
  <2>1. /\ pane'.step = "none" /\ UNCHANGED <<told, again>>
        /\ \A d \in Deploys : notice'[d] = notice[d] \/ notice'[d].status = "gone"
    BY <1>2 DEF Dep!Close, Dep!Replaced, Dep!NoPane, Dep!Gone
  <2>. QED BY <1>0, <2>1, QuietStep
<1>3. ASSUME NEW d \in Deploys, Dep!Dismiss(d) PROVE ToldInv'
  <2>1. /\ UNCHANGED <<pane, told, again>>
        /\ \A e \in Deploys : notice'[e] = notice[e] \/ notice'[e].status = "gone"
    BY <1>3 DEF Dep!Dismiss, Dep!Gone, DeployTypes, Notes
  <2>. QED BY <1>0, <2>1, QuietStep DEF ToldInv, UntoldTask
<1>4. ASSUME NEW d \in Deploys, Dep!Restore(d) PROVE ToldInv'
  <2>1. /\ pane'.step = Dep!SavedStep(d) /\ pane'.task = d
        /\ UNCHANGED <<notice, told, again>>
    BY <1>4 DEF Dep!Restore, Dep!Replaced, Dep!NoPane
  <2>2. pane'.step = "running" => Untold(d)
    BY <2>1 DEF Dep!SavedStep, ToldInv, UntoldNotices
  <2>. QED BY <1>0, <2>1, <2>2, QuietStep
<1>5. CASE Dep!Loaded \/ Dep!RunAgain
  <2>1. pane'.step \in {"confirm", "loading"} /\ UNCHANGED <<notice, told, again>>
    <3>1. pane \in Panes
      BY DEF DeployTypes
    <3>. QED BY <1>5, <3>1 DEF Dep!Loaded, Dep!RunAgain, Dep!Loading, Panes
  <2>. QED BY <1>0, <2>1, QuietStep
<1>6. CASE Dep!MountNew
  <2>1. pane'.task = 0 /\ UNCHANGED <<notice, told, again>>
    <3>. DEFINE p == IF pane.step = "loading" THEN Dep!Loading(pane)
                     ELSE IF pane.step = "running" /\ Dep!Finished(pane.runs)
                     THEN [pane EXCEPT !.step = "result"] ELSE pane
    <3>1. pane' = [p EXCEPT !.task = 0] /\ pane' \in Panes /\ UNCHANGED <<notice, told, again>>
      BY <1>0, <1>6 DEF Dep!MountNew, DeployTypes
    <3>. HIDE DEF p
    <3>. QED BY <3>1 DEF Panes
  <2>. QED BY <1>0, <2>1, QuietStep
<1>7. CASE Dep!MountRestored
  <2>1. /\ pane.restored.of \in Deploys /\ again' = again \cup {pane.restored.of}
        /\ \/ pane'.task = 0 /\ Dep!Announce(pane.restored.of, pane.runs, notice)
           \/ pane'.task = pane.restored.of /\ UNCHANGED <<told, notice>>
    BY <1>7, RemountTypes
  <2>2. CASE pane'.task = 0 /\ Dep!Announce(pane.restored.of, pane.runs, notice)
    BY <2>1, <2>2, AnnounceStep DEF DeployTypes
  <2>3. CASE pane'.task = pane.restored.of /\ UNCHANGED <<told, notice>>
    BY <1>0, <2>1, <2>3, QuietStep
  <2>. QED BY <2>1, <2>2, <2>3
<1>8. ASSUME NEW d \in Deploys, Dep!RunDeployNow(d) PROVE ToldInv'
  <2>1. pane'.task = d /\ UNCHANGED <<told, again>> /\ notice[d].status = "none"
    <3>1. /\ pane \in Panes /\ notice[d].status = "none"
          /\ pane' = [pane EXCEPT !.step = "running", !.task = d, !.tab = d,
                                  !.runs = [of |-> d, named |-> FALSE, end |-> "none"]]
      BY <1>8 DEF Dep!RunDeployNow, DeployTypes
    <3>. QED BY <1>8, <3>1 DEF Dep!RunDeployNow, Panes
  <2>2. \A e \in Deploys : notice'[e].status \in {"none", "running"} =>
                             notice[e].status \in {"none", "running"}
    BY <1>8, <2>1 DEF Dep!RunDeployNow, DeployTypes, Notes
  <2>3. Untold(d)
    BY <2>1 DEF ToldInv, UntoldNotices
  <2>. QED BY <1>0, <2>1, <2>2, <2>3, QuietStep
<1>9. ASSUME NEW d \in Deploys, NEW named \in BOOLEAN, Dep!RunDeployAnswer(d, named)
      PROVE  ToldInv'
  <2>1. CASE Dep!Show(Answered(d, named), Noted(d, named))
    BY <1>0, <1>9, <2>1, AnswerEffect, ShowStep
  <2>2. CASE notice' = Noted(d, named) /\ UNCHANGED <<pane, told>>
    BY <1>0, <1>9, <2>2, AnswerEffect, QuietStep DEF ToldInv, UntoldTask
  <2>. QED BY <1>9, <2>1, <2>2, AnswerEffect
<1>10. ASSUME NEW d \in Deploys, Dep!PollAnswer(d) PROVE ToldInv'
  <2>1. ASSUME NEW rs \in Dep!Shown, Dep!Show(rs, notice) PROVE ToldInv'
    BY <1>0, <1>10, <2>1, PollEffect, ShowStep DEF DeployTypes
  <2>2. CASE UNCHANGED <<pane, notice, told>>
    BY <1>0, <1>10, <2>2, PollEffect, QuietStep DEF ToldInv, UntoldTask
  <2>. QED BY <1>10, <2>1, <2>2, PollEffect
<1>11. CASE UNCHANGED <<pane, notice, told, again>>
  BY <1>0, <1>11, QuietStep DEF ToldInv, UntoldTask
<1>12. Dep!Next \/ UNCHANGED depVars
  BY DEF Next, SelOnly, PkgOnly, UpdOnly, LocOnly, BootOnly, AuthOnly, DepOnly, vars
<1>. QED BY <1>1, <1>2, <1>3, <1>4, <1>5, <1>6, <1>7, <1>8, <1>9, <1>10, <1>11, <1>12
  DEF depVars, Dep!Next, Dep!Backend, Dep!AnyTick, Dep!AnyAnswer, Dep!OperationEnds,
    Dep!Tick, Dep!Unmount

\* The runs that are shown ended as their operation did, or by a failed call; and
\* there is no operation before the answer to the one start of a deploy.
Right(rs) == rs.of # 0 /\ rs.end # "none" => rs.end \in {operation[rs.of], "lost"}
Unasked ==
  \A d \in Deploys : /\ notice[d].status = "none" => launch[d] = "none"
                     /\ notice[d].status = "none" \/ launch[d] # "none" => operation[d] = "none"
RunsInv == Right(pane.runs) /\ Unasked

\* The steps that neither start nor end anything.
LEMMA SameCalls ==
  ASSUME RunsInv, operation' = operation,
         \A d \in Deploys : /\ launch'[d] # "none" => launch[d] # "none"
                            /\ notice'[d].status = "none" => notice[d].status = "none"
                            /\ launch[d] = "none" => launch'[d] = "none",
         pane'.runs = pane.runs \/ pane'.runs.end = "none" \/ Right(pane'.runs)
  PROVE  RunsInv'
<1>1. Unasked'
  BY DEF RunsInv, Unasked
<1>2. Right(pane.runs)'
  BY DEF RunsInv, Right
<1>. QED BY <1>1, <1>2 DEF RunsInv

LEMMA RunsInvKept == DeployTypes /\ RunsInv /\ [Next]_vars => RunsInv'
<1>. SUFFICES ASSUME DeployTypes, RunsInv, [Next]_vars PROVE RunsInv'
  OBVIOUS
<1>0. DeployTypes' /\ 0 \notin Deploys /\ pane \in Panes
  BY DeployTypesKept, WindowBounds DEF DeployTypes
<1>1. ASSUME NEW p \in Panes, Dep!Replaced(p), p.runs.end = "none", operation' = operation,
             \A d \in Deploys : notice'[d].status = "none" => notice[d].status = "none"
      PROVE  RunsInv'
  BY <1>1, SameCalls DEF Dep!Replaced
<1>2. CASE Dep!Open
  <2>. DEFINE p == [Dep!NoPane EXCEPT !.step = "loading", !.loads = 1]
  <2>1. p \in Panes /\ p.runs.end = "none" /\ Dep!Replaced(p) /\ UNCHANGED <<notice, operation>>
    BY <1>2, <1>0 DEF Dep!Open, Dep!NoPane, Dep!NoRuns, Dep!Replaced, DeployTypes
  <2>. HIDE DEF p
  <2>. QED BY <1>1, <2>1
<1>3. CASE Dep!Close
  <2>1. Dep!NoPane.runs.end = "none" /\ Dep!Replaced(Dep!NoPane) /\ operation' = operation
    BY <1>3 DEF Dep!Close, Dep!NoPane, Dep!NoRuns
  <2>2. \A d \in Deploys : notice'[d].status = "none" => notice[d].status = "none"
    BY <1>3 DEF Dep!Close, Dep!Gone
  <2>. QED BY <1>1, <2>1, <2>2, PaneTypes
<1>4. ASSUME NEW d \in Deploys, Dep!Dismiss(d) PROVE RunsInv'
  <2>1. \A e \in Deploys : notice'[e].status = "none" => notice[e].status = "none"
    BY <1>4 DEF Dep!Dismiss, Dep!Gone, DeployTypes, Notes
  <2>. QED BY <1>4, <2>1, SameCalls DEF Dep!Dismiss
<1>5. ASSUME NEW d \in Deploys, Dep!Restore(d) PROVE RunsInv'
  <2>1. pane'.runs.end = "none" /\ UNCHANGED <<notice, operation>>
    BY <1>5 DEF Dep!Restore, Dep!Replaced, Dep!NoPane, Dep!NoRuns, Dep!SavedRuns
  <2>2. \A e \in Deploys : /\ launch'[e] # "none" => launch[e] # "none"
                           /\ launch[e] = "none" => launch'[e] = "none"
    BY <1>5 DEF Dep!Restore, Dep!Replaced
  <2>. QED BY <2>1, <2>2, SameCalls
<1>6. CASE Dep!Loaded \/ Dep!RunAgain
  <2>1. pane'.runs = pane.runs \/ pane'.runs.end = "none"
    <3>1. CASE Dep!Loaded
      BY <1>0, <3>1 DEF Dep!Loaded, Panes
    <3>2. CASE Dep!RunAgain
      BY <1>0, <3>2 DEF Dep!RunAgain, Dep!Loading, Dep!NoRuns, Panes
    <3>. QED BY <1>6, <3>1, <3>2
  <2>. QED BY <1>6, <2>1, SameCalls DEF Dep!Loaded, Dep!RunAgain
<1>7. CASE Dep!MountNew
  <2>. DEFINE p == IF pane.step = "loading" THEN Dep!Loading(pane)
                   ELSE IF pane.step = "running" /\ Dep!Finished(pane.runs)
                   THEN [pane EXCEPT !.step = "result"] ELSE pane
  <2>1. p.runs = pane.runs \/ p.runs.end = "none"
    BY <1>0 DEF Dep!Loading, Dep!NoRuns, Panes
  <2>2. pane' = [p EXCEPT !.task = 0]
    BY <1>7 DEF Dep!MountNew
  <2>. HIDE DEF p
  <2>3. pane'.runs = p.runs
    BY <2>2
  <2>. QED BY <1>7, <2>1, <2>3, SameCalls DEF Dep!MountNew
<1>8. CASE Dep!MountRestored
  <2>1. /\ pane'.runs = pane.runs \/ pane'.runs.end = "none"
        /\ UNCHANGED <<launch, operation>>
        /\ \/ Dep!Announce(pane.restored.of, pane.runs, notice)
           \/ notice' = notice
    BY <1>8, RemountTypes
  <2>2. \A d \in Deploys : notice'[d].status = "none" => notice[d].status = "none"
    BY <2>1, AnnounceTypes DEF DeployTypes
  <2>. QED BY <2>1, <2>2, SameCalls
<1>9. ASSUME NEW d \in Deploys, Dep!RunDeployNow(d) PROVE RunsInv'
  <2>1. /\ notice[d].status = "none"
        /\ pane' = [pane EXCEPT !.step = "running", !.task = d, !.tab = d,
                                !.runs = [of |-> d, named |-> FALSE, end |-> "none"]]
        /\ notice' = [notice EXCEPT ![d].status = "running"]
        /\ launch' = [launch EXCEPT ![d] = "open"] /\ operation' = operation
    BY <1>9 DEF Dep!RunDeployNow
  <2>2. pane'.runs.end = "none"
    BY <1>0, <2>1 DEF Panes
  <2>3. \A e \in Deploys : e # d => notice'[e] = notice[e] /\ launch'[e] = launch[e]
    BY <2>1 DEF DeployTypes, Notes
  <2>4. notice'[d].status = "running"
    BY <2>1 DEF DeployTypes, Notes
  <2>5. Unasked'
    BY <2>1, <2>3, <2>4 DEF RunsInv, Unasked
  <2>. QED BY <2>2, <2>5 DEF RunsInv, Right
<1>10. ASSUME NEW d \in Deploys, NEW named \in BOOLEAN, Dep!RunDeployAnswer(d, named)
       PROVE  RunsInv'
  <2>1. /\ \A e \in Deploys : Noted(d, named)[e].status = notice[e].status
        /\ Answered(d, named) \in Dep!Shown /\ Noted(d, named) \in Notes
        /\ launch[d] # "none" /\ launch' = [launch EXCEPT ![d] = "none"]
        /\ operation' = IF named THEN [operation EXCEPT ![d] = "running"] ELSE operation
        /\ \/ Dep!Show(Answered(d, named), Noted(d, named))
           \/ notice' = Noted(d, named) /\ UNCHANGED <<pane, told>>
    BY <1>10, AnswerEffect
  <2>2. \A e \in Deploys : notice'[e].status = "none" => notice[e].status = "none"
    <3>1. CASE Dep!Show(Answered(d, named), Noted(d, named))
      BY <2>1, <3>1, ShowTypes, AnnounceTypes
    <3>2. CASE notice' = Noted(d, named)
      BY <2>1, <3>2
    <3>. QED BY <2>1, <3>1, <3>2
  <2>3. notice[d].status # "none" /\ operation[d] = "none"
    BY <2>1 DEF RunsInv, Unasked
  <2>4. \A e \in Deploys : e # d => launch'[e] = launch[e] /\ operation'[e] = operation[e]
    BY <2>1 DEF DeployTypes
  <2>5. Unasked'
    BY <2>1, <2>2, <2>3, <2>4 DEF RunsInv, Unasked, DeployTypes
  <2>6. Right(pane.runs)'
    <3>1. CASE Dep!Show(Answered(d, named), Noted(d, named))
      <4>1. pane'.runs = Answered(d, named)
        BY <2>1, <3>1, ShowTypes
      <4>. QED BY <4>1 DEF Answered, Right
    <3>2. CASE pane' = pane
      <4>1. pane.runs \in Dep!Shown
        BY PaneTypes DEF DeployTypes
      <4>. QED BY <2>3, <2>4, <3>2, <4>1 DEF RunsInv, Right, Dep!Shown
    <3>. QED BY <2>1, <3>1, <3>2
  <2>. QED BY <2>5, <2>6 DEF RunsInv
<1>11. ASSUME NEW d \in Deploys, Dep!OperationEnds(d) PROVE RunsInv'
  <2>1. /\ operation[d] = "running" /\ UNCHANGED <<pane, notice, launch>>
        /\ \A e \in Deploys : e # d => operation'[e] = operation[e]
    BY <1>11 DEF Dep!OperationEnds, DeployTypes
  <2>2. Unasked'
    BY <2>1 DEF RunsInv, Unasked
  <2>3. pane.runs \in Dep!Shown
    BY PaneTypes DEF DeployTypes
  <2>4. Right(pane.runs)'
    BY <2>1, <2>3 DEF RunsInv, Right, Dep!Shown, Dep!Ends
  <2>. QED BY <2>2, <2>4 DEF RunsInv
<1>12. ASSUME NEW d \in Deploys, Dep!PollAnswer(d) PROVE RunsInv'
  <2>1. UNCHANGED <<launch, operation>>
    BY <1>12, PollEffect
  <2>2. ASSUME NEW rs \in Dep!Shown, Dep!Show(rs, notice), rs.of = d,
               rs.end \in {operation[d], "lost"}
        PROVE  RunsInv'
    <3>1. pane'.runs = rs /\ Right(rs)
      BY <2>2, ShowTypes DEF DeployTypes, Right
    <3>2. \A e \in Deploys : notice'[e].status = "none" => notice[e].status = "none"
      BY <2>2, ShowTypes, AnnounceTypes DEF DeployTypes
    <3>. QED BY <2>1, <3>1, <3>2, SameCalls
  <2>3. CASE UNCHANGED <<pane, notice>>
    BY <2>1, <2>3, SameCalls
  <2>. QED BY <1>12, <2>2, <2>3, PollEffect
<1>13. CASE UNCHANGED <<pane, notice, launch, operation>>
  BY <1>13, SameCalls
<1>14. Dep!Next \/ UNCHANGED depVars
  BY DEF Next, SelOnly, PkgOnly, UpdOnly, LocOnly, BootOnly, AuthOnly, DepOnly, vars
<1>. QED BY <1>2, <1>3, <1>4, <1>5, <1>6, <1>7, <1>8, <1>9, <1>10, <1>11, <1>12, <1>13,
  <1>14 DEF depVars, Dep!Next, Dep!Backend, Dep!AnyTick, Dep!AnyAnswer, Dep!Tick,
    Dep!Unmount

DeployInv == DeployTypes /\ ToldInv /\ RunsInv
LEMMA DeployInvHolds == Spec => []DeployInv
<1>1. Init => DeployTypes
  <2>. SUFFICES ASSUME Dep!Init PROVE DeployTypes
    BY DEF Init
  <2>1. notice \in Notes /\ 0 \in 0..MaxPolls /\ 0 \in 0..MaxLeaves
    BY WindowBounds DEF Dep!Init, Notes, Dep!Saved
  <2>. QED BY <2>1, PaneTypes DEF Dep!Init, DeployTypes
<1>2. Init => ToldInv
  BY DEF Init, Dep!Init, Dep!NoPane, ToldInv, UntoldNotices, UntoldTask, Untold, Dep!ToldOnce
<1>3. Init => RunsInv
  BY DEF Init, Dep!Init, Dep!NoPane, Dep!NoRuns, RunsInv, Right, Unasked
<1>4. DeployInv /\ [Next]_vars => DeployInv'
  BY DeployTypesKept, ToldInvKept, RunsInvKept DEF DeployInv
<1>. QED BY <1>1, <1>2, <1>3, <1>4, PTL DEF Spec, DeployInv

-----------------------------------------------------------------------------
(* The theorems.                                                            *)

\* Every variable of every store keeps its type.
THEOREM TypeCorrect == Spec => []TypeOK
<1>1. SelectionInv => Sel!TypeOK
  BY DEF SelectionInv
<1>2. Spec => []PkgP!TypeOK
  <2>1. PkgP!Spec => []PkgP!TypeOK
    BY WindowBounds, PkgP!TypeCorrect
  <2>. QED BY <2>1, PackageSessionsIsPart, PTL
<1>3. PkgP!TypeOK => Pkg!TypeOK
  BY DEF PkgP!TypeOK, Pkg!TypeOK, PkgP!NoTask, Pkg!NoTask
<1>4. Spec => []UpdP!TypeOK
  <2>1. UpdP!Spec => []UpdP!TypeOK
    BY WindowBounds, UpdP!TypeCorrect
  <2>. QED BY <2>1, UpdatesIsPart, PTL
<1>5. UpdP!TypeOK => Upd!TypeOK
  BY DEF UpdP!TypeOK, Upd!TypeOK
<1>6. LocalInv => Loc!TypeOK
  BY DEF LocalInv
<1>7. Spec => []BtP!TypeOK
  <2>1. BtP!Bounds
    BY WindowBounds DEF BtP!Bounds
  <2>2. BtP!Spec => []BtP!TypeOK
    BY <2>1, BtP!TypeCorrect
  <2>. QED BY <2>2, BootIsPart, PTL
<1>8. BtP!TypeOK => Bt!TypeOK
  BY DEF BtP!TypeOK, Bt!TypeOK, BtP!Setting, Bt!Setting
<1>9. DeployInv => Dep!TypeOK
  BY DEF DeployInv, DeployTypes, Panes, Notes, Dep!TypeOK
<1>10. Sel!TypeOK /\ Pkg!TypeOK /\ Upd!TypeOK /\ Loc!TypeOK /\ Bt!TypeOK /\ Auth!TypeOK
       /\ Dep!TypeOK => TypeOK
  BY DEF TypeOK
<1>. QED BY <1>1, <1>2, <1>3, <1>4, <1>5, <1>6, <1>7, <1>8, <1>9, <1>10, SelectionHolds,
  LocalHolds, AuthTypesHold, DeployInvHolds, PTL

\* A loaded diff is that of the selected file or commit, and of the side the file is
\* selected in unless its other side was loading then (loadWorkingDiff, loadCommitDiff).
THEOREM DiffIsOfSelection == Spec => []DiffMatches
<1>1. SelectionInv => DiffMatches
  BY DEF SelectionInv, DiffMatches
<1>. QED BY <1>1, SelectionHolds, PTL

\* A notification that waits to be completed has a session that runs (checkAllDone,
\* notifyCancelled).
THEOREM TaskHasSession == Spec => []NoStuckTask
<1>1. MaxOut \in Nat
  BY WindowBounds
<1>2. PkgP!Spec => []PkgP!NoStuckTask
  BY <1>1, PkgP!TaskHasSession
<1>3. PkgP!NoStuckTask => NoStuckTask
  BY DEF NoStuckTask, Pkg!NoStuckTask, Pkg!NoTask, Pkg!Running, PkgP!NoStuckTask,
    PkgP!NoTask, PkgP!Running
<1>. QED BY <1>2, <1>3, PackageSessionsIsPart, PTL

\* A session that has ended shows all its output (PollPackageRun, pollTick).
THEOREM NothingIsSkipped == Spec => []NothingSkipped
<1>1. MaxOut \in Nat
  BY WindowBounds
<1>2. PkgP!Spec => []PkgP!NothingSkipped
  BY <1>1, PkgP!NothingIsSkipped
<1>3. PkgP!NothingSkipped => NothingSkipped
  BY DEF NothingSkipped, Pkg!NothingSkipped, PkgP!NothingSkipped
<1>. QED BY <1>2, <1>3, PackageSessionsIsPart, PTL

\* The window offers to install only what is staged (startDownload, DownloadUpdate).
THEOREM DoneIsStaged == Spec => []DoneMeansStaged
<1>1. UpdP!Spec => []UpdP!DoneMeansStaged
  BY UpdP!DoneIsStaged
<1>2. UpdP!DoneMeansStaged => DoneMeansStaged
  BY DEF DoneMeansStaged, Upd!DoneMeansStaged, UpdP!DoneMeansStaged
<1>. QED BY <1>1, <1>2, UpdatesIsPart, PTL

\* The end of the application leaves no spawned Ollama process but one that was not
\* stored when StopOllama ran, and one that did not answer and lost its place in
\* ollamaCmd to the next (StartOllama, StopOllama).
THEOREM NoneLeft == Spec => []OllamaStopped
<1>1. LocalInv => OllamaStopped
  BY DEF LocalInv, ProcessInv, Loc!Alive, OllamaStopped, Loc!OllamaStopped
<1>. QED BY <1>1, LocalHolds, PTL

\* The card says that a model is there only after Ollama had it, unless it is the
\* late answer to a query about the model selected before (fetchStatus,
\* pullModelByName).
THEOREM ModelIsThere == Spec => HasModel
<1>. DEFINE There == ui'.has /\ ~ui.has =>
               \/ ui'.model \in pulled
               \/ \E q \in Queries : Loc!QueryAnswer(q) /\ query[q].model # ui.model
<1>1. LocalInv /\ [Next]_vars => [There]_(Loc!localVars)
  <2>. SUFFICES ASSUME LocalInv, [Next]_vars, ui'.has, ~ui.has PROVE There
    OBVIOUS
  <2>t. ui \in Card /\ job \in Jobs
    BY DEF LocalInv, Loc!TypeOK, Card, Jobs
  <2>1. Loc!Next
    BY DEF Next, SelOnly, PkgOnly, UpdOnly, LocOnly, BootOnly, AuthOnly, DepOnly, vars, locVars
  <2>2. CASE Loc!PullEvent
    <3>1. job.pull = "done" /\ ui'.model = ui.model
      BY <2>2, <2>t DEF Loc!PullEvent, Card
    <3>. QED BY <3>1 DEF LocalInv, PullInv
  <2>3. ASSUME NEW q \in Queries, Loc!QueryAnswer(q) PROVE There
    <3>1. ui'.has = query[q].has /\ ui'.model = ui.model
      BY <2>3, <2>t DEF Loc!QueryAnswer, Card
    <3>. QED BY <2>3, <3>1 DEF LocalInv, PullInv
  <2>4. CASE Loc!Started
    BY <2>4, <2>t DEF Loc!Started, Card
  <2>5. CASE Loc!DownloadEvent
    <3>1. PICK there \in BOOLEAN : ui' = [ui EXCEPT !.downloading = FALSE, !.binary = there]
      <4>1. (ui.binary \/ job.download = "done") \in BOOLEAN
        OBVIOUS
      <4>. QED BY <2>5, <4>1 DEF Loc!DownloadEvent
    <3>. QED BY <2>t, <3>1 DEF Card
  <2>6. CASE Loc!StartOllama \/ Loc!StartDownload \/ Loc!StartPull
    BY <2>6, <2>t DEF Loc!StartOllama, Loc!StartDownload, Loc!StartPull, Card
  <2>7. CASE Loc!ServiceShutdown
    <3>1. ui' = Loc!Blank(ui.model) /\ ui.model \in Models
      BY <2>7, <2>t DEF Loc!ServiceShutdown, Card
    <3>. QED BY <3>1, IdleTypes
  <2>8. ASSUME NEW m \in Models, Loc!SetModel(m) PROVE There
    BY <2>8, <2>t DEF Loc!SetModel, Card
  <2>9. CASE UNCHANGED ui
    BY <2>9
  <2>. QED BY <2>1, <2>2, <2>3, <2>4, <2>5, <2>6, <2>7, <2>8, <2>9
    DEF Loc!Next, Loc!StartStep, Loc!Serve, Loc!Die, Loc!Exit, Loc!Probe, Loc!SpawnError,
      Loc!Store, Loc!Query, Loc!QueryStep, Loc!Spawn, Loc!WaitEnds, Loc!Downloaded,
      Loc!Pulled, Loc!Status, Loc!PulledModels
<1>. QED BY <1>1, LocalHolds, PTL DEF Spec, HasModel, Loc!HasModel

\* What schema_version records has been executed (runMigrations).
THEOREM SchemaIsComplete == Spec => []SchemaComplete
<1>1. BtP!Bounds
  BY WindowBounds DEF BtP!Bounds
<1>2. BtP!Spec => []BtP!SchemaComplete
  BY <1>1, BtP!SchemaIsComplete
<1>3. BtP!SchemaComplete => SchemaComplete
  BY DEF SchemaComplete, Bt!SchemaComplete, BtP!SchemaComplete
<1>. QED BY <1>2, <1>3, BootIsPart, PTL

\* A start is refused only after a kill between an ALTER TABLE and its record
\* (runMigrations).
THEOREM StartIsRefusedOnlyTorn == Spec => []StartsAgain
<1>1. BtP!Bounds
  BY WindowBounds DEF BtP!Bounds
<1>2. BtP!Spec => []BtP!StartsAgain
  BY <1>1, BtP!StartIsRefusedOnlyTorn
<1>3. BtP!StartsAgain => StartsAgain
  BY DEF StartsAgain, Bt!StartsAgain, BtP!StartsAgain
<1>. QED BY <1>2, <1>3, BootIsPart, PTL

\* The table holds what the window shows (settingsClient.set).
THEOREM TableIsCache == Spec => []TableFollows
<1>1. BtP!Bounds
  BY WindowBounds DEF BtP!Bounds
<1>2. BtP!Spec => []BtP!TableFollows
  BY <1>1, BtP!TableIsCache
<1>3. BtP!TableFollows => TableFollows
  BY DEF TableFollows, Bt!TableFollows, BtP!TableFollows
<1>. QED BY <1>2, <1>3, BootIsPart, PTL

\* The copy from localStorage replaces nothing the user has set since, unless the
\* table could not be read (settingsClient.init).
THEOREM CopyHappensOnce == Spec => MigratesOnce
<1>1. BtP!Bounds
  BY WindowBounds DEF BtP!Bounds
<1>2. BtP!Spec => BtP!MigratesOnce
  BY <1>1, BtP!CopyHappensOnce
<1>3. [hub.value \in Values /\ hub'.value = "legacy" => faults.blind]_(BtP!bootVars)
        => [hub.value \in Values /\ hub'.value = "legacy" => faults.blind]_(Bt!bootVars)
  BY DEF BtP!bootVars, Bt!bootVars
<1>. QED BY <1>2, <1>3, BootIsPart, PTL DEF MigratesOnce, Bt!MigratesOnce, BtP!MigratesOnce

\* A deploy is announced once (completeTaskNotification), for any number of deploys
\* and polls, however often its tab is closed, replaced, restored and left, except a
\* deploy whose restored tab was mounted again.
THEOREM DeployToldOnce == Spec => []ToldOnce
<1>1. DeployInv => ToldOnce
  BY DEF DeployInv, ToldInv, ToldOnce
<1>. QED BY <1>1, DeployInvHolds, PTL

\* When a deploy is announced, what its tab has shown and shows of it is the end of
\* its operation, or that a call failed (runDeployNow, the poll and the mount of
\* DeployPane).
THEOREM OutcomeIsTold == Spec => DeployTold
<1>. DEFINE Told == \A d \in Deploys : told'[d] # told[d] =>
       \A rs \in {pane.runs, pane'.runs} :
         rs.of = d /\ rs.end # "none" => rs.end \in {operation[d], "lost"}
<1>1. DeployInv /\ DeployInv' /\ [Next]_vars => [Told]_(Dep!deployVars)
  <2>. SUFFICES ASSUME DeployInv, DeployInv', [Next]_vars,
                       NEW d \in Deploys, told'[d] # told[d],
                       NEW rs \in {pane.runs, pane'.runs}, rs.of = d, rs.end # "none"
                PROVE  rs.end \in {operation[d], "lost"}
    OBVIOUS
  <2>0. 0 \notin Deploys
    BY WindowBounds
  <2>1. CASE rs = pane.runs
    BY <2>0, <2>1 DEF DeployInv, RunsInv, Right
  <2>2. CASE rs = pane'.runs /\ operation' = operation
    BY <2>0, <2>2 DEF DeployInv, RunsInv, Right
  <2>3. ASSUME NEW e \in Deploys, NEW named \in BOOLEAN, Dep!RunDeployAnswer(e, named),
               rs = pane'.runs
        PROVE  rs.end = "lost"
    <3>1. Dep!Show(Answered(e, named), Noted(e, named))
      BY <2>3, AnswerEffect DEF DeployInv
    <3>2. pane'.runs = Answered(e, named)
      BY <2>3, <3>1, AnswerEffect, ShowTypes DEF DeployInv
    <3>. QED BY <2>3, <3>2 DEF Answered
  <2>4. ASSUME NEW e \in Deploys, Dep!OperationEnds(e) PROVE FALSE
    BY <2>4 DEF Dep!OperationEnds
  <2>5. operation' = operation \/ (\E e \in Deploys : Dep!OperationEnds(e)
                                     \/ \E named \in BOOLEAN : Dep!RunDeployAnswer(e, named))
    <3>1. Dep!Next \/ UNCHANGED depVars
      BY DEF Next, SelOnly, PkgOnly, UpdOnly, LocOnly, BootOnly, AuthOnly, DepOnly, vars
    <3>. QED BY <3>1 DEF depVars, Dep!Next, Dep!Backend, Dep!AnyTick, Dep!AnyAnswer,
      Dep!Open, Dep!Close, Dep!Loaded, Dep!RunAgain, Dep!Dismiss, Dep!Restore,
      Dep!RunDeployNow, Dep!Tick, Dep!PollAnswer, Dep!Unmount, Dep!MountNew,
      Dep!MountRestored
  <2>. QED BY <2>1, <2>2, <2>3, <2>4, <2>5
<1>. QED BY <1>1, DeployInvHolds, PTL DEF Spec, DeployTold, Dep!DeployTold
=============================================================================
