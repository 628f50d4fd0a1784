------------------------------- MODULE Boot -------------------------------
(***************************************************************************)
(* The start of the application and the life of one setting: OpenHubDB     *)
(* with its migrations (hubdb.go), settingsClient.init with the one-time   *)
(* copy from localStorage, the rendering of the window, and the setting's  *)
(* fire-and-forget writes (settingsClient.ts, settingsservice.go).  The    *)
(* process can be killed at every step and is launched again.              *)
(***************************************************************************)
EXTENDS Naturals, FiniteSets

CONSTANTS
  Versions,    \* the schema versions are 1..Versions; the last has the settings
  Alters,      \* those that cannot be executed twice (ALTER TABLE)
  Values,      \* bound: values the user gives the setting, one after the other
  MaxLaunches, MaxErrors   \* bounds: launches, failing calls of the service

VARIABLES
  hub,         \* hub.db: schema_version, the migrations executed, the two rows
  boot,        \* where the process is
  cache,       \* settingsClient's cache: the setting and the migration flag
  writes,      \* SetSetting calls in flight
  legacy,      \* localStorage has the setting
  faults       \* bounds, and what went wrong (history)

bootVars == <<hub, boot, cache, writes, legacy, faults>>

Setting == {"none", "legacy"} \cup Values
NoRows == [value |-> "none", flag |-> FALSE]

TypeOK ==
  /\ hub \in [version: 0..Versions, done: SUBSET (1..Versions), value: Setting, flag: BOOLEAN]
  /\ boot \in {"off", "exec", "bump", "read", "copy", "copying", "flagging", "ready"}
  /\ cache \in [value: Setting, flag: BOOLEAN]
  /\ writes \subseteq Values
  /\ legacy \in BOOLEAN
  /\ faults \in [launches: 0..MaxLaunches, errors: 0..MaxErrors, torn: BOOLEAN,
                 refused: BOOLEAN, blind: BOOLEAN, dirty: BOOLEAN]

-----------------------------------------------------------------------------
(* OpenHubDB: pending migrations, each executed and then recorded.          *)

NextVersionAgain == IF hub.version = 0 THEN 1 ELSE hub.version  \* mutant: < for <=
NextVersion == hub.version + 1
Migrated(at, h) == IF h.version = Versions THEN "read" ELSE at

Launch ==
  /\ boot = "off" /\ faults.launches < MaxLaunches
  /\ boot' = Migrated("exec", hub)
  /\ cache' = NoRows
  /\ faults' = [faults EXCEPT !.launches = @ + 1, !.blind = FALSE, !.dirty = FALSE]
  /\ UNCHANGED <<hub, writes, legacy>>

RecordedFirst == [hub EXCEPT !.version = NextVersion]  \* mutant: the record comes first
Executed == [hub EXCEPT !.done = @ \cup {NextVersion}]

\* An ALTER TABLE that was executed before fails, and main gives up.
Exec ==
  /\ boot = "exec"
  /\ IF NextVersion \in hub.done \cap Alters
     THEN /\ boot' = "off" /\ faults' = [faults EXCEPT !.refused = TRUE]
          /\ UNCHANGED hub
     ELSE /\ boot' = "bump" /\ hub' = Executed
          /\ UNCHANGED faults
  /\ UNCHANGED <<cache, writes, legacy>>
Bump ==
  /\ boot = "bump"
  /\ hub' = [hub EXCEPT !.version = NextVersion]
  /\ boot' = Migrated("exec", hub')
  /\ UNCHANGED <<cache, writes, legacy, faults>>

-----------------------------------------------------------------------------
(* settingsClient.init                                                      *)

Error == /\ faults.errors < MaxErrors
         /\ faults' = [faults EXCEPT !.errors = @ + 1, !.dirty = TRUE]

\* GetAllSettings: a failing call leaves the cache empty.
Loaded(c) == IF c.flag THEN "ready" ELSE "copy"
ReadAll ==
  /\ boot = "read"
  /\ cache' = [value |-> hub.value, flag |-> hub.flag]
  /\ boot' = Loaded(cache')
  /\ UNCHANGED <<hub, writes, legacy, faults>>
ReadAllError ==
  /\ boot = "read" /\ faults.errors < MaxErrors
  /\ cache' = NoRows /\ boot' = "copy"
  /\ faults' = [faults EXCEPT !.errors = @ + 1, !.blind = TRUE, !.dirty = TRUE]
  /\ UNCHANGED <<hub, writes, legacy>>

\* A key that the cache has, or localStorage has not, is skipped.
Always == legacy                               \* mutant: without cache.has(key)
Copied == legacy /\ cache.value = "none"
Copy ==
  /\ boot = "copy"
  /\ boot' = IF Copied THEN "copying" ELSE "flagging"
  /\ cache' = IF Copied THEN [cache EXCEPT !.value = "legacy"] ELSE [cache EXCEPT !.flag = TRUE]
  /\ UNCHANGED <<hub, writes, legacy, faults>>

\* The two awaited writes, each of which may fail.
CopyWritten ==
  /\ boot = "copying" /\ boot' = "flagging"
  /\ \/ hub' = [hub EXCEPT !.value = "legacy"] /\ UNCHANGED faults
     \/ Error /\ UNCHANGED hub
  /\ cache' = [cache EXCEPT !.flag = TRUE]
  /\ UNCHANGED <<writes, legacy>>
FlagWritten ==
  /\ boot = "flagging" /\ boot' = "ready"
  /\ \/ hub' = [hub EXCEPT !.flag = TRUE] /\ UNCHANGED faults
     \/ Error /\ UNCHANGED hub
  /\ UNCHANGED <<cache, writes, legacy>>

-----------------------------------------------------------------------------
(* The window is rendered; the user changes the setting.  The write is not  *)
(* waited for, so two of them may reach the table in either order.          *)

CacheKept(v) == cache                          \* mutant: the cache is not written
CacheSet(v) == [cache EXCEPT !.value = v]
Set(v) ==
  /\ boot = "ready" /\ v \notin writes /\ cache.value # v
  /\ cache' = CacheSet(v)
  /\ writes' = writes \cup {v}
  /\ faults' = [faults EXCEPT !.dirty = @ \/ writes # {}]
  /\ UNCHANGED <<hub, boot, legacy>>
Written(v) ==
  /\ v \in writes /\ writes' = writes \ {v}
  /\ \/ /\ hub' = [hub EXCEPT !.value = v]
        /\ faults' = [faults EXCEPT !.dirty = @ /\ ~(writes = {v} /\ cache.value = v)]
     \/ Error /\ UNCHANGED hub
  /\ UNCHANGED <<boot, cache, legacy>>

\* The process ends or is killed: calls in flight are lost.
Kill ==
  /\ boot # "off" /\ boot' = "off"
  /\ writes' = {}
  /\ faults' = [faults EXCEPT !.torn = @ \/ (boot = "bump" /\ NextVersion \in Alters)]
  /\ UNCHANGED <<hub, cache, legacy>>

-----------------------------------------------------------------------------
\* A database of this release or an earlier one; or none yet.
Init ==
  /\ \E v \in 0..Versions, row \in {NoRows, [value |-> "legacy", flag |-> TRUE]} :
       /\ v < Versions => row = NoRows
       /\ hub = [version |-> v, done |-> 1..v, value |-> row.value, flag |-> row.flag]
  /\ boot = "off" /\ cache = NoRows /\ writes = {}
  /\ legacy \in BOOLEAN
  /\ faults = [launches |-> 0, errors |-> 0, torn |-> FALSE, refused |-> FALSE,
               blind |-> FALSE, dirty |-> FALSE]

BootStep == \/ Exec \/ Bump \/ ReadAll \/ ReadAllError
            \/ Copy \/ CopyWritten \/ FlagWritten
Next ==
  \/ Launch \/ BootStep \/ Kill
  \/ \E v \in Values : Set(v) \/ Written(v)

Spec == Init /\ [][Next]_bootVars

-----------------------------------------------------------------------------
(* Properties.                                                              *)

\* What schema_version records has been executed, wherever the process was
\* killed; the settings are read from a table that exists.
SchemaComplete ==
  /\ 1..hub.version \subseteq hub.done
  /\ boot \in {"read", "copy", "copying", "flagging", "ready"} => hub.done = 1..Versions

\* The application starts again, unless it was killed between an ALTER TABLE and
\* the record of it.
StartsAgain == faults.refused => faults.torn

\* The copy from localStorage happens once: it never replaces what the user has
\* set since, whatever was killed or failed, unless this launch could not read
\* the table.
MigratesOnce ==
  [][hub.value \in Values /\ hub'.value = "legacy" => faults.blind]_bootVars

\* The table has what the window shows, so the next launch shows it too, unless a
\* call failed or writes overtook one another; a write on its own mends that.
TableFollows ==
  boot = "ready" /\ writes = {} /\ ~faults.dirty => hub.value = cache.value
=============================================================================
