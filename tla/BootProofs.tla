----------------------------- MODULE BootProofs -----------------------------
(***************************************************************************)
(* Boot: the schema, the one-time copy and the table behind the window, for *)
(* any number of migrations, launches, failing calls and values.            *)
(***************************************************************************)
EXTENDS Boot, TLAPS

Bounds == /\ Versions \in Nat /\ MaxLaunches \in Nat /\ MaxErrors \in Nat
          /\ "none" \notin Values /\ "legacy" \notin Values

\* The migrations: at most the next one has been executed beside those recorded,
\* and if it cannot be repeated the process died in between or is about to record it.
SchemaInv ==
  /\ 1..hub.version \subseteq hub.done /\ hub.done \subseteq 1..(hub.version + 1)
  /\ boot \in {"exec", "bump"} => hub.version < Versions
  /\ boot = "bump" => hub.version + 1 \in hub.done
  /\ hub.version + 1 \in hub.done \cap Alters /\ boot # "bump" => faults.torn
  /\ boot \in {"read", "copy", "copying", "flagging", "ready"} => hub.version = Versions
  /\ StartsAgain

\* The setting: until the window is rendered nothing writes it but the copy, which
\* begins only when the table, if it was read, has no value.
CopyInv ==
  /\ boot # "ready" => writes = {}
  /\ boot \in {"exec", "bump", "read"} => ~faults.blind
  /\ boot \in {"copy", "copying"} /\ faults.blind => faults.dirty
  /\ boot = "copy" /\ ~faults.blind => cache.value = hub.value
  /\ boot = "copying" => cache.value = "legacy"
  /\ boot = "copying" /\ ~faults.blind => hub.value = "none"
  /\ boot = "flagging" /\ ~faults.dirty => hub.value = cache.value
  /\ boot = "ready" /\ ~faults.dirty => writes = {} \/ writes = {cache.value}
  /\ TableFollows

Inv == TypeOK /\ SchemaInv /\ CopyInv

LEMMA Initial == Bounds /\ Init => Inv
<1> SUFFICES ASSUME Bounds, Init PROVE Inv
  OBVIOUS
<1>1. PICK v \in 0..Versions, row \in {NoRows, [value |-> "legacy", flag |-> TRUE]} :
        hub = [version |-> v, done |-> 1..v, value |-> row.value, flag |-> row.flag]
  BY DEF Init
<1>2. row.value \in Setting /\ row.flag \in BOOLEAN
  <2>1. CASE row = NoRows
    BY <2>1 DEF NoRows, Setting
  <2>2. CASE row = [value |-> "legacy", flag |-> TRUE]
    BY <2>2 DEF Setting
  <2>. QED BY <2>1, <2>2
<1>3. hub.version = v /\ hub.done = 1..v /\ v \in Nat /\ 1..v \subseteq 1..Versions
  BY <1>1 DEF Bounds
<1>4. TypeOK
  BY <1>1, <1>2, <1>3 DEF Init, TypeOK, Bounds, Setting, NoRows
<1>5. SchemaInv
  BY <1>3 DEF Init, SchemaInv, StartsAgain
<1>. QED BY <1>4, <1>5 DEF Init, Inv, CopyInv, TableFollows

HubType == [version: 0..Versions, done: SUBSET (1..Versions), value: Setting, flag: BOOLEAN]
CacheType == [value: Setting, flag: BOOLEAN]
FaultType == [launches: 0..MaxLaunches, errors: 0..MaxErrors, torn: BOOLEAN,
              refused: BOOLEAN, blind: BOOLEAN, dirty: BOOLEAN]

LEMMA ErrorType ==
  ASSUME Bounds, faults \in FaultType, Error
  PROVE  faults' \in FaultType
<1>1. faults.errors + 1 \in 0..MaxErrors
  BY DEF Error, FaultType, Bounds
<1>. QED BY <1>1 DEF Error, FaultType

LEMMA TypeStep == ASSUME Bounds, TypeOK, SchemaInv, [Next]_bootVars PROVE TypeOK'
<1>t. /\ hub \in HubType /\ cache \in CacheType /\ faults \in FaultType
      /\ writes \subseteq Values /\ legacy \in BOOLEAN
      /\ "none" \in Setting /\ "legacy" \in Setting /\ Values \subseteq Setting
      /\ NoRows \in CacheType
  BY DEF TypeOK, HubType, CacheType, FaultType, Setting, NoRows
<1>q. ASSUME hub' \in HubType, cache' \in CacheType, faults' \in FaultType, legacy' = legacy,
             writes' \subseteq Values, boot' \in {"off", "exec", "bump", "read", "copy",
                                                 "copying", "flagging", "ready"}
      PROVE  TypeOK'
  BY <1>q, <1>t DEF TypeOK, HubType, CacheType, FaultType
<1>b. boot \in {"off", "exec", "bump", "read", "copy", "copying", "flagging", "ready"}
  BY DEF TypeOK
<1>1. CASE Launch
  <2>1. faults.launches + 1 \in 0..MaxLaunches
    BY <1>1, <1>t DEF Launch, FaultType, Bounds
  <2>2. faults' \in FaultType
    BY <1>1, <1>t, <2>1 DEF Launch, FaultType
  <2>. QED BY <1>1, <1>t, <1>q, <2>2 DEF Launch, Migrated
<1>2. CASE Exec
  <2>1. NextVersion \in 1..Versions
    BY <1>2, <1>t DEF Exec, NextVersion, HubType, SchemaInv, Bounds
  <2>2. hub' \in HubType
    BY <1>2, <1>t, <2>1 DEF Exec, Executed, HubType
  <2>3. faults' \in FaultType
    BY <1>2, <1>t DEF Exec, FaultType
  <2>. QED BY <1>2, <1>t, <1>q, <2>2, <2>3 DEF Exec
<1>3. CASE Bump
  <2>1. NextVersion \in 0..Versions
    BY <1>3, <1>t DEF Bump, NextVersion, HubType, SchemaInv, Bounds
  <2>2. hub' \in HubType
    BY <1>3, <1>t, <2>1 DEF Bump, HubType
  <2>. QED BY <1>3, <1>t, <1>q, <2>2 DEF Bump, Migrated
<1>4. CASE ReadAll
  <2>1. cache' \in CacheType
    BY <1>4, <1>t DEF ReadAll, HubType, CacheType
  <2>. QED BY <1>4, <1>t, <1>q, <2>1 DEF ReadAll, Loaded
<1>5. CASE ReadAllError
  <2>1. faults.errors + 1 \in 0..MaxErrors
    BY <1>5, <1>t DEF ReadAllError, FaultType, Bounds
  <2>2. faults' \in FaultType
    BY <1>5, <1>t, <2>1 DEF ReadAllError, FaultType
  <2>. QED BY <1>5, <1>t, <1>q, <2>2 DEF ReadAllError
<1>6. CASE Copy
  <2>1. cache' \in CacheType
    BY <1>6, <1>t DEF Copy, CacheType
  <2>. QED BY <1>6, <1>t, <1>q, <2>1 DEF Copy
<1>7. CASE CopyWritten
  <2>1. hub' \in HubType
    BY <1>7, <1>t DEF CopyWritten, HubType
  <2>2. cache' \in CacheType
    BY <1>7, <1>t DEF CopyWritten, CacheType
  <2>. QED BY <1>7, <1>t, <1>q, <2>1, <2>2, ErrorType DEF CopyWritten
<1>8. CASE FlagWritten
  <2>1. hub' \in HubType
    BY <1>8, <1>t DEF FlagWritten, HubType
  <2>. QED BY <1>8, <1>t, <1>q, <2>1, ErrorType DEF FlagWritten
<1>9. ASSUME NEW v \in Values, Set(v) PROVE TypeOK'
  <2>1. cache' \in CacheType
    BY <1>9, <1>t DEF Set, CacheSet, CacheType
  <2>2. faults' \in FaultType
    <3>1. (faults.dirty \/ writes # {}) \in BOOLEAN
      OBVIOUS
    <3>. QED BY <1>9, <1>t, <3>1 DEF Set, FaultType
  <2>. QED BY <1>9, <1>t, <1>q, <1>b, <2>1, <2>2 DEF Set
<1>10. ASSUME NEW v \in Values, Written(v) PROVE TypeOK'
  <2>1. hub' \in HubType
    BY <1>10, <1>t DEF Written, HubType
  <2>2. faults' \in FaultType
    <3>1. (faults.dirty /\ ~(writes = {v} /\ cache.value = v)) \in BOOLEAN
      OBVIOUS
    <3>. QED BY <1>10, <1>t, <3>1, ErrorType DEF Written, FaultType
  <2>. QED BY <1>10, <1>t, <1>q, <1>b, <2>1, <2>2 DEF Written
<1>11. CASE Kill
  <2>1. faults' \in FaultType
    <3>1. (faults.torn \/ (boot = "bump" /\ NextVersion \in Alters)) \in BOOLEAN
      OBVIOUS
    <3>. QED BY <1>11, <1>t, <3>1 DEF Kill, FaultType
  <2>. QED BY <1>11, <1>t, <1>q, <2>1 DEF Kill
<1>12. CASE UNCHANGED bootVars
  BY <1>12 DEF bootVars, TypeOK
<1>. QED BY <1>1, <1>2, <1>3, <1>4, <1>5, <1>6, <1>7, <1>8, <1>9, <1>10, <1>11, <1>12
         DEF Next, BootStep

\* The schema: Exec adds the one that Bump then records; only Kill comes between.
LEMMA SchemaStep == ASSUME Bounds, TypeOK, SchemaInv, [Next]_bootVars PROVE SchemaInv'
<1>t. /\ hub \in HubType /\ faults \in FaultType /\ hub.version \in 0..Versions
      /\ hub.version \in Nat
  BY DEF TypeOK, HubType, FaultType, Bounds
<1> USE DEF SchemaInv, StartsAgain
<1>1. CASE Launch
  <2>1. /\ faults'.torn = faults.torn /\ faults'.refused = faults.refused /\ hub' = hub
        /\ boot = "off" /\ boot' = IF hub.version = Versions THEN "read" ELSE "exec"
    BY <1>1, <1>t DEF Launch, Migrated, FaultType
  <2>. QED BY <2>1, <1>t DEF Bounds
<1>2. CASE Exec
  <2>1. CASE NextVersion \in hub.done \cap Alters
    <3>1. boot = "exec" /\ boot' = "off" /\ hub' = hub /\ faults'.torn = faults.torn
      BY <1>2, <2>1, <1>t DEF Exec, FaultType
    <3>. QED BY <3>1, <2>1, <1>t DEF NextVersion
  <2>2. CASE NextVersion \notin hub.done \cap Alters
    <3>1. /\ boot = "exec" /\ boot' = "bump" /\ faults' = faults
          /\ hub'.done = hub.done \cup {hub.version + 1} /\ hub'.version = hub.version
      BY <1>2, <2>2, <1>t DEF Exec, Executed, NextVersion, HubType
    <3>. QED BY <3>1, <1>t
  <2>. QED BY <2>1, <2>2
<1>3. CASE Bump
  <2>1. /\ boot = "bump" /\ faults' = faults
        /\ hub'.done = hub.done /\ hub'.version = hub.version + 1
        /\ boot' = IF hub.version + 1 = Versions THEN "read" ELSE "exec"
    BY <1>3, <1>t DEF Bump, Migrated, NextVersion, HubType
  <2>. QED BY <2>1, <1>t DEF Bounds
<1>4. CASE ReadAll \/ ReadAllError \/ Copy \/ CopyWritten \/ FlagWritten
  <2>1. /\ boot \in {"read", "copy", "copying", "flagging"}
        /\ boot' \in {"copy", "copying", "flagging", "ready"}
        /\ hub'.version = hub.version /\ hub'.done = hub.done
        /\ faults'.torn = faults.torn /\ faults'.refused = faults.refused
    BY <1>4, <1>t DEF ReadAll, ReadAllError, Loaded, Copy, CopyWritten, FlagWritten, Error,
                      HubType, FaultType
  <2>. QED BY <2>1, <1>t
<1>5. ASSUME NEW v \in Values, Set(v) \/ Written(v) PROVE SchemaInv'
  <2>1. /\ boot' = boot /\ hub'.version = hub.version /\ hub'.done = hub.done
        /\ faults'.torn = faults.torn /\ faults'.refused = faults.refused
    BY <1>5, <1>t DEF Set, Written, Error, HubType, FaultType
  <2>. QED BY <2>1, <1>t
<1>6. CASE Kill
  <2>1. /\ boot' = "off" /\ hub' = hub /\ faults'.refused = faults.refused
        /\ faults'.torn <=> faults.torn \/ (boot = "bump" /\ NextVersion \in Alters)
    BY <1>6, <1>t DEF Kill, FaultType
  <2>. QED BY <2>1, <1>t DEF NextVersion
<1>7. CASE UNCHANGED bootVars
  BY <1>7 DEF bootVars
<1>. QED BY <1>1, <1>2, <1>3, <1>4, <1>5, <1>6, <1>7 DEF Next, BootStep

\* The copy and the writes.
LEMMA CopyStep == ASSUME Bounds, TypeOK, CopyInv, [Next]_bootVars PROVE CopyInv'
<1>t. /\ hub \in HubType /\ cache \in CacheType /\ faults \in FaultType
      /\ writes \subseteq Values
  BY DEF TypeOK, HubType, CacheType, FaultType
<1> USE DEF CopyInv, TableFollows
<1>1. CASE Launch
  <2>1. /\ boot = "off" /\ boot' \in {"read", "exec"} /\ writes' = writes
        /\ faults'.blind = FALSE
    BY <1>1, <1>t DEF Launch, Migrated, FaultType
  <2>. QED BY <2>1
<1>2. CASE Exec \/ Bump
  <2>1. /\ boot \in {"exec", "bump"} /\ boot' \in {"off", "exec", "bump", "read"}
        /\ writes' = writes /\ faults'.blind = faults.blind
    BY <1>2, <1>t DEF Exec, Bump, Migrated, FaultType
  <2>. QED BY <2>1
<1>3. CASE ReadAll
  <2>1. /\ boot = "read" /\ boot' \in {"ready", "copy"} /\ cache'.value = hub.value
        /\ hub' = hub /\ writes' = writes /\ faults' = faults
    BY <1>3 DEF ReadAll, Loaded
  <2>. QED BY <2>1
<1>4. CASE ReadAllError
  <2>1. /\ boot = "read" /\ boot' = "copy" /\ faults'.blind /\ faults'.dirty /\ writes' = writes
    BY <1>4, <1>t DEF ReadAllError, FaultType
  <2>. QED BY <2>1
<1>5. CASE Copy
  <2>1. boot = "copy" /\ writes' = writes /\ hub' = hub /\ faults' = faults
    BY <1>5 DEF Copy
  <2>2. CASE Copied
    <3>1. boot' = "copying" /\ cache'.value = "legacy" /\ cache.value = "none"
      BY <1>5, <2>2, <1>t DEF Copy, Copied, CacheType
    <3>. QED BY <2>1, <3>1
  <2>3. CASE ~Copied
    <3>1. boot' = "flagging" /\ cache'.value = cache.value
      BY <1>5, <2>3, <1>t DEF Copy, CacheType
    <3>. QED BY <2>1, <3>1
  <2>. QED BY <2>2, <2>3
<1>6. CASE CopyWritten
  <2>1. /\ boot = "copying" /\ boot' = "flagging" /\ writes' = writes
        /\ cache'.value = cache.value
        /\ hub'.value = "legacy" \/ faults'.dirty
    BY <1>6, <1>t DEF CopyWritten, Error, HubType, CacheType, FaultType
  <2>. QED BY <2>1
<1>7. CASE FlagWritten
  <2>1. /\ boot = "flagging" /\ boot' = "ready" /\ writes' = writes /\ cache' = cache
        /\ hub'.value = hub.value
        /\ faults' = faults \/ faults'.dirty
    BY <1>7, <1>t DEF FlagWritten, Error, HubType, FaultType
  <2>. QED BY <2>1
<1>8. ASSUME NEW v \in Values, Set(v) PROVE CopyInv'
  <2>1. /\ boot = "ready" /\ boot' = "ready" /\ cache'.value = v
        /\ writes' = writes \cup {v} /\ faults'.dirty = (faults.dirty \/ writes # {})
    BY <1>8, <1>t DEF Set, CacheSet, CacheType, FaultType
  <2>. QED BY <2>1
<1>9. ASSUME NEW v \in Values, Written(v) PROVE CopyInv'
  <2>1. /\ v \in writes /\ boot = "ready" /\ boot' = "ready"
        /\ writes' = writes \ {v} /\ cache' = cache
    BY <1>9 DEF Written
  <2>2. CASE /\ hub' = [hub EXCEPT !.value = v]
             /\ faults' = [faults EXCEPT !.dirty = @ /\ ~(writes = {v} /\ cache.value = v)]
    <3>1. hub'.value = v /\ faults'.dirty = (faults.dirty /\ ~(writes = {v} /\ cache.value = v))
      BY <2>2, <1>t DEF HubType, FaultType
    <3>. QED BY <2>1, <3>1
  <2>3. CASE Error
    <3>1. faults'.dirty
      BY <2>3, <1>t DEF Error, FaultType
    <3>. QED BY <2>1, <3>1
  <2>. QED BY <1>9, <2>2, <2>3 DEF Written
<1>10. CASE Kill
  <2>1. boot' = "off" /\ writes' = {}
    BY <1>10 DEF Kill
  <2>. QED BY <2>1
<1>11. CASE UNCHANGED bootVars
  BY <1>11 DEF bootVars
<1>. QED BY <1>1, <1>2, <1>3, <1>4, <1>5, <1>6, <1>7, <1>8, <1>9, <1>10, <1>11
         DEF Next, BootStep

LEMMA Inductive == Bounds /\ Inv /\ [Next]_bootVars => Inv'
BY TypeStep, SchemaStep, CopyStep DEF Inv

\* Every variable of the start keeps its type.
THEOREM TypeCorrect == ASSUME Bounds PROVE Spec => []TypeOK
<1>1. Init => Inv
  BY Initial
<1>2. Inv /\ [Next]_bootVars => Inv'
  BY Inductive
<1>3. Inv => TypeOK
  BY DEF Inv
<1>. QED BY <1>1, <1>2, <1>3, PTL DEF Spec

\* What schema_version records has been executed, and all of it when the settings
\* are read.
THEOREM SchemaIsComplete == ASSUME Bounds PROVE Spec => []SchemaComplete
<1>1. Init => Inv
  BY Initial
<1>2. Inv /\ [Next]_bootVars => Inv'
  BY Inductive
<1>3. Inv => SchemaComplete
  BY DEF Inv, TypeOK, SchemaInv, SchemaComplete
<1>. QED BY <1>1, <1>2, <1>3, PTL DEF Spec

\* Only a kill between an ALTER TABLE and its record makes a start fail.
THEOREM StartIsRefusedOnlyTorn == ASSUME Bounds PROVE Spec => []StartsAgain
<1>1. Init => Inv
  BY Initial
<1>2. Inv /\ [Next]_bootVars => Inv'
  BY Inductive
<1>3. Inv => StartsAgain
  BY DEF Inv, SchemaInv
<1>. QED BY <1>1, <1>2, <1>3, PTL DEF Spec

\* With no failed call and no overtaken write the table has what the window shows.
THEOREM TableIsCache == ASSUME Bounds PROVE Spec => []TableFollows
<1>1. Init => Inv
  BY Initial
<1>2. Inv /\ [Next]_bootVars => Inv'
  BY Inductive
<1>3. Inv => TableFollows
  BY DEF Inv, CopyInv
<1>. QED BY <1>1, <1>2, <1>3, PTL DEF Spec

\* The copy from localStorage replaces a value of the user only in a launch that
\* could not read the table.
THEOREM CopyHappensOnce == ASSUME Bounds PROVE Spec => MigratesOnce
<1>1. Init => Inv
  BY Initial
<1>2. Inv /\ [Next]_bootVars => Inv'
  BY Inductive
<1>3. Inv /\ [Next]_bootVars => [hub.value \in Values /\ hub'.value = "legacy" => faults.blind]_bootVars
  <2> SUFFICES ASSUME Inv, [Next]_bootVars, hub.value \in Values, hub'.value = "legacy"
               PROVE  faults.blind
    OBVIOUS
  <2>1. hub \in HubType /\ hub.value # "legacy" /\ hub.value # "none"
    BY DEF Inv, TypeOK, HubType, Bounds
  <2>2. hub'.value = hub.value \/ CopyWritten \/ \E v \in Values : hub'.value = v
    BY <2>1 DEF Next, BootStep, Launch, Exec, Executed, Bump, ReadAll, ReadAllError, Copy,
                FlagWritten, Set, Written, Kill, bootVars, HubType
  <2>3. CopyWritten
    BY <2>1, <2>2 DEF Bounds
  <2>. QED BY <2>1, <2>3 DEF CopyWritten, Inv, CopyInv
<1>. QED BY <1>1, <1>2, <1>3, PTL DEF Spec, MigratesOnce
=============================================================================
