---------------------------- MODULE UpdatesProofs ----------------------------
(***************************************************************************)
(* Updates: the bar says "done" only when an artifact is staged, for any    *)
(* number of downloads and of events under way.                             *)
(***************************************************************************)
EXTENDS Updates, TLAPS

\* What the invariant needs of the types.
Event == {"available", "progress", "done", "error"}
Types ==
  /\ events \in Seq(Event) /\ staged \in BOOLEAN
  /\ bar \in [progress: {"null", "running", "done"}, downloading: BOOLEAN]
  /\ download \in [Downloads -> {"none", "running", "extracted", "ended", "silent"}]

\* Every "done" under way follows a staging: the path is stored before the event
\* is emitted, and what is staged is never taken away.
EventsCovered == \A i \in 1..Len(events) : events[i] = "done" => staged
StagedInv == EventsCovered /\ \A d \in Downloads : download[d] = "extracted" => staged
Inv == Types /\ StagedInv /\ DoneMeansStaged

LEMMA Initial == Init => Inv
<1> SUFFICES ASSUME Init PROVE Inv
  OBVIOUS
<1>1. events \in Seq(Event) /\ EventsCovered
  BY DEF Init, EventsCovered
<1>2. download \in [Downloads -> {"none", "running", "extracted", "ended", "silent"}]
      /\ \A d \in Downloads : download[d] # "extracted"
  BY DEF Init
<1>. QED BY <1>1, <1>2 DEF Init, Inv, Types, StagedInv, EventsCovered, DoneMeansStaged

\* An event that is covered may join the queue; handling one shortens it.
LEMMA EmitKeeps ==
  ASSUME Inv, NEW e \in Event, Emit(e), staged' \in BOOLEAN, staged => staged',
         e = "done" => staged'
  PROVE  events' \in Seq(Event) /\ EventsCovered'
BY DEF Inv, Types, StagedInv, EventsCovered, Emit, Event

LEMMA HandledKeeps ==
  ASSUME Inv, NEW e \in Event, Handled(e), staged' = staged
  PROVE  events' \in Seq(Event) /\ EventsCovered' /\ (e = "done" => staged)
<1>1. events # <<>> /\ events' = Tail(events) /\ events \in Seq(Event) /\ events[1] = e
  BY DEF Handled, Inv, Types
<1>2. events' \in Seq(Event) /\ Len(events') = Len(events) - 1 /\ 1 \in 1..Len(events)
  BY <1>1
<1>3. \A i \in 1..Len(events') : events'[i] = events[i + 1] /\ i + 1 \in 1..Len(events)
  BY <1>1, <1>2
<1>. QED BY <1>1, <1>2, <1>3 DEF Inv, StagedInv, EventsCovered

\* One step per action: the stage comes before the event, and the bar copies an
\* event's claim.
LEMMA Inductive == Inv /\ [Next]_updateVars => Inv'
<1> SUFFICES ASSUME Inv, [Next]_updateVars PROVE Inv'
  OBVIOUS
<1>t. "available" \in Event /\ "progress" \in Event /\ "done" \in Event /\ "error" \in Event
  BY DEF Event
<1>1. CASE CheckForUpdate
  BY <1>1 DEF CheckForUpdate, Inv, Types, StagedInv, EventsCovered, DoneMeansStaged
<1>2. ASSUME NEW d \in Downloads, StartDownload(d) PROVE Inv'
  BY <1>2 DEF StartDownload, Start, Inv, Types, StagedInv, EventsCovered, DoneMeansStaged
<1>3. CASE BackgroundCheck
  <2>1. Emit("available") /\ staged' = staged /\ staged \in BOOLEAN
    BY <1>3 DEF BackgroundCheck, Emit, Inv, Types
  <2>2. events' \in Seq(Event) /\ EventsCovered'
    BY <2>1, <1>t, EmitKeeps
  <2>. QED BY <1>3, <2>1, <2>2 DEF BackgroundCheck, Inv, Types, StagedInv, DoneMeansStaged
<1>4. ASSUME NEW d \in Downloads, Progress(d) PROVE Inv'
  <2>1. Emit("progress") /\ staged' = staged /\ staged \in BOOLEAN
    BY <1>4 DEF Progress, Inv, Types
  <2>2. events' \in Seq(Event) /\ EventsCovered'
    BY <2>1, <1>t, EmitKeeps
  <2>. QED BY <1>4, <2>1, <2>2 DEF Progress, Inv, Types, StagedInv, DoneMeansStaged
<1>5. ASSUME NEW d \in Downloads, Fail(d) PROVE Inv'
  <2>1. staged' = staged /\ staged \in BOOLEAN
    BY <1>5 DEF Fail, Inv, Types
  <2>2. events' \in Seq(Event) /\ EventsCovered'
    BY <1>5, <2>1, <1>t, EmitKeeps DEF Fail, Inv, Types, StagedInv, EventsCovered
  <2>. QED BY <1>5, <2>1, <2>2 DEF Fail, Inv, Types, StagedInv, DoneMeansStaged
<1>6. ASSUME NEW d \in Downloads, Succeed(d) PROVE Inv'
  <2>1. CASE download[d] = "running" /\ staged' = TRUE
              /\ download' = [download EXCEPT ![d] = "extracted"] /\ UNCHANGED events
    BY <1>6, <2>1 DEF Succeed, Inv, Types, StagedInv, EventsCovered, DoneMeansStaged
  <2>2. CASE download[d] = "extracted" /\ Emit("done")
              /\ download' = [download EXCEPT ![d] = "ended"] /\ UNCHANGED staged
    <3>1. staged /\ staged' = staged /\ staged \in BOOLEAN
      BY <2>2 DEF Inv, Types, StagedInv
    <3>2. events' \in Seq(Event) /\ EventsCovered'
      BY <2>2, <3>1, <1>t, EmitKeeps
    <3>. QED BY <1>6, <2>2, <3>1, <3>2 DEF Succeed, Inv, Types, StagedInv, DoneMeansStaged
  <2>. QED BY <1>6, <2>1, <2>2 DEF Succeed, StagedFirst
<1>7. ASSUME NEW d \in Downloads, Available(d) PROVE Inv'
  <2>1. events' \in Seq(Event) /\ EventsCovered' /\ staged' = staged
    BY <1>7, <1>t, HandledKeeps DEF Available
  <2>. QED BY <1>7, <2>1 DEF Available, Start, Inv, Types, StagedInv, DoneMeansStaged
<1>8. ASSUME NEW e \in {"progress", "done", "error"}, Shown(e) PROVE Inv'
  <2>1. e \in Event /\ Handled(e) /\ staged' = staged /\ UNCHANGED download
    BY <1>8 DEF Shown, Event
  <2>2. events' \in Seq(Event) /\ EventsCovered' /\ (e = "done" => staged)
    BY <2>1, HandledKeeps
  <2>3. /\ bar' \in [progress: {"null", "running", "done"}, downloading: BOOLEAN]
        /\ bar'.progress = "done" => e = "done" \/ bar.progress = "done"
    <3>1. CASE listeners = {}
      BY <1>8, <3>1 DEF Shown, Inv, Types
    <3>2. CASE listeners # {} /\ e = "progress"
      BY <1>8, <3>2 DEF Shown, Inv, Types
    <3>3. CASE listeners # {} /\ e = "done"
      <4>1. bar' = Reset("done")
        BY <1>8, <3>3 DEF Shown
      <4>. QED BY <3>3, <4>1 DEF Reset
    <3>4. CASE listeners # {} /\ e = "error"
      <4>1. bar' = Reset("null")
        BY <1>8, <3>4 DEF Shown
      <4>. QED BY <4>1 DEF Reset
    <3>. QED BY <3>1, <3>2, <3>3, <3>4
  <2>. QED BY <2>1, <2>2, <2>3 DEF Inv, Types, StagedInv, DoneMeansStaged
<1>9. CASE UNCHANGED updateVars
  BY <1>9 DEF updateVars, Inv, Types, StagedInv, EventsCovered, DoneMeansStaged
<1>. QED BY <1>1, <1>2, <1>3, <1>4, <1>5, <1>6, <1>7, <1>8, <1>9 DEF Next, Ending, Handling

\* Install is offered only for an artifact that is staged, whichever downloads
\* overlap and whatever order their events are handled in.
THEOREM DoneIsStaged == Spec => []DoneMeansStaged
<1>1. Inv => DoneMeansStaged
  BY DEF Inv
<1>. QED BY <1>1, Initial, Inductive, PTL DEF Spec

\* The rest of the types: the events under way stay within their bound.
RestTypes ==
  /\ known \in BOOLEAN /\ announced \in BOOLEAN /\ listeners \subseteq Downloads
  /\ Len(events) <= MaxEvents

LEMMA RestStep ==
  ASSUME MaxEvents \in Nat, Inv, RestTypes, [Next]_updateVars
  PROVE  RestTypes'
<1>t. events \in Seq(Event) /\ Len(events) \in Nat
  BY DEF Inv, Types
<1>1. ASSUME NEW e \in Event, Emit(e) PROVE Len(events') <= MaxEvents
  BY <1>1, <1>t DEF Emit, Room
<1>2. ASSUME NEW e, Handled(e) PROVE Len(events') <= MaxEvents
  <2>1. Len(events') = Len(events) - 1
    BY <1>2, <1>t DEF Handled
  <2>. QED BY <2>1, <1>t DEF RestTypes
<1>t2. "available" \in Event /\ "progress" \in Event /\ "done" \in Event /\ "error" \in Event
  BY DEF Event
<1>3. Len(events') <= MaxEvents
  <2>1. \/ UNCHANGED events
        \/ \E e \in Event : Emit(e)
        \/ \E e : Handled(e)
    BY <1>t2 DEF Next, updateVars, CheckForUpdate, BackgroundCheck, Handling, Available, Shown,
      StartDownload, Progress, Ending, Fail, Succeed, StagedFirst, Emit
  <2>. QED BY <1>1, <1>2, <2>1 DEF RestTypes
<1>. QED BY <1>3 DEF RestTypes, Next, updateVars, CheckForUpdate, BackgroundCheck, Handling,
  Available, Shown, Start, StartDownload, Progress, Ending, Fail, Succeed

\* Every variable of the update keeps its type.
THEOREM TypeCorrect == ASSUME MaxEvents \in Nat PROVE Spec => []TypeOK
<1>1. Init => Inv /\ RestTypes
  <2>. SUFFICES ASSUME Init PROVE Inv /\ RestTypes
    OBVIOUS
  <2>1. Inv
    BY Initial
  <2>2. Len(events) <= MaxEvents
    BY DEF Init
  <2>3. RestTypes
    BY <2>2 DEF Init, RestTypes
  <2>. QED BY <2>1, <2>3
<1>2. Inv /\ RestTypes /\ [Next]_updateVars => (Inv /\ RestTypes)'
  BY Inductive, RestStep
<1>3. Inv /\ RestTypes => TypeOK
  BY DEF Inv, Types, RestTypes, TypeOK, Event
<1>. QED BY <1>1, <1>2, <1>3, PTL DEF Spec
=============================================================================
