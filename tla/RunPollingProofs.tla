-------------------------- MODULE RunPollingProofs --------------------------
(***************************************************************************)
(* RunPolling for any number of workflows, runs and ticks, logs of any     *)
(* length and any number of failing calls: what the window shows of a run  *)
(* is its log without a gap, and as long as no two ticks overlap it is the *)
(* log exactly once, announced once.                                       *)
(***************************************************************************)
EXTENDS RunPolling, FiniteSetTheorems, TLAPS

-----------------------------------------------------------------------------
(* The text of a chunk.                                                     *)

Position == Runs \X (1 .. MaxLog)
Part(r, first, last) == {<<r, k>> : k \in first .. last}

LEMMA PieceIs ==
  ASSUME NEW r \in Runs, NEW u \in 0 .. MaxLog, NEW o \in 0 .. u
  PROVE  /\ Piece(r, o, u) \in Seq(Position)
         /\ Len(Piece(r, o, u)) = u - o
         /\ Range(Piece(r, o, u)) = Part(r, o + 1, u)
<1>1. u - o \in Nat /\ Piece(r, o, u) = [k \in 1 .. u - o |-> <<r, o + k>>]
  BY BoundsAssumption DEF Piece
<1>2. \A k \in 1 .. u - o : <<r, o + k>> \in Position
  BY BoundsAssumption DEF Position
<1>3. Piece(r, o, u) \in Seq(Position) /\ Len(Piece(r, o, u)) = u - o
  <2> DEFINE n == u - o
  <2>1. n \in Nat /\ Piece(r, o, u) \in [1 .. n -> Position]
    BY <1>1, <1>2
  <2>. HIDE DEF n
  <2>2. Piece(r, o, u) \in Seq(Position) /\ Len(Piece(r, o, u)) = n
    BY <2>1
  <2>. QED BY <2>2 DEF n
<1>4. \A k \in o + 1 .. u : k - o \in 1 .. u - o /\ o + (k - o) = k
  BY BoundsAssumption
<1>5. \A k \in 1 .. u - o : o + k \in o + 1 .. u
  BY BoundsAssumption
<1>6. DOMAIN Piece(r, o, u) = 1 .. u - o /\ \A k \in 1 .. u - o : Piece(r, o, u)[k] = <<r, o + k>>
  BY <1>1
<1>7. Range(Piece(r, o, u)) = {<<r, o + k>> : k \in 1 .. u - o}
  BY <1>6 DEF Range
<1>8. {<<r, o + k>> : k \in 1 .. u - o} = {<<r, k>> : k \in o + 1 .. u}
  BY <1>4, <1>5
<1>. QED BY <1>3, <1>7, <1>8 DEF Part

LEMMA RangeOfConcat ==
  ASSUME NEW S, NEW s \in Seq(S), NEW p \in Seq(S)
  PROVE  Range(s \o p) = Range(s) \cup Range(p)
<1>1. /\ DOMAIN s = 1 .. Len(s) /\ Len(s) \in Nat /\ DOMAIN p = 1 .. Len(p) /\ Len(p) \in Nat
      /\ DOMAIN (s \o p) = 1 .. Len(s) + Len(p)
  OBVIOUS
<1>2. /\ \A k \in 1 .. Len(s) : k \in 1 .. Len(s) + Len(p) /\ (s \o p)[k] = s[k]
      /\ \A k \in 1 .. Len(p) : /\ Len(s) + k \in 1 .. Len(s) + Len(p)
                                /\ (s \o p)[Len(s) + k] = p[k]
      /\ \A k \in 1 .. Len(s) + Len(p) :
            IF k \in 1 .. Len(s) THEN (s \o p)[k] = s[k]
            ELSE k - Len(s) \in 1 .. Len(p) /\ (s \o p)[k] = p[k - Len(s)]
  OBVIOUS
<1>. QED BY <1>1, <1>2 DEF Range

LEMMA PiecesJoin ==
  ASSUME NEW r \in Runs, NEW u \in 0 .. MaxLog, NEW o \in 0 .. u
  PROVE  Piece(r, 0, o) \o Piece(r, o, u) = Piece(r, 0, u)
<1>1. o \in 0 .. MaxLog /\ 0 \in 0 .. o /\ 0 \in 0 .. u /\ o \in Nat /\ u \in Nat /\ o <= u
  BY BoundsAssumption
<1> DEFINE a == Piece(r, 0, o)  b == Piece(r, o, u)  c == Piece(r, 0, u)
<1>2. /\ a \in Seq(Position) /\ b \in Seq(Position) /\ c \in Seq(Position)
      /\ Len(a) = o - 0 /\ Len(b) = u - o /\ Len(c) = u - 0
  BY <1>1, PieceIs
<1>3. a \o b \in Seq(Position) /\ Len(a \o b) = Len(c)
  BY <1>1, <1>2
<1>4. ASSUME NEW k \in 1 .. u PROVE (a \o b)[k] = c[k]
  <2>1. c[k] = <<r, k>>
    BY <1>1 DEF Piece
  <2>2. CASE k <= o
    <3>1. (a \o b)[k] = a[k]
      BY <1>1, <1>2, <2>2
    <3>2. a[k] = <<r, k>>
      BY <1>1, <2>2 DEF Piece
    <3>. QED BY <2>1, <3>1, <3>2
  <2>3. CASE k > o
    <3>1. (a \o b)[k] = b[k - o] /\ k - o \in 1 .. u - o /\ o + (k - o) = k
      <4> HIDE DEF a, b, c
      <4>. QED BY <1>1, <1>2, <2>3
    <3>2. b[k - o] = <<r, o + (k - o)>>
      BY <3>1 DEF Piece
    <3>. QED BY <2>1, <3>1, <3>2
  <2>4. k <= o \/ k > o
    BY <1>1
  <2>. HIDE DEF a, b, c
  <2>. QED BY <2>2, <2>3, <2>4
<1>. HIDE DEF a, b, c
<1>5. DOMAIN (a \o b) = DOMAIN c
  BY <1>1, <1>2, <1>3
<1>6. \A k \in 1 .. Len(c) : (a \o b)[k] = c[k]
  BY <1>1, <1>2, <1>4
<1>7. a \o b = c
  BY <1>2, <1>3, <1>5, <1>6
<1>. QED BY <1>7 DEF a, b, c

-----------------------------------------------------------------------------
(* The inductive invariant.                                                 *)

Chunk == [upto : 0 .. MaxLog, done : BOOLEAN]
Tick == [at : SUBSET Item, todo : SUBSET Item, pc : {"idle", "waiting", "answered"},
         chunk : Chunk]
Entry == [run : 0 .. MaxRuns, offset : 0 .. MaxLog, text : Seq(Position), done : BOOLEAN]

Types ==
  /\ asked \in [Runs -> Workflows \cup {NoWorkflow}]
  /\ entry \in [Workflows -> Entry]
  /\ note \in [Runs -> {"none", "asked", "running", "complete"}]
  /\ told \in [Runs -> Nat]
  /\ len \in [Runs -> 0 .. MaxLog]
  /\ over \subseteq Runs
  /\ tick \in [Ticks -> Tick]
  /\ errors \in 0 .. MaxErrors
  /\ overlap \in BOOLEAN

\* A tick in flight polls one entry.
Shapes ==
  \A t \in Ticks :
    IF tick[t].pc = "idle" THEN tick[t] = Idle ELSE \E i \in Item : tick[t].at = {i}

\* A run that the window shows or polls has answered its start, for one workflow.
Started(r, w) == note[r] \in {"running", "complete"} /\ asked[r] = w
AskedInv == \A r \in Runs : note[r] # "none" => asked[r] \in Workflows

\* The text of an entry has the whole log up to the offset, in some order and
\* number; done is set with the offset of the whole log only.
Follows(w, r) ==
  /\ Started(r, w)
  /\ entry[w].offset <= len[r]
  /\ Range(entry[w].text) \subseteq Part(r, 1, len[r])
  /\ Part(r, 1, entry[w].offset) \subseteq Range(entry[w].text)
  /\ entry[w].done => r \in over /\ entry[w].offset = len[r]
EntryInv ==
  \A w \in Workflows : IF Shown(w) THEN Follows(w, entry[w].run) ELSE entry[w] = NoEntry

\* As long as the run of an item is shown, the text before its offset stays.
Items(t) == tick[t].at \cup tick[t].todo
ItemOk(i) ==
  /\ Started(i.run, i.workflow)
  /\ i.offset <= len[i.run]
  /\ StillShown(i) => Part(i.run, 1, i.offset) \subseteq Range(entry[i.workflow].text)
ItemInv == \A t \in Ticks : \A i \in Items(t) : ItemOk(i)

\* An answer on its way has a piece of the log, or the rest of it.
ChunkInv ==
  \A t \in Ticks : tick[t].pc = "answered" =>
    \A i \in tick[t].at :
      /\ tick[t].chunk.upto \in i.offset .. len[i.run]
      /\ tick[t].chunk.done => i.run \in over /\ tick[t].chunk.upto = len[i.run]

Inv == Types /\ Shapes /\ AskedInv /\ EntryInv /\ ItemInv /\ ChunkInv

-----------------------------------------------------------------------------
(* What every action on a tick does to it.                                  *)

LEMMA NullTypes ==
  /\ NoEntry \in Entry /\ Idle \in Tick /\ NoChunk \in Chunk
  /\ Range(NoEntry.text) = {}
BY BoundsAssumption DEF NoEntry, Entry, Idle, Tick, NoChunk, Chunk, Range

\* A tick that has just called for the log of entry i.
Calls(i, todo) == [at |-> {i}, todo |-> todo \ {i}, pc |-> "waiting", chunk |-> NoChunk]

LEMMA CallsIs ==
  ASSUME NEW todo \in SUBSET Item, NEW i \in todo
  PROVE  /\ [Idle EXCEPT !.at = {i}, !.todo = todo \ {i}, !.pc = "waiting"] = Calls(i, todo)
         /\ Calls(i, todo) \in Tick
         /\ Calls(i, todo).at = {i} /\ Calls(i, todo).todo = todo \ {i}
         /\ Calls(i, todo).pc = "waiting"
<1>1. [Idle EXCEPT !.at = {i}, !.todo = todo \ {i}, !.pc = "waiting"] = Calls(i, todo)
  <2> DEFINE a == [Idle EXCEPT !.at = {i}]
             b == [a EXCEPT !.todo = todo \ {i}]
  <2>1. a = [at |-> {i}, todo |-> {}, pc |-> "idle", chunk |-> NoChunk]
    BY DEF Idle
  <2>. HIDE DEF a
  <2>2. b = [at |-> {i}, todo |-> todo \ {i}, pc |-> "idle", chunk |-> NoChunk]
    BY <2>1
  <2>. HIDE DEF b
  <2>3. [b EXCEPT !.pc = "waiting"] = Calls(i, todo)
    BY <2>2 DEF Calls
  <2>. QED BY <2>3 DEF a, b
<1>2. {i} \in SUBSET Item /\ todo \ {i} \in SUBSET Item
  OBVIOUS
<1>3. Calls(i, todo) \in Tick
  BY <1>2, NullTypes DEF Calls, Tick
<1>4. /\ Calls(i, todo).at = {i} /\ Calls(i, todo).todo = todo \ {i}
      /\ Calls(i, todo).pc = "waiting"
  BY DEF Calls
<1>. QED BY <1>1, <1>3, <1>4

LEMMA GoOnDoes ==
  ASSUME Types, NEW t \in Ticks, NEW todo \in SUBSET Item, GoOn(t, todo)
  PROVE  /\ tick' \in [Ticks -> Tick]
         /\ \A u \in Ticks : u # t => tick'[u] = tick[u]
         /\ \/ todo = {} /\ tick'[t] = Idle
            \/ \E i \in todo : tick'[t] = Calls(i, todo)
<1>1. CASE todo = {}
  BY <1>1, NullTypes DEF GoOn, Types
<1>2. CASE todo # {}
  <2>1. PICK i \in todo : tick' = [tick EXCEPT ![t] = Calls(i, todo)]
    BY <1>2, CallsIs DEF GoOn
  <2>2. Calls(i, todo) \in Tick
    BY CallsIs
  <2>. QED BY <2>1, <2>2 DEF Types
<1>. QED BY <1>1, <1>2

\* The entries that a tick has yet to poll become the items of a tick that goes on.
LEMMA GoOnKeeps ==
  ASSUME Inv, NEW t \in Ticks, NEW todo \in SUBSET Item, GoOn(t, todo)
  PROVE  /\ tick' \in [Ticks -> Tick]
         /\ Shapes'
         /\ \A u \in Ticks : u # t => tick'[u] = tick[u]
         /\ Items(t)' = todo
         /\ tick'[t].pc # "answered"
<1>1. /\ tick' \in [Ticks -> Tick]
      /\ \A u \in Ticks : u # t => tick'[u] = tick[u]
      /\ \/ todo = {} /\ tick'[t] = Idle
         \/ \E i \in todo : tick'[t] = Calls(i, todo)
  BY GoOnDoes DEF Inv
<1>2. ASSUME todo = {}, tick'[t] = Idle
      PROVE  /\ tick'[t].at \cup tick'[t].todo = todo
             /\ tick'[t].pc = "idle"
  BY <1>2 DEF Idle
<1>3. ASSUME NEW i \in todo, tick'[t] = Calls(i, todo)
      PROVE  /\ tick'[t].at \cup tick'[t].todo = todo
             /\ tick'[t].pc = "waiting" /\ tick'[t].at = {i}
  <2>1. /\ Calls(i, todo).at = {i} /\ Calls(i, todo).todo = todo \ {i}
        /\ Calls(i, todo).pc = "waiting"
    BY CallsIs
  <2>. QED BY <1>3, <2>1
<1>4. /\ tick'[t].at \cup tick'[t].todo = todo
      /\ tick'[t].pc # "answered"
      /\ IF tick'[t].pc = "idle" THEN tick'[t] = Idle ELSE \E i \in Item : tick'[t].at = {i}
  BY <1>1, <1>2, <1>3
<1>5. \A u \in Ticks \ {t} :
        IF tick'[u].pc = "idle" THEN tick'[u] = Idle ELSE \E i \in Item : tick'[u].at = {i}
  BY <1>1 DEF Inv, Shapes
<1>6. Shapes'
  BY <1>4, <1>5 DEF Shapes
<1>. QED BY <1>1, <1>4, <1>6 DEF Items

-----------------------------------------------------------------------------
(* Every action keeps the invariant.                                        *)

\* What the service and the starts of runs do to a run whose start has answered.
Later ==
  /\ \A r \in Runs : note[r] \in {"running", "complete"} =>
        note'[r] \in {"running", "complete"} /\ asked'[r] = asked[r]
  /\ \A r \in Runs : len[r] <= len'[r]
  /\ \A r \in over : r \in over' /\ len'[r] = len[r]

LEMMA PartGrows ==
  ASSUME NEW r \in Runs, NEW m \in 0 .. MaxLog, NEW n \in 0 .. MaxLog, m <= n
  PROVE  Part(r, 1, m) \subseteq Part(r, 1, n)
<1>1. \A k \in 1 .. m : k \in 1 .. n
  BY BoundsAssumption
<1>. QED BY <1>1 DEF Part

\* The types of an entry and of the items of a tick.
LEMMA EntryType ==
  ASSUME Types, NEW w \in Workflows
  PROVE  /\ entry[w].run \in 0 .. MaxRuns /\ entry[w].offset \in 0 .. MaxLog
         /\ entry[w].text \in Seq(Position) /\ entry[w].done \in BOOLEAN
         /\ Shown(w) => entry[w].run \in Runs
<1>1. entry[w] \in Entry
  BY DEF Types
<1>. QED BY <1>1, BoundsAssumption DEF Entry, Shown, Runs

LEMMA ItemType ==
  ASSUME Types, NEW t \in Ticks, NEW i \in Items(t)
  PROVE  i \in Item /\ i.workflow \in Workflows /\ i.run \in Runs /\ i.offset \in 0 .. MaxLog
<1>1. tick[t] \in Tick
  BY DEF Types
<1>. QED BY <1>1 DEF Items, Tick, Item

LEMMA LaterKeepsEntries ==
  ASSUME Inv, Types', Later, entry' = entry
  PROVE  EntryInv'
<1>. SUFFICES ASSUME NEW w \in Workflows, Shown(w)
              PROVE  Follows(w, entry[w].run)'
  BY DEF Inv, EntryInv, Follows, Shown
<1> DEFINE r == entry[w].run
<1>1. r \in Runs /\ entry[w].offset \in 0 .. MaxLog
  BY EntryType DEF Inv
<1>2. len[r] \in 0 .. MaxLog /\ len'[r] \in 0 .. MaxLog /\ len[r] <= len'[r]
  BY <1>1 DEF Inv, Types, Later
<1>3. /\ Started(r, w)
      /\ entry[w].offset <= len[r]
      /\ Range(entry[w].text) \subseteq Part(r, 1, len[r])
      /\ Part(r, 1, entry[w].offset) \subseteq Range(entry[w].text)
      /\ entry[w].done => r \in over /\ entry[w].offset = len[r]
  BY DEF Inv, EntryInv, Follows
<1>4. Started(r, w)'
  BY <1>1, <1>3 DEF Started, Later
<1>5. entry[w].offset <= len'[r]
  BY <1>1, <1>2, <1>3, BoundsAssumption
<1>6. Range(entry[w].text) \subseteq Part(r, 1, len'[r])
  BY <1>1, <1>2, <1>3, PartGrows
<1>7. entry[w].done => r \in over' /\ entry[w].offset = len'[r]
  BY <1>1, <1>3 DEF Later
<1>. QED BY <1>3, <1>4, <1>5, <1>6, <1>7 DEF Follows

LEMMA LaterKeepsTicks ==
  ASSUME Inv, Types', Later, tick' = tick, entry' = entry
  PROVE  Shapes' /\ ItemInv' /\ ChunkInv'
<1>1. Shapes'
  BY DEF Inv, Shapes
<1>2. ASSUME NEW t \in Ticks, NEW i \in Items(t)
      PROVE  /\ Started(i.run, i.workflow)'
             /\ i.offset <= len'[i.run] /\ len[i.run] <= len'[i.run]
             /\ len[i.run] \in 0 .. MaxLog /\ len'[i.run] \in 0 .. MaxLog
             /\ i.offset \in 0 .. MaxLog /\ i.run \in Runs
  <2>1. i.run \in Runs /\ i.offset \in 0 .. MaxLog
    BY ItemType DEF Inv
  <2>2. Started(i.run, i.workflow) /\ i.offset <= len[i.run]
    BY DEF Inv, ItemInv, ItemOk
  <2>3. len[i.run] \in 0 .. MaxLog /\ len'[i.run] \in 0 .. MaxLog /\ len[i.run] <= len'[i.run]
    BY <2>1 DEF Inv, Types, Later
  <2>4. Started(i.run, i.workflow)'
    BY <2>1, <2>2 DEF Started, Later
  <2>. QED BY <2>1, <2>2, <2>3, <2>4, BoundsAssumption
<1>3. ItemInv'
  BY <1>2 DEF Inv, ItemInv, ItemOk, Items, StillShown, Shown
<1>4. ASSUME NEW t \in Ticks, tick[t].pc = "answered", NEW i \in tick[t].at
      PROVE  /\ tick[t].chunk.upto \in i.offset .. len'[i.run]
             /\ tick[t].chunk.done => i.run \in over' /\ tick[t].chunk.upto = len'[i.run]
  <2>1. i \in Items(t)
    BY DEF Items
  <2>2. /\ tick[t].chunk.upto \in i.offset .. len[i.run]
        /\ tick[t].chunk.done => i.run \in over /\ tick[t].chunk.upto = len[i.run]
    BY <1>4 DEF Inv, ChunkInv
  <2>3. tick[t].chunk.upto \in i.offset .. len'[i.run]
    BY <1>2, <2>1, <2>2, BoundsAssumption
  <2>. QED BY <2>2, <2>3 DEF Later
<1>. QED BY <1>1, <1>3, <1>4 DEF ChunkInv

LEMMA AskRunKeeps ==
  ASSUME Inv, NEW w \in Workflows, AskRun(w) PROVE Inv'
<1>1. PICK r \in Runs : /\ asked[r] = NoWorkflow
                        /\ asked' = [asked EXCEPT ![r] = w]
                        /\ note' = [note EXCEPT ![r] = "asked"]
  BY DEF AskRun
<1>2. UNCHANGED <<entry, told, len, over, tick, errors, overlap>>
  BY DEF AskRun, service
<1>3. Types'
  BY <1>1, <1>2 DEF Inv, Types
<1>4. \A q \in Runs : IF q = r THEN asked'[q] = w /\ note'[q] = "asked"
                      ELSE asked'[q] = asked[q] /\ note'[q] = note[q]
  BY <1>1 DEF Inv, Types
<1>5. AskedInv'
  BY <1>4 DEF Inv, AskedInv
\* The run asked for is a fresh one: nothing shows or polls it.
<1>6. \A v \in Workflows : Shown(v) => entry[v].run # r
  BY <1>1, WorkflowsAssumption DEF Inv, EntryInv, Follows, Started
<1>7. \A t \in Ticks : \A i \in Items(t) : i.run # r
  <2>. SUFFICES ASSUME NEW t \in Ticks, NEW i \in Items(t) PROVE i.run # r
    OBVIOUS
  <2>1. i.workflow \in Workflows /\ asked[i.run] = i.workflow
    BY ItemType DEF Inv, ItemInv, ItemOk, Started
  <2>. QED BY <1>1, <2>1, WorkflowsAssumption
<1>8. EntryInv'
  <2>. SUFFICES ASSUME NEW v \in Workflows, Shown(v) PROVE Started(entry[v].run, v)'
    BY <1>2 DEF Inv, EntryInv, Follows, Shown
  <2>1. entry[v].run \in Runs /\ Started(entry[v].run, v)
    BY EntryType DEF Inv, EntryInv, Follows
  <2>. QED BY <1>2, <1>4, <1>6, <2>1 DEF Started
<1>9. ItemInv'
  <2>1. ASSUME NEW t \in Ticks, NEW i \in Items(t) PROVE Started(i.run, i.workflow)'
    <3>1. i.run \in Runs /\ Started(i.run, i.workflow)
      BY ItemType DEF Inv, ItemInv, ItemOk
    <3>. QED BY <1>4, <1>7, <3>1 DEF Started
  <2>. QED BY <1>2, <2>1 DEF Inv, ItemInv, ItemOk, Items, StillShown, Shown
<1>10. Shapes' /\ ChunkInv'
  BY <1>2 DEF Inv, Shapes, ChunkInv
<1>. QED BY <1>3, <1>5, <1>8, <1>9, <1>10 DEF Inv

LEMMA RunRefusedKeeps ==
  ASSUME Inv, NEW r \in Runs, RunRefused(r) PROVE Inv'
<1>1. /\ note[r] = "asked"
      /\ note' = [note EXCEPT ![r] = "complete"]
      /\ told' = [told EXCEPT ![r] = @ + 1]
      /\ UNCHANGED <<asked, entry, len, over, tick, errors, overlap>>
  BY DEF RunRefused, service
<1>2. Types'
  BY <1>1 DEF Inv, Types
<1>3. \A q \in Runs : IF q = r THEN note'[q] = "complete" ELSE note'[q] = note[q]
  BY <1>1 DEF Inv, Types
<1>4. Later /\ AskedInv'
  BY <1>1, <1>3 DEF Inv, Types, Later, AskedInv
<1>. QED BY <1>1, <1>2, <1>4, LaterKeepsEntries, LaterKeepsTicks DEF Inv

LEMMA LogKeeps ==
  ASSUME Inv, NEW r \in Runs, Log(r) PROVE Inv'
<1>1. /\ r \notin over /\ len[r] < MaxLog /\ len' = [len EXCEPT ![r] = @ + 1]
      /\ UNCHANGED <<asked, entry, note, told, over, tick, errors, overlap>>
  BY DEF Log
<1>2. len[r] \in 0 .. MaxLog /\ len[r] + 1 \in 0 .. MaxLog
  BY <1>1, BoundsAssumption DEF Inv, Types
<1>3. Types'
  BY <1>1, <1>2 DEF Inv, Types
<1>4. \A q \in Runs : IF q = r THEN len'[q] = len[r] + 1 ELSE len'[q] = len[q]
  BY <1>1 DEF Inv, Types
<1>5. \A q \in Runs : len[q] <= len'[q]
  BY <1>2, <1>4 DEF Inv, Types
<1>6. Later /\ AskedInv'
  BY <1>1, <1>4, <1>5 DEF Inv, Types, Later, AskedInv
<1>. QED BY <1>1, <1>3, <1>6, LaterKeepsEntries, LaterKeepsTicks DEF Inv

LEMMA EndKeeps ==
  ASSUME Inv, NEW r \in Runs, End(r) PROVE Inv'
<1>1. /\ over' = over \cup {r}
      /\ UNCHANGED <<asked, entry, note, told, len, tick, errors, overlap>>
  BY DEF End
<1>2. Types'
  BY <1>1 DEF Inv, Types
<1>3. \A q \in Runs : len[q] <= len[q]
  BY DEF Inv, Types
<1>4. Later /\ AskedInv'
  BY <1>1, <1>3 DEF Inv, Types, Later, AskedInv
<1>. QED BY <1>1, <1>2, <1>4, LaterKeepsEntries, LaterKeepsTicks DEF Inv

\* The entry of a run that has just started.
LEMMA FreshEntry ==
  ASSUME NEW r \in Runs
  PROVE  LET new == [NoEntry EXCEPT !.run = r]
         IN /\ new \in Entry /\ new.run = r /\ r # 0 /\ new.offset = 0 /\ new.done = FALSE
            /\ new.text = <<>> /\ Range(new.text) = {}
<1> DEFINE new == [NoEntry EXCEPT !.run = r]
<1>1. NoEntry \in Entry /\ r \in 0 .. MaxRuns /\ r # 0
  BY NullTypes, BoundsAssumption DEF Runs
<1>2. new \in Entry
  BY <1>1 DEF Entry
<1>3. /\ new.run = r /\ new.offset = NoEntry.offset /\ new.text = NoEntry.text
      /\ new.done = NoEntry.done
  BY <1>1 DEF Entry
<1>. HIDE DEF new
<1>4. /\ new.offset = 0 /\ new.done = FALSE
      /\ new.text = <<>> /\ Range(new.text) = {}
  BY <1>3, NullTypes DEF NoEntry
<1>. QED BY <1>1, <1>2, <1>3, <1>4 DEF new

\* The answer of RunWorkflow: the old entry goes, and with it what ticks hold of it.
LEMMA RunStartedKeeps ==
  ASSUME Inv, NEW r \in Runs, RunStarted(r) PROVE Inv'
<1>0. PICK w \in Workflows : w = asked[r]
  BY DEF RunStarted, Inv, AskedInv
<1> DEFINE new == [NoEntry EXCEPT !.run = r]
<1>1. /\ note[r] = "asked"
      /\ note' = [note EXCEPT ![r] = "running"]
      /\ entry' = [entry EXCEPT ![w] = new]
      /\ UNCHANGED <<asked, told, len, over, tick, errors, overlap>>
  BY <1>0 DEF RunStarted, service
<1>2. w = asked[r]
  BY <1>0
<1>3. /\ new \in Entry /\ new.run = r /\ r # 0 /\ new.offset = 0 /\ new.done = FALSE
      /\ Range(new.text) = {}
  BY FreshEntry
<1>. HIDE DEF new
<1>4. Types'
  BY <1>1, <1>2, <1>3 DEF Inv, Types
<1>5. /\ \A q \in Runs : IF q = r THEN note'[q] = "running" ELSE note'[q] = note[q]
      /\ \A v \in Workflows : IF v = w THEN entry'[v] = new ELSE entry'[v] = entry[v]
  BY <1>1, <1>2 DEF Inv, Types
<1>6. AskedInv'
  BY <1>1, <1>5 DEF Inv, AskedInv
<1>7. \A q \in Runs, v \in Workflows : Started(q, v) => Started(q, v)'
  BY <1>1, <1>5 DEF Started
<1>8. EntryInv'
  <2>1. ASSUME NEW v \in Workflows, v # w
        PROVE  IF Shown(v)' THEN Follows(v, entry[v].run)' ELSE entry'[v] = NoEntry
    <3>1. entry'[v] = entry[v] /\ Shown(v)' = Shown(v)
      BY <1>5, <2>1 DEF Shown
    <3>2. CASE Shown(v)
      <4>1. Follows(v, entry[v].run) /\ entry[v].run \in Runs
        BY <3>2, EntryType DEF Inv, EntryInv
      <4>2. Follows(v, entry[v].run)'
        BY <1>1, <1>7, <3>1, <4>1 DEF Follows
      <4>. QED BY <3>1, <3>2, <4>2
    <3>3. CASE ~Shown(v)
      BY <3>1, <3>3 DEF Inv, EntryInv
    <3>. QED BY <3>2, <3>3
  <2>2. Shown(w)' /\ Follows(w, r)' /\ entry'[w].run = r
    <3>1. entry'[w] = new /\ Shown(w)' /\ Started(r, w)'
      BY <1>1, <1>2, <1>3, <1>5 DEF Shown, Started, Inv, Types
    <3>2. 0 <= len'[r] /\ Part(r, 1, 0) = {}
      BY <1>1 DEF Part, Inv, Types
    <3>. QED BY <1>3, <3>1, <3>2 DEF Follows
  <2>3. \A v \in Workflows : IF Shown(v)' THEN Follows(v, entry[v].run)' ELSE entry'[v] = NoEntry
    BY <2>1, <2>2
  <2>. QED BY <2>3 DEF EntryInv
<1>9. ItemInv'
  <2>. SUFFICES ASSUME NEW t \in Ticks, NEW i \in Items(t)
                PROVE  ItemOk(i)'
    BY <1>1 DEF ItemInv, Items
  <2>1. i.run \in Runs /\ i.workflow \in Workflows
    BY ItemType DEF Inv
  <2>2. /\ Started(i.run, i.workflow)
        /\ i.offset <= len[i.run]
        /\ StillShown(i) => Part(i.run, 1, i.offset) \subseteq Range(entry[i.workflow].text)
    BY DEF Inv, ItemInv, ItemOk
  <2>3. i.run # r
    BY <1>1, <2>2 DEF Started
  <2>4. StillShown(i)' => StillShown(i) /\ entry'[i.workflow] = entry[i.workflow]
    BY <1>3, <1>5, <2>1, <2>3 DEF StillShown, Shown
  <2>. QED BY <1>1, <1>7, <2>1, <2>2, <2>4 DEF ItemOk
<1>10. Shapes' /\ ChunkInv'
  BY <1>1 DEF Inv, Shapes, ChunkInv
<1>. QED BY <1>4, <1>6, <1>8, <1>9, <1>10 DEF Inv

\* A tick whose call is answered keeps its items.
LEMMA AnswerIs ==
  ASSUME tick \in [Ticks -> Tick], NEW t \in Ticks, NEW c \in Chunk,
         tick' = [tick EXCEPT ![t].pc = "answered", ![t].chunk = c]
  PROVE  /\ tick' \in [Ticks -> Tick]
         /\ tick'[t].pc = "answered" /\ tick'[t].at = tick[t].at
         /\ tick'[t].todo = tick[t].todo /\ tick'[t].chunk = c
         /\ \A u \in Ticks : u # t => tick'[u] = tick[u]
<1> DEFINE a == [tick EXCEPT ![t].pc = "answered"]
<1>1. tick[t] \in Tick
  OBVIOUS
<1>2. tick' = [a EXCEPT ![t].chunk = c]
  OBVIOUS
<1>3. /\ a \in [Ticks -> Tick]
      /\ a[t].pc = "answered" /\ a[t].at = tick[t].at /\ a[t].todo = tick[t].todo
      /\ \A u \in Ticks : u # t => a[u] = tick[u]
  BY <1>1 DEF Tick
<1>. HIDE DEF a
<1>4. tick' = [u \in Ticks |-> IF u = t THEN [a[t] EXCEPT !.chunk = c] ELSE a[u]]
  BY <1>2, <1>3
<1>5. tick'[t] = [a[t] EXCEPT !.chunk = c] /\ \A u \in Ticks : u # t => tick'[u] = a[u]
  BY <1>4
<1>6. a[t] \in Tick
  BY <1>3
<1>7. /\ tick'[t] \in Tick /\ tick'[t].pc = a[t].pc /\ tick'[t].at = a[t].at
      /\ tick'[t].todo = a[t].todo /\ tick'[t].chunk = c
  BY <1>5, <1>6 DEF Tick
<1>8. tick' \in [Ticks -> Tick]
  BY <1>3, <1>4, <1>5, <1>7
<1>. QED BY <1>3, <1>5, <1>7, <1>8

\* PollRunLogs answers from the item's offset on.
LEMMA ServeIs ==
  ASSUME Inv, NEW t \in Ticks, Serve(t)
  PROVE  /\ tick' \in [Ticks -> Tick]
         /\ tick'[t].pc = "answered" /\ tick'[t].at = tick[t].at
         /\ tick'[t].todo = tick[t].todo
         /\ \A u \in Ticks : u # t => tick'[u] = tick[u]
         /\ \E i \in Items(t) :
              /\ tick[t].at = {i}
              /\ tick'[t].chunk.upto = len[i.run]
              /\ tick'[t].chunk.done => i.run \in over
<1>1. PICK i \in tick[t].at :
        tick' = [tick EXCEPT ![t].pc = "answered",
                             ![t].chunk = [upto |-> IF len[i.run] > i.offset THEN len[i.run]
                                                    ELSE i.offset,
                                           done |-> i.run \in over]]
  BY DEF Serve
<1> DEFINE upto == IF len[i.run] > i.offset THEN len[i.run] ELSE i.offset
           c == [upto |-> upto, done |-> i.run \in over]
<1>2. tick[t].pc = "waiting"
  BY DEF Serve
<1>3. tick \in [Ticks -> Tick] /\ tick[t] \in Tick
  BY DEF Inv, Types
<1>4. i \in Items(t) /\ i.run \in Runs /\ i.offset \in 0 .. MaxLog
  BY <1>1, ItemType DEF Items, Inv
<1>5. len[i.run] \in 0 .. MaxLog /\ i.offset <= len[i.run]
  BY <1>4 DEF Inv, Types, ItemInv, ItemOk
<1>6. upto = len[i.run]
  BY <1>4, <1>5, BoundsAssumption
<1>7. tick[t].at = {i}
  BY <1>1, <1>2 DEF Inv, Shapes
<1>8. c \in Chunk
  <2>1. (i.run \in over) \in BOOLEAN
    OBVIOUS
  <2>. QED BY <1>5, <1>6, <2>1 DEF Chunk
<1>9. c.upto = len[i.run] /\ (c.done => i.run \in over)
  BY <1>6
<1>10. tick' = [tick EXCEPT ![t].pc = "answered", ![t].chunk = c]
  BY <1>1
<1>. HIDE DEF c, upto
<1>11. /\ tick' \in [Ticks -> Tick]
       /\ tick'[t].pc = "answered" /\ tick'[t].at = tick[t].at
       /\ tick'[t].todo = tick[t].todo /\ tick'[t].chunk = c
       /\ \A u \in Ticks : u # t => tick'[u] = tick[u]
  BY <1>3, <1>8, <1>10, AnswerIs
<1>. QED BY <1>4, <1>7, <1>9, <1>11

LEMMA ServeKeeps ==
  ASSUME Inv, NEW t \in Ticks, Serve(t) PROVE Inv'
<1>2. UNCHANGED <<asked, entry, note, told, len, over, errors, overlap>>
  BY DEF Serve, service
<1>3. PICK i \in Items(t) :
        /\ tick[t].at = {i}
        /\ tick'[t].chunk.upto = len[i.run]
        /\ tick'[t].chunk.done => i.run \in over
  BY ServeIs
<1>4. i.run \in Runs /\ i.offset \in 0 .. MaxLog
  BY ItemType DEF Inv
<1>5. len[i.run] \in 0 .. MaxLog /\ i.offset <= len[i.run]
  BY <1>4 DEF Inv, Types, ItemInv, ItemOk
<1>12. /\ tick' \in [Ticks -> Tick]
       /\ tick'[t].pc = "answered" /\ tick'[t].at = {i} /\ tick'[t].todo = tick[t].todo
       /\ \A u \in Ticks : u # t => tick'[u] = tick[u]
  BY <1>3, ServeIs
<1>13. Types'
  BY <1>2, <1>12 DEF Inv, Types
<1>14. Shapes'
  <2>1. i \in Item
    BY <1>4, ItemType DEF Inv
  <2>2. \A u \in Ticks : IF tick'[u].pc = "idle" THEN tick'[u] = Idle
                         ELSE \E j \in Item : tick'[u].at = {j}
    BY <1>12, <2>1 DEF Inv, Shapes
  <2>. QED BY <2>2 DEF Shapes
<1>15. ItemInv'
  <2>1. \A u \in Ticks : Items(u)' = Items(u)
    BY <1>3, <1>12 DEF Items
  <2>. QED BY <1>2, <2>1 DEF Inv, ItemInv, ItemOk, Started, StillShown, Shown
<1>16. ChunkInv'
  <2>1. tick'[t].chunk.upto \in i.offset .. len[i.run]
    BY <1>3, <1>4, <1>5, BoundsAssumption
  <2>2. ASSUME NEW u \in Ticks, tick'[u].pc = "answered", NEW j \in tick'[u].at
        PROVE  /\ tick'[u].chunk.upto \in j.offset .. len[j.run]
               /\ tick'[u].chunk.done => j.run \in over /\ tick'[u].chunk.upto = len[j.run]
    BY <1>3, <1>12, <2>1, <2>2 DEF Inv, ChunkInv
  <2>. QED BY <1>2, <2>2 DEF ChunkInv
<1>17. AskedInv' /\ EntryInv'
  BY <1>2 DEF Inv, AskedInv, EntryInv, Follows, Started, Shown
<1>. QED BY <1>13, <1>14, <1>15, <1>16, <1>17 DEF Inv

\* A tick goes on: nothing is said of an answer, and of the items only what held.
LEMMA GoOnItems ==
  ASSUME Inv, NEW t \in Ticks, NEW todo \in SUBSET Item, GoOn(t, todo),
         UNCHANGED <<len, over>>,
         \A i \in todo : ItemOk(i)',
         \A u \in Ticks : \A i \in Items(u) : ItemOk(i)'
  PROVE  ItemInv' /\ ChunkInv'
<1>1. /\ \A u \in Ticks : u # t => tick'[u] = tick[u]
      /\ Items(t)' = todo /\ tick'[t].pc # "answered"
  BY GoOnKeeps
<1>2. \A u \in Ticks : u # t => Items(u)' = Items(u)
  BY <1>1 DEF Items
<1>3. ItemInv'
  BY <1>1, <1>2 DEF ItemInv
<1>4. ChunkInv'
  BY <1>1 DEF Inv, ChunkInv
<1>. QED BY <1>3, <1>4

\* A call fails: the rest of the items are those the tick had.
LEMMA FailKeeps ==
  ASSUME Inv, NEW t \in Ticks, Fail(t) PROVE Inv'
<1>1. /\ errors < MaxErrors /\ errors' = errors + 1
      /\ GoOn(t, tick[t].todo)
      /\ UNCHANGED <<asked, entry, note, told, len, over, overlap>>
  BY DEF Fail, service
<1>2. tick[t].todo \in SUBSET Item /\ tick[t].todo \subseteq Items(t)
  BY DEF Inv, Types, Tick, Items
<1>3. tick' \in [Ticks -> Tick] /\ Shapes'
  BY <1>1, <1>2, GoOnKeeps
<1>4. Types'
  BY <1>1, <1>3, BoundsAssumption DEF Inv, Types
<1>5. \A u \in Ticks : \A i \in Items(u) : ItemOk(i)'
  BY <1>1 DEF Inv, ItemInv, ItemOk, Started, StillShown, Shown
<1>6. ItemInv' /\ ChunkInv'
  BY <1>1, <1>2, <1>5, GoOnItems
<1>7. AskedInv' /\ EntryInv'
  BY <1>1 DEF Inv, AskedInv, EntryInv, Follows, Started, Shown
<1>. QED BY <1>3, <1>4, <1>6, <1>7 DEF Inv

\* The timer fires: an item is an entry as it is shown.
Fresh == {[workflow |-> w, run |-> entry[w].run, offset |-> entry[w].offset] :
             w \in {v \in Workflows : Unfinished(v)}}

LEMMA FreshItems ==
  ASSUME Inv
  PROVE  /\ Fresh \in SUBSET Item
         /\ \A i \in Fresh : /\ ItemOk(i) /\ StillShown(i)
                            /\ ~entry[i.workflow].done /\ entry[i.workflow].offset = i.offset
<1>. SUFFICES ASSUME NEW w \in Workflows, Unfinished(w),
                     NEW i, i = [workflow |-> w, run |-> entry[w].run, offset |-> entry[w].offset]
              PROVE  /\ i \in Item
                     /\ ItemOk(i) /\ StillShown(i)
                     /\ ~entry[i.workflow].done /\ entry[i.workflow].offset = i.offset
  BY DEF Fresh
<1>1. entry[w].run \in Runs /\ entry[w].offset \in 0 .. MaxLog
  BY EntryType DEF Inv, Unfinished
<1>2. i \in Item
  BY <1>1 DEF Item
<1>3. i.workflow = w /\ i.run = entry[w].run /\ i.offset = entry[w].offset
  OBVIOUS
<1>4. Follows(w, entry[w].run)
  BY DEF Inv, EntryInv, Unfinished
<1>5. ItemOk(i)
  BY <1>3, <1>4 DEF ItemOk, Follows
<1>. QED BY <1>2, <1>3, <1>5 DEF StillShown, Unfinished

LEMMA FireKeeps ==
  ASSUME Inv, NEW t \in Ticks, Fire(t) PROVE Inv'
<1>1. /\ GoOn(t, Fresh)
      /\ overlap' = (overlap \/ \E u \in Ticks \ {t} : tick[u].pc # "idle")
      /\ UNCHANGED <<asked, entry, note, told, len, over, errors>>
  BY DEF Fire, Fresh, service
<1>2. Fresh \in SUBSET Item /\ \A i \in Fresh : ItemOk(i)
  BY FreshItems
<1>3. tick' \in [Ticks -> Tick] /\ Shapes'
  BY <1>1, <1>2, GoOnKeeps
<1>4. overlap' \in BOOLEAN
  BY <1>1, Zenon DEF Inv, Types
<1>5. Types'
  BY <1>1, <1>3, <1>4 DEF Inv, Types
<1>6. \A i \in Item : ItemOk(i) => ItemOk(i)'
  BY <1>1 DEF ItemOk, Started, StillShown, Shown
<1>7. \A u \in Ticks : \A i \in Items(u) : ItemOk(i)'
  BY <1>6, ItemType DEF Inv, ItemInv
<1>8. ItemInv' /\ ChunkInv'
  BY <1>1, <1>2, <1>6, <1>7, GoOnItems
<1>9. AskedInv' /\ EntryInv'
  BY <1>1 DEF Inv, AskedInv, EntryInv, Follows, Started, Shown
<1>. QED BY <1>3, <1>5, <1>8, <1>9 DEF Inv

\* What mergeChunk makes of an entry.
LEMMA MergeIs ==
  ASSUME NEW cur \in Entry, NEW i \in Item, NEW chunk \in Chunk,
         chunk.upto \in i.offset .. MaxLog
  PROVE  LET next == MergeChunk(cur, i, chunk)
         IN /\ next \in Entry /\ next.run = cur.run
            /\ next.text = cur.text \o Piece(i.run, i.offset, chunk.upto)
            /\ next.offset = chunk.upto /\ next.done = chunk.done
            /\ Range(next.text) = Range(cur.text) \cup Part(i.run, i.offset + 1, chunk.upto)
<1> DEFINE p == Piece(i.run, i.offset, chunk.upto)
           a == [cur EXCEPT !.text = @ \o p]
           b == [a EXCEPT !.offset = chunk.upto]
           next == [b EXCEPT !.done = chunk.done]
<1>1. /\ i.run \in Runs /\ i.offset \in 0 .. MaxLog /\ chunk.upto \in 0 .. MaxLog
      /\ i.offset \in 0 .. chunk.upto /\ chunk.done \in BOOLEAN
  BY BoundsAssumption DEF Item, Chunk
<1>2. p \in Seq(Position) /\ Range(p) = Part(i.run, i.offset + 1, chunk.upto)
  BY <1>1, PieceIs
<1>3. MergeChunk(cur, i, chunk) = next
  BY Zenon DEF MergeChunk
<1>4. cur.text \in Seq(Position)
  BY DEF Entry
<1>. HIDE DEF p
<1>5. cur.text \o p \in Seq(Position) /\ Range(cur.text \o p) = Range(cur.text) \cup Range(p)
  BY <1>2, <1>4, RangeOfConcat
<1>6. a \in Entry /\ a.run = cur.run /\ a.text = cur.text \o p
  BY <1>5 DEF Entry
<1>. HIDE DEF a
<1>7. b \in Entry /\ b.run = cur.run /\ b.text = cur.text \o p /\ b.offset = chunk.upto
  BY <1>1, <1>6 DEF Entry
<1>. HIDE DEF b
<1>8. /\ next \in Entry /\ next.run = cur.run /\ next.text = cur.text \o p
      /\ next.offset = chunk.upto /\ next.done = chunk.done
  BY <1>1, <1>7 DEF Entry
<1>. HIDE DEF next
<1>. QED BY <1>2, <1>3, <1>5, <1>8 DEF p

\* The parts of the log before and after an offset.
LEMMA PartsJoin ==
  ASSUME NEW r \in Runs, NEW u \in 0 .. MaxLog, NEW o \in 0 .. u
  PROVE  Part(r, 1, u) = Part(r, 1, o) \cup Part(r, o + 1, u)
<1>1. 1 .. u = (1 .. o) \cup (o + 1 .. u)
  BY BoundsAssumption
<1>. QED BY <1>1 DEF Part

\* What a tick does with an answer, as it concerns the entry of its item.
ResumeDoes(t, i) ==
  LET w == i.workflow
      next == MergeChunk(entry[w], i, tick[t].chunk)
  IN IF StillShown(i)
     THEN /\ entry' = [entry EXCEPT ![w] = next]
          /\ IF next.done
             THEN /\ note' = [note EXCEPT ![i.run] = "complete"]
                  /\ told' = [told EXCEPT ![i.run] = @ + 1]
             ELSE UNCHANGED <<note, told>>
     ELSE UNCHANGED <<entry, note, told>>

LEMMA ResumeIs ==
  ASSUME Inv, NEW t \in Ticks, Resume(t)
  PROVE  \E i \in Item :
           /\ tick[t].at = {i} /\ i \in Items(t) /\ ResumeDoes(t, i)
           /\ tick[t].pc = "answered" /\ tick[t].chunk \in Chunk
           /\ tick[t].chunk.upto \in i.offset .. len[i.run]
           /\ tick[t].chunk.upto \in i.offset .. MaxLog
           /\ tick[t].chunk.done => i.run \in over /\ tick[t].chunk.upto = len[i.run]
           /\ tick[t].todo \in SUBSET Item /\ tick[t].todo \subseteq Items(t)
           /\ GoOn(t, tick[t].todo)
           /\ UNCHANGED <<asked, len, over, errors, overlap>>
<1>1. PICK i \in tick[t].at : ResumeDoes(t, i)
  BY DEF Resume, ResumeDoes
<1>2. i \in Items(t)
  BY DEF Items
<1>3. i \in Item /\ i.run \in Runs /\ i.offset \in 0 .. MaxLog
  BY <1>2, ItemType DEF Inv
<1>4. tick[t].pc = "answered" /\ tick[t].at = {i}
  BY <1>1 DEF Resume, Inv, Shapes
<1>5. /\ tick[t].chunk \in Chunk
      /\ tick[t].todo \in SUBSET Item /\ tick[t].todo \subseteq Items(t)
  BY DEF Inv, Types, Tick, Items
<1>6. /\ tick[t].chunk.upto \in i.offset .. len[i.run]
      /\ tick[t].chunk.done => i.run \in over /\ tick[t].chunk.upto = len[i.run]
  BY <1>4 DEF Inv, ChunkInv
<1>7. len[i.run] \in 0 .. MaxLog
  BY <1>3 DEF Inv, Types
<1>8. tick[t].chunk.upto \in i.offset .. MaxLog
  BY <1>3, <1>6, <1>7, BoundsAssumption
<1>9. GoOn(t, tick[t].todo) /\ UNCHANGED <<asked, len, over, errors, overlap>>
  BY DEF Resume, service
<1>. QED BY <1>1, <1>2, <1>3, <1>4, <1>5, <1>6, <1>8, <1>9

LEMMA ResumeKeeps ==
  ASSUME Inv, NEW t \in Ticks, Resume(t) PROVE Inv'
<1>1. PICK i \in Item :
         /\ i \in Items(t) /\ ResumeDoes(t, i) /\ tick[t].chunk \in Chunk
         /\ tick[t].chunk.upto \in i.offset .. len[i.run]
         /\ tick[t].chunk.upto \in i.offset .. MaxLog
         /\ tick[t].chunk.done => i.run \in over /\ tick[t].chunk.upto = len[i.run]
         /\ tick[t].todo \in SUBSET Item /\ tick[t].todo \subseteq Items(t)
         /\ GoOn(t, tick[t].todo)
         /\ UNCHANGED <<asked, len, over, errors, overlap>>
  BY ResumeIs
<1> DEFINE w == i.workflow
           r == i.run
           o == i.offset
           c == tick[t].chunk
           next == MergeChunk(entry[w], i, c)
<1>2. w \in Workflows /\ r \in Runs /\ o \in 0 .. MaxLog
  BY DEF Item
<1>3. Started(r, w) /\ o <= len[r] /\ len[r] \in 0 .. MaxLog
  BY <1>1, <1>2 DEF Inv, ItemInv, ItemOk, Types
<1>4. tick' \in [Ticks -> Tick] /\ Shapes'
  BY <1>1, GoOnKeeps
<1>5. /\ next \in Entry /\ next.run = entry[w].run
      /\ next.offset = c.upto /\ next.done = c.done
      /\ Range(next.text) = Range(entry[w].text) \cup Part(r, o + 1, c.upto)
  <2>1. entry[w] \in Entry
    BY <1>2 DEF Inv, Types
  <2>. QED BY <1>1, <2>1, MergeIs
<1>. HIDE DEF next
\* Only the text of the entry grows, and only a run that was started completes.
<1>6. IF StillShown(i) THEN entry' = [entry EXCEPT ![w] = next] ELSE entry' = entry
  BY <1>1 DEF ResumeDoes, next
<1>7. /\ \/ UNCHANGED note
         \/ note' = [note EXCEPT ![r] = "complete"]
      /\ \/ UNCHANGED told
         \/ told' = [told EXCEPT ![r] = @ + 1]
  BY <1>1 DEF ResumeDoes
<1>8. /\ entry' \in [Workflows -> Entry]
      /\ note' \in [Runs -> {"none", "asked", "running", "complete"}]
      /\ told' \in [Runs -> Nat]
  BY <1>2, <1>5, <1>6, <1>7 DEF Inv, Types
<1>9. Types'
  BY <1>1, <1>4, <1>8 DEF Inv, Types
<1>10. \A q \in Runs : note'[q] = note[q] \/ (q = r /\ note'[q] = "complete")
  BY <1>7 DEF Inv, Types
<1>11. \A q \in Runs, v \in Workflows : Started(q, v) => Started(q, v)'
  BY <1>1, <1>10 DEF Started
<1>12. AskedInv'
  BY <1>1, <1>2, <1>3, <1>10 DEF Inv, AskedInv, Started
<1>13. \A v \in Workflows :
         /\ entry'[v].run = entry[v].run
         /\ Range(entry[v].text) \subseteq Range(entry'[v].text)
         /\ v = w /\ StillShown(i) => entry'[v] = next
         /\ v # w \/ ~StillShown(i) => entry'[v] = entry[v]
  BY <1>2, <1>5, <1>6 DEF Inv, Types
<1>14. \A v \in Workflows : Shown(v)' = Shown(v)
  BY <1>13 DEF Shown
<1>15. ASSUME StillShown(i) PROVE Follows(w, r)'
  <2>1. entry[w].run = r /\ Shown(w) /\ entry'[w] = next
    BY <1>2, <1>13, <1>15 DEF StillShown
  <2>2. Follows(w, r)
    BY <1>2, <2>1 DEF Inv, EntryInv
  <2>3. Started(r, w)'
    BY <1>2, <1>3, <1>11
  <2>4. c.upto \in 0 .. MaxLog /\ o \in 0 .. c.upto /\ c.upto <= len[r]
    BY <1>1, <1>2, <1>3, BoundsAssumption
  <2>5. /\ Part(r, 1, c.upto) = Part(r, 1, o) \cup Part(r, o + 1, c.upto)
        /\ Part(r, 1, c.upto) \subseteq Part(r, 1, len[r])
    BY <1>2, <1>3, <2>4, PartsJoin, PartGrows
  <2>6. Part(r, 1, o) \subseteq Range(entry[w].text)
    BY <1>1, <1>15 DEF Inv, ItemInv, ItemOk
  <2>7. /\ Range(next.text) \subseteq Part(r, 1, len[r])
        /\ Part(r, 1, next.offset) \subseteq Range(next.text)
    BY <1>5, <2>2, <2>5, <2>6 DEF Follows
  <2>8. next.offset <= len[r] /\ (next.done => r \in over /\ next.offset = len[r])
    BY <1>1, <1>5, <2>4
  <2>. QED BY <1>1, <2>1, <2>3, <2>7, <2>8 DEF Follows
<1>16. EntryInv'
  <2>1. ASSUME NEW v \in Workflows, v # w \/ ~StillShown(i)
        PROVE  IF Shown(v)' THEN Follows(v, entry[v].run)' ELSE entry'[v] = NoEntry
    <3>1. entry'[v] = entry[v] /\ Shown(v)' = Shown(v)
      BY <1>13, <1>14, <2>1
    <3>2. CASE Shown(v)
      <4>1. Follows(v, entry[v].run) /\ entry[v].run \in Runs
        BY <3>2, EntryType DEF Inv, EntryInv
      <4>2. Follows(v, entry[v].run)'
        BY <1>1, <1>11, <3>1, <4>1 DEF Follows
      <4>. QED BY <3>1, <3>2, <4>2
    <3>3. CASE ~Shown(v)
      BY <3>1, <3>3 DEF Inv, EntryInv
    <3>. QED BY <3>2, <3>3
  <2>2. StillShown(i) => Shown(w)' /\ Follows(w, entry[w].run)'
    BY <1>2, <1>13, <1>14, <1>15 DEF StillShown
  <2>3. \A v \in Workflows : IF Shown(v)' THEN Follows(v, entry[v].run)' ELSE entry'[v] = NoEntry
    BY <2>1, <2>2
  <2>. QED BY <2>3 DEF EntryInv
<1>17. \A u \in Ticks : \A j \in Items(u) : ItemOk(j)'
  <2>. SUFFICES ASSUME NEW u \in Ticks, NEW j \in Items(u) PROVE ItemOk(j)'
    OBVIOUS
  <2>1. j.workflow \in Workflows /\ j.run \in Runs /\ ItemOk(j)
    BY ItemType DEF Inv, ItemInv
  <2>2. StillShown(j)' => StillShown(j)
    BY <1>13, <2>1 DEF StillShown, Shown
  <2>3. Range(entry[j.workflow].text) \subseteq Range(entry'[j.workflow].text)
    BY <1>13, <2>1
  <2>. QED BY <1>1, <1>11, <2>1, <2>2, <2>3 DEF ItemOk
<1>18. \A j \in tick[t].todo : ItemOk(j)'
  BY <1>1, <1>17
<1>19. ItemInv' /\ ChunkInv'
  BY <1>1, <1>17, <1>18, GoOnItems
<1>. QED BY <1>4, <1>9, <1>12, <1>16, <1>19 DEF Inv

LEMMA Initial == Init => Inv
<1>. SUFFICES ASSUME Init PROVE Inv
  OBVIOUS
<1>1. entry \in [Workflows -> Entry] /\ tick \in [Ticks -> Tick]
  BY NullTypes DEF Init
<1>2. Types
  <2>1. overlap \in BOOLEAN /\ over \subseteq Runs
    BY DEF Init
  <2>2. /\ asked \in [Runs -> Workflows \cup {NoWorkflow}]
        /\ note \in [Runs -> {"none", "asked", "running", "complete"}]
        /\ told \in [Runs -> Nat]
    BY DEF Init
  <2>3. len \in [Runs -> 0 .. MaxLog] /\ errors \in 0 .. MaxErrors
    BY BoundsAssumption DEF Init
  <2>. QED BY <1>1, <2>1, <2>2, <2>3 DEF Types
<1>3. Shapes
  BY DEF Init, Shapes, Idle
<1>4. \A w \in Workflows : ~Shown(w) /\ entry[w] = NoEntry
  BY DEF Init, Shown, NoEntry
<1>5. AskedInv /\ EntryInv
  BY <1>4 DEF Init, AskedInv, EntryInv
<1>6. ItemInv /\ ChunkInv
  BY DEF Init, ItemInv, ChunkInv, Items, Idle
<1>. QED BY <1>2, <1>3, <1>5, <1>6 DEF Inv

LEMMA Inductive == Inv /\ [Next]_vars => Inv'
<1>. SUFFICES ASSUME Inv, [Next]_vars PROVE Inv'
  OBVIOUS
<1>1. ASSUME NEW w \in Workflows, AskRun(w) PROVE Inv'
  BY <1>1, AskRunKeeps
<1>2. ASSUME NEW r \in Runs, Run(r) PROVE Inv'
  BY <1>2, RunStartedKeeps, RunRefusedKeeps, LogKeeps, EndKeeps DEF Run
<1>3. ASSUME NEW t \in Ticks, Poll(t) PROVE Inv'
  BY <1>3, FireKeeps, ServeKeeps, FailKeeps, ResumeKeeps DEF Poll
<1>4. CASE UNCHANGED vars
  BY <1>4 DEF vars, Inv, Types, Shapes, AskedInv, EntryInv, Follows, ItemInv, ItemOk, ChunkInv,
    Started, Shown, StillShown, Items
<1>. QED BY <1>1, <1>2, <1>3, <1>4 DEF Next

LEMMA InvHolds == Spec => []Inv
BY Initial, Inductive, PTL DEF Spec

-----------------------------------------------------------------------------
(* What every behaviour shows.                                              *)

\* Every variable keeps its type: no text, offset or answer goes beyond the log.
THEOREM TypeCorrect == Spec => []TypeOK
<1>1. Inv => TypeOK
  <2>. SUFFICES ASSUME Inv PROVE TypeOK
    OBVIOUS
  <2>1. ASSUME NEW w \in Workflows
        PROVE  /\ entry[w].run \in 0 .. MaxRuns /\ entry[w].offset \in 0 .. MaxLog
               /\ entry[w].done \in BOOLEAN
               /\ \A k \in DOMAIN entry[w].text : entry[w].text[k] \in Runs \X (1 .. MaxLog)
    <3>1. entry[w].text \in Seq(Position)
      BY EntryType DEF Inv
    <3>2. \A k \in DOMAIN entry[w].text : entry[w].text[k] \in Position
      BY <3>1
    <3>. QED BY <3>2, EntryType DEF Inv, Position
  <2>2. ASSUME NEW t \in Ticks
        PROVE  /\ tick[t].pc \in {"idle", "waiting", "answered"}
               /\ tick[t].at \subseteq Item /\ tick[t].todo \subseteq Item
               /\ Cardinality(tick[t].at) = IF tick[t].pc = "idle" THEN 0 ELSE 1
               /\ tick[t].chunk \in [upto : 0 .. MaxLog, done : BOOLEAN]
    <3>1. tick[t] \in Tick
      BY DEF Inv, Types
    <3>2. CASE tick[t].pc = "idle"
      <4>1. tick[t].at = {}
        BY <3>2 DEF Inv, Shapes, Idle
      <4>. QED BY <3>1, <3>2, <4>1, FS_EmptySet DEF Tick, Chunk
    <3>3. CASE tick[t].pc # "idle"
      <4>1. PICK i \in Item : tick[t].at = {i}
        BY <3>3 DEF Inv, Shapes
      <4>2. Cardinality(tick[t].at) = 1
        BY <4>1, FS_Singleton
      <4>. QED BY <3>1, <3>3, <4>2 DEF Tick, Chunk
    <3>. QED BY <3>2, <3>3
  <2>. QED BY <2>1, <2>2 DEF TypeOK, Inv, Types
<1>. QED BY <1>1, InvHolds, PTL

\* However ticks overlap and calls fail: the window shows only the log of its run,
\* without a gap up to the offset, and to its end once the run is shown as done.
THEOREM NothingIsLost == Spec => []NothingLost
<1>1. Inv => NothingLost
  <2>. SUFFICES ASSUME Inv, NEW w \in Workflows, Shown(w)
                PROVE  LET r == entry[w].run
                           known == IF entry[w].done THEN len[r] ELSE entry[w].offset
                       IN /\ Positions(w) \subseteq {<<r, k>> : k \in 1 .. len[r]}
                          /\ {<<r, k>> : k \in 1 .. known} \subseteq Positions(w)
                          /\ entry[w].done => r \in over
    BY DEF NothingLost
  <2>1. Follows(w, entry[w].run)
    BY DEF Inv, EntryInv
  <2>. QED BY <2>1 DEF Follows, Positions, Range, Part
<1>. QED BY <1>1, InvHolds, PTL

-----------------------------------------------------------------------------
(* As long as no two ticks were in flight together.                         *)

InFlight(t) == tick[t].pc # "idle"
OneTick == \A t, u \in Ticks : InFlight(t) /\ InFlight(u) => t = u

\* A tick polls a workflow once, and from where its entry ends.
UpToDate(i) ==
  StillShown(i) => ~entry[i.workflow].done /\ entry[i.workflow].offset = i.offset
OwnItems ==
  \A t \in Ticks :
    /\ \A i, j \in Items(t) : i.workflow = j.workflow => i = j
    /\ \A i \in tick[t].at : i \notin tick[t].todo
    /\ \A i \in Items(t) : UpToDate(i)

\* A run that still can be announced has not been announced.
ToldOnce(r) ==
  /\ told[r] <= 1
  /\ note[r] \in {"none", "asked"} => told[r] = 0
  /\ \A w \in Workflows : entry[w].run = r /\ ~entry[w].done => told[r] = 0
ToldInv == \A r \in Runs : ToldOnce(r)

Exact(w) == entry[w].text = Piece(entry[w].run, 0, entry[w].offset)
ExactInv == \A w \in Workflows : Exact(w)

PromptInv == ~overlap => OneTick /\ OwnItems /\ ToldInv /\ ExactInv

\* A tick that is not in flight has no items, so the items of all ticks are those
\* of the one in flight.
LEMMA GoOnOwn ==
  ASSUME Inv, OneTick, OwnItems, NEW t \in Ticks, NEW todo \in SUBSET Item, GoOn(t, todo),
         \A u \in Ticks \ {t} : ~InFlight(u),
         \A i, j \in todo : i.workflow = j.workflow => i = j,
         \A i \in todo : UpToDate(i)'
  PROVE  OneTick' /\ OwnItems'
<1>1. /\ \A u \in Ticks : u # t => tick'[u] = tick[u]
      /\ Items(t)' = todo
  BY GoOnKeeps
<1>2. OneTick'
  BY <1>1 DEF OneTick, InFlight
<1>3. \A u \in Ticks \ {t} : tick'[u].at = {} /\ tick'[u].todo = {}
  BY <1>1 DEF Inv, Shapes, InFlight, Idle
<1>4. \A i \in tick'[t].at : i \notin tick'[t].todo
  <2>1. \/ tick'[t] = Idle
        \/ \E i \in todo : tick'[t] = Calls(i, todo)
    BY GoOnDoes DEF Inv
  <2>2. tick'[t] = Idle => tick'[t].at = {}
    BY DEF Idle
  <2>3. ASSUME NEW i \in todo, tick'[t] = Calls(i, todo)
        PROVE  tick'[t].at = {i} /\ tick'[t].todo = todo \ {i}
    <3>1. Calls(i, todo).at = {i} /\ Calls(i, todo).todo = todo \ {i}
      BY CallsIs
    <3>. QED BY <2>3, <3>1
  <2>. QED BY <2>1, <2>2, <2>3
<1>. QED BY <1>1, <1>2, <1>3, <1>4 DEF OwnItems, Items

LEMMA PromptAskRun ==
  ASSUME Inv, PromptInv, NEW w \in Workflows, AskRun(w) PROVE PromptInv'
<1>. SUFFICES ASSUME ~overlap' PROVE (OneTick /\ OwnItems /\ ToldInv /\ ExactInv)'
  BY DEF PromptInv
<1>1. PICK r \in Runs : asked[r] = NoWorkflow /\ note' = [note EXCEPT ![r] = "asked"]
  BY DEF AskRun
<1>2. UNCHANGED <<entry, told, len, over, tick, errors, overlap>>
  BY DEF AskRun, service
<1>3. OneTick /\ OwnItems /\ ToldInv /\ ExactInv
  BY <1>2 DEF PromptInv
<1>4. note[r] = "none"
  BY <1>1, WorkflowsAssumption DEF Inv, AskedInv
<1>5. \A q \in Runs : note'[q] = note[q] \/ (q = r /\ note'[q] = "asked")
  BY <1>1 DEF Inv, Types
<1>6. ToldInv'
  BY <1>2, <1>3, <1>4, <1>5 DEF ToldInv, ToldOnce
<1>. QED BY <1>2, <1>3, <1>6 DEF OneTick, OwnItems, InFlight, Items, UpToDate, StillShown,
       Shown, ExactInv, Exact

LEMMA PromptRunStarted ==
  ASSUME Inv, PromptInv, NEW r \in Runs, RunStarted(r) PROVE PromptInv'
<1>. SUFFICES ASSUME ~overlap' PROVE (OneTick /\ OwnItems /\ ToldInv /\ ExactInv)'
  BY DEF PromptInv
<1>0. PICK w \in Workflows : w = asked[r]
  BY DEF RunStarted, Inv, AskedInv
<1> DEFINE new == [NoEntry EXCEPT !.run = r]
<1>1. /\ note[r] = "asked"
      /\ note' = [note EXCEPT ![r] = "running"]
      /\ entry' = [entry EXCEPT ![w] = new]
      /\ UNCHANGED <<asked, told, len, over, tick, errors, overlap>>
  BY <1>0 DEF RunStarted, service
<1>2. new.run = r /\ r # 0 /\ new.offset = 0 /\ new.done = FALSE /\ new.text = <<>>
  BY FreshEntry
<1>. HIDE DEF new
<1>3. OneTick /\ OwnItems /\ ToldInv /\ ExactInv
  BY <1>1 DEF PromptInv
<1>4. /\ \A q \in Runs : IF q = r THEN note'[q] = "running" ELSE note'[q] = note[q]
      /\ \A v \in Workflows : IF v = w THEN entry'[v] = new ELSE entry'[v] = entry[v]
  BY <1>1 DEF Inv, Types
<1>5. ToldInv'
  BY <1>1, <1>2, <1>3, <1>4 DEF ToldInv, ToldOnce
<1>6. ExactInv'
  <2>1. Piece(r, 0, 0) = <<>>
    BY PieceIs, BoundsAssumption DEF Piece
  <2>. QED BY <1>2, <1>3, <1>4, <2>1 DEF ExactInv, Exact
<1>7. \A t \in Ticks : \A i \in Items(t) : UpToDate(i)'
  <2>. SUFFICES ASSUME NEW t \in Ticks, NEW i \in Items(t) PROVE UpToDate(i)'
    OBVIOUS
  <2>1. i.workflow \in Workflows /\ UpToDate(i)
    BY <1>3, ItemType DEF Inv, OwnItems
  <2>2. i.run # r
    BY <1>1 DEF Inv, ItemInv, ItemOk, Started
  <2>. QED BY <1>2, <1>4, <2>1, <2>2 DEF UpToDate, StillShown, Shown
<1>8. OwnItems' /\ OneTick'
  BY <1>1, <1>3, <1>7 DEF OwnItems, OneTick, InFlight, Items
<1>. QED BY <1>5, <1>6, <1>8

LEMMA PromptRunRefused ==
  ASSUME Inv, PromptInv, NEW r \in Runs, RunRefused(r) PROVE PromptInv'
<1>. SUFFICES ASSUME ~overlap' PROVE (OneTick /\ OwnItems /\ ToldInv /\ ExactInv)'
  BY DEF PromptInv
<1>1. /\ note[r] = "asked"
      /\ note' = [note EXCEPT ![r] = "complete"]
      /\ told' = [told EXCEPT ![r] = @ + 1]
      /\ UNCHANGED <<asked, entry, len, over, tick, errors, overlap>>
  BY DEF RunRefused, service
<1>2. OneTick /\ OwnItems /\ ToldInv /\ ExactInv
  BY <1>1 DEF PromptInv
<1>3. told[r] = 0
  BY <1>1, <1>2 DEF ToldInv, ToldOnce
<1>4. \A q \in Runs : IF q = r THEN note'[q] = "complete" /\ told'[q] = 1
                      ELSE note'[q] = note[q] /\ told'[q] = told[q]
  BY <1>1, <1>3 DEF Inv, Types
\* No entry shows a run whose start has not answered.
<1>5. \A w \in Workflows : entry[w].run # r
  <2>1. r # 0
    BY DEF Runs
  <2>. QED BY <1>1, <2>1 DEF Inv, EntryInv, Follows, Started, Shown
<1>6. ToldInv'
  BY <1>1, <1>2, <1>4, <1>5 DEF ToldInv, ToldOnce
<1>. QED BY <1>1, <1>2, <1>6 DEF OneTick, OwnItems, InFlight, Items, UpToDate, StillShown,
       Shown, ExactInv, Exact

LEMMA PromptServe ==
  ASSUME Inv, PromptInv, NEW t \in Ticks, Serve(t) PROVE PromptInv'
<1>. SUFFICES ASSUME ~overlap' PROVE (OneTick /\ OwnItems /\ ToldInv /\ ExactInv)'
  BY DEF PromptInv
<1>1. UNCHANGED <<asked, entry, note, told, len, over, errors, overlap>> /\ InFlight(t)
  BY DEF Serve, service, InFlight
<1>2. OneTick /\ OwnItems /\ ToldInv /\ ExactInv
  BY <1>1 DEF PromptInv
<1>3. /\ tick'[t].pc = "answered" /\ tick'[t].at = tick[t].at /\ tick'[t].todo = tick[t].todo
      /\ \A u \in Ticks : u # t => tick'[u] = tick[u]
  BY ServeIs
<1>4. \A u \in Ticks : /\ Items(u)' = Items(u) /\ tick'[u].at = tick[u].at
                       /\ tick'[u].todo = tick[u].todo
  BY <1>3 DEF Items
<1>5. \A u \in Ticks : InFlight(u)' = InFlight(u)
  BY <1>1, <1>3 DEF InFlight
<1>6. OneTick'
  BY <1>2, <1>5 DEF OneTick
<1>7. OwnItems'
  BY <1>1, <1>2, <1>4 DEF OwnItems, UpToDate, StillShown, Shown
<1>. QED BY <1>1, <1>2, <1>6, <1>7 DEF ToldInv, ToldOnce, ExactInv, Exact

LEMMA PromptFail ==
  ASSUME Inv, PromptInv, NEW t \in Ticks, Fail(t) PROVE PromptInv'
<1>. SUFFICES ASSUME ~overlap' PROVE (OneTick /\ OwnItems /\ ToldInv /\ ExactInv)'
  BY DEF PromptInv
<1>1. /\ InFlight(t) /\ GoOn(t, tick[t].todo)
      /\ UNCHANGED <<asked, entry, note, told, len, over, overlap>>
  BY DEF Fail, service, InFlight
<1>2. OneTick /\ OwnItems /\ ToldInv /\ ExactInv
  BY <1>1 DEF PromptInv
<1>3. tick[t].todo \in SUBSET Item /\ tick[t].todo \subseteq Items(t)
  BY DEF Inv, Types, Tick, Items
<1>4. /\ \A i, j \in tick[t].todo : i.workflow = j.workflow => i = j
      /\ \A i \in tick[t].todo : UpToDate(i)'
  BY <1>1, <1>2, <1>3 DEF OwnItems, UpToDate, StillShown, Shown
<1>5. \A u \in Ticks \ {t} : ~InFlight(u)
  BY <1>1, <1>2 DEF OneTick
<1>6. OneTick' /\ OwnItems'
  BY <1>1, <1>2, <1>3, <1>4, <1>5, GoOnOwn
<1>. QED BY <1>1, <1>2, <1>6 DEF ToldInv, ToldOnce, ExactInv, Exact

LEMMA PromptFire ==
  ASSUME Inv, PromptInv, NEW t \in Ticks, Fire(t) PROVE PromptInv'
<1>. SUFFICES ASSUME ~overlap' PROVE (OneTick /\ OwnItems /\ ToldInv /\ ExactInv)'
  BY DEF PromptInv
<1>1. /\ GoOn(t, Fresh)
      /\ overlap' = (overlap \/ \E u \in Ticks \ {t} : tick[u].pc # "idle")
      /\ UNCHANGED <<asked, entry, note, told, len, over, errors>>
  BY DEF Fire, Fresh, service
<1>2. \A u \in Ticks \ {t} : ~InFlight(u)
  BY <1>1 DEF InFlight
<1>3. OneTick /\ OwnItems /\ ToldInv /\ ExactInv
  BY <1>1 DEF PromptInv
<1>4. Fresh \in SUBSET Item
  BY FreshItems
<1>5. \A i \in Fresh : UpToDate(i)'
  BY <1>1, FreshItems DEF UpToDate, StillShown, Shown
<1>6. \A i, j \in Fresh : i.workflow = j.workflow => i = j
  BY DEF Fresh
<1>7. OneTick' /\ OwnItems'
  BY <1>1, <1>2, <1>3, <1>4, <1>5, <1>6, GoOnOwn
<1>. QED BY <1>1, <1>3, <1>7 DEF ToldInv, ToldOnce, ExactInv, Exact

LEMMA PromptResume ==
  ASSUME Inv, PromptInv, NEW t \in Ticks, Resume(t) PROVE PromptInv'
<1>. SUFFICES ASSUME ~overlap' PROVE (OneTick /\ OwnItems /\ ToldInv /\ ExactInv)'
  BY DEF PromptInv
<1>1. PICK i \in Item :
         /\ tick[t].at = {i} /\ i \in Items(t) /\ ResumeDoes(t, i)
         /\ tick[t].pc = "answered" /\ tick[t].chunk \in Chunk
         /\ tick[t].chunk.upto \in i.offset .. MaxLog
         /\ tick[t].todo \in SUBSET Item /\ tick[t].todo \subseteq Items(t)
         /\ GoOn(t, tick[t].todo)
         /\ UNCHANGED <<asked, len, over, errors, overlap>>
  BY ResumeIs
<1> DEFINE w == i.workflow
           r == i.run
           o == i.offset
           c == tick[t].chunk
           next == MergeChunk(entry[w], i, c)
<1>2. w \in Workflows /\ r \in Runs /\ o \in 0 .. MaxLog
  BY DEF Item
<1>3. OneTick /\ OwnItems /\ ToldInv /\ ExactInv
  BY <1>1 DEF PromptInv
<1>4. Started(r, w) /\ UpToDate(i)
  BY <1>1, <1>3 DEF Inv, ItemInv, ItemOk, OwnItems
<1>5. /\ next.run = entry[w].run /\ next.offset = c.upto /\ next.done = c.done
      /\ next.text = entry[w].text \o Piece(r, o, c.upto)
  <2>1. entry[w] \in Entry
    BY <1>2 DEF Inv, Types
  <2>. QED BY <1>1, <2>1, MergeIs
<1>6. CASE ~StillShown(i)
  <2>1. UNCHANGED <<entry, note, told>>
    BY <1>1, <1>6 DEF ResumeDoes
  <2>2. \A j \in tick[t].todo : UpToDate(j)'
    BY <1>1, <1>3, <2>1 DEF OwnItems, UpToDate, StillShown, Shown
  <2>3. \A j, k \in tick[t].todo : j.workflow = k.workflow => j = k
    BY <1>1, <1>3 DEF OwnItems
  <2>4. \A u \in Ticks \ {t} : ~InFlight(u)
    BY <1>1, <1>3 DEF OneTick, InFlight
  <2>5. OneTick' /\ OwnItems'
    BY <1>1, <1>3, <2>2, <2>3, <2>4, GoOnOwn
  <2>. QED BY <1>3, <2>1, <2>5 DEF ToldInv, ToldOnce, ExactInv, Exact
<1>7. CASE StillShown(i)
  <2>1. /\ entry' = [entry EXCEPT ![w] = next]
        /\ IF next.done
           THEN /\ note' = [note EXCEPT ![r] = "complete"]
                /\ told' = [told EXCEPT ![r] = @ + 1]
           ELSE UNCHANGED <<note, told>>
    BY <1>1, <1>7 DEF ResumeDoes
  <2>2. /\ entry[w].run = r /\ r # 0 /\ entry[w].offset = o
        /\ ~entry[w].done /\ told[r] = 0
    BY <1>2, <1>3, <1>4, <1>7 DEF UpToDate, StillShown, Shown, ToldInv, ToldOnce
  <2>. HIDE DEF next
  <2>3. \A v \in Workflows : IF v = w THEN entry'[v] = next ELSE entry'[v] = entry[v]
    BY <1>2, <2>1 DEF Inv, Types
  <2>4. \A q \in Runs :
          IF q = r /\ c.done THEN note'[q] = "complete" /\ told'[q] = 1
          ELSE note'[q] = note[q] /\ told'[q] = told[q]
    BY <1>2, <1>5, <2>1, <2>2 DEF Inv, Types
\* A run is shown for the workflow it was asked for, and for no other.
  <2>5. \A v \in Workflows : v # w => entry[v].run # r
    BY <1>4, <2>2 DEF Inv, EntryInv, Follows, Started, Shown
  <2>6. ToldInv'
    <3>. SUFFICES ASSUME NEW q \in Runs PROVE ToldOnce(q)'
      BY DEF ToldInv
    <3>1. ToldOnce(q)
      BY <1>3 DEF ToldInv
    <3>2. CASE q = r /\ c.done
      <4>1. told'[q] = 1 /\ note'[q] = "complete"
        BY <2>4, <3>2
      <4>2. ASSUME NEW v \in Workflows, entry'[v].run = q PROVE entry'[v].done
        <5>1. v = w
          BY <2>3, <2>5, <3>2, <4>2
        <5>. QED BY <1>5, <2>3, <3>2, <5>1
      <4>. QED BY <4>1, <4>2 DEF ToldOnce
    <3>3. CASE ~(q = r /\ c.done)
      BY <1>5, <2>2, <2>3, <2>4, <3>1, <3>3 DEF ToldOnce
    <3>. QED BY <3>2, <3>3
  <2>7. ExactInv'
    <3>1. entry[w].text = Piece(r, 0, o)
      BY <1>2, <1>3, <2>2 DEF ExactInv, Exact
    <3>2. c.upto \in 0 .. MaxLog /\ o \in 0 .. c.upto
      BY <1>1, <1>2, BoundsAssumption
    <3>3. next.text = Piece(r, 0, c.upto)
      BY <1>2, <1>5, <3>1, <3>2, PiecesJoin
    <3>. QED BY <1>3, <1>5, <2>2, <2>3, <3>3 DEF ExactInv, Exact
  <2>8. ASSUME NEW j \in tick[t].todo PROVE UpToDate(j)'
    <3>1. j \in Items(t) /\ j.workflow \in Workflows /\ UpToDate(j)
      BY <1>1, <1>3, ItemType DEF Inv, OwnItems
    <3>2. j.workflow # w
      BY <1>1, <1>3, <3>1 DEF OwnItems
    <3>. QED BY <2>3, <3>1, <3>2 DEF UpToDate, StillShown, Shown
  <2>9. \A j, k \in tick[t].todo : j.workflow = k.workflow => j = k
    BY <1>1, <1>3 DEF OwnItems
  <2>10. \A u \in Ticks \ {t} : ~InFlight(u)
    BY <1>1, <1>3 DEF OneTick, InFlight
  <2>11. OneTick' /\ OwnItems'
    BY <1>1, <1>3, <2>8, <2>9, <2>10, GoOnOwn
  <2>. QED BY <2>6, <2>7, <2>11
<1>. QED BY <1>6, <1>7

LEMMA PromptInductive == Inv /\ PromptInv /\ [Next]_vars => PromptInv'
<1>. SUFFICES ASSUME Inv, PromptInv, [Next]_vars PROVE PromptInv'
  OBVIOUS
<1>1. ASSUME NEW w \in Workflows, AskRun(w) PROVE PromptInv'
  BY <1>1, PromptAskRun
<1>2. ASSUME UNCHANGED <<entry, note, told, tick, overlap>> PROVE PromptInv'
  BY <1>2 DEF PromptInv, OneTick, OwnItems, ToldInv, ExactInv, ToldOnce, Exact, InFlight, Items,
    UpToDate, StillShown, Shown
<1>3. ASSUME NEW r \in Runs, Run(r) PROVE PromptInv'
  <2>1. Log(r) \/ End(r) => UNCHANGED <<entry, note, told, tick, overlap>>
    BY DEF Log, End
  <2>. QED BY <1>2, <1>3, <2>1, PromptRunStarted, PromptRunRefused DEF Run
<1>4. ASSUME NEW t \in Ticks, Poll(t) PROVE PromptInv'
  BY <1>4, PromptFire, PromptServe, PromptFail, PromptResume DEF Poll
<1>5. UNCHANGED vars => UNCHANGED <<entry, note, told, tick, overlap>>
  BY DEF vars
<1>. QED BY <1>1, <1>2, <1>3, <1>4, <1>5 DEF Next

\* As long as no two ticks were in flight together, the window shows the log exactly
\* once and in order, and announces no run twice: the second poll of a run that two
\* overlapping ticks hold is the only way to a doubled line or notification.
THEOREM PromptPollsAreExact == Spec => []PromptPollsExact
<1>1. Init => PromptInv
  <2>. SUFFICES ASSUME Init PROVE PromptInv
    OBVIOUS
  <2>1. OneTick /\ OwnItems /\ ToldInv
    BY DEF Init, OneTick, OwnItems, ToldInv, ToldOnce, InFlight, Items, Idle
  <2>2. Piece(0, 0, 0) = <<>>
    <3>1. 1 .. 0 - 0 = {}
      OBVIOUS
    <3>. QED BY <3>1 DEF Piece
  <2>3. ExactInv
    BY <2>2 DEF Init, ExactInv, Exact, NoEntry
  <2>. QED BY <2>1, <2>3 DEF PromptInv
<1>2. Inv /\ PromptInv => PromptPollsExact
  BY DEF PromptInv, PromptPollsExact, ToldInv, ToldOnce, ExactInv, Exact
<1>. QED BY <1>1, <1>2, PromptInductive, InvHolds, PTL DEF Spec
=============================================================================
