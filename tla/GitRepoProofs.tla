--------------------------- MODULE GitRepoProofs ---------------------------
(***************************************************************************)
(* GitRepo for any number of calls, refreshes and changes of the repository *)
(* in flight: a busy flag always has a call that will clear it, and the     *)
(* commit text is replaced only by what may replace it.                     *)
(***************************************************************************)
EXTENDS GitRepo, TLAPS

Flag == {"discarding", "committing", "generating", "pushing", "pulling", "checkingOut", "undoing"}
ShownType == [seen: Repo, error: BOOLEAN]
RefreshType == [phase: {"idle", "reading", "prefill", "answered"},
                got: SUBSET {"sync", "merging", "message"},
                snap: Repo, owner: Slots \cup {0}]
CallType == [op: Op \cup {"none"}, phase: {"free", "sent", "done"}, outcome: Outcome,
             push: BOOLEAN]
PageType == [text: {"empty", "typed", "made"}, ask: {"none", "discard", "checkout", "undo"},
             flags: SUBSET Flag, result: Outcome, lastOp: {"none", "push", "pull"}]

\* The refresh that confirmUndo awaits belongs to its call, and to no other.
OwnerInv ==
  /\ \A r \in Refreshes : refresh[r].owner # 0 =>
       calls[refresh[r].owner].op = "undo" /\ calls[refresh[r].owner].phase = "done"
  /\ \A r, q \in Refreshes : refresh[r].owner # 0 /\ refresh[r].owner = refresh[q].owner => r = q

\* Only the pull of a sync is followed by a push.
PushInv == \A s \in Slots : calls[s].push => calls[s].op = "pull"

Inv == TypeOK /\ OwnerInv /\ PushInv /\ FlagsHaveCalls

LEMMA Types ==
  TypeOK <=> /\ repo \in Repo /\ watcher \subseteq {"timer", "event"}
             /\ shown \in ShownType /\ refresh \in [Refreshes -> RefreshType]
             /\ calls \in [Slots -> CallType] /\ page \in PageType /\ using \in Uses
BY DEF TypeOK, ShownType, RefreshType, CallType, PageType, Flag

-----------------------------------------------------------------------------
(* What the parts of the actions do.                                        *)

LEMMA NullTypes ==
  /\ NoRepo \in Repo /\ NoRefresh \in RefreshType /\ Free \in CallType
  /\ NoRefresh.owner = 0 /\ Free.op = "none" /\ Free.push = FALSE
<1>1. NoRepo \in Repo
  BY GitRepoBounds DEF NoRepo, Repo
<1>2. NoRefresh \in RefreshType /\ NoRefresh.owner = 0
  BY <1>1 DEF NoRefresh, RefreshType
<1>3. Free \in CallType
  BY DEF Free, CallType, Outcome
<1>4. Free.op = "none" /\ Free.push = FALSE
  BY DEF Free
<1>. QED BY <1>1, <1>2, <1>3, <1>4

LEMMA FlagOfType ==
  ASSUME NEW op
  PROVE  /\ FlagOf(op) \subseteq Flag
         /\ op \in {"none", "clear", "stage", "stageAll", "checkout", "createBranch"} => FlagOf(op) = {}
         /\ op = "push" => FlagOf(op) = {"pushing"}
         /\ op = "undo" => FlagOf(op) = {"undoing"}
BY DEF FlagOf, Flag

\* A flag is on for the call of a slot: it stays so when the slot changes hands, as
\* long as the flags of its old operation go and only those of its new one come.
LEMMA FlagsKept ==
  ASSUME FlagsHaveCalls, NEW s \in Slots,
         \A u \in Slots : u # s => calls'[u].op = calls[u].op,
         page'.flags \subseteq (page.flags \ FlagOf(calls[s].op)) \cup FlagOf(calls'[s].op)
  PROVE  FlagsHaveCalls'
<1>. SUFFICES ASSUME NEW f \in page'.flags PROVE \E u \in Slots : f \in FlagOf(calls'[u].op)
  BY DEF FlagsHaveCalls
<1>1. CASE f \in FlagOf(calls'[s].op)
  BY <1>1
<1>2. CASE f \in page.flags /\ f \notin FlagOf(calls[s].op)
  <2>1. PICK u \in Slots : f \in FlagOf(calls[u].op)
    BY <1>2 DEF FlagsHaveCalls
  <2>2. calls'[u].op = calls[u].op
    BY <1>2, <2>1
  <2>. QED BY <2>1, <2>2
<1>. QED BY <1>1, <1>2

LEMMA StartIs ==
  ASSUME TypeOK, NEW r \in Refreshes, NEW owner \in Slots \cup {0}, NEW sh \in ShownType,
         StartedOver(r, owner, sh)
  PROVE  /\ refresh' \in [Refreshes -> RefreshType] /\ shown' \in ShownType
         /\ refresh'[r].owner = owner
         /\ \A q \in Refreshes : q # r => refresh'[q] = refresh[q]
<1> DEFINE a == [refresh[r] EXCEPT !.phase = "reading"]
           b == [a EXCEPT !.owner = owner]
<1>1. refresh \in [Refreshes -> RefreshType] /\ refresh[r] \in RefreshType
  BY Types
<1>2. a \in RefreshType
  BY <1>1 DEF RefreshType
<1>3. refresh' = [refresh EXCEPT ![r] = b]
  BY <1>1 DEF StartedOver
<1>. HIDE DEF a
<1>4. b \in RefreshType /\ b.owner = owner
  BY <1>2 DEF RefreshType
<1>5. shown' \in ShownType
  BY DEF StartedOver, ShownType
<1>. HIDE DEF b
<1>. QED BY <1>1, <1>3, <1>4, <1>5

LEMMA EndIs ==
  ASSUME TypeOK, NEW r \in Refreshes, NEW pg \in PageType, Ended(r, pg)
  PROVE  /\ refresh' \in [Refreshes -> RefreshType] /\ refresh'[r].owner = 0
         /\ \A q \in Refreshes : q # r => refresh'[q] = refresh[q]
         /\ calls' \in [Slots -> CallType] /\ page' \in PageType /\ page'.text = pg.text
         /\ IF refresh[r].owner = 0 THEN calls' = calls /\ page'.flags = pg.flags
            ELSE /\ calls' = [calls EXCEPT ![refresh[r].owner] = Free]
                 /\ page'.flags = pg.flags \ {"undoing"}
<1>1. /\ refresh \in [Refreshes -> RefreshType] /\ refresh[r].owner \in Slots \cup {0}
      /\ calls \in [Slots -> CallType]
  BY Types DEF RefreshType
<1>2. refresh' = [refresh EXCEPT ![r] = NoRefresh]
  BY DEF Ended
<1>3. /\ refresh' \in [Refreshes -> RefreshType] /\ refresh'[r].owner = 0
      /\ \A q \in Refreshes : q # r => refresh'[q] = refresh[q]
  BY <1>1, <1>2, NullTypes
<1>4. CASE refresh[r].owner = 0
  BY <1>1, <1>3, <1>4 DEF Ended
<1>5. CASE refresh[r].owner # 0
  <2> DEFINE a == [pg EXCEPT !.flags = @ \ {"undoing"}]
             b == [a EXCEPT !.ask = "none"]
  <2>1. calls' = [calls EXCEPT ![refresh[r].owner] = Free] /\ page' = b
    BY <1>5 DEF Ended
  <2>2. a \in PageType /\ a.flags = pg.flags \ {"undoing"} /\ a.text = pg.text
    BY DEF PageType
  <2>. HIDE DEF a
  <2>3. b \in PageType /\ b.flags = a.flags /\ b.text = a.text
    BY <2>2 DEF PageType
  <2>4. calls' \in [Slots -> CallType]
    BY <1>1, <1>5, <2>1, NullTypes
  <2>. HIDE DEF b
  <2>. QED BY <1>3, <1>5, <2>1, <2>2, <2>3, <2>4
<1>. QED BY <1>4, <1>5

LEMMA SentIs ==
  ASSUME TypeOK, NEW s \in Slots, NEW op \in Op, NEW push \in BOOLEAN, Sent(s, op, push)
  PROVE  /\ calls' \in [Slots -> CallType]
         /\ calls'[s].op = op /\ calls'[s].push = push
         /\ \A u \in Slots : u # s => calls'[u] = calls[u]
<1> DEFINE c == [op |-> op, phase |-> "sent", outcome |-> "none", push |-> push]
<1>1. c \in CallType /\ c.op = op /\ c.push = push
  BY DEF CallType, Outcome
<1>2. calls' = [calls EXCEPT ![s] = c] /\ calls \in [Slots -> CallType]
  BY Types DEF Sent
<1>. HIDE DEF c
<1>. QED BY <1>1, <1>2

LEMMA FreedIs ==
  ASSUME TypeOK, NEW s \in Slots, Freed(s)
  PROVE  /\ calls' \in [Slots -> CallType] /\ calls'[s] = Free
         /\ \A u \in Slots : u # s => calls'[u] = calls[u]
BY Types, NullTypes DEF Freed

LEMMA BusyIs ==
  ASSUME TypeOK, NEW op \in Op
  PROVE  /\ Busy(op) \in PageType /\ Busy(op).text = page.text
         /\ Busy(op).flags = page.flags \cup FlagOf(op)
<1> DEFINE p == [page EXCEPT !.flags = @ \cup FlagOf(op)]
           set(l) == [p EXCEPT !.lastOp = l]
           reset(l) == [set(l) EXCEPT !.result = "none"]
<1>1. page \in PageType /\ FlagOf(op) \subseteq Flag
  BY Types, FlagOfType
<1>2. p \in PageType /\ p.text = page.text /\ p.flags = page.flags \cup FlagOf(op)
  BY <1>1 DEF PageType
<1>. HIDE DEF p
<1>3. ASSUME NEW l \in {"none", "push", "pull"}
      PROVE  reset(l) \in PageType /\ reset(l).text = p.text /\ reset(l).flags = p.flags
  <2>1. set(l) \in PageType /\ set(l).text = p.text /\ set(l).flags = p.flags
    BY <1>2 DEF PageType
  <2>. HIDE DEF set
  <2>2. reset(l) \in PageType /\ reset(l).text = set(l).text /\ reset(l).flags = set(l).flags
    BY <2>1 DEF PageType, Outcome
  <2>. QED BY <2>1, <2>2
<1>4. /\ \A l : reset(l) = [p EXCEPT !.lastOp = l, !.result = "none"]
      /\ p = [page EXCEPT !.flags = @ \cup FlagOf(op)]
  BY DEF p
<1>. HIDE DEF reset
<1>5. CASE op \in {"push", "pull"}
  <2>1. Busy(op) = reset(op)
    BY <1>4, <1>5 DEF Busy
  <2>. QED BY <1>2, <1>3, <1>5, <2>1
<1>6. CASE op \in {"checkout", "switch"}
  <2>1. Busy(op) = reset("none")
    BY <1>4, <1>6 DEF Busy
  <2>. QED BY <1>2, <1>3, <2>1
<1>7. CASE op \notin {"push", "pull", "checkout", "switch"}
  <2>1. Busy(op) = p
    BY <1>4, <1>7 DEF Busy
  <2>. QED BY <1>2, <2>1
<1>. QED BY <1>5, <1>6, <1>7

LEMMA AnsweredIs ==
  ASSUME TypeOK, NEW s \in Slots
  PROVE  /\ Answered(s) \in PageType
         /\ Answered(s).flags = page.flags \ FlagOf(calls[s].op)
         /\ Answered(s).text = page.text \/ calls[s].op \in {"commit", "merge", "generate"}
<1> DEFINE op == calls[s].op
           p == [page EXCEPT !.flags = @ \ FlagOf(op)]
           a(res) == [p EXCEPT !.result = res]
           b(res) == [a(res) EXCEPT !.ask = "none"]
<1>1. page \in PageType /\ calls[s] \in CallType
  BY Types
<1>2. p \in PageType /\ p.text = page.text /\ p.flags = page.flags \ FlagOf(op)
  BY <1>1 DEF PageType
<1>3. p = [page EXCEPT !.flags = @ \ FlagCleared(s)]
  BY DEF FlagCleared
<1>. HIDE DEF p
<1>4. ASSUME NEW res \in Outcome
      PROVE  /\ a(res) \in PageType /\ a(res).text = p.text /\ a(res).flags = p.flags
             /\ b(res) \in PageType /\ b(res).text = p.text /\ b(res).flags = p.flags
  <2>1. a(res) \in PageType /\ a(res).text = p.text /\ a(res).flags = p.flags
    BY <1>2 DEF PageType
  <2>. HIDE DEF a
  <2>2. b(res) \in PageType /\ b(res).text = a(res).text /\ b(res).flags = a(res).flags
    BY <2>1 DEF PageType
  <2>. QED BY <2>1, <2>2
<1>5. ASSUME NEW x \in {"empty", "made"}
      PROVE  [p EXCEPT !.text = x] \in PageType /\ [p EXCEPT !.text = x].flags = p.flags
  BY <1>2 DEF PageType
<1>6. [p EXCEPT !.ask = "none"] \in PageType /\ [p EXCEPT !.ask = "none"].flags = p.flags
      /\ [p EXCEPT !.ask = "none"].text = p.text
  BY <1>2 DEF PageType
<1>7. calls[s].outcome \in Outcome
  BY <1>1 DEF CallType
<1>8. \/ Answered(s) = p \/ Answered(s) = [p EXCEPT !.ask = "none"]
      \/ /\ op \in {"commit", "merge", "generate"}
         /\ \E x \in {"empty", "made"} : Answered(s) = [p EXCEPT !.text = x]
      \/ \E res \in Outcome : Answered(s) = a(res) \/ Answered(s) = b(res)
  <2>1. CASE op = "discard"
    BY <1>3, <2>1 DEF Answered
  <2>2. CASE op \in {"commit", "merge"}
    BY <1>3, <2>2 DEF Answered
  <2>3. CASE op = "generate"
    BY <1>3, <2>3 DEF Answered
  <2>4. CASE op \in {"push", "pull", "checkout"}
    <3>1. Answered(s) = p \/ Answered(s) = a(calls[s].outcome)
      BY <1>3, <2>4 DEF Answered
    <3>. QED BY <1>7, <3>1
  <2>5. CASE op = "switch"
    <3> DEFINE res == IF Failed(s) THEN "error" ELSE p.result
    <3>1. Answered(s) = [p EXCEPT !.result = res, !.ask = "none"]
      BY <1>3, <2>5 DEF Answered
    <3>2. Answered(s) = b(res)
      BY <3>1
    <3>3. res \in Outcome
      BY <1>2 DEF PageType, Outcome
    <3>. QED BY <3>2, <3>3
  <2>6. CASE op \notin {"discard", "commit", "merge", "generate", "push", "pull", "checkout",
                       "switch"}
    BY <1>3, <2>6 DEF Answered
  <2>. QED BY <2>1, <2>2, <2>3, <2>4, <2>5, <2>6
<1>. HIDE DEF a, b
<1>. QED BY <1>2, <1>4, <1>5, <1>6, <1>8

-----------------------------------------------------------------------------
(* Every action keeps the invariant.                                        *)

\* A refresh begins, for a call or for none, and nothing else changes but the page
\* and the calls.
LEMMA StartKeeps ==
  ASSUME OwnerInv, TypeOK, NEW r \in Refreshes, NEW sh \in ShownType, StartedOver(r, 0, sh),
         \A q \in Refreshes : refresh[q].owner # 0 =>
           calls'[refresh[q].owner].op = "undo" /\ calls'[refresh[q].owner].phase = "done"
  PROVE  OwnerInv'
<1>1. /\ refresh'[r].owner = 0
      /\ \A q \in Refreshes : q # r => refresh'[q] = refresh[q]
  BY StartIs
<1>. QED BY <1>1 DEF OwnerInv

LEMMA StartsKeep ==
  ASSUME Inv, NEW r \in Refreshes, Started(r, 0), UNCHANGED <<repo, calls, page, using>>,
         watcher' \subseteq {"timer", "event"}
  PROVE  Inv'
<1>1. shown \in ShownType
  BY Types DEF Inv
<1>2. refresh' \in [Refreshes -> RefreshType] /\ shown' \in ShownType
  BY <1>1, StartIs DEF Inv, Started
<1>3. TypeOK'
  BY <1>2, Types DEF Inv, TypeOK, ShownType, RefreshType
<1>4. OwnerInv'
  BY <1>1, StartKeeps DEF Inv, Started, OwnerInv
<1>. QED BY <1>3, <1>4 DEF Inv, PushInv, FlagsHaveCalls

LEMMA ReadKeeps ==
  ASSUME Inv, NEW r \in Refreshes, NEW part \in {"sync", "merging"}, Read(r, part),
         UNCHANGED using
  PROVE  Inv'
<1> DEFINE s == refresh[r].snap
           now == IF part = "merging" THEN [s EXCEPT !.merging = repo.merging]
                  ELSE [s EXCEPT !.ahead = repo.ahead, !.behind = repo.behind]
           ver == IF refresh[r].got = {} THEN repo.ver ELSE s.ver
           snap == [now EXCEPT !.ver = ver]
           a == [refresh[r] EXCEPT !.got = @ \cup {part}]
           b == [a EXCEPT !.snap = snap]
<1>1. refresh \in [Refreshes -> RefreshType] /\ refresh[r] \in RefreshType /\ repo \in Repo
      /\ s \in Repo
  BY Types DEF Inv, RefreshType
<1>2. now \in Repo
  <2>1. [s EXCEPT !.merging = repo.merging] \in Repo
    BY <1>1 DEF Repo
  <2>2. [s EXCEPT !.ahead = repo.ahead, !.behind = repo.behind] \in Repo
    BY <1>1 DEF Repo
  <2>. QED BY <2>1, <2>2
<1>3. ver \in 0 .. MaxVer
  BY <1>1 DEF Repo
<1>4. refresh' = [refresh EXCEPT ![r] = b]
  BY <1>1 DEF Read
<1>. HIDE DEF now, ver
<1>5. snap \in Repo
  BY <1>2, <1>3 DEF Repo
<1>. HIDE DEF snap
<1>6. a \in RefreshType /\ a.owner = refresh[r].owner
  BY <1>1 DEF RefreshType
<1>. HIDE DEF a
<1>7. b \in RefreshType /\ b.owner = refresh[r].owner
  BY <1>5, <1>6 DEF RefreshType
<1>. HIDE DEF b
<1>8. UNCHANGED <<repo, watcher, shown, calls, page>>
  BY DEF Read
<1>9. refresh' \in [Refreshes -> RefreshType]
      /\ \A q \in Refreshes : refresh'[q].owner = refresh[q].owner
  BY <1>1, <1>4, <1>7
<1>10. TypeOK'
  BY <1>8, <1>9 DEF Inv, TypeOK, RefreshType
<1>. QED BY <1>8, <1>9, <1>10 DEF Inv, OwnerInv, PushInv, FlagsHaveCalls

\* The end of a refresh, and with it of the undo that awaited it.
LEMMA EndKeeps ==
  ASSUME Inv, NEW r \in Refreshes, NEW pg \in PageType, pg.flags = page.flags, Ended(r, pg),
         shown' \in ShownType, UNCHANGED <<repo, watcher, using>>
  PROVE  Inv'
<1>1. /\ refresh' \in [Refreshes -> RefreshType] /\ refresh'[r].owner = 0
      /\ \A q \in Refreshes : q # r => refresh'[q] = refresh[q]
      /\ calls' \in [Slots -> CallType] /\ page' \in PageType
      /\ IF refresh[r].owner = 0 THEN calls' = calls /\ page'.flags = page.flags
         ELSE /\ calls' = [calls EXCEPT ![refresh[r].owner] = Free]
              /\ page'.flags = page.flags \ {"undoing"}
  BY EndIs DEF Inv
<1>2. TypeOK'
  BY <1>1 DEF Inv, TypeOK, ShownType, RefreshType, CallType, PageType, Flag
<1>3. CASE refresh[r].owner = 0
  <2>1. calls' = calls /\ page'.flags = page.flags
    BY <1>1, <1>3
  <2>2. FlagsHaveCalls'
    BY <2>1 DEF Inv, FlagsHaveCalls
  <2>. QED BY <1>1, <1>2, <2>1, <2>2 DEF Inv, OwnerInv, PushInv
<1>4. CASE refresh[r].owner # 0
  <2>1. PICK s \in Slots : s = refresh[r].owner
    BY <1>4 DEF Inv, TypeOK
  <2>2. /\ calls'[s] = Free /\ \A u \in Slots : u # s => calls'[u] = calls[u]
        /\ page'.flags = page.flags \ {"undoing"}
    BY <1>1, <1>4, <2>1 DEF Inv, TypeOK
  <2>3. calls[s].op = "undo" /\ FlagOf(calls[s].op) = {"undoing"}
    BY <1>4, <2>1, FlagOfType DEF Inv, OwnerInv
  <2>4. FlagsHaveCalls'
    BY <2>2, <2>3, FlagsKept DEF Inv
  <2>5. PushInv'
    BY <2>2, NullTypes DEF Inv, PushInv
  <2>6. \A q \in Refreshes : refresh'[q].owner # 0 =>
          q # r /\ refresh'[q].owner = refresh[q].owner /\ refresh[q].owner # s
    BY <1>1, <1>4, <2>1 DEF Inv, OwnerInv
  <2>7. \A q \in Refreshes : refresh'[q].owner \in Slots \cup {0}
    BY <1>1 DEF RefreshType
  <2>8. OwnerInv'
    BY <2>2, <2>6, <2>7 DEF Inv, OwnerInv
  <2>. QED BY <1>2, <2>4, <2>5, <2>8 DEF Inv
<1>. QED BY <1>3, <1>4

LEMMA ApplyKeeps ==
  ASSUME Inv, NEW r \in Refreshes, Apply(r), UNCHANGED using PROVE Inv'
<1>1. /\ refresh \in [Refreshes -> RefreshType] /\ refresh[r] \in RefreshType
      /\ shown \in ShownType /\ page \in PageType
  BY Types DEF Inv
<1>2. shown' = [shown EXCEPT !.seen = refresh[r].snap] /\ UNCHANGED <<repo, watcher>>
  BY DEF Apply
<1>3. shown' \in ShownType
  BY <1>1, <1>2 DEF ShownType, RefreshType
<1>4. CASE refresh[r].snap.merging
  <2>1. refresh' = [refresh EXCEPT ![r].phase = "prefill"] /\ UNCHANGED <<calls, page>>
    BY <1>4 DEF Apply
  <2>2. refresh' \in [Refreshes -> RefreshType]
        /\ \A q \in Refreshes : refresh'[q].owner = refresh[q].owner
    BY <1>1, <2>1 DEF RefreshType
  <2>3. TypeOK'
    BY <1>2, <1>3, <2>1, <2>2 DEF Inv, TypeOK, RefreshType, ShownType
  <2>. QED BY <2>1, <2>2, <2>3 DEF Inv, OwnerInv, PushInv, FlagsHaveCalls
<1>5. CASE ~refresh[r].snap.merging
  BY <1>1, <1>2, <1>3, <1>5, EndKeeps DEF Apply
<1>. QED BY <1>4, <1>5

LEMMA ReadErrorKeeps ==
  ASSUME Inv, NEW r \in Refreshes, ReadError(r), UNCHANGED using PROVE Inv'
<1>1. shown' \in ShownType /\ page \in PageType
  BY Types DEF Inv, ReadError, ShownType
<1>. QED BY <1>1, EndKeeps DEF ReadError

LEMMA ReadMessageKeeps ==
  ASSUME Inv, NEW r \in Refreshes, ReadMessage(r), UNCHANGED using PROVE Inv'
<1>1. refresh \in [Refreshes -> RefreshType] /\ refresh[r] \in RefreshType
  BY Types DEF Inv
<1>2. PICK got \in {refresh[r].got, refresh[r].got \cup {"message"}} :
        refresh' = [refresh EXCEPT ![r].phase = "answered", ![r].got = got]
  BY DEF ReadMessage
<1>3. [refresh[r] EXCEPT !.phase = "answered", !.got = got] \in RefreshType
  BY <1>1, <1>2 DEF RefreshType
<1>4. refresh' = [refresh EXCEPT ![r] = [refresh[r] EXCEPT !.phase = "answered", !.got = got]]
  BY <1>1, <1>2
<1>5. refresh' \in [Refreshes -> RefreshType]
      /\ \A q \in Refreshes : refresh'[q].owner = refresh[q].owner
  BY <1>1, <1>3, <1>4 DEF RefreshType
<1>6. UNCHANGED <<repo, watcher, shown, calls, page>>
  BY DEF ReadMessage
<1>7. TypeOK'
  BY <1>5, <1>6 DEF Inv, TypeOK, RefreshType
<1>. QED BY <1>5, <1>6, <1>7 DEF Inv, OwnerInv, PushInv, FlagsHaveCalls

LEMMA MergeMessageKeeps ==
  ASSUME Inv, NEW r \in Refreshes, MergeMessage(r), UNCHANGED using PROVE Inv'
<1> DEFINE pg == [page EXCEPT !.text = Prefill(r)]
<1>1. page \in PageType /\ shown \in ShownType
  BY Types DEF Inv
<1>2. Prefill(r) \in {"empty", "typed", "made"}
  BY <1>1 DEF Prefill, PageType
<1>3. pg \in PageType /\ pg.flags = page.flags
  BY <1>1, <1>2 DEF PageType
<1>4. Ended(r, pg) /\ UNCHANGED <<repo, watcher, shown>>
  BY DEF MergeMessage
<1>. HIDE DEF pg
<1>. QED BY <1>1, <1>3, <1>4, EndKeeps

\* A call is sent for an operation whose flags its slot takes over.
LEMMA SendKeeps ==
  ASSUME Inv, NEW s \in Slots, NEW op \in Op, NEW push \in BOOLEAN, Sent(s, op, push),
         push => op = "pull",
         \A r \in Refreshes : refresh[r].owner # s,
         page' \in PageType,
         page'.flags \subseteq (page.flags \ FlagOf(calls[s].op)) \cup FlagOf(op),
         UNCHANGED <<repo, watcher, shown, refresh, using>>
  PROVE  Inv'
<1>1. /\ calls' \in [Slots -> CallType]
      /\ calls'[s].op = op /\ calls'[s].push = push
      /\ \A u \in Slots : u # s => calls'[u] = calls[u]
  BY SentIs DEF Inv
<1>2. TypeOK'
  BY <1>1 DEF Inv, TypeOK, CallType, PageType, Flag
<1>3. FlagsHaveCalls'
  BY <1>1, FlagsKept DEF Inv
<1>4. PushInv'
  BY <1>1 DEF Inv, PushInv
<1>5. OwnerInv'
  BY <1>1 DEF Inv, OwnerInv, TypeOK
<1>. QED BY <1>2, <1>3, <1>4, <1>5 DEF Inv

\* A slot that is free, and one whose call is not an undo, has no refresh.
LEMMA Unowned ==
  ASSUME Inv, NEW s \in Slots, calls[s].op # "undo" \/ calls[s].phase # "done"
  PROVE  \A r \in Refreshes : refresh[r].owner # s
BY GitRepoBounds DEF Inv, OwnerInv

LEMMA BeginKeeps ==
  ASSUME Inv, NEW s \in Slots, NEW op \in Op, Begin(s, op), UNCHANGED using PROVE Inv'
<1>1. calls[s] = Free /\ Sent(s, op, FALSE) /\ page' = Busy(op)
      /\ UNCHANGED <<repo, watcher, shown, refresh>>
  BY DEF Begin
<1>2. calls[s].op = "none" /\ FlagOf(calls[s].op) = {}
  BY <1>1, NullTypes, FlagOfType
<1>3. page' \in PageType /\ page'.flags = page.flags \cup FlagOf(op)
  BY <1>1, BusyIs DEF Inv
<1>4. \A r \in Refreshes : refresh[r].owner # s
  BY <1>2, Unowned
<1>. QED BY <1>1, <1>2, <1>3, <1>4, SendKeeps

LEMMA SyncKeeps ==
  ASSUME Inv, NEW s \in Slots, Sync(s), UNCHANGED using PROVE Inv'
<1> DEFINE first == IF shown.seen.behind > 0 THEN "pull" ELSE "push"
           push == first = "pull" /\ shown.seen.ahead > 0
<1>1. calls[s] = Free /\ Sent(s, first, push) /\ page' = Busy(first)
      /\ UNCHANGED <<repo, watcher, shown, refresh>>
  BY DEF Sync
<1>2. calls[s].op = "none" /\ FlagOf(calls[s].op) = {}
  BY <1>1, NullTypes, FlagOfType
<1>3. first \in Op /\ push \in BOOLEAN /\ (push => first = "pull")
  BY DEF Op
<1>4. \A r \in Refreshes : refresh[r].owner # s
  BY <1>2, Unowned
<1>. HIDE DEF first, push
<1>5. page' \in PageType /\ page'.flags = page.flags \cup FlagOf(first)
  BY <1>1, <1>3, BusyIs DEF Inv
<1>. QED BY <1>1, <1>2, <1>3, <1>4, <1>5, SendKeeps

\* What the user does to the page alone sets no flag.
LEMMA PageKeeps ==
  ASSUME Inv, page' \in PageType, page'.flags = page.flags,
         UNCHANGED <<repo, watcher, shown, refresh, calls, using>>
  PROVE  Inv'
<1>1. TypeOK'
  BY DEF Inv, TypeOK, PageType, Flag
<1>. QED BY <1>1 DEF Inv, OwnerInv, PushInv, FlagsHaveCalls

LEMMA ControlsKeep ==
  ASSUME Inv, UNCHANGED using,
         \/ \E op \in {"discard", "switch", "undo"} : Ask(op)
         \/ \E t \in {"empty", "typed"} : Type(t)
         \/ Cancel \/ Dismiss
  PROVE  Inv'
<1>1. page \in PageType
  BY Types DEF Inv
<1>2. ASSUME NEW op \in {"discard", "switch", "undo"}, Ask(op) PROVE Inv'
  <2>1. AskOf(op) \in {"none", "discard", "checkout", "undo"}
    BY DEF AskOf
  <2>2. page' = [page EXCEPT !.ask = AskOf(op)]
        /\ UNCHANGED <<repo, watcher, shown, refresh, calls>>
    BY <1>2 DEF Ask
  <2>3. page' \in PageType /\ page'.flags = page.flags
    BY <1>1, <2>1, <2>2 DEF PageType
  <2>. QED BY <2>2, <2>3, PageKeeps
<1>3. ASSUME NEW t \in {"empty", "typed"}, Type(t) PROVE Inv'
  <2>1. page' = [page EXCEPT !.text = t]
        /\ UNCHANGED <<repo, watcher, shown, refresh, calls>>
    BY <1>3 DEF Type
  <2>2. page' \in PageType /\ page'.flags = page.flags
    BY <1>1, <2>1 DEF PageType
  <2>. QED BY <2>1, <2>2, PageKeeps
<1>4. CASE Cancel \/ Dismiss
  <2>1. /\ page' = [page EXCEPT !.ask = "none"] \/ page' = [page EXCEPT !.result = "none"]
        /\ UNCHANGED <<repo, watcher, shown, refresh, calls>>
    BY <1>4 DEF Cancel, Dismiss
  <2>2. page' \in PageType /\ page'.flags = page.flags
    BY <1>1, <2>1 DEF PageType, Outcome
  <2>. QED BY <2>1, <2>2, PageKeeps
<1>. QED BY <1>2, <1>3, <1>4

\* git runs: the slot keeps its operation.
LEMMA RunKeeps ==
  ASSUME Inv, NEW s \in Slots, Run(s), UNCHANGED using PROVE Inv'
<1>1. PICK o \in Ran(calls[s].op) \cup {[kind |-> "error", repo |-> repo]} :
        /\ o.repo \in Repo /\ repo' = o.repo
        /\ watcher' = watcher \cup (IF o.repo.ver # repo.ver THEN {"timer"} ELSE {})
             \cup (IF calls[s].op = "clear" /\ o.kind = "ok" THEN {"event"} ELSE {})
        /\ calls' = [calls EXCEPT ![s].phase = "done", ![s].outcome = o.kind]
  BY DEF Run
<1>2. calls[s].phase = "sent" /\ UNCHANGED <<shown, refresh, page>>
  BY DEF Run
<1>3. o.kind \in Outcome
  BY <1>1 DEF Ran, Outcome
<1>4. calls \in [Slots -> CallType] /\ calls[s] \in CallType
  BY Types DEF Inv
<1> DEFINE a == [calls[s] EXCEPT !.phase = "done"]
           b == [a EXCEPT !.outcome = o.kind]
<1>5. calls' = [calls EXCEPT ![s] = b]
  BY <1>1, <1>4
<1>6. a \in CallType /\ a.op = calls[s].op /\ a.push = calls[s].push /\ a.phase = "done"
  BY <1>4 DEF CallType
<1>. HIDE DEF a
<1>7. b \in CallType /\ b.op = calls[s].op /\ b.push = calls[s].push /\ b.phase = "done"
  BY <1>3, <1>6 DEF CallType
<1>. HIDE DEF b
<1>8. /\ calls' \in [Slots -> CallType]
      /\ \A u \in Slots : /\ calls'[u].op = calls[u].op /\ calls'[u].push = calls[u].push
                          /\ calls[u].phase = "done" => calls'[u].phase = "done"
  BY <1>4, <1>5, <1>7
<1>9. TypeOK'
  <2>1. watcher' \subseteq {"timer", "event"}
    BY <1>1 DEF Inv, TypeOK
  <2>. QED BY <1>1, <1>2, <1>8, <2>1 DEF Inv, TypeOK, CallType
<1>10. FlagsHaveCalls' /\ PushInv'
  BY <1>2, <1>8 DEF Inv, FlagsHaveCalls, PushInv
<1>11. OwnerInv'
  BY <1>2, <1>8 DEF Inv, OwnerInv, TypeOK
<1>. QED BY <1>9, <1>10, <1>11 DEF Inv

\* An answer frees its slot, and takes the flags of its operation off.
LEMMA AnswerKeeps ==
  ASSUME Inv, NEW s \in Slots, NEW r \in Refreshes, Answer(s, r), UNCHANGED using
  PROVE  Inv'
<1> DEFINE op == calls[s].op
           caught == Failed(s) /\ op \in {"stage", "discard", "commit", "merge", "generate"}
           lost == Failed(s) /\ op \in {"stageAll", "createBranch"}
           left == [shown EXCEPT !.seen.merging = @ /\ op # "merge"]
<1>1. /\ calls[s].phase = "done" /\ op \notin {"clear", "undo"} /\ Freed(s)
      /\ page' = Answered(s) /\ UNCHANGED <<repo, watcher>>
  BY DEF Answer
<1>2. IF caught \/ lost \/ op = "generate"
      THEN shown' = [shown EXCEPT !.error = @ \/ caught] /\ UNCHANGED refresh
      ELSE StartedOver(r, 0, left)
  BY DEF Answer
<1>3. shown \in ShownType /\ shown.seen \in Repo
  BY Types DEF Inv, ShownType
<1>4. left \in ShownType
  <2> DEFINE seen == [shown.seen EXCEPT !.merging = @ /\ op # "merge"]
  <2>1. (shown.seen.merging /\ op # "merge") \in BOOLEAN
    OBVIOUS
  <2>2. seen \in Repo
    BY <1>3, <2>1 DEF Repo
  <2>3. left = [shown EXCEPT !.seen = seen]
    BY <1>3 DEF ShownType
  <2>. HIDE DEF seen, left
  <2>. QED BY <1>3, <2>2, <2>3 DEF ShownType
<1>5. /\ calls' \in [Slots -> CallType] /\ calls'[s] = Free
      /\ \A u \in Slots : u # s => calls'[u] = calls[u]
  BY <1>1, FreedIs DEF Inv
<1>6. page' \in PageType /\ page'.flags = page.flags \ FlagOf(op)
  BY <1>1, AnsweredIs DEF Inv
<1>7. \A q \in Refreshes : refresh[q].owner # s
  BY <1>1, Unowned
<1>8. \A q \in Refreshes : refresh[q].owner # 0 =>
        calls'[refresh[q].owner].op = "undo" /\ calls'[refresh[q].owner].phase = "done"
  <2>1. \A q \in Refreshes : refresh[q].owner \in Slots \cup {0}
    BY Types DEF Inv, RefreshType
  <2>. QED BY <1>5, <1>7, <2>1 DEF Inv, OwnerInv
<1>9. FlagsHaveCalls' /\ PushInv'
  <2>1. FlagsHaveCalls'
    BY <1>5, <1>6, FlagsKept DEF Inv
  <2>2. PushInv'
    BY <1>5, NullTypes DEF Inv, PushInv
  <2>. QED BY <2>1, <2>2
<1>10. CASE caught \/ lost \/ op = "generate"
  <2>1. shown' = [shown EXCEPT !.error = @ \/ caught] /\ UNCHANGED refresh
    BY <1>2, <1>10
  <2>2. (shown.error \/ caught) \in BOOLEAN
    OBVIOUS
  <2>. HIDE DEF caught
  <2>3. shown' \in ShownType
    BY <1>3, <2>1, <2>2 DEF ShownType
  <2>4. TypeOK'
    BY <1>1, <1>5, <1>6, <2>1, <2>3, Types DEF Inv, TypeOK, CallType, PageType, Flag, ShownType
  <2>5. OwnerInv'
    BY <1>8, <2>1 DEF Inv, OwnerInv
  <2>. QED BY <1>9, <2>4, <2>5 DEF Inv
<1>11. CASE ~(caught \/ lost \/ op = "generate")
  <2>1. StartedOver(r, 0, left)
    BY <1>2, <1>11
  <2>. HIDE DEF left
  <2>2. refresh' \in [Refreshes -> RefreshType] /\ shown' \in ShownType
    BY <1>4, <2>1, StartIs DEF Inv
  <2>3. TypeOK'
    BY <1>1, <1>5, <1>6, <2>2 DEF Inv, TypeOK, CallType, PageType, Flag, ShownType, RefreshType
  <2>4. OwnerInv'
    BY <1>4, <1>8, <2>1, StartKeeps DEF Inv
  <2>. QED BY <1>9, <2>3, <2>4 DEF Inv
<1>. QED BY <1>10, <1>11

\* The push of a sync takes the slot of its pull.
LEMMA AnswerThenPushKeeps ==
  ASSUME Inv, NEW s \in Slots, NEW r \in Refreshes, AnswerThenPush(s, r), UNCHANGED using
  PROVE  Inv'
<1>1. /\ calls[s].push /\ Sent(s, "push", FALSE) /\ StartedOver(r, 0, shown)
      /\ page' = [page EXCEPT !.flags = (@ \ FlagCleared(s)) \cup {"pushing"},
                              !.lastOp = "push", !.result = "none"]
      /\ UNCHANGED <<repo, watcher>>
  BY DEF AnswerThenPush, Started
<1>2. shown \in ShownType /\ page \in PageType
  BY Types DEF Inv
<1>3. /\ calls' \in [Slots -> CallType]
      /\ calls'[s].op = "push" /\ calls'[s].push = FALSE
      /\ \A u \in Slots : u # s => calls'[u] = calls[u]
  BY <1>1, SentIs DEF Inv, Op
<1> DEFINE fl == (page.flags \ FlagOf(calls[s].op)) \cup {"pushing"}
           a == [page EXCEPT !.flags = fl]
           b == [a EXCEPT !.lastOp = "push"]
           c == [b EXCEPT !.result = "none"]
<1>4. page' = c
  BY <1>1 DEF FlagCleared
<1>5. fl \subseteq Flag
  BY <1>2 DEF PageType, Flag
<1>6. page' \in PageType /\ page'.flags = fl
  <2>. HIDE DEF fl
  <2>1. a \in PageType /\ a.flags = fl
    BY <1>2, <1>5 DEF PageType
  <2>. HIDE DEF a
  <2>2. b \in PageType /\ b.flags = fl
    BY <2>1 DEF PageType
  <2>. HIDE DEF b
  <2>3. c \in PageType /\ c.flags = fl
    BY <2>2 DEF PageType, Outcome
  <2>. HIDE DEF c
  <2>. QED BY <1>4, <2>3
<1>7. calls[s].op = "pull"
  BY <1>1 DEF Inv, PushInv
<1>8. \A q \in Refreshes : refresh[q].owner # s
  BY <1>7, Unowned
<1>9. \A q \in Refreshes : refresh[q].owner # 0 =>
        calls'[refresh[q].owner].op = "undo" /\ calls'[refresh[q].owner].phase = "done"
  <2>1. \A q \in Refreshes : refresh[q].owner \in Slots \cup {0}
    BY Types DEF Inv, RefreshType
  <2>. QED BY <1>3, <1>8, <2>1 DEF Inv, OwnerInv
<1>10. OwnerInv'
  BY <1>1, <1>2, <1>9, StartKeeps DEF Inv
<1>11. refresh' \in [Refreshes -> RefreshType] /\ shown' \in ShownType
  BY <1>1, <1>2, StartIs DEF Inv
<1>12. TypeOK'
  BY <1>1, <1>3, <1>6, <1>11 DEF Inv, TypeOK, CallType, PageType, Flag, ShownType, RefreshType
<1>13. FlagsHaveCalls'
  BY <1>3, <1>6, FlagsKept, FlagOfType DEF Inv
<1>14. PushInv'
  BY <1>3 DEF Inv, PushInv
<1>. QED BY <1>10, <1>12, <1>13, <1>14 DEF Inv

LEMMA AnswerClearKeeps ==
  ASSUME Inv, NEW s \in Slots, NEW r \in Refreshes, AnswerClear(s, r), UNCHANGED using
  PROVE  Inv'
<1>1. calls[s].op = "clear" /\ UNCHANGED <<repo, watcher>>
  BY DEF AnswerClear
<1>2. FlagOf(calls[s].op) = {} /\ \A q \in Refreshes : refresh[q].owner # s
  BY <1>1, FlagOfType, Unowned
<1>3. page \in PageType /\ shown \in ShownType
  BY Types DEF Inv
<1>4. ASSUME Freed(s)
      PROVE  /\ calls' \in [Slots -> CallType] /\ PushInv'
             /\ page'.flags = page.flags => FlagsHaveCalls'
             /\ \A q \in Refreshes : refresh[q].owner # 0 =>
                  calls'[refresh[q].owner].op = "undo" /\ calls'[refresh[q].owner].phase = "done"
  <2>1. /\ calls' \in [Slots -> CallType] /\ calls'[s] = Free
        /\ \A u \in Slots : u # s => calls'[u] = calls[u]
    BY <1>4, FreedIs DEF Inv
  <2>2. \A q \in Refreshes : refresh[q].owner \in Slots \cup {0}
    BY Types DEF Inv, RefreshType
  <2>3. PushInv'
    BY <2>1, NullTypes DEF Inv, PushInv
  <2>4. page'.flags = page.flags => FlagsHaveCalls'
    BY <1>2, <2>1, FlagsKept DEF Inv
  <2>. QED BY <1>2, <2>1, <2>2, <2>3, <2>4 DEF Inv, OwnerInv
<1>5. CASE Freed(s) /\ UNCHANGED <<page, refresh, shown>>
  BY <1>1, <1>4, <1>5 DEF Inv, TypeOK, CallType, OwnerInv
<1>6. CASE /\ page.lastOp # "none" /\ Sent(s, page.lastOp, FALSE)
           /\ page' = Busy(page.lastOp) /\ UNCHANGED <<refresh, shown>>
  <2>1. page.lastOp \in Op
    BY <1>3, <1>6 DEF PageType, Op
  <2>2. page' \in PageType /\ page'.flags = page.flags \cup FlagOf(page.lastOp)
    BY <1>6, <2>1, BusyIs DEF Inv
  <2>. QED BY <1>1, <1>2, <1>6, <2>1, <2>2, SendKeeps
<1>7. CASE Freed(s) /\ page' = [page EXCEPT !.result = "none"] /\ StartedOver(r, 0, shown)
  <2>1. page' \in PageType /\ page'.flags = page.flags
    BY <1>3, <1>7 DEF PageType, Outcome
  <2>2. refresh' \in [Refreshes -> RefreshType] /\ shown' \in ShownType
    BY <1>3, <1>7, StartIs DEF Inv
  <2>3. OwnerInv'
    BY <1>3, <1>4, <1>7, StartKeeps DEF Inv
  <2>4. TypeOK'
    BY <1>1, <1>4, <1>7, <2>1, <2>2 DEF Inv, TypeOK, CallType, PageType, Flag, ShownType, RefreshType
  <2>. QED BY <1>4, <1>7, <2>1, <2>3, <2>4 DEF Inv
<1>. QED BY <1>5, <1>6, <1>7 DEF AnswerClear, Started

\* confirmUndo starts the refresh that it awaits: the only one of its slot.
LEMMA AnswerUndoKeeps ==
  ASSUME Inv, NEW s \in Slots, NEW r \in Refreshes, AnswerUndo(s, r), UNCHANGED using
  PROVE  Inv'
<1>1. /\ calls[s].phase = "done" /\ calls[s].op = "undo"
      /\ \A q \in Refreshes : refresh[q].owner # s
      /\ StartedOver(r, s, shown) /\ UNCHANGED <<repo, watcher, calls, page>>
  BY DEF AnswerUndo, Started
<1>2. shown \in ShownType
  BY Types DEF Inv
<1>3. /\ refresh' \in [Refreshes -> RefreshType] /\ shown' \in ShownType
      /\ refresh'[r].owner = s
      /\ \A q \in Refreshes : q # r => refresh'[q] = refresh[q]
  BY <1>1, <1>2, StartIs DEF Inv
<1>4. TypeOK'
  BY <1>1, <1>3 DEF Inv, TypeOK, ShownType, RefreshType
<1>5. OwnerInv'
  BY <1>1, <1>3 DEF Inv, OwnerInv
<1>. QED BY <1>1, <1>4, <1>5 DEF Inv, PushInv, FlagsHaveCalls

LEMMA WatcherKeeps ==
  ASSUME Inv, repo' \in Repo, watcher' \subseteq {"timer", "event"},
         UNCHANGED <<shown, refresh, calls, page, using>>
  PROVE  Inv'
BY DEF Inv, TypeOK, OwnerInv, PushInv, FlagsHaveCalls

-----------------------------------------------------------------------------
LEMMA Initial == Init => Inv
<1>. SUFFICES ASSUME Init PROVE Inv
  OBVIOUS
<1>1. repo \in Repo
  <2>1. NoRepo \in Repo
    BY NullTypes
  <2> DEFINE a == [NoRepo EXCEPT !.ahead = 1]
             b == [a EXCEPT !.behind = 1]
             c == [b EXCEPT !.merging = TRUE]
  <2>2. repo \in {a, b, c}
    BY DEF Init
  <2>3. a \in Repo
    BY <2>1, GitRepoBounds DEF Repo
  <2>. HIDE DEF a
  <2>4. b \in Repo
    BY <2>3, GitRepoBounds DEF Repo
  <2>. HIDE DEF b
  <2>5. c \in Repo
    BY <2>4 DEF Repo
  <2>. QED BY <2>2, <2>3, <2>4, <2>5
<1>2. shown \in ShownType
  BY <1>1 DEF Init, ShownType
<1>3. refresh \in [Refreshes -> RefreshType] /\ \A r \in Refreshes : refresh[r].owner = 0
  BY NullTypes DEF Init
<1>4. calls \in [Slots -> CallType] /\ \A s \in Slots : calls[s].push = FALSE
  BY NullTypes DEF Init
<1>5. page \in PageType /\ page.flags = {}
  BY DEF Init, PageType, Outcome
<1>6. TypeOK
  BY <1>1, <1>2, <1>3, <1>4, <1>5, Types DEF Init
<1>. QED BY <1>3, <1>4, <1>5, <1>6 DEF Inv, OwnerInv, PushInv, FlagsHaveCalls

LEMMA Inductive == Inv /\ [Next]_gitRepoVars => Inv'
<1>. SUFFICES ASSUME Inv, [Next]_gitRepoVars PROVE Inv'
  OBVIOUS
<1>1. CASE UNCHANGED gitRepoVars
  BY <1>1, WatcherKeeps DEF gitRepoVars, Inv, TypeOK
<1>2. CASE Next
  <2>0. UNCHANGED using
    BY <1>2 DEF Next
  <2>1. CASE User
    <3>1. ASSUME NEW r \in Refreshes, Reload(r) PROVE Inv'
      BY <2>0, <3>1, StartsKeep DEF Reload, Inv, TypeOK
    <3>2. CASE Outside
      BY <2>0, <3>2, WatcherKeeps DEF Outside, Inv, TypeOK
    <3>. QED BY <2>0, <2>1, <3>1, <3>2, SyncKeeps, BeginKeeps, ControlsKeep DEF User
  <2>2. ASSUME NEW r \in Refreshes, RefreshStep(r) PROVE Inv'
    BY <2>0, <2>2, ReadKeeps, ApplyKeeps, ReadErrorKeeps, ReadMessageKeeps,
      MergeMessageKeeps DEF RefreshStep
  <2>3. ASSUME NEW s \in Slots, CallStep(s) PROVE Inv'
    BY <2>0, <2>3, RunKeeps, AnswerKeeps, AnswerThenPushKeeps, AnswerClearKeeps, AnswerUndoKeeps
       DEF CallStep
  <2>4. CASE TimerFires
    BY <2>0, <2>4, WatcherKeeps DEF TimerFires, Inv, TypeOK
  <2>5. CASE Notice
    BY <2>0, <2>5, StartsKeep DEF Notice, Changed, OnChanged, Inv, TypeOK
  <2>. QED BY <1>2, <2>1, <2>2, <2>3, <2>4, <2>5 DEF Next
<1>. QED BY <1>1, <1>2

LEMMA InvHolds == Spec => []Inv
BY Initial, Inductive, PTL DEF Spec

\* Every variable of the page's repository keeps its type.
THEOREM TypeCorrect == Spec => []TypeOK
<1>1. Inv => TypeOK
  BY DEF Inv
<1>. QED BY <1>1, InvHolds, PTL

\* A busy flag has a call in flight that will take it off, however many calls and
\* refreshes overlap: no path through an operation leaves its button disabled.
THEOREM FlagsComeOff == Spec => []FlagsHaveCalls
<1>1. Inv => FlagsHaveCalls
  BY DEF Inv
<1>. QED BY <1>1, InvHolds, PTL

\* What may replace the typed text.
Replaced ==
  \/ Type("empty")
  \/ \E s \in Slots, r \in Refreshes :
       Answer(s, r) /\ calls[s].op \in {"commit", "merge", "generate"}

LEMMA TextKept ==
  ASSUME Inv, [Next]_gitRepoVars, page.text = "typed", page'.text # "typed"
  PROVE  Replaced
<1>1. page \in PageType
  BY Types DEF Inv
<1>2. Next
  BY DEF gitRepoVars
<1>3. ASSUME NEW r \in Refreshes, Apply(r) \/ ReadError(r) PROVE FALSE
  <2>1. UNCHANGED page \/ Ended(r, page)
    BY <1>3 DEF Apply, ReadError
  <2>. QED BY <1>1, <2>1, EndIs DEF Inv
<1>4. ASSUME NEW r \in Refreshes, MergeMessage(r) PROVE FALSE
  <2> DEFINE pg == [page EXCEPT !.text = Prefill(r)]
  <2>1. Prefill(r) = "typed"
    BY DEF Prefill
  <2>2. Ended(r, pg)
    BY <1>4 DEF MergeMessage
  <2>3. pg \in PageType /\ pg.text = "typed"
    BY <1>1, <2>1 DEF PageType
  <2>. HIDE DEF pg
  <2>. QED BY <2>2, <2>3, EndIs DEF Inv
<1>5. ASSUME NEW s \in Slots, NEW op \in Op, Begin(s, op) PROVE FALSE
  BY <1>5, BusyIs DEF Inv, Begin
<1>6. ASSUME NEW s \in Slots, Sync(s) PROVE FALSE
  <2>1. \E op \in Op : page' = Busy(op)
    BY <1>6 DEF Sync, Op
  <2>. QED BY <2>1, BusyIs DEF Inv
<1>7. ASSUME Cancel \/ Dismiss \/ \E op \in {"discard", "switch", "undo"} : Ask(op) PROVE FALSE
  BY <1>1, <1>7 DEF Cancel, Dismiss, Ask, PageType
<1>8. ASSUME NEW t \in {"empty", "typed"}, Type(t) PROVE Type("empty")
  BY <1>1, <1>8 DEF Type, PageType
<1>9. ASSUME NEW s \in Slots, NEW r \in Refreshes, Answer(s, r)
      PROVE  calls[s].op \in {"commit", "merge", "generate"}
  BY <1>9, AnsweredIs DEF Inv, Answer
<1>10. ASSUME NEW s \in Slots, NEW r \in Refreshes, AnswerThenPush(s, r) PROVE FALSE
  BY <1>1, <1>10 DEF AnswerThenPush, PageType
<1>11. ASSUME NEW s \in Slots, NEW r \in Refreshes, AnswerClear(s, r) PROVE FALSE
  <2>1. page.lastOp # "none" => page.lastOp \in Op
    BY <1>1 DEF PageType, Op
  <2>. QED BY <1>1, <1>11, <2>1, BusyIs DEF Inv, AnswerClear, PageType
<1>12. UNCHANGED page => FALSE
  OBVIOUS
<1>. QED BY <1>2, <1>3, <1>4, <1>5, <1>6, <1>7, <1>8, <1>9, <1>10, <1>11, <1>12
     DEF Next, User, RefreshStep, CallStep, Notice, Replaced, Reload, Read, ReadMessage, Run, AnswerUndo,
         Outside, TimerFires, Changed

\* Text that the user typed goes only when the user clears it, or when a commit, a
\* merge or a generated message that was asked for is answered: no refresh and no
\* other answer, however late, overwrites it.
THEOREM TypedTextIsKept == Spec => TypedTextKept
<1>1. Inv /\ [Next]_gitRepoVars
        => [page.text = "typed" /\ page'.text # "typed"
              => \/ Type("empty")
                 \/ \E s \in Slots, r \in Refreshes :
                      Answer(s, r) /\ calls[s].op \in {"commit", "merge", "generate"}
           ]_gitRepoVars
  BY TextKept DEF Replaced
<1>. QED BY <1>1, InvHolds, PTL DEF Spec, TypedTextKept
=============================================================================
