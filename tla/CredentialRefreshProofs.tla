---------------------- MODULE CredentialRefreshProofs ----------------------
(***************************************************************************)
(* Theorems about CredentialRefresh for any number of callers, processes,  *)
(* tokens and crashes.                                                     *)
(***************************************************************************)
EXTENDS CredentialRefresh, TLAPS

LEMMA NullTypes ==
  NoCreds \in Creds /\ NoReply \in Reply /\ 0 \in Token /\ 1 \in Token
BY EnvAssumption DEF NoCreds, Creds, Token, NoReply, Reply

LEMMA InitType == Init => TypeOK
<1> SUFFICES ASSUME Init PROVE TypeOK
  OBVIOUS
<1> USE DEF Init
<1>1. disk \in Creds /\ issued \in Token
  BY NullTypes DEF Creds, NoCreds
<1>2. lockOwner \in Caller \cup {NoOne} /\ lockAge \in Nat
  OBVIOUS
<1>3. pc \in [Caller -> PC]
  BY DEF PC
<1>4. mem \in [Caller -> Creds] /\ reply \in [Caller -> Reply]
  BY NullTypes
<1>5. locked \in [Caller -> BOOLEAN]
  BY Zenon
<1>6. /\ timer \in [Caller -> Nat]
      /\ result \in [Caller -> {"none", "ok", "error", "rejected"}]
  OBVIOUS
<1>7. valid \subseteq 1..MaxIssued
  BY EnvAssumption DEF NoCreds
<1>8. lapsed \in Token /\ dead \in Token /\ crashes \in 0..MaxCrashes
  BY NullTypes, EnvAssumption
<1>9. degraded \in BOOLEAN /\ stranded \in BOOLEAN
  BY Zenon
<1> QED
  BY <1>1, <1>2, <1>3, <1>4, <1>5, <1>6, <1>7, <1>8, <1>9 DEF TypeOK

\* A caller that leaves freshCreds is left well typed.
LEMMA ResetType ==
  ASSUME TypeOK, NEW C \in SUBSET Caller, Reset(C)
  PROVE  /\ pc' \in [Caller -> PC]
         /\ mem' \in [Caller -> Creds]
         /\ locked' \in [Caller -> BOOLEAN]
         /\ timer' \in [Caller -> Nat]
         /\ reply' \in [Caller -> Reply]
         /\ result' \in [Caller -> {"none", "ok", "error", "rejected"}]
<1> USE DEF TypeOK, Reset
<1>1. pc' \in [Caller -> PC]
  BY DEF PC
<1>2. mem' \in [Caller -> Creds] /\ reply' \in [Caller -> Reply]
  BY NullTypes
<1>3. locked' \in [Caller -> BOOLEAN]
  BY Zenon
<1>4. timer' \in [Caller -> Nat]
  OBVIOUS
<1>5. result' \in [Caller -> {"none", "ok", "error", "rejected"}]
  OBVIOUS
<1> QED
  BY <1>1, <1>2, <1>3, <1>4, <1>5

LEMMA StepType ==
  ASSUME TypeOK, NEW c \in Caller, Step(c) PROVE TypeOK'
<1> USE DEF fileVars, callVars, serverVars, life, history, Goto, PC
<1>1. CASE FirstRead(c)
  BY <1>1 DEF FirstRead, TypeOK
<1>2. CASE CreateLock(c)
  <2>1. /\ lockOwner' \in Caller \cup {NoOne} /\ lockAge' \in Nat
        /\ pc' \in [Caller -> PC]
        /\ timer' \in [Caller -> Nat]
    BY <1>2 DEF TypeOK, CreateLock
  <2>2. locked' \in [Caller -> BOOLEAN]
    BY <1>2 DEF CreateLock, TypeOK
  <2> QED
    BY <1>2, <2>1, <2>2 DEF TypeOK, CreateLock
<1>3. CASE CreateLockError(c)
  BY <1>3 DEF CreateLockError, TypeOK
<1>4. CASE InspectLock(c)
  <2>1. pc' \in [Caller -> PC] /\ timer' \in [Caller -> Nat]
    BY <1>4 DEF InspectLock, TypeOK
  <2>2. degraded' \in BOOLEAN
    BY <1>4, Zenon DEF InspectLock, TypeOK
  <2> QED
    BY <1>4, <2>1, <2>2 DEF TypeOK, InspectLock
<1>5. CASE ReclaimLock(c)
  BY <1>5 DEF ReclaimLock, TypeOK
<1>6. CASE ReRead(c)
  BY <1>6 DEF ReRead, Seen, TypeOK
<1>7. CASE Redeem(c)
  <2>1. pc' \in [Caller -> PC]
    BY <1>7 DEF Redeem, TypeOK
  <2>2. reply' \in [Caller -> Reply]
    <3>1. CASE reply' = [reply EXCEPT ![c].kind = "transient"]
      BY <3>1 DEF TypeOK, Reply
    <3>2. CASE reply' = [reply EXCEPT ![c].kind = "rejected"]
      BY <3>2 DEF TypeOK, Reply
    <3>3. CASE /\ issued < MaxIssued
               /\ reply' = [reply EXCEPT ![c] =
                    [kind |-> "ok", creds |-> Refreshed(mem[c], issued + 1)]]
      <4>1. mem[c] \in Creds /\ issued + 1 \in Token
        BY <3>3, EnvAssumption DEF TypeOK, Token
      <4>2. Refreshed(mem[c], issued + 1) \in Creds
        BY <4>1 DEF Refreshed, Creds
      <4> QED
        BY <3>3, <4>2 DEF TypeOK, Reply
    <3> QED
      BY <1>7, <3>1, <3>2, <3>3 DEF Redeem
  <2>3. issued' \in Token /\ valid' \subseteq 1..MaxIssued
    BY <1>7, EnvAssumption DEF Redeem, TypeOK, Token
  <2>4. stranded' \in BOOLEAN
    BY <1>7, Zenon DEF Redeem, TypeOK
  <2> QED
    BY <1>7, <2>1, <2>2, <2>3, <2>4 DEF Redeem, TypeOK
<1>8. CASE Finish(c)
  <2>1. pc' \in [Caller -> PC]
        /\ result' \in [Caller -> {"none", "ok", "error", "rejected"}]
    BY <1>8 DEF Finish, TypeOK
  <2>2. disk' \in Creds /\ reply' \in [Caller -> Reply]
    BY <1>8, NullTypes DEF Finish, Persisted, TypeOK, Reply
  <2>3. stranded' \in BOOLEAN
    BY <1>8, Zenon DEF Finish, TypeOK
  <2> QED
    BY <1>8, <2>1, <2>2, <2>3 DEF Finish, TypeOK
<1>9. CASE Release(c)
  <2>1. {c} \in SUBSET Caller /\ Reset({c})
    BY <1>9 DEF Release
  <2>2. lockOwner' \in Caller \cup {NoOne} /\ lockAge' \in Nat
    BY <1>9 DEF Release, TypeOK
  <2> QED
    BY <1>9, <2>1, <2>2, ResetType DEF Release, TypeOK
<1> QED
  BY <1>1, <1>2, <1>3, <1>4, <1>5, <1>6, <1>7, <1>8, <1>9 DEF Step

\* Every reachable state is well typed; in particular nobody holds a token that
\* the server has not issued.
THEOREM TypeCorrect == Spec => []TypeOK
<1>1. TypeOK /\ [Next]_vars => TypeOK'
  <2> SUFFICES ASSUME TypeOK, [Next]_vars PROVE TypeOK'
    OBVIOUS
  <2> USE EnvAssumption, NullTypes
      DEF TypeOK, fileVars, callVars, serverVars, life, history
  <2>1. ASSUME NEW c \in Caller, Step(c) PROVE TypeOK'
    BY <2>1, StepType
  <2>2. CASE Login
    BY <2>2 DEF Login, Creds, Token
  <2>3. CASE Logout
    BY <2>3 DEF Logout
  <2>4. CASE Revoke
    BY <2>4 DEF Revoke
  <2>5. CASE Expire
    BY <2>5 DEF Expire, Token
  <2>6. ASSUME NEW p, Crash(p) PROVE TypeOK'
    <3> DEFINE gone == {c \in Caller : ProcOf[c] = p}
    <3>1. Reset(gone) /\ gone \in SUBSET Caller
      BY <2>6 DEF Crash
    <3>2. crashes' \in 0..MaxCrashes
      BY <2>6 DEF Crash
    <3>3. stranded' \in BOOLEAN
      BY <2>6, Zenon DEF Crash
    <3> QED
      BY <2>6, <3>1, <3>2, <3>3, ResetType DEF Crash
  <2>7. CASE Tick
    BY <2>7, TimeAssumption DEF Tick, AtMost
  <2>8. CASE UNCHANGED vars
    BY <2>8 DEF vars
  <2> QED
    BY <2>1, <2>2, <2>3, <2>4, <2>5, <2>6, <2>7, <2>8 DEF Next
<1> QED
  BY InitType, <1>1, PTL DEF Spec

-----------------------------------------------------------------------------
(***************************************************************************)
(* The lock file.  If no call works longer than StaleAfter and no process  *)
(* is killed, a lock file is never reclaimed, so its creation and removal  *)
(* are those of one caller.                                                *)
(***************************************************************************)

Holds(c) == Working(c) /\ locked[c]

\* The lock file exists exactly while its creator works, and is no older than the
\* time the creator has worked; so nobody ever finds it stale.
LockInv ==
  /\ \A c \in Caller : Holds(c) => lockOwner = c /\ lockAge <= timer[c]
  /\ \A c \in Caller : locked[c] => Working(c)
  /\ lockOwner # NoOne => Holds(lockOwner)
  /\ \A c \in Caller : Working(c) => timer[c] <= MaxHold
  /\ \A c \in Caller : pc[c] # "reclaim"

LEMMA LockStep ==
  ASSUME MaxHold <= StaleAfter, TypeOK, LockInv, NEW c \in Caller, Step(c)
  PROVE  LockInv'
<1> USE CallerAssumption, TimeAssumption
    DEF LockInv, TypeOK, Holds, Working, Goto, fileVars
<1>1. CASE FirstRead(c)
  BY <1>1 DEF FirstRead
<1>2. CASE CreateLock(c)
  BY <1>2 DEF CreateLock
<1>3. CASE CreateLockError(c)
  BY <1>3 DEF CreateLockError
<1>4. CASE InspectLock(c)
  <2>1. ~Stale
    BY DEF Stale
  <2> QED
    BY <1>4, <2>1 DEF InspectLock
<1>5. CASE ReclaimLock(c)
  BY <1>5 DEF ReclaimLock
<1>6. CASE ReRead(c)
  BY <1>6 DEF ReRead
<1>7. CASE Redeem(c)
  BY <1>7 DEF Redeem
<1>8. CASE Finish(c)
  BY <1>8 DEF Finish
<1>9. CASE Release(c)
  BY <1>9 DEF Release, Reset
<1> QED
  BY <1>1, <1>2, <1>3, <1>4, <1>5, <1>6, <1>7, <1>8, <1>9 DEF Step

LEMMA LockNext ==
  ASSUME MaxHold <= StaleAfter, MaxCrashes = 0, TypeOK, LockInv, [Next]_vars
  PROVE  LockInv'
<1> USE DEF LockInv, Holds, Working, fileVars, callVars
<1>1. ASSUME NEW c \in Caller, Step(c) PROVE LockInv'
  BY <1>1, LockStep
<1>2. CASE Login \/ Logout \/ Revoke \/ Expire
  BY <1>2 DEF Login, Logout, Revoke, Expire
<1>3. ASSUME NEW p, Crash(p) PROVE FALSE
  BY <1>3 DEF Crash, TypeOK
<1>4. CASE Tick
  BY <1>4, TimeAssumption, CallerAssumption DEF Tick, AtMost, TypeOK, Waiting
<1>5. CASE UNCHANGED vars
  BY <1>5 DEF vars
<1> QED
  BY <1>1, <1>2, <1>3, <1>4, <1>5 DEF Next

LEMMA LockHolds ==
  ASSUME MaxHold <= StaleAfter, MaxCrashes = 0
  PROVE  Spec => []LockInv
<1>1. Init => LockInv
  BY CallerAssumption, Zenon DEF Init, LockInv, Holds, Working
<1>2. TypeOK /\ LockInv /\ [Next]_vars => LockInv'
  BY LockNext
<1> QED
  BY TypeCorrect, <1>1, <1>2, PTL DEF Spec

\* LockExclusive for any number of callers: when no call works longer than
\* StaleAfter and no process is killed, the lock file is exclusive, whatever
\* logins, logouts, revocations, disk faults and lost replies do meanwhile.
THEOREM LockIsExclusive ==
  ASSUME MaxHold <= StaleAfter, MaxCrashes = 0
  PROVE  Spec => []LockExclusive
<1>1. LockInv => LockExclusive
  BY DEF LockInv, LockExclusive, Holds
<1> QED
  BY LockHolds, <1>1, PTL

-----------------------------------------------------------------------------
(***************************************************************************)
(* The session.  No assumption on timing: stale reclaims, calls without    *)
(* the lock, logins and logouts are all allowed.                           *)
(***************************************************************************)

Pending(c) == reply[c].kind = "ok"

\* Nobody holds a refresh token the server has not issued, and an answer is
\* pending only while its caller is about to deal with it.
RefsIssued ==
  /\ disk.ref <= issued
  /\ \A r \in valid : r <= issued
  /\ \A c \in Caller : mem[c].ref <= issued /\ reply[c].creds.ref <= issued
  /\ \A c \in Caller : Pending(c) => pc[c] = "reply"

\* A refresh token that a caller has just received is valid and, if the server
\* rotates, known to nobody else; so no other caller can use it up before it is
\* written.  The token on disk is valid, or is the one such a caller redeemed.
TokenInv ==
  ~stranded =>
    /\ \/ disk.ref \in valid \cup {0}
       \/ \E c \in Caller : Pending(c) /\ mem[c].ref = disk.ref
    /\ \A c \in Caller : Pending(c) => reply[c].creds.ref \in valid
    /\ Rotating => \A c \in Caller : Pending(c) =>
         /\ disk.ref # reply[c].creds.ref
         /\ \A d \in Caller :
              /\ mem[d].ref # reply[c].creds.ref
              /\ d # c /\ Pending(d) => reply[d].creds.ref # reply[c].creds.ref

SessionInv == RefsIssued /\ TokenInv

\* What the arguments below need of the types.
LEMMA RefTypes ==
  ASSUME TypeOK
  PROVE  /\ issued \in Nat /\ disk.ref \in Nat /\ valid \subseteq Nat \ {0}
         /\ \A c \in Caller : mem[c].ref \in Nat /\ reply[c].creds.ref \in Nat
BY EnvAssumption DEF TypeOK, Creds, Token, Reply

\* A caller with nothing pending may forget its call, and learn what is on disk.
LEMMA SessionForget ==
  ASSUME TypeOK, SessionInv, NEW C \in SUBSET Caller,
         \A c \in C : reply[c].kind # "ok" /\ reply'[c].kind # "ok" /\ reply'[c].creds.ref <= issued,
         \A c \in C : mem'[c].ref \in {0, mem[c].ref, disk.ref},
         \A c \in Caller \ C :
           reply'[c] = reply[c] /\ mem'[c] = mem[c] /\ pc'[c] = pc[c],
         UNCHANGED <<disk, issued, valid>>,
         stranded => stranded'
  PROVE  SessionInv'
<1>1. RefsIssued'
  BY RefTypes DEF SessionInv, RefsIssued, Pending
<1>2. TokenInv'
  <2> SUFFICES ASSUME ~stranded' PROVE TokenInv'
    BY DEF TokenInv
  <2>1. 0 \notin valid
    BY RefTypes
  <2> QED
    BY <2>1 DEF SessionInv, TokenInv, Pending
<1> QED
  BY <1>1, <1>2 DEF SessionInv

LEMMA SessionForgetOne ==
  ASSUME TypeOK, SessionInv, NEW c \in Caller,
         reply[c].kind # "ok", reply'[c].kind # "ok",
         reply'[c].creds.ref <= issued,
         mem'[c].ref \in {0, mem[c].ref, disk.ref},
         \A d \in Caller \ {c} :
           reply'[d] = reply[d] /\ mem'[d] = mem[d] /\ pc'[d] = pc[d],
         UNCHANGED <<disk, issued, valid>>,
         stranded => stranded'
  PROVE  SessionInv'
<1> {c} \in SUBSET Caller
  OBVIOUS
<1> QED
  BY SessionForget

\* The server redeems mem[c].ref and c receives the credentials it issued.
LEMMA SessionRedeem ==
  ASSUME TypeOK, SessionInv, NEW c \in Caller, reply[c].kind # "ok",
         mem[c].ref \in valid, issued' = issued + 1, pc'[c] = "reply",
         valid' = IF Rotating THEN (valid \ {mem[c].ref}) \cup {issued + 1}
                  ELSE valid,
         reply'[c].kind = "ok",
         reply'[c].creds.ref = IF Rotating THEN issued + 1 ELSE mem[c].ref,
         \A d \in Caller \ {c} : reply'[d] = reply[d] /\ pc'[d] = pc[d],
         UNCHANGED <<disk, mem, stranded>>
  PROVE  SessionInv'
<1>1. RefsIssued'
  BY RefTypes DEF SessionInv, RefsIssued, Pending
<1>2. CASE Rotating
  <2>1. \A d \in Caller : Pending(d) => reply[d].creds.ref # issued + 1
    BY RefTypes DEF SessionInv, RefsIssued
  <2>2. disk.ref # issued + 1 /\ \A d \in Caller : mem[d].ref # issued + 1
    BY RefTypes DEF SessionInv, RefsIssued
  <2>3. reply'[c].kind = "ok" /\ \A d \in Caller \ {c} : reply'[d] = reply[d]
    BY DEF Pending
  <2> QED
    BY <1>1, <1>2, <2>1, <2>2, <2>3 DEF SessionInv, TokenInv, Pending
<1>3. CASE ~Rotating
  BY <1>1, <1>3 DEF SessionInv, TokenInv, Pending
<1> QED
  BY <1>2, <1>3, EnvAssumption

LEMMA SessionStep ==
  ASSUME TypeOK, SessionInv, NEW c \in Caller, Step(c)
  PROVE  SessionInv'
<1> USE DEF Goto, serverVars, life, history, callVars
<1>1. CASE FirstRead(c)
  <2>1. reply[c].kind # "ok" /\ reply'[c].kind # "ok" /\ reply'[c].creds.ref <= issued
    BY <1>1 DEF FirstRead, SessionInv, RefsIssued, Pending
  <2>2. mem'[c] = disk /\ \A d \in Caller \ {c} :
          reply'[d] = reply[d] /\ mem'[d] = mem[d] /\ pc'[d] = pc[d]
    BY <1>1 DEF FirstRead, TypeOK
  <2> QED
    BY <1>1, <2>1, <2>2, SessionForgetOne DEF FirstRead
<1>2. CASE CreateLock(c) \/ CreateLockError(c) \/ InspectLock(c) \/ ReclaimLock(c)
  <2>1. reply[c].kind # "ok" /\ reply'[c].kind # "ok" /\ reply'[c].creds.ref <= issued
    BY <1>2 DEF CreateLock, CreateLockError, InspectLock, ReclaimLock,
       SessionInv, RefsIssued, Pending
  <2>2. mem'[c] = mem[c] /\ \A d \in Caller \ {c} :
          reply'[d] = reply[d] /\ mem'[d] = mem[d] /\ pc'[d] = pc[d]
    BY <1>2 DEF CreateLock, CreateLockError, InspectLock, ReclaimLock, TypeOK
  <2>3. UNCHANGED <<disk, issued, valid, stranded>>
    BY <1>2 DEF CreateLock, CreateLockError, InspectLock, ReclaimLock
  <2> QED
    BY <2>1, <2>2, <2>3, SessionForgetOne
<1>3. CASE ReRead(c)
  <2>1. reply[c].kind # "ok" /\ reply'[c].kind # "ok" /\ reply'[c].creds.ref <= issued
    BY <1>3 DEF ReRead, SessionInv, RefsIssued, Pending
  <2>2. mem'[c] \in {mem[c], disk} /\ \A d \in Caller \ {c} :
          reply'[d] = reply[d] /\ mem'[d] = mem[d] /\ pc'[d] = pc[d]
    BY <1>3 DEF ReRead, Seen, TypeOK
  <2> QED
    BY <1>3, <2>1, <2>2, SessionForgetOne DEF ReRead
<1>4. CASE Redeem(c)
  <2>1. reply[c].kind # "ok"
    BY <1>4 DEF Redeem, SessionInv, RefsIssued, Pending
  <2>2. pc'[c] = "reply" /\ mem' = mem /\ disk' = disk /\ \A d \in Caller \ {c} :
          reply'[d] = reply[d] /\ pc'[d] = pc[d]
    BY <1>4 DEF Redeem, TypeOK
  <2>3. CASE /\ UNCHANGED <<serverVars, stranded>>
             /\ \/ reply' = [reply EXCEPT ![c].kind = "transient"]
                \/ reply' = [reply EXCEPT ![c].kind = "rejected"]
    <3>1. reply'[c].kind # "ok" /\ reply'[c].creds = reply[c].creds
      BY <2>3 DEF TypeOK, Reply
    <3>2. reply'[c].kind # "ok" /\ reply'[c].creds.ref <= issued
      BY <3>1 DEF SessionInv, RefsIssued, Pending
    <3> QED
      BY <2>1, <2>2, <2>3, <3>2, SessionForgetOne
  <2>4. CASE /\ stranded' = TRUE
             /\ issued' = issued + 1
             /\ valid' = IF Rotating THEN (valid \ {mem[c].ref}) \cup {issued + 1}
                         ELSE valid
             /\ reply' = [reply EXCEPT ![c].kind = "transient"]
    <3>1. reply'[c].kind = "transient" /\ reply'[c].creds = reply[c].creds
      BY <2>4 DEF TypeOK, Reply
    <3> QED
      BY <2>2, <2>4, <3>1, RefTypes DEF SessionInv, RefsIssued, TokenInv, Pending
  <2>5. CASE /\ UNCHANGED stranded
             /\ mem[c].ref \in valid
             /\ issued' = issued + 1
             /\ valid' = IF Rotating THEN (valid \ {mem[c].ref}) \cup {issued + 1}
                         ELSE valid
             /\ reply' = [reply EXCEPT ![c] =
                  [kind |-> "ok", creds |-> Refreshed(mem[c], issued + 1)]]
    <3>1. /\ reply'[c].kind = "ok"
          /\ reply'[c].creds.ref = IF Rotating THEN issued + 1 ELSE mem[c].ref
      BY <2>5 DEF TypeOK, Refreshed
    <3> QED
      BY <2>1, <2>2, <2>5, <3>1, SessionRedeem
  <2> QED
    BY <1>4, <2>3, <2>4, <2>5 DEF Redeem
<1>5. CASE Finish(c)
  <2>1. reply'[c].kind # "ok" /\ reply'[c].creds.ref = 0 /\ \A d \in Caller \ {c} :
          reply'[d] = reply[d] /\ pc'[d] = pc[d]
    BY <1>5 DEF Finish, TypeOK, Pending, NoReply, NoCreds
  <2>2. UNCHANGED <<mem, issued, valid>>
    BY <1>5 DEF Finish
  <2>3. CASE Pending(c) /\ disk' = reply[c].creds /\ UNCHANGED stranded
    BY <2>1, <2>2, <2>3, RefTypes DEF SessionInv, RefsIssued, TokenInv, Pending
  <2>4. CASE reply[c].kind # "ok" /\ disk' = disk /\ UNCHANGED stranded
    BY <2>1, <2>2, <2>4, RefTypes, SessionForgetOne
  <2>5. CASE stranded' = TRUE /\ disk' = disk
    BY <2>1, <2>2, <2>5, RefTypes DEF SessionInv, RefsIssued, TokenInv, Pending
  <2> QED
    BY <1>5, <2>3, <2>4, <2>5 DEF Finish, Persisted, Pending
<1>6. CASE Release(c)
  <2>1. reply[c].kind # "ok"
    BY <1>6 DEF Release, SessionInv, RefsIssued, Pending
  <2>2. mem'[c] = NoCreds /\ reply'[c] = NoReply /\ \A d \in Caller \ {c} :
          reply'[d] = reply[d] /\ mem'[d] = mem[d] /\ pc'[d] = pc[d]
    BY <1>6 DEF Release, Reset, TypeOK
  <2>3. reply'[c].kind # "ok" /\ reply'[c].creds.ref <= issued /\ mem'[c].ref = 0
    BY <2>2, RefTypes DEF NoReply, NoCreds, Pending
  <2> QED
    BY <1>6, <2>1, <2>2, <2>3, SessionForgetOne DEF Release
<1> QED
  BY <1>1, <1>2, <1>3, <1>4, <1>5, <1>6 DEF Step

\* SessionNotStranded for any number of callers and any timing: refreshing
\* concurrently, even without the lock, never leaves the disk with a refresh
\* token the server has already rotated away.
THEOREM SessionSurvives == Spec => []SessionNotStranded
<1>1. Init => SessionInv
  BY EnvAssumption DEF Init, SessionInv, RefsIssued, TokenInv, Pending,
     NoCreds, NoReply
<1>2. TypeOK /\ SessionInv /\ [Next]_vars => SessionInv'
  <2> SUFFICES ASSUME TypeOK, SessionInv, [Next]_vars PROVE SessionInv'
    OBVIOUS
  <2> USE RefTypes DEF SessionInv, RefsIssued, TokenInv, Pending, callVars,
          serverVars, history
  <2>1. ASSUME NEW c \in Caller, Step(c) PROVE SessionInv'
    BY <2>1, SessionStep
  <2>2. CASE Login
    BY <2>2 DEF Login
  <2>3. CASE Logout
    BY <2>3 DEF Logout, NoCreds
  <2>4. CASE Revoke
    BY <2>4 DEF Revoke
  <2>5. CASE Expire \/ Tick \/ UNCHANGED vars
    BY <2>5 DEF Expire, Tick, vars
  <2>6. ASSUME NEW p, Crash(p) PROVE SessionInv'
    <3> DEFINE gone == {c \in Caller : ProcOf[c] = p}
    <3>1. \A c \in gone : reply'[c] = NoReply /\ mem'[c] = NoCreds
      BY <2>6 DEF Crash, Reset
    <3>2. \A c \in Caller \ gone :
            reply'[c] = reply[c] /\ mem'[c] = mem[c] /\ pc'[c] = pc[c]
      BY <2>6 DEF Crash, Reset
    <3>3. \A c \in gone : reply'[c].kind # "ok" /\ reply'[c].creds.ref = 0 /\ mem'[c].ref = 0
      BY <3>1 DEF NoReply, NoCreds
    <3>4. UNCHANGED <<disk, issued, valid>> /\ (stranded => stranded')
      BY <2>6 DEF Crash
    <3>5. CASE \A c \in gone : reply[c].kind # "ok"
      <4>1. gone \in SUBSET Caller
        OBVIOUS
      <4>2. \A c \in gone : reply'[c].creds.ref <= issued
        BY <3>3
      <4> QED
        BY <3>2, <3>3, <3>4, <3>5, <4>1, <4>2, SessionForget
    <3>6. CASE \E c \in gone : reply[c].kind = "ok"
      <4>1. stranded'
        BY <2>6, <3>6 DEF Crash
      <4> QED
        BY <3>2, <3>3, <3>4, <4>1
    <3> QED
      BY <3>5, <3>6
  <2> QED
    BY <2>1, <2>2, <2>3, <2>4, <2>5, <2>6 DEF Next
<1>3. SessionInv => SessionNotStranded
  BY DEF SessionInv, RefsIssued, TokenInv, SessionNotStranded, Pending
<1> QED
  BY TypeCorrect, <1>1, <1>2, <1>3, PTL DEF Spec
-----------------------------------------------------------------------------
(***************************************************************************)
(* The order of a session's credentials: what is on disk, what callers     *)
(* hold, and what is about to be written.  No assumption on timing.        *)
(***************************************************************************)

Held == {disk} \cup {mem[c] : c \in Caller}

IsIssued(creds) ==
  creds.acc <= issued /\ creds.ref <= issued /\ creds.sess <= issued

\* Everything held was issued, and credentials without a session are none.
HeldInv ==
  /\ \A x \in Held : IsIssued(x) /\ (x.sess = 0 => x.acc = 0 /\ x.ref = 0)
  /\ \A c \in Caller : Pending(c) =>
       IsIssued(reply[c].creds) /\ reply[c].creds.sess > 0 /\ pc[c] = "reply"

\* With a rotating server at most one refresh token of a session is valid among
\* those held, and none is while an answer of that session is pending; so at most
\* one is pending, and it is newer than all that is held.
LineInv ==
  Rotating =>
    /\ \A x, y \in Held :
         x.sess = y.sess /\ x.ref \in valid /\ y.ref \in valid => x.ref = y.ref
    /\ \A c \in Caller : Pending(c) =>
         /\ \A x \in Held : x.sess = reply[c].creds.sess =>
              x.ref \notin valid /\ x.acc <= reply[c].creds.acc
         /\ \A d \in Caller :
              Pending(d) /\ reply[d].creds.sess = reply[c].creds.sess => d = c

OrderInv == HeldInv /\ LineInv

LEMMA HeldTypes ==
  ASSUME TypeOK
  PROVE  /\ issued \in Nat /\ valid \subseteq Nat \ {0}
         /\ \A x \in Held : x.acc \in Nat /\ x.ref \in Nat /\ x.sess \in Nat
         /\ \A c \in Caller :
              /\ reply[c].creds.acc \in Nat
              /\ reply[c].creds.ref \in Nat
              /\ reply[c].creds.sess \in Nat
<1>1. issued \in Nat /\ valid \subseteq Nat \ {0} /\ Token \subseteq Nat
  BY EnvAssumption DEF TypeOK, Token
<1>2. \A x \in Held : x \in Creds
  BY DEF Held, TypeOK
<1>3. \A c \in Caller : reply[c].creds \in Creds
  BY DEF TypeOK, Reply
<1> QED
  BY <1>1, <1>2, <1>3 DEF Creds

\* A step after which nobody holds or awaits more than before keeps the order,
\* also when the server issues a token that gets lost.
LEMMA OrderForget ==
  ASSUME TypeOK, OrderInv,
         issued' \in {issued, issued + 1},
         valid' \subseteq valid \cup {issued + 1},
         Held' \subseteq Held \cup {NoCreds},
         \A c \in Caller : Pending(c)' =>
           Pending(c) /\ reply'[c].creds = reply[c].creds /\ pc'[c] = pc[c]
  PROVE  OrderInv'
<1> USE HeldTypes DEF OrderInv, NoCreds
<1>1. HeldInv'
  <2>1. \A x \in Held' : IsIssued(x)' /\ (x.sess = 0 => x.acc = 0 /\ x.ref = 0)
    BY DEF HeldInv, IsIssued
  <2>2. ASSUME NEW c \in Caller, Pending(c)'
        PROVE  /\ IsIssued(reply[c].creds)'
               /\ reply'[c].creds.sess > 0 /\ pc'[c] = "reply"
    BY <2>2 DEF HeldInv, IsIssued
  <2> QED
    BY <2>1, <2>2 DEF HeldInv
<1>2. ASSUME NEW x \in Held', x.ref \in valid' PROVE x \in Held /\ x.ref \in valid
  BY <1>2 DEF HeldInv, IsIssued
<1>3. ASSUME NEW c \in Caller, Pending(c)', NEW x \in Held', Rotating,
             x.sess = reply'[c].creds.sess
      PROVE  x.ref \notin valid' /\ x.acc <= reply'[c].creds.acc
  <2>1. x \in Held
    BY <1>3 DEF HeldInv
  <2> QED
    BY <1>2, <1>3, <2>1 DEF LineInv
<1>4. LineInv'
  BY <1>2, <1>3 DEF LineInv
<1> QED
  BY <1>1, <1>4

\* Of a step that touches only what caller c holds.
LEMMA HeldByOne ==
  ASSUME TypeOK, NEW c \in Caller, disk' = disk,
         mem'[c] \in Held \cup {NoCreds},
         \A d \in Caller \ {c} : mem'[d] = mem[d]
  PROVE  Held' \subseteq Held \cup {NoCreds}
BY DEF Held

\* The server redeems what c holds, and c receives what it issued.
LEMMA OrderRedeem ==
  ASSUME TypeOK, OrderInv, NEW c \in Caller,
         mem[c].ref \in valid, issued' = issued + 1, pc'[c] = "reply",
         valid' = IF Rotating THEN (valid \ {mem[c].ref}) \cup {issued + 1}
                  ELSE valid,
         reply'[c] = [kind |-> "ok", creds |-> Refreshed(mem[c], issued + 1)],
         \A d \in Caller \ {c} : reply'[d] = reply[d] /\ pc'[d] = pc[d],
         UNCHANGED <<disk, mem>>
  PROVE  OrderInv'
<1> DEFINE new == Refreshed(mem[c], issued + 1)
<1> USE HeldTypes DEF OrderInv
<1>1. Held' = Held /\ mem[c] \in Held
  BY DEF Held
<1>2. /\ new.acc = issued + 1 /\ new.sess = mem[c].sess
      /\ new.ref = IF Rotating THEN issued + 1 ELSE mem[c].ref
  BY DEF Refreshed
<1>3. Pending(c)' /\ reply'[c].creds = new
  BY DEF Pending
<1>4. \A d \in Caller \ {c} : Pending(d)' <=> Pending(d)
  BY DEF Pending
<1> HIDE DEF new
<1>5. mem[c].sess > 0
  BY <1>1 DEF HeldInv
<1>6. HeldInv'
  <2>1. \A x \in Held' : IsIssued(x)' /\ (x.sess = 0 => x.acc = 0 /\ x.ref = 0)
    BY <1>1 DEF HeldInv, IsIssued
  <2>2. /\ new.acc <= issued' /\ new.ref <= issued' /\ new.sess <= issued'
        /\ new.sess > 0
    BY <1>1, <1>2, <1>5 DEF HeldInv, IsIssued
  <2>3. ASSUME NEW d \in Caller, Pending(d)'
        PROVE  /\ IsIssued(reply[d].creds)'
               /\ reply'[d].creds.sess > 0 /\ pc'[d] = "reply"
    <3>1. CASE d = c
      BY <1>3, <2>2, <3>1 DEF IsIssued
    <3>2. CASE d # c
      BY <1>4, <2>3, <3>2 DEF HeldInv, IsIssued
    <3> QED
      BY <3>1, <3>2
  <2> QED
    BY <2>1, <2>3 DEF HeldInv
<1>7. ASSUME Rotating PROVE LineInv'
  <2>1. \A x \in Held : x.ref \in valid' => x.ref \in valid /\ x.ref # mem[c].ref
    BY <1>7 DEF HeldInv, IsIssued
  <2>2. \A x \in Held : x.sess = mem[c].sess => x.ref \notin valid'
    BY <1>1, <1>7, <2>1 DEF LineInv
  <2>3. \A d \in Caller : Pending(d) => reply[d].creds.sess # mem[c].sess
    BY <1>1, <1>7 DEF LineInv
  <2>4. \A x, y \in Held' :
          x.sess = y.sess /\ x.ref \in valid' /\ y.ref \in valid' => x.ref = y.ref
    BY <1>1, <1>7, <2>1 DEF LineInv
  <2>5. ASSUME NEW d \in Caller, Pending(d)'
        PROVE  /\ \A x \in Held' : x.sess = reply'[d].creds.sess =>
                    x.ref \notin valid' /\ x.acc <= reply'[d].creds.acc
               /\ \A e \in Caller :
                    Pending(e)' /\ reply'[e].creds.sess = reply'[d].creds.sess
                      => e = d
    <3>1. CASE d = c
      BY <1>1, <1>2, <1>3, <1>4, <2>2, <2>3, <3>1 DEF HeldInv, IsIssued
    <3>2. CASE d # c
      BY <1>1, <1>2, <1>3, <1>4, <1>7, <2>1, <2>3, <2>5, <3>2 DEF LineInv
    <3> QED
      BY <3>1, <3>2
  <2> QED
    BY <2>4, <2>5 DEF LineInv
<1>8. LineInv'
  BY <1>7 DEF LineInv
<1> QED
  BY <1>6, <1>8

\* Caller c writes the credentials it received.
LEMMA OrderWrite ==
  ASSUME TypeOK, OrderInv, NEW c \in Caller, Pending(c),
         disk' = reply[c].creds, ~Pending(c)',
         \A d \in Caller \ {c} : reply'[d] = reply[d] /\ pc'[d] = pc[d],
         UNCHANGED <<mem, issued, valid>>
  PROVE  OrderInv'
<1> DEFINE new == reply[c].creds
<1> USE HeldTypes DEF OrderInv
<1>1. Held' \subseteq Held \cup {new}
  BY DEF Held
<1>2. \A d \in Caller : Pending(d)' =>
        d # c /\ Pending(d) /\ reply'[d].creds = reply[d].creds /\ pc'[d] = pc[d]
  BY DEF Pending
<1>3. IsIssued(new) /\ new.sess > 0
  BY DEF HeldInv
<1>4. HeldInv'
  BY <1>1, <1>2, <1>3 DEF HeldInv, IsIssued
<1>5. Rotating => /\ \A x \in Held : x.sess = new.sess => x.ref \notin valid
                  /\ \A d \in Caller :
                       Pending(d) /\ reply[d].creds.sess = new.sess => d = c
  BY DEF LineInv
<1>6. LineInv'
  BY <1>1, <1>2, <1>5 DEF LineInv
<1> QED
  BY <1>4, <1>6

LEMMA OrderStep ==
  ASSUME TypeOK, OrderInv, NEW c \in Caller, Step(c)
  PROVE  OrderInv'
<1> USE DEF Goto, serverVars, life, history, callVars
<1>1. CASE FirstRead(c) \/ ReRead(c)
  <2>1. pc[c] # "reply" /\ reply' = reply /\ UNCHANGED <<disk, issued, valid>>
    BY <1>1 DEF FirstRead, ReRead
  <2>2. /\ mem'[c] \in Held \cup {NoCreds}
        /\ \A d \in Caller \ {c} : mem'[d] = mem[d] /\ pc'[d] = pc[d]
    BY <1>1 DEF FirstRead, ReRead, Seen, Held, TypeOK
  <2>3. \A d \in Caller : Pending(d)' => Pending(d) /\ pc'[d] = pc[d]
    BY <2>1, <2>2 DEF Pending, OrderInv, HeldInv
  <2> QED
    BY <2>1, <2>2, <2>3, HeldByOne, OrderForget
<1>2. CASE CreateLock(c) \/ CreateLockError(c) \/ InspectLock(c) \/ ReclaimLock(c)
  <2>1. /\ pc[c] # "reply"
        /\ UNCHANGED <<disk, mem, reply, issued, valid>>
        /\ \A d \in Caller \ {c} : pc'[d] = pc[d]
    BY <1>2 DEF CreateLock, CreateLockError, InspectLock, ReclaimLock, TypeOK
  <2>2. Held' = Held /\ \A d \in Caller : Pending(d)' => Pending(d) /\ pc'[d] = pc[d]
    BY <2>1 DEF Pending, OrderInv, HeldInv, Held
  <2> QED
    BY <2>1, <2>2, OrderForget
<1>3. CASE Redeem(c)
  <2>1. /\ pc[c] # "reply" /\ pc'[c] = "reply" /\ UNCHANGED <<disk, mem>>
        /\ \A d \in Caller \ {c} : reply'[d] = reply[d] /\ pc'[d] = pc[d]
    BY <1>3 DEF Redeem, TypeOK
  <2>2. CASE /\ reply'[c].kind # "ok"
             /\ issued' \in {issued, issued + 1}
             /\ valid' \subseteq valid \cup {issued + 1}
    <3>1. Held' = Held
      BY <2>1 DEF Held
    <3>2. \A d \in Caller : Pending(d)' =>
            Pending(d) /\ reply'[d].creds = reply[d].creds /\ pc'[d] = pc[d]
      BY <2>1, <2>2 DEF Pending
    <3> QED
      BY <2>2, <3>1, <3>2, OrderForget
  <2>3. CASE /\ mem[c].ref \in valid
             /\ issued' = issued + 1
             /\ valid' = IF Rotating THEN (valid \ {mem[c].ref}) \cup {issued + 1}
                         ELSE valid
             /\ reply' = [reply EXCEPT ![c] =
                  [kind |-> "ok", creds |-> Refreshed(mem[c], issued + 1)]]
    <3>1. reply'[c] = [kind |-> "ok", creds |-> Refreshed(mem[c], issued + 1)]
      BY <2>3 DEF TypeOK
    <3> QED
      BY <2>1, <2>3, <3>1, OrderRedeem
  <2>4. CASE /\ \/ reply' = [reply EXCEPT ![c].kind = "transient"]
                \/ reply' = [reply EXCEPT ![c].kind = "rejected"]
             /\ \/ UNCHANGED <<issued, valid>>
                \/ /\ issued' = issued + 1
                   /\ valid' = IF Rotating
                               THEN (valid \ {mem[c].ref}) \cup {issued + 1}
                               ELSE valid
    <3>1. reply'[c].kind # "ok"
      BY <2>4 DEF TypeOK, Reply
    <3>2. issued' \in {issued, issued + 1} /\ valid' \subseteq valid \cup {issued + 1}
      BY <2>4
    <3> QED
      BY <2>2, <3>1, <3>2
  <2> QED
    BY <1>3, <2>3, <2>4 DEF Redeem
<1>4. CASE Finish(c)
  <2>1. ~Pending(c)' /\ \A d \in Caller \ {c} : reply'[d] = reply[d] /\ pc'[d] = pc[d]
    BY <1>4 DEF Finish, TypeOK, Pending, NoReply
  <2>2. UNCHANGED <<mem, issued, valid>>
    BY <1>4 DEF Finish
  <2>3. CASE Pending(c) /\ disk' = reply[c].creds
    BY <2>1, <2>2, <2>3, OrderWrite
  <2>4. CASE disk' = disk
    <3>1. Held' = Held
      BY <2>2, <2>4 DEF Held
    <3>2. \A d \in Caller : Pending(d)' =>
            Pending(d) /\ reply'[d].creds = reply[d].creds /\ pc'[d] = pc[d]
      BY <2>1 DEF Pending
    <3> QED
      BY <2>2, <3>1, <3>2, OrderForget
  <2> QED
    BY <1>4, <2>3, <2>4 DEF Finish, Persisted, Pending
<1>5. CASE Release(c)
  <2>1. /\ mem'[c] = NoCreds /\ reply'[c] = NoReply
        /\ \A d \in Caller \ {c} :
             reply'[d] = reply[d] /\ mem'[d] = mem[d] /\ pc'[d] = pc[d]
    BY <1>5 DEF Release, Reset, TypeOK
  <2>2. \A d \in Caller : Pending(d)' =>
          Pending(d) /\ reply'[d].creds = reply[d].creds /\ pc'[d] = pc[d]
    BY <2>1 DEF Pending, NoReply
  <2>3. UNCHANGED <<disk, issued, valid>>
    BY <1>5 DEF Release
  <2> QED
    BY <2>1, <2>2, <2>3, HeldByOne, OrderForget
<1> QED
  BY <1>1, <1>2, <1>3, <1>4, <1>5 DEF Step

\* What a login puts on disk belongs to a session nobody else has part in.
LEMMA OrderLogin ==
  ASSUME TypeOK, OrderInv, Login
  PROVE  OrderInv' /\ disk'.sess > disk.sess
<1> USE HeldTypes DEF OrderInv
<1>1. PICK r \in {0, issued + 1} :
        /\ disk' = [acc |-> issued + 1, ref |-> r, sess |-> issued + 1]
        /\ valid' = valid \cup ({r} \ {0})
  BY DEF Login
<1>2. issued' = issued + 1 /\ UNCHANGED <<mem, pc, reply>>
  BY DEF Login, callVars
<1>3. /\ disk'.acc = issued + 1 /\ disk'.sess = issued + 1
      /\ disk'.ref \in {0, issued + 1}
  BY <1>1
<1>4. Held' \subseteq Held \cup {disk'} /\ disk \in Held
  BY <1>2 DEF Held
<1>5. \A x \in Held : x.ref \in valid' => x.ref \in valid
  BY <1>1 DEF HeldInv, IsIssued
<1>6. \A c \in Caller : Pending(c)' => Pending(c)
  BY <1>2 DEF Pending
<1>7. HeldInv'
  BY <1>2, <1>3, <1>4, <1>6 DEF HeldInv, IsIssued
<1>8. LineInv'
  <2>1. \A x \in Held : x.sess # disk'.sess
    BY <1>3 DEF HeldInv, IsIssued
  <2>2. \A c \in Caller : Pending(c) => reply[c].creds.sess # disk'.sess
    BY <1>3 DEF HeldInv, IsIssued
  <2> QED
    BY <1>2, <1>4, <1>5, <1>6, <2>1, <2>2 DEF LineInv
<1> QED
  BY <1>3, <1>4, <1>7, <1>8 DEF HeldInv, IsIssued

LEMMA OrderNext ==
  ASSUME TypeOK, OrderInv, [Next]_vars PROVE OrderInv'
<1>1. ASSUME NEW c \in Caller, Step(c) PROVE OrderInv'
  BY <1>1, OrderStep
<1>2. CASE Login
  BY <1>2, OrderLogin
<1>3. CASE Logout \/ Revoke \/ Expire \/ Tick \/ UNCHANGED vars
  <2>1. /\ disk' \in {disk, NoCreds} /\ valid' \subseteq valid
        /\ UNCHANGED <<mem, pc, reply, issued>>
    BY <1>3 DEF Logout, Revoke, Expire, Tick, vars, callVars, serverVars
  <2>2. Held' \subseteq Held \cup {NoCreds}
    BY <2>1 DEF Held
  <2> QED
    BY <2>1, <2>2, OrderForget DEF Pending
<1>4. ASSUME NEW p, Crash(p) PROVE OrderInv'
  <2> DEFINE gone == {c \in Caller : ProcOf[c] = p}
  <2>1. \A c \in gone : reply'[c] = NoReply /\ mem'[c] = NoCreds
    BY <1>4 DEF Crash, Reset
  <2>2. \A c \in Caller \ gone :
          reply'[c] = reply[c] /\ mem'[c] = mem[c] /\ pc'[c] = pc[c]
    BY <1>4 DEF Crash, Reset
  <2>3. UNCHANGED <<disk, issued, valid>>
    BY <1>4 DEF Crash, serverVars
  <2>4. Held' \subseteq Held \cup {NoCreds}
    BY <2>1, <2>2, <2>3 DEF Held
  <2>5. \A c \in Caller : Pending(c)' =>
          Pending(c) /\ reply'[c].creds = reply[c].creds /\ pc'[c] = pc[c]
    BY <2>1, <2>2 DEF Pending, NoReply
  <2> QED
    BY <2>3, <2>4, <2>5, OrderForget
<1> QED
  BY <1>1, <1>2, <1>3, <1>4 DEF Next

LEMMA OrderHolds == Spec => []OrderInv
<1>1. Init => OrderInv
  BY EnvAssumption DEF Init, OrderInv, HeldInv, LineInv, IsIssued, Held, Pending,
     NoCreds, NoReply
<1>2. TypeOK /\ OrderInv /\ [Next]_vars => OrderInv'
  BY OrderNext
<1> QED
  BY TypeCorrect, <1>1, <1>2, PTL DEF Spec

\* DiskNeverRegresses for any number of callers and any timing, without the lock
\* and across crashes too: a late write of freshCreds never puts an older
\* credential of a session over a newer one.
THEOREM WritesAreNewer == Spec => DiskNeverRegresses
<1>1. ASSUME TypeOK, OrderInv, [Next]_vars, Rotating, disk'.sess = disk.sess
      PROVE  disk'.acc >= disk.acc
  <2> USE HeldTypes DEF OrderInv
  <2>1. disk \in Held /\ disk.acc \in Nat /\ disk.sess \in Nat
    BY <1>1 DEF Held
  <2>2. CASE Login
    BY <1>1, <2>1, <2>2, OrderLogin
  <2>3. CASE Logout
    BY <1>1, <2>1, <2>3 DEF Logout, NoCreds, HeldInv
  <2>4. ASSUME NEW c \in Caller, Finish(c), Pending(c), disk' = reply[c].creds
        PROVE  disk'.acc >= disk.acc
    BY <1>1, <2>1, <2>4 DEF LineInv
  <2>5. CASE disk' = disk
    BY <2>1, <2>5
  <2>6. ASSUME NEW c \in Caller, Step(c), ~Finish(c) PROVE disk' = disk
    BY <2>6 DEF Step, FirstRead, CreateLock, CreateLockError, InspectLock,
       ReclaimLock, ReRead, Redeem, Release
  <2>7. ASSUME NEW c \in Caller, Finish(c), disk' # disk
        PROVE  Pending(c) /\ disk' = reply[c].creds
    BY <2>7 DEF Finish, Persisted, Pending
  <2>8. CASE \/ Revoke \/ Expire \/ Tick \/ UNCHANGED vars
             \/ \E p \in {ProcOf[c] : c \in Caller} : Crash(p)
    BY <2>5, <2>8 DEF Revoke, Expire, Tick, Crash, vars
  <2> QED
    BY <1>1, <2>2, <2>3, <2>4, <2>5, <2>6, <2>7, <2>8 DEF Next
<1>2. TypeOK /\ OrderInv /\ [Next]_vars
        => [Rotating /\ disk'.sess = disk.sess => disk'.acc >= disk.acc]_disk
  BY <1>1
<1> QED
  BY TypeCorrect, OrderHolds, <1>2, PTL DEF Spec, DiskNeverRegresses
-----------------------------------------------------------------------------
(***************************************************************************)
(* Rejections.  While no call has gone on without the lock, the caller     *)
(* that works is alone, so the token it redeems is the one on disk.        *)
(***************************************************************************)

AllLocked == ~degraded => \A c \in Caller : Working(c) => locked[c]

\* A caller redeems what is on disk, unless a login or logout has replaced its
\* session; when it is rejected, that session is over.
RejectInv ==
  ~degraded => \A c \in Caller :
    /\ pc[c] \in {"redeem", "reply"} =>
         mem[c].sess > 0 /\ (disk.sess = mem[c].sess => disk.ref = mem[c].ref)
    /\ reply[c].kind = "rejected" => pc[c] = "reply" /\ ~Recoverable(mem[c].sess)

LEMMA AllLockedNext ==
  ASSUME TypeOK, AllLocked, [Next]_vars PROVE AllLocked'
<1> USE DEF AllLocked, Working, Goto, callVars, history
<1>1. ASSUME NEW c \in Caller, Step(c) PROVE AllLocked'
  <2>1. CASE CreateLock(c)
    BY <2>1 DEF CreateLock, TypeOK
  <2>2. CASE FirstRead(c) \/ CreateLockError(c) \/ InspectLock(c) \/ ReclaimLock(c)
    BY <2>2 DEF FirstRead, CreateLockError, InspectLock, ReclaimLock, TypeOK
  <2>3. CASE ReRead(c) \/ Redeem(c) \/ Finish(c)
    BY <2>3 DEF ReRead, Redeem, Finish, TypeOK
  <2>4. CASE Release(c)
    BY <2>4 DEF Release, Reset, TypeOK
  <2> QED
    BY <1>1, <2>1, <2>2, <2>3, <2>4 DEF Step
<1>2. ASSUME NEW p, Crash(p) PROVE AllLocked'
  BY <1>2 DEF Crash, Reset, TypeOK
<1>3. CASE Login \/ Logout \/ Revoke \/ Expire \/ Tick \/ UNCHANGED vars
  BY <1>3 DEF Login, Logout, Revoke, Expire, Tick, vars
<1> QED
  BY <1>1, <1>2, <1>3 DEF Next

\* A step that redeems and answers nothing, and replaces the credentials on disk at
\* most by those of a later session or by none.
LEMMA RejectQuiet ==
  ASSUME TypeOK, OrderInv, RejectInv, ~degraded, reply' = reply,
         \/ disk' = disk
         \/ disk'.sess = 0
         \/ disk'.sess > issued,
         \A n \in valid' : n <= issued => n \in valid,
         \A c \in Caller : pc'[c] \in {"redeem", "reply"} \/ pc[c] = "reply" =>
           pc'[c] = pc[c] /\ mem'[c] = mem[c]
  PROVE  RejectInv'
<1> USE HeldTypes DEF OrderInv
<1>1. disk \in Held /\ \A c \in Caller : mem[c] \in Held
  BY DEF Held
<1>2. ASSUME NEW c \in Caller, pc'[c] \in {"redeem", "reply"}
      PROVE  /\ mem'[c].sess > 0
             /\ disk'.sess = mem'[c].sess => disk'.ref = mem'[c].ref
  BY <1>1, <1>2 DEF RejectInv, HeldInv, IsIssued
<1>3. ASSUME NEW s \in 1..issued, Recoverable(s)' PROVE Recoverable(s)
  <2>1. CASE disk'.sess = s /\ disk'.ref \in valid'
    <3>1. disk' = disk
      BY <2>1
    <3> QED
      BY <1>1, <2>1, <3>1 DEF HeldInv, IsIssued, Recoverable
  <2>2. CASE \E c \in Caller : /\ reply'[c].kind = "ok"
                              /\ reply'[c].creds.sess = s
                              /\ reply'[c].creds.ref \in valid'
    BY <2>2 DEF HeldInv, IsIssued, Pending, Recoverable
  <2> QED
    BY <1>3, <2>1, <2>2 DEF Recoverable
<1>4. ASSUME NEW c \in Caller, reply'[c].kind = "rejected"
      PROVE  pc'[c] = "reply" /\ ~Recoverable(mem[c].sess)'
  <2>1. pc[c] = "reply" /\ ~Recoverable(mem[c].sess) /\ mem[c].sess > 0
    BY <1>4 DEF RejectInv
  <2>2. pc'[c] = "reply" /\ mem'[c] = mem[c]
    BY <2>1
  <2>3. mem[c].sess \in 1..issued
    BY <1>1, <2>1 DEF HeldInv, IsIssued
  <2>4. PICK s \in 1..issued : s = mem[c].sess
    BY <2>3
  <2>5. ~Recoverable(s)'
    BY <1>3, <2>1, <2>4
  <2>6. s = mem'[c].sess
    BY <2>2, <2>4
  <2> QED
    BY <2>2, <2>5, <2>6 DEF Recoverable
<1> QED
  BY <1>2, <1>4 DEF RejectInv

\* A step of the caller that works: it is the only one there is.
LEMMA RejectAlone ==
  ASSUME TypeOK, OrderInv, LockInv, AllLocked, RejectInv, ~degraded,
         NEW c \in Caller, ReRead(c) \/ Redeem(c) \/ Finish(c) \/ Release(c)
  PROVE  RejectInv'
<1> USE HeldTypes DEF OrderInv, Goto
<1>1. disk \in Held /\ mem[c] \in Held
  BY DEF Held
<1>2. Working(c)
  BY DEF ReRead, Redeem, Finish, Release, Working
<1>3. \A d \in Caller : Working(d) => d = c
  BY <1>2 DEF LockInv, AllLocked, Holds
<1>4. \A d \in Caller \ {c} :
        /\ pc[d] \notin {"redeem", "reply"} /\ pc'[d] = pc[d]
        /\ reply[d].kind \notin {"ok", "rejected"} /\ reply'[d] = reply[d]
  <2>1. \A d \in Caller \ {c} : pc[d] \notin {"redeem", "reply"}
    BY <1>3 DEF Working
  <2>2. \A d \in Caller \ {c} : reply[d].kind \notin {"ok", "rejected"}
    BY <2>1 DEF HeldInv, Pending, RejectInv
  <2>3. \A d \in Caller \ {c} : pc'[d] = pc[d] /\ reply'[d] = reply[d]
    BY DEF ReRead, Redeem, Finish, Release, Reset, TypeOK, callVars
  <2> QED
    BY <2>1, <2>2, <2>3
<1>5. SUFFICES
        /\ pc'[c] \in {"redeem", "reply"} =>
             /\ mem'[c].sess > 0
             /\ disk'.sess = mem'[c].sess => disk'.ref = mem'[c].ref
        /\ reply'[c].kind = "rejected" =>
             pc'[c] = "reply" /\ ~Recoverable(mem[c].sess)'
  BY <1>4 DEF RejectInv
<1>6. CASE ReRead(c)
  <2>1. reply' = reply /\ reply[c].kind # "rejected" /\ disk' = disk
    BY <1>6 DEF ReRead, RejectInv
  <2>2. CASE pc'[c] = "redeem"
    <3>1. mem'[c] = Seen(c) /\ mem'[c].ref # 0
      BY <1>6, <2>2 DEF ReRead, TypeOK
    <3>2. mem'[c] \in Held /\ (mem'[c] = disk \/ disk = NoCreds)
      BY <1>1, <3>1 DEF Seen
    <3>3. mem'[c].sess > 0
      BY <3>1, <3>2 DEF HeldInv
    <3> QED
      BY <2>1, <3>2, <3>3 DEF NoCreds
  <2>3. CASE pc'[c] # "redeem"
    <3>1. pc'[c] = "release"
      BY <1>6, <2>3 DEF ReRead, TypeOK
    <3> QED
      BY <2>1, <3>1
  <2> QED
    BY <2>2, <2>3
<1>7. CASE Redeem(c)
  <2>1. pc[c] = "redeem" /\ pc'[c] = "reply" /\ mem' = mem /\ disk' = disk
    BY <1>7 DEF Redeem, TypeOK
  <2>2. /\ mem[c].sess > 0
        /\ disk.sess = mem[c].sess => disk.ref = mem[c].ref
    BY <2>1 DEF RejectInv
  <2>3. ASSUME reply'[c].kind = "rejected" PROVE ~Recoverable(mem[c].sess)'
    <3>1. reply[c].kind # "rejected"
      BY <2>1 DEF RejectInv
    <3>2. mem[c].ref \notin valid /\ valid' = valid
      BY <1>7, <2>3, <3>1 DEF Redeem, TypeOK, Reply, serverVars
    <3>3. \A d \in Caller : reply'[d].kind # "ok"
      BY <1>4, <2>3
    <3> QED
      BY <2>1, <2>2, <3>2, <3>3 DEF Recoverable
  <2> QED
    BY <2>1, <2>2, <2>3
<1>8. CASE Finish(c)
  BY <1>8 DEF Finish, TypeOK, NoReply
<1>9. CASE Release(c)
  BY <1>9 DEF Release, Reset, NoReply
<1> QED
  BY <1>6, <1>7, <1>8, <1>9

LEMMA RejectNext ==
  ASSUME MaxCrashes = 0, TypeOK, OrderInv, LockInv, AllLocked, RejectInv,
         [Next]_vars
  PROVE  RejectInv'
<1> USE DEF serverVars, callVars, history, Goto
<1>1. CASE degraded'
  BY <1>1 DEF RejectInv
<1>2. CASE ~degraded'
  <2>1. ~degraded
    <3>1. ASSUME NEW c \in Caller, Step(c) PROVE degraded => degraded'
      BY <3>1 DEF Step, FirstRead, CreateLock, CreateLockError, InspectLock,
         ReclaimLock, ReRead, Redeem, Finish, Release
    <3>2. ASSUME NEW p, Crash(p) PROVE degraded => degraded'
      BY <3>2 DEF Crash
    <3>3. ASSUME Login \/ Logout \/ Revoke \/ Expire \/ Tick \/ UNCHANGED vars
          PROVE  degraded => degraded'
      BY <3>3 DEF Login, Logout, Revoke, Expire, Tick, vars
    <3> QED
      BY <1>2, <3>1, <3>2, <3>3 DEF Next
  <2>2. ASSUME NEW c \in Caller, Step(c) PROVE RejectInv'
    <3>1. CASE ReRead(c) \/ Redeem(c) \/ Finish(c) \/ Release(c)
      BY <2>1, <3>1, RejectAlone
    <3>2. CASE FirstRead(c) \/ CreateLock(c) \/ CreateLockError(c)
               \/ InspectLock(c) \/ ReclaimLock(c)
      <4>1. /\ UNCHANGED <<disk, reply, valid>>
            /\ pc[c] # "reply" /\ pc'[c] \notin {"redeem", "reply"}
            /\ \A d \in Caller \ {c} : pc'[d] = pc[d] /\ mem'[d] = mem[d]
        BY <3>2 DEF FirstRead, CreateLock, CreateLockError, InspectLock,
           ReclaimLock, TypeOK
      <4> QED
        BY <2>1, <4>1, RejectQuiet
    <3> QED
      BY <2>2, <3>1, <3>2 DEF Step
  <2>3. CASE Login
    <3>1. UNCHANGED <<pc, mem, reply>>
      BY <2>3 DEF Login
    <3>2. disk'.sess > issued
      BY <2>3, HeldTypes DEF Login
    <3>3. \A n \in valid' : n <= issued => n \in valid
      BY <2>3, HeldTypes DEF Login
    <3> QED
      BY <2>1, <3>1, <3>2, <3>3, RejectQuiet
  <2>4. CASE Logout
    BY <2>1, <2>4, RejectQuiet DEF Logout, NoCreds
  <2>5. CASE Revoke
    BY <2>1, <2>5, RejectQuiet DEF Revoke
  <2>6. CASE Expire \/ Tick \/ UNCHANGED vars
    BY <2>1, <2>6, RejectQuiet DEF Expire, Tick, vars
  <2>7. ASSUME NEW p, Crash(p) PROVE FALSE
    BY <2>7 DEF Crash, TypeOK
  <2> QED
    BY <2>2, <2>3, <2>4, <2>5, <2>6, <2>7 DEF Next
<1> QED
  BY <1>1, <1>2

\* RejectionIsGenuine for any number of callers: when no call works longer than
\* StaleAfter and no process is killed, a call under the lock tells the user to
\* sign in again only when the session can no longer be continued, whatever
\* logins, logouts, revocations and lost replies do meanwhile.
THEOREM RejectionsAreGenuine ==
  ASSUME MaxHold <= StaleAfter, MaxCrashes = 0
  PROVE  Spec => RejectionIsGenuine
<1>1. Init => AllLocked /\ RejectInv
  BY DEF Init, AllLocked, RejectInv, Working, NoReply
<1>2. TypeOK /\ AllLocked /\ [Next]_vars => AllLocked'
  BY AllLockedNext
<1>3. TypeOK /\ OrderInv /\ LockInv /\ AllLocked /\ RejectInv /\ [Next]_vars
        => RejectInv'
  BY RejectNext
<1>4. ASSUME TypeOK, RejectInv, [Next]_vars, NEW c \in Caller, ~degraded,
             result[c] # "rejected", result'[c] = "rejected"
      PROVE  ~Recoverable(mem[c].sess)
  <2>1. reply[c].kind = "rejected"
    <3>1. ASSUME NEW d \in Caller, Step(d)
          PROVE  Finish(c) \/ result'[c] \in {result[c], "ok", "none"}
      <4>1. CASE Finish(d)
        <5>1. CASE d = c
          BY <4>1, <5>1
        <5>2. CASE d # c
          BY <1>4, <4>1, <5>2 DEF Finish, TypeOK
        <5> QED
          BY <5>1, <5>2
      <4>2. CASE ReRead(d)
        <5>1. result' = result \/ result' = [result EXCEPT ![d] = "ok"]
          BY <4>2 DEF ReRead
        <5> QED
          BY <1>4, <5>1 DEF TypeOK
      <4>3. CASE Release(d)
        BY <4>3 DEF Release, Reset
      <4>4. CASE ~Finish(d) /\ ~ReRead(d) /\ ~Release(d)
        BY <3>1, <4>4 DEF Step, FirstRead, CreateLock, CreateLockError,
           InspectLock, ReclaimLock, Redeem, callVars
      <4> QED
        BY <4>1, <4>2, <4>3, <4>4
    <3>2. ASSUME Login \/ Logout \/ Revoke \/ Expire \/ Tick \/ UNCHANGED vars
          PROVE  result'[c] = result[c]
      BY <3>2 DEF Login, Logout, Revoke, Expire, Tick, vars, callVars
    <3>3. ASSUME NEW p, Crash(p) PROVE result'[c] \in {result[c], "none"}
      BY <3>3 DEF Crash, Reset
    <3>4. Finish(c)
      BY <1>4, <3>1, <3>2, <3>3 DEF Next
    <3> QED
      BY <1>4, <3>4 DEF Finish, TypeOK
  <2> QED
    BY <1>4, <2>1 DEF RejectInv
<1>5. TypeOK /\ RejectInv /\ [Next]_vars
        => [\A c \in Caller :
              /\ ~degraded
              /\ result[c] # "rejected"
              /\ result'[c] = "rejected"
              => ~Recoverable(mem[c].sess)]_vars
  BY <1>4
<1> QED
  BY TypeCorrect, OrderHolds, LockHolds, <1>1, <1>2, <1>3, <1>5, PTL
     DEF Spec, RejectionIsGenuine
=============================================================================
