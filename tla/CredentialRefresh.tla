------------------------- MODULE CredentialRefresh -------------------------
(***************************************************************************)
(* The console-credential file ~/.alis/console-credentials.json and the    *)
(* threads that refresh it: ConsoleTokenSource in alisauth.go, Login and   *)
(* Logout in product_auth.go.  Threads of one process share the mutex      *)
(* ConsoleTokenSource.mu; every git-credential-alis helper is a process of *)
(* its own and meets the others only at the file and at its .lock file.    *)
(*                                                                         *)
(* Tokens are numbers in the order the identity server issued them; 0 is   *)
(* "no token".  Time is counted in ticks: the age of the lock file and the *)
(* time a caller has spent waiting for it or holding it.                   *)
(***************************************************************************)
EXTENDS Naturals

CONSTANTS
  Caller,       (* threads that call freshCreds                            *)
  NoOne,        (* the owner of a lock file that does not exist            *)
  ProcOf,       (* the process each caller runs in                         *)
  StaleAfter,   (* credentialLockStaleAfter, in ticks                      *)
  WaitTimeout,  (* credentialLockWaitTimeout, in ticks                     *)
  MaxHold,      (* longest time from re-read to return (HTTP limit 30 s)   *)
  Rotating,     (* does the server rotate the refresh token on each use?   *)
  Faults,       (* what the environment may do in this instance            *)
  MaxIssued,    (* bound: tokens the server issues                         *)
  MaxCrashes    (* bound: processes killed                                 *)

FaultKinds == {"login", "logout", "revoke", "lost_reply", "disk_fault"}

ASSUME CallerAssumption == NoOne \notin Caller
ASSUME TimeAssumption ==
  StaleAfter \in Nat /\ WaitTimeout \in Nat /\ MaxHold \in Nat
ASSUME EnvAssumption ==
  /\ Rotating \in BOOLEAN
  /\ Faults \subseteq FaultKinds
  /\ MaxIssued \in Nat \ {0}
  /\ MaxCrashes \in Nat

VARIABLES
  disk,       (* the credential file                                       *)
  lockOwner,  (* who created the .lock file (its content is a pid)         *)
  lockAge,    (* ticks since it was created (its mtime)                    *)
  pc,         (* where each caller is in freshCreds                        *)
  mem,        (* the credentials a caller works with                       *)
  locked,     (* did it create the lock, so that release() removes it?     *)
  timer,      (* ticks it has waited for the lock, or held it              *)
  reply,      (* what the token endpoint answered                          *)
  result,     (* what the call in progress is going to return              *)
  issued,     (* server: number of tokens issued                           *)
  valid,      (* server: the refresh tokens it would redeem                *)
  lapsed,     (* access tokens with no more life than the grace window     *)
  dead,       (* access tokens that have expired                           *)
  crashes,    (* processes killed so far                                   *)
  degraded,   (* history: some call went on without the lock               *)
  stranded    (* history: a fault destroyed a refresh token                *)

fileVars == <<lockOwner, lockAge>>
callVars == <<mem, locked, timer, reply, result>>
serverVars == <<issued, valid>>
life == <<lapsed, dead>>
history == <<crashes, degraded, stranded>>
vars == <<disk, fileVars, pc, callVars, serverVars, life, history>>

Token == 0..MaxIssued
Creds == [acc: Token, ref: Token, sess: Token]
NoCreds == [acc |-> 0, ref |-> 0, sess |-> 0]

PC == {"idle", "locking", "inspect", "reclaim", "reread", "redeem", "reply",
       "release"}
Reply == [kind: {"none", "ok", "rejected", "transient"}, creds: Creds]
NoReply == [kind |-> "none", creds |-> NoCreds]

TypeOK ==
  /\ disk \in Creds
  /\ lockOwner \in Caller \cup {NoOne}
  /\ lockAge \in Nat
  /\ pc \in [Caller -> PC]
  /\ mem \in [Caller -> Creds]
  /\ locked \in [Caller -> BOOLEAN]
  /\ timer \in [Caller -> Nat]
  /\ reply \in [Caller -> Reply]
  /\ result \in [Caller -> {"none", "ok", "error", "rejected"}]
  /\ issued \in Token
  /\ valid \subseteq 1..MaxIssued
  /\ lapsed \in Token
  /\ dead \in Token
  /\ crashes \in 0..MaxCrashes
  /\ degraded \in BOOLEAN
  /\ stranded \in BOOLEAN

-----------------------------------------------------------------------------
(* Who is where.                                                           *)

Waiting(c) == pc[c] \in {"locking", "inspect", "reclaim"}
Working(c) == pc[c] \in {"reread", "redeem", "reply", "release"}

\* mu: one caller of a process is inside freshCreds at a time.
MutexFree(c) ==
  \A d \in Caller : ProcOf[d] = ProcOf[c] => pc[d] = "idle"

\* isFreshCreds: a token with more than the grace window left.
IsFresh(creds) == creds.acc > lapsed
Expired(creds) == creds.acc <= dead

\* acquireCredentialLock's limits: a lock file older than StaleAfter, a waiter
\* past its deadline, and a waiter that sleeps and tries again.
StaleAtLimit == lockOwner # NoOne /\ lockAge >= StaleAfter \* mutant: off by one
Stale == lockOwner # NoOne /\ lockAge > StaleAfter
TimedOut(c) == ~Stale /\ timer[c] > WaitTimeout
WaitForOwner(c) == lockOwner # NoOne /\ lockOwner # c     \* mutant: no limits
KeepWaiting(c) == ~Stale /\ ~TimedOut(c)

Goto(c, l) == pc' = [pc EXCEPT ![c] = l]

-----------------------------------------------------------------------------
(* freshCreds, one step per system call or server round trip.              *)

\* Stat and read under the mutex.  With a missing file (an error) or a fresh token
\* (returned at once) the call ends here and leaves no trace.
FirstRead(c) ==
  /\ pc[c] = "idle"
  /\ MutexFree(c)
  /\ disk # NoCreds /\ ~IsFresh(disk)
  /\ mem' = [mem EXCEPT ![c] = disk]
  /\ Goto(c, "locking")
  /\ UNCHANGED <<disk, fileVars, locked, timer, reply, result, serverVars, life,
                 history>>

\* acquireCredentialLock: the O_EXCL create, which succeeds or finds the file.
CreateLock(c) ==
  /\ pc[c] = "locking"
  /\ \/ /\ lockOwner = NoOne
        /\ lockOwner' = c
        /\ lockAge' = 0
        /\ locked' = [locked EXCEPT ![c] = TRUE]
        /\ timer' = [timer EXCEPT ![c] = 0]
        /\ Goto(c, "reread")
     \/ /\ lockOwner # NoOne
        /\ Goto(c, "inspect")
        /\ UNCHANGED <<fileVars, locked, timer>>
  /\ UNCHANGED <<disk, mem, reply, result, serverVars, life, history>>

\* The create fails for another reason: the call goes on without the lock.
CreateLockError(c) ==
  /\ "disk_fault" \in Faults
  /\ pc[c] = "locking"
  /\ timer' = [timer EXCEPT ![c] = 0]
  /\ degraded' = TRUE
  /\ Goto(c, "reread")
  /\ UNCHANGED <<disk, fileVars, mem, locked, reply, result, serverVars, life,
                 crashes, stranded>>

\* Stat of the lock file, then the deadline.  A stale file is to be removed
\* whoever owns it by then; a caller that has waited too long goes on without
\* the lock (and its release is a no-op); otherwise it sleeps and tries again.
InspectLock(c) ==
  /\ pc[c] = "inspect"
  /\ \/ /\ Stale
        /\ Goto(c, "reclaim")
        /\ UNCHANGED <<timer, degraded>>
     \/ /\ TimedOut(c)
        /\ timer' = [timer EXCEPT ![c] = 0]
        /\ degraded' = TRUE
        /\ Goto(c, "reread")
     \/ /\ KeepWaiting(c)
        /\ Goto(c, "locking")
        /\ UNCHANGED <<timer, degraded>>
  /\ UNCHANGED <<disk, fileVars, mem, locked, reply, result, serverVars, life,
                 crashes, stranded>>

\* os.Remove(lockPath) removes the file that is there now.
ReclaimLock(c) ==
  /\ pc[c] = "reclaim"
  /\ lockOwner' = NoOne
  /\ lockAge' = 0
  /\ Goto(c, "locking")
  /\ UNCHANGED <<disk, callVars, serverVars, life, history>>

\* What the re-read leaves a caller with: the file, or if the file is gone what
\* it read first.
KeepFirstRead(c) == mem[c]                     \* mutant: no second read
Seen(c) == IF disk = NoCreds THEN mem[c] ELSE disk

\* The re-read under the lock.  Fresh credentials are returned, and credentials
\* without a refresh token are returned as they are.
ReRead(c) ==
  LET seen == Seen(c)
      done == IsFresh(disk) \/ seen.ref = 0
  IN /\ pc[c] = "reread"
     /\ mem' = [mem EXCEPT ![c] = seen]
     /\ \/ /\ done
           /\ result' = [result EXCEPT ![c] = "ok"]
           /\ Goto(c, "release")
        \/ /\ ~done
           /\ Goto(c, "redeem")
           /\ UNCHANGED result
     /\ UNCHANGED <<disk, fileVars, locked, timer, reply, serverVars, life,
                    history>>

\* What refresh() makes of the answer when the server issues token n: without a
\* new refresh token in it the old one stays in use.
RefreshedOffByOne(creds, n) ==                 \* mutant: skips a number
  [acc |-> n + 1, ref |-> n, sess |-> creds.sess]
RefreshedKeepsOld(creds, n) ==                 \* mutant: ignores the rotation
  [acc |-> n, ref |-> creds.ref, sess |-> creds.sess]
Refreshed(creds, n) ==
  [acc |-> n, ref |-> IF Rotating THEN n ELSE creds.ref, sess |-> creds.sess]

\* The token endpoint handles the request of refresh(): it fails transiently,
\* rejects a refresh token it no longer knows, or redeems it.  A redeemed
\* token's answer may be lost on the way, which the caller sees as transient.
Redeem(c) ==
  LET old == mem[c]
      new == Refreshed(old, issued + 1)
  IN /\ pc[c] = "redeem"
     /\ Goto(c, "reply")
     /\ \/ /\ reply' = [reply EXCEPT ![c].kind = "transient"]
           /\ UNCHANGED <<serverVars, stranded>>
        \/ /\ old.ref \notin valid
           /\ reply' = [reply EXCEPT ![c].kind = "rejected"]
           /\ UNCHANGED <<serverVars, stranded>>
        \/ /\ old.ref \in valid /\ issued < MaxIssued
           /\ issued' = issued + 1
           /\ valid' = IF Rotating THEN (valid \ {old.ref}) \cup {issued + 1}
                       ELSE valid
           /\ \/ /\ reply' = [reply EXCEPT ![c] = [kind |-> "ok", creds |-> new]]
                 /\ UNCHANGED stranded
              \/ /\ "lost_reply" \in Faults
                 /\ reply' = [reply EXCEPT ![c].kind = "transient"]
                 /\ stranded' = TRUE
     /\ UNCHANGED <<disk, fileVars, mem, locked, timer, result, life, crashes,
                    degraded>>

\* What is on disk once the answer is dealt with.
WritesServed(c) ==                             \* mutant: also writes on failure
  IF reply[c].kind = "ok" THEN reply[c].creds ELSE mem[c]
Persisted(c) == IF reply[c].kind = "ok" THEN reply[c].creds ELSE disk

\* The rest of freshCreds after refresh() returned.  A rejection is reported,
\* a transient failure serves a token that has not expired, and new credentials
\* are renamed into place (or served from memory if the write fails).
Finish(c) ==
  /\ pc[c] = "reply"
  /\ Goto(c, "release")
  /\ \/ /\ reply[c].kind = "rejected"
        /\ result' = [result EXCEPT ![c] = "rejected"]
     \/ /\ reply[c].kind = "transient"
        /\ result' = [result EXCEPT ![c] =
                        IF Expired(mem[c]) THEN "error" ELSE "ok"]
     \/ /\ reply[c].kind = "ok"
        /\ result' = [result EXCEPT ![c] = "ok"]
  /\ \/ /\ disk' = Persisted(c)
        /\ UNCHANGED stranded
     \/ /\ "disk_fault" \in Faults /\ reply[c].kind = "ok"
        /\ stranded' = TRUE
        /\ UNCHANGED disk
  /\ reply' = [reply EXCEPT ![c] = NoReply]
  /\ UNCHANGED <<fileVars, mem, locked, timer, serverVars, life, crashes,
                 degraded>>

\* A caller that leaves freshCreds: nothing of the call is kept.
Reset(C) ==
  /\ pc' = [c \in Caller |-> IF c \in C THEN "idle" ELSE pc[c]]
  /\ mem' = [c \in Caller |-> IF c \in C THEN NoCreds ELSE mem[c]]
  /\ locked' = [c \in Caller |-> IF c \in C THEN FALSE ELSE locked[c]]
  /\ timer' = [c \in Caller |-> IF c \in C THEN 0 ELSE timer[c]]
  /\ reply' = [c \in Caller |-> IF c \in C THEN NoReply ELSE reply[c]]
  /\ result' = [c \in Caller |-> IF c \in C THEN "none" ELSE result[c]]

\* The deferred release() and mu.Unlock().  release removes whatever lock file
\* is there, the caller's own or a successor's.
Release(c) ==
  /\ pc[c] = "release"
  /\ lockOwner' = IF locked[c] THEN NoOne ELSE lockOwner
  /\ lockAge' = IF locked[c] THEN 0 ELSE lockAge
  /\ Reset({c})
  /\ UNCHANGED <<disk, serverVars, life, history>>

-----------------------------------------------------------------------------
(* The account, the clock and the faults.                                  *)

\* Login ends PKCELogin: the exchanged credentials are renamed into place
\* without mutex or lock.  The server may issue no refresh token.
Login ==
  LET n == issued + 1
  IN /\ "login" \in Faults
     /\ issued < MaxIssued
     /\ \E r \in {0, n} :
          /\ disk' = [acc |-> n, ref |-> r, sess |-> n]
          /\ valid' = valid \cup ({r} \ {0})
     /\ issued' = n
     /\ UNCHANGED <<fileVars, pc, callVars, life, crashes, degraded,
                    stranded>>

\* Logout removes the file, again without mutex or lock.
Logout ==
  /\ "logout" \in Faults
  /\ disk' = NoCreds
  /\ UNCHANGED <<fileVars, pc, callVars, serverVars, life, crashes,
                 degraded, stranded>>

\* The server ends a session.
Revoke ==
  /\ "revoke" \in Faults
  /\ \E r \in valid : valid' = valid \ {r}
  /\ stranded' = TRUE
  /\ UNCHANGED <<disk, fileVars, pc, callVars, issued, life, crashes, degraded>>

\* A process is killed and started again: its calls vanish, its lock stays.
Crash(p) ==
  /\ crashes < MaxCrashes
  /\ crashes' = crashes + 1
  /\ LET gone == {c \in Caller : ProcOf[c] = p}
     IN /\ Reset(gone)
        /\ stranded' = (stranded \/ \E c \in gone : reply[c].kind = "ok")
  /\ UNCHANGED <<disk, fileVars, serverVars, life, degraded>>

\* The oldest live token enters the grace window, or expires.  All access tokens
\* live equally long, so they do so in the order they were issued.
Expire ==
  /\ \/ lapsed < issued /\ lapsed' = lapsed + 1 /\ UNCHANGED dead
     \/ dead < lapsed /\ dead' = dead + 1 /\ UNCHANGED lapsed
  /\ UNCHANGED <<disk, fileVars, pc, callVars, serverVars, history>>

AtMost(n, bound) == IF n > bound THEN bound ELSE n

\* Time passes unless a caller has used up MaxHold.  Ages past a limit are not
\* told apart.
Tick ==
  /\ \A c \in Caller : Working(c) => timer[c] < MaxHold
  /\ lockAge' = IF lockOwner = NoOne THEN 0
                ELSE AtMost(lockAge + 1, StaleAfter + 1)
  /\ timer' = [c \in Caller |->
                 IF Waiting(c) THEN AtMost(timer[c] + 1, WaitTimeout + 1)
                 ELSE IF Working(c) THEN timer[c] + 1 ELSE timer[c]]
  /\ UNCHANGED <<disk, lockOwner, pc, mem, locked, reply, result, serverVars,
                 life, history>>

-----------------------------------------------------------------------------
Init ==
  /\ disk \in {NoCreds, [acc |-> 1, ref |-> 1, sess |-> 1]}
  /\ lockOwner = NoOne
  /\ lockAge = 0
  /\ pc = [c \in Caller |-> "idle"]
  /\ mem = [c \in Caller |-> NoCreds]
  /\ locked = [c \in Caller |-> FALSE]
  /\ timer = [c \in Caller |-> 0]
  /\ reply = [c \in Caller |-> NoReply]
  /\ result = [c \in Caller |-> "none"]
  /\ issued = disk.acc
  /\ valid = {disk.ref} \ {0}
  /\ lapsed = 0
  /\ dead = 0
  /\ crashes = 0
  /\ degraded = FALSE
  /\ stranded = FALSE

\* What the code of one call does, the server's answer included.
Step(c) ==
  \/ FirstRead(c) \/ CreateLock(c) \/ CreateLockError(c) \/ InspectLock(c)
  \/ ReclaimLock(c) \/ ReRead(c) \/ Redeem(c) \/ Finish(c) \/ Release(c)

Next ==
  \/ \E c \in Caller : Step(c)
  \/ Login \/ Logout \/ Revoke
  \/ \E p \in {ProcOf[c] : c \in Caller} : Crash(p)
  \/ Expire
  \/ Tick

Spec == Init /\ [][Next]_vars

\* A call that has begun goes on: threads are scheduled, the HTTP client returns
\* at its timeout at the latest, and time passes.
Inside(c) == pc[c] # "idle" /\ Step(c)
FairSpec == Spec /\ WF_vars(Tick) /\ \A c \in Caller : WF_vars(Inside(c))

-----------------------------------------------------------------------------
(* Properties.                                                             *)

\* Two callers never hold the lock file at the same time (acquireCredentialLock
\* "takes an exclusive, cross-process lock").
LockExclusive ==
  \A c, d \in Caller :
    Working(c) /\ Working(d) /\ locked[c] /\ locked[d] => c = d

\* Session s can still be continued: the server would redeem its refresh token on
\* disk, or one that a caller has received and is about to write there.
Recoverable(s) ==
  \/ disk.sess = s /\ disk.ref \in valid
  \/ \E c \in Caller : /\ reply[c].kind = "ok"
                      /\ reply[c].creds.sess = s
                      /\ reply[c].creds.ref \in valid

\* As long as no call has gone on without the lock, freshCreds reports
\* errAuthRejected only when the session is over: never while it can still be
\* continued (errAuthRejected: "the user genuinely must sign in again").
RejectionIsGenuine ==
  [][\A c \in Caller :
       /\ ~degraded
       /\ result[c] # "rejected"
       /\ result'[c] = "rejected"
       => ~Recoverable(mem[c].sess)]_vars

\* Whatever the timing of refreshes, reclaims, unlocked calls, logins and
\* logouts: unless a fault destroyed a token, once nothing is in flight the
\* refresh token on disk is one the server redeems.
SessionNotStranded ==
  ~stranded /\ disk.ref # 0 /\ (\A c \in Caller : pc[c] = "idle")
    => disk.ref \in valid

\* With a rotating server a late write never puts an older credential of a
\* session over a newer one.
DiskNeverRegresses ==
  [][Rotating /\ disk'.sess = disk.sess => disk'.acc >= disk.acc]_disk

\* After Logout the credentials stay away until the next Login ("Logout removes
\* the stored console credentials, signing the user out").
LogoutSticks == [][disk = NoCreds => disk' = NoCreds \/ Login]_vars

\* Every call of freshCreds returns: an orphaned lock, lock files that cannot be
\* created or a queue of waiters delay it but never block it, once holders are
\* no slower than the stale limit.  (While they are, a waiter may go round the
\* stale branch, which skips the deadline, as often as others lock again.)
Prompt == \A c \in Caller : Working(c) => timer[c] <= StaleAfter
CallReturns == <>[]Prompt => \A c \in Caller : (pc[c] # "idle") ~> (pc[c] = "idle")
=============================================================================
