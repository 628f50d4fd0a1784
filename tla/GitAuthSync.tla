---------------------------- MODULE GitAuthSync ----------------------------
(***************************************************************************)
(* SyncGitAuth (gitcredential.go): the token in git-auth.gitconfig and the  *)
(* [include] of that file in the .git/config of every repository.  It runs  *)
(* in the application every two minutes, after a login, in every credential *)
(* helper, and when the watcher sees a .git/config change, its own changes  *)
(* included; two runs overlap freely.  os.WriteFile truncates the file and  *)
(* then writes it.  The access token is that of CredentialRefresh.          *)
(***************************************************************************)
EXTENDS Naturals

CONSTANTS
  Repos,       \* the Forgejo repositories under ~/alis.build
  Ticker, Others,  \* the call of the ticker; bound: other calls in flight
  MaxToken,    \* bound: access tokens issued
  MaxEdits     \* bound: edits of a .git/config by the old extension

VARIABLES
  token,       \* the access token the token source serves
  auth,        \* git-auth.gitconfig
  config,      \* .git/config: its own contents and the two includes
  timer,       \* configFixTimers that run
  sync,        \* SyncGitAuth calls
  edits        \* edits made

authVars == <<token, auth, config, timer, sync, edits>>

Syncs == {Ticker} \cup Others
Text == [rest: BOOLEAN, own: BOOLEAN, stale: BOOLEAN]
Empty == [rest |-> FALSE, own |-> FALSE, stale |-> FALSE]
NoAuth == [token |-> 0, hosts |-> {}]
Idle == [at |-> "idle", token |-> 0, todo |-> {}, text |-> Empty]

TypeOK ==
  /\ token \in 1..MaxToken /\ edits \in 0..MaxEdits
  /\ auth \in [token: 0..MaxToken, hosts: SUBSET Repos]
  /\ config \in [Repos -> Text]
  /\ timer \subseteq Repos
  /\ sync \in [Syncs -> [at: {"idle", "discover", "auth", "writeAuth", "read"}
                              \cup {"truncate", "write"},
                         token: 0..MaxToken, todo: SUBSET Repos, text: Text]]

-----------------------------------------------------------------------------
(* SyncGitAuth.  It begins with AccessToken.                                *)

LaunchToken == 1                               \* mutant: that of the launch is kept
AccessToken == token
Begin(s) ==
  /\ sync[s] = Idle
  /\ sync' = [sync EXCEPT ![s].at = "discover", ![s].token = AccessToken]

\* What the ticker, a login or a credential helper, and the watcher start.
Tick == Begin(Ticker) /\ UNCHANGED <<token, auth, config, timer, edits>>
Call(s) == Begin(s) /\ UNCHANGED <<token, auth, config, timer, edits>>
TimerFires(s, r) ==
  /\ r \in timer /\ timer' = timer \ {r}
  /\ Begin(s)
  /\ UNCHANGED <<token, auth, config, edits>>

\* The repository of the call; and the next one, or the end of the call.
Target(s, r) == r \in sync[s].todo /\ \A q \in sync[s].todo : r <= q
Following(s, todo) ==
  IF todo = {} THEN Idle
  ELSE [sync[s] EXCEPT !.at = "read", !.todo = todo, !.text = Empty]

\* discoverForgejoRepos: a configuration that is being written shows no host.
Discover(s) ==
  /\ sync[s].at = "discover"
  /\ LET found == {r \in Repos : config[r].rest}
     IN sync' = [sync EXCEPT ![s] = IF found = {} THEN Idle
                                    ELSE [@ EXCEPT !.at = "auth", !.todo = found]]
  /\ UNCHANGED <<token, auth, config, timer, edits>>

\* writeGitAuthConfig
TruncateAuth(s) ==
  /\ sync[s].at = "auth"
  /\ auth' = NoAuth
  /\ sync' = [sync EXCEPT ![s].at = "writeAuth"]
  /\ UNCHANGED <<token, config, timer, edits>>
WriteAuth(s) ==
  /\ sync[s].at = "writeAuth"
  /\ auth' = [token |-> sync[s].token, hosts |-> sync[s].todo]
  /\ sync' = [sync EXCEPT ![s].at = "read", ![s].token = 0]
  /\ UNCHANGED <<token, config, timer, edits>>

\* migrateRepoConfig: without the extension's include, with our own; the file is
\* not written when it is so already.
Migrated(text) == [text EXCEPT !.own = TRUE, !.stale = FALSE]
Changes(text) == Migrated(text) # text
ReadConfig(s, r) ==
  /\ sync[s].at = "read" /\ Target(s, r)
  /\ sync' = [sync EXCEPT ![s] =
                IF Changes(config[r])
                THEN [@ EXCEPT !.at = "truncate", !.text = Migrated(config[r])]
                ELSE Following(s, sync[s].todo \ {r})]
  /\ UNCHANGED <<token, auth, config, timer, edits>>

\* A write is seen by the watcher, which starts the timer (again).
Written(r, text) ==
  /\ config' = [config EXCEPT ![r] = text]
  /\ timer' = timer \cup {r}
TruncateConfig(s, r) ==
  /\ sync[s].at = "truncate" /\ Target(s, r)
  /\ Written(r, Empty)
  /\ sync' = [sync EXCEPT ![s].at = "write"]
  /\ UNCHANGED <<token, auth, edits>>
WriteConfig(s, r) ==
  /\ sync[s].at = "write" /\ Target(s, r)
  /\ Written(r, sync[s].text)
  /\ sync' = [sync EXCEPT ![s] = Following(s, sync[s].todo \ {r})]
  /\ UNCHANGED <<token, auth, edits>>

-----------------------------------------------------------------------------
(* Others.                                                                  *)

\* The token is refreshed.
Rotate ==
  /\ token < MaxToken /\ token' = token + 1
  /\ UNCHANGED <<auth, config, timer, sync, edits>>

\* The old VS Code extension puts its include back (git config replaces the file).
Extension(r) ==
  /\ edits < MaxEdits /\ edits' = edits + 1
  /\ Written(r, [config[r] EXCEPT !.stale = TRUE])
  /\ UNCHANGED <<token, auth, sync>>

-----------------------------------------------------------------------------
Init ==
  /\ token = 1 /\ auth = NoAuth
  /\ \E stale \in BOOLEAN :
       config = [r \in Repos |-> [rest |-> TRUE, own |-> FALSE, stale |-> stale]]
  /\ timer = {} /\ edits = 0
  /\ sync = [s \in Syncs |-> Idle]

SyncStep(s) ==
  \/ Discover(s) \/ TruncateAuth(s) \/ WriteAuth(s)
  \/ \E r \in Repos : ReadConfig(s, r) \/ TruncateConfig(s, r) \/ WriteConfig(s, r)
AnyTimer == \E s \in Others, r \in Repos : TimerFires(s, r)
Next ==
  \/ Tick \/ AnyTimer \/ Rotate
  \/ \E s \in Others : Call(s)
  \/ \E s \in Syncs : SyncStep(s)
  \/ \E r \in Repos : Extension(r)

Spec == Init /\ [][Next]_authVars

-----------------------------------------------------------------------------
(* Properties.                                                              *)

\* The repository's own configuration, its remotes among it, is neither in the
\* file nor about to be written back.
Ruined(r) ==
  /\ ~config[r].rest
  /\ \A s \in Syncs : sync[s].at = "write" /\ Target(s, r) => ~sync[s].text.rest

\* A sync is "safe to call on every startup": whatever overlaps with it, the
\* configuration of a repository is not lost.
ConfigSurvives == \A r \in Repos : ~Ruined(r)

\* Each configuration has our include and not the extension's, and git reads the
\* last token or, while the file is rewritten, none; a ruined one is excepted.
ConfigsRight == \A r \in Repos : Ruined(r) \/ (config[r].own /\ ~config[r].stale)
AuthCurrent ==
  \/ auth = NoAuth \/ \A r \in Repos : Ruined(r)
  \/ auth.token = token /\ \A r \in Repos : Ruined(r) \/ r \in auth.hosts

\* The syncs are at rest: none is about to be set off, and all is right.
AtRest == timer = {} /\ ConfigsRight /\ AuthCurrent

\* When token and extension have come to rest, so do the syncs: those that a sync
\* sets off by writing a configuration end, whoever wrote last left each
\* configuration right, and no overlapping older call leaves the previous token
\* in the file for ever.
SyncSettles == <>[]AtRest
=============================================================================
