------------------------ MODULE MCCredentialRefresh ------------------------
(* Instances of CredentialRefresh for TLC.                                 *)
EXTENDS CredentialRefresh, TLC

CONSTANTS app1, app2, helper, app, git

\* Two goroutines of the app and one git-credential-alis process.
MCThree == {app1, app2, helper}
\* One goroutine of the app and one git-credential-alis process.
MCTwo == {app1, helper}

MCProcOf == [c \in MCThree |-> IF c = helper THEN git ELSE app]

\* The goroutines of the app are interchangeable (safety runs only).
Threads == Permutations({app1, app2})
=============================================================================
