---------------------------- MODULE RunLifecycle ----------------------------
(***************************************************************************)
(* What the history of workflow runs promises its readers: a run appears   *)
(* once, as running with steps to do; it ends once, in one final status,   *)
(* when none of its steps is left pending or running; from then on its     *)
(* record does not change, except that it may be removed as a whole.       *)
(***************************************************************************)
CONSTANT Runs

VARIABLES
    status,  \* the status the history shows for the run, "none" if none
    busy,    \* busy[r]: some step of the run is shown as pending or running
    begun    \* the runs that have ever appeared

Final == {"success", "failed", "stopped"}

Init ==
    /\ status = [r \in Runs |-> "none"]
    /\ busy = [r \in Runs |-> FALSE]
    /\ begun = {}

Begin(r) ==
    /\ status[r] = "none" /\ r \notin begun
    /\ status'[r] = "running" /\ busy'[r] /\ r \in begun'

\* Steps go on, or the last of them has ended: none is reopened.
Work(r) ==
    /\ status[r] = "running" /\ status'[r] = "running"
    /\ busy'[r] => busy[r]
    /\ r \in begun /\ r \in begun'

End(r) ==
    /\ status[r] = "running" /\ status'[r] \in Final
    /\ ~busy'[r]
    /\ r \in begun /\ r \in begun'

Remove(r) ==
    /\ status[r] \in Final /\ status'[r] = "none"
    /\ ~busy[r] /\ ~busy'[r]
    /\ r \in begun /\ r \in begun'

Rest(r) ==
    /\ status[r] # "running" /\ status'[r] = status[r]
    /\ ~busy[r] /\ ~busy'[r]
    /\ r \in begun <=> r \in begun'

\* One statement of the recovery may end several runs at once.
Next == \A r \in Runs : Begin(r) \/ Work(r) \/ End(r) \/ Remove(r) \/ Rest(r)

Spec == Init /\ [][Next]_<<status, busy, begun>>
=============================================================================
