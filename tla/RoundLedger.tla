----------------------------- MODULE RoundLedger -----------------------------
(***************************************************************************)
(* What the two managers and the API calls promise together, without       *)
(* sessions, requests and failures.  Each aggregator gets the task of a    *)
(* round at most once and keeps it.  A round is announced, as the current  *)
(* round of the controller that started it, only when both aggregators     *)
(* have its task, on the same terms and for the same collector.            *)
(***************************************************************************)
CONSTANTS TaskId, Controller, Terms, None

VARIABLES
    leaderTask, helperTask,     \* the terms of each task at each aggregator
    round                       \* the current round of each controller

vars == <<leaderTask, helperTask, round>>

Init ==
    /\ leaderTask = [t \in TaskId |-> None]
    /\ helperTask = [t \in TaskId |-> None]
    /\ round = [c \in Controller |-> None]

ProvisionLeader(t) ==
    /\ leaderTask[t] = None
    /\ \E terms \in Terms : leaderTask' = [leaderTask EXCEPT ![t] = terms]
    /\ UNCHANGED <<helperTask, round>>

ProvisionHelper(t) ==
    /\ helperTask[t] = None
    /\ \E terms \in Terms : helperTask' = [helperTask EXCEPT ![t] = terms]
    /\ UNCHANGED <<leaderTask, round>>

Announce(c, t) ==
    /\ leaderTask[t] # None
    /\ leaderTask[t] = helperTask[t]
    /\ leaderTask[t].collector = c
    /\ round' = [round EXCEPT ![c] = t]
    /\ UNCHANGED <<leaderTask, helperTask>>

Next ==
    \/ \E t \in TaskId : ProvisionLeader(t) \/ ProvisionHelper(t)
    \/ \E c \in Controller, t \in TaskId : Announce(c, t)

Spec == Init /\ [][Next]_vars

=============================================================================
