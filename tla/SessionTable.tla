---------------------------- MODULE SessionTable ----------------------------
(***************************************************************************)
(* What one janus manager promises, without its handlers, mutexes and      *)
(* keys: sessions open with terms of their own and list their rounds, and  *)
(* a task is provisioned once, on the terms of a session that is open at   *)
(* that moment.  Sessions end or are lost; tasks stay.                     *)
(*                                                                         *)
(* Terms are all that a session fixes for its tasks and that the           *)
(* comparison of two tasks looks at.                                       *)
(***************************************************************************)
CONSTANTS SessionId, TaskId, Terms, None

VARIABLES
    open,       \* the open sessions: their terms and the rounds they list
    tasks       \* the terms of each provisioned task

vars == <<open, tasks>>

OpenSession == [terms : Terms, rounds : SUBSET TaskId]

IsOpen(id) == open[id] # None

Init ==
    /\ open = [id \in SessionId |-> None]
    /\ tasks = [t \in TaskId |-> None]

\* The terms of a new session have not been used before.  The id may have:
\* then the new session takes the place of the old one.
Open(id, terms) ==
    /\ \A i \in SessionId : IsOpen(i) => open[i].terms # terms
    /\ \A t \in TaskId : tasks[t] # terms
    /\ open' = [open EXCEPT ![id] = [terms |-> terms, rounds |-> {}]]
    /\ UNCHANGED tasks

Provision(id, t) ==
    /\ IsOpen(id)
    /\ tasks[t] = None
    /\ tasks' = [tasks EXCEPT ![t] = open[id].terms]
    /\ UNCHANGED open

List(id, t) ==
    /\ IsOpen(id)
    /\ tasks[t] = open[id].terms
    /\ open' = [open EXCEPT ![id] = [terms  |-> open[id].terms,
                                     rounds |-> open[id].rounds \cup {t}]]
    /\ UNCHANGED tasks

Close(id) ==
    /\ open' = [open EXCEPT ![id] = None]
    /\ UNCHANGED tasks

LoseAll ==
    /\ open' = [id \in SessionId |-> None]
    /\ UNCHANGED tasks

Next ==
    \/ \E id \in SessionId, terms \in Terms : Open(id, terms)
    \/ \E id \in SessionId, t \in TaskId : Provision(id, t) \/ List(id, t)
    \/ \E id \in SessionId : Close(id)
    \/ LoseAll

Spec == Init /\ [][Next]_vars

=============================================================================
