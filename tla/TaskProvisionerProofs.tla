----------------------- MODULE TaskProvisionerProofs -----------------------
(***************************************************************************)
(* Proofs about TaskProvisioner, for every set of sessions, tasks, keys,   *)
(* handlers and requests.                                                  *)
(***************************************************************************)
EXTENDS TaskProvisioner, TLAPS

USE NoneAssumption

\* A session's VDAF parameter always gives an instance that a task can hold.
LEMMA VdafInstanceType ==
    ASSUME NEW p \in VdafParameter
    PROVE  ToVdafInstance(p) \in VdafInstance
BY DEF ToVdafInstance, VdafInstance, VdafParameter, BitSize, FixedTypeTag

\* The conversion loses nothing: equal instances come from equal parameters,
\* so comparing instances in provision_task compares the parameters.
LEMMA VdafInstanceInjective ==
    ASSUME NEW p \in VdafParameter, NEW q \in VdafParameter,
           ToVdafInstance(p) = ToVdafInstance(q)
    PROVE  p = q
BY DEF ToVdafInstance, VdafParameter, FixedTypeTag

LEMMA IdleType == Idle \in HandlerState
BY DEF Idle, HandlerState

\* The four kinds of request are told apart by their op.
LEMMA RequestKinds ==
    ASSUME NEW req \in Request
    PROVE  /\ req.op = "create_session" => req \in CreateRequest
           /\ req.op = "start_round" => req \in StartRequest
           /\ req.op = "end_session" => req \in EndRequest
           /\ req.op = "get_vdaf_parameter" => req \in GetRequest
BY DEF Request, CreateRequest, StartRequest, EndRequest, GetRequest

LEMMA NewTaskType ==
    ASSUME NEW s \in Session
    PROVE  NewTask(s) \in Task
BY VdafInstanceType DEF NewTask, Session, Task



LEMMA SetType ==
    ASSUME handler \in [Handler -> HandlerState], NEW h \in Handler,
           NEW state \in HandlerState, Set(h, state)
    PROVE  /\ handler' \in [Handler -> HandlerState]
           /\ handler'[h] = state
           /\ \A g \in Handler : g # h => handler'[g] = handler[g]
BY DEF Set

LEMMA StateType ==
    ASSUME NEW pc \in {"received", "keyring", "insert", "provision", "committed"},
           NEW req \in Request, NEW id \in SessionId \cup {None},
           NEW keypair \in Keypair \cup {None}
    PROVE  [pc |-> pc, req |-> req, id |-> id,
            keypair |-> keypair, reply |-> None] \in HandlerState
BY DEF HandlerState

LEMMA AnswerType ==
    ASSUME NEW req \in Request, NEW status \in {"OK", "BAD_REQUEST"},
           NEW body \in SessionId \cup VdafParameter \cup {None}
    PROVE  [pc |-> "replied", req |-> req, id |-> None, keypair |-> None,
            reply |-> [status |-> status, body |-> body]] \in HandlerState
BY DEF HandlerState, Reply

\* Listing a task leaves a session what it was.
LEMMA WithTaskType ==
    ASSUME NEW s \in Session, NEW t \in TaskId
    PROVE  /\ WithTask(s, t) \in Session
           /\ NewTask(WithTask(s, t)) = NewTask(s)
           /\ WithTask(s, t).tasks = s.tasks \cup {t}
           /\ WithTask(s, t).verify_key = s.verify_key
           /\ WithTask(s, t).hpke_config_and_key = s.hpke_config_and_key
BY DEF WithTask, Session, NewTask

LEMMA RoundSessionType ==
    ASSUME TypeOK, HandlersWellFormed, RoundInProgress, NEW h \in Handler,
           handler[h].pc \in {"provision", "committed"}
    PROVE  /\ handler[h].req \in StartRequest
           /\ handler[h].req.training_session_id \in SessionId
           /\ handler[h].req.task_id \in TaskId
           /\ StartedSession(h) \in Session
BY DEF TypeOK, HandlersWellFormed, RoundInProgress, StartedSession, StartRequest

\* A committed transaction leaves an acceptable task, and every other task,
\* as it was.
LEMMA PutTaskResult ==
    ASSUME store \in [TaskId -> Task \cup {None}],
           NEW t \in TaskId, NEW task \in Task,
           Acceptable(t, task), PutTask(t, task)
    PROVE  /\ store'[t] # None
           /\ SameTask(store'[t], task)
           /\ \A u \in TaskId : store[u] # None => store'[u] = store[u]
BY DEF Acceptable, PutTask, SameTask

\* What a handler's call into the datastore leaves alone.
LEMMA DatastoreKeeps ==
    ASSUME TypeOK, HandlersWellFormed, RoundInProgress,
           NEW h \in Handler, Datastore(h)
    PROVE  /\ At(h, "provision")
           /\ UNCHANGED <<sessions, keyring>>
           /\ \A u \in TaskId : store[u] # None => store'[u] = store[u]
<1> DEFINE t == handler[h].req.task_id
           task == NewTask(StartedSession(h))
<1>1. At(h, "provision") /\ UNCHANGED <<sessions, keyring>>
  BY DEF Datastore, Provision, ProvisionError
<1>2. t \in TaskId /\ task \in Task
  BY <1>1, RoundSessionType, NewTaskType DEF At
<1>3. UNCHANGED store \/ (Acceptable(t, task) /\ PutTask(t, task))
  BY DEF Datastore, Provision, ProvisionError
<1> HIDE DEF t, task
<1>4. QED
  BY <1>1, <1>2, <1>3, PutTaskResult DEF TypeOK

\* A new task is the one of the session that the handler found.
LEMMA DatastoreAdds ==
    ASSUME TypeOK, HandlersWellFormed, RoundInProgress,
           NEW h \in Handler, Datastore(h),
           NEW t \in TaskId, store'[t] # store[t]
    PROVE  /\ store[t] = None
           /\ StartedSession(h) # None
           /\ store'[t] = NewTask(StartedSession(h))
           /\ store' = [store EXCEPT ![t] = NewTask(StartedSession(h))]
<1> DEFINE u == handler[h].req.task_id
           task == NewTask(StartedSession(h))
<1>1. /\ u \in TaskId /\ handler[h].pc = "provision"
      /\ StartedSession(h) # None
  BY RoundSessionType DEF Datastore, Provision, ProvisionError, At, RoundInProgress
<1>2. UNCHANGED store \/ PutTask(u, task)
  BY DEF Datastore, Provision, ProvisionError
<1> HIDE DEF u, task
<1>3. store[u] = None /\ store' = [store EXCEPT ![u] = task]
  BY <1>2 DEF PutTask
<1>4. t = u
  BY <1>1, <1>3 DEF TypeOK
<1>5. store'[t] = task
  BY <1>1, <1>3, <1>4 DEF TypeOK
<1>6. QED
  BY <1>1, <1>3, <1>4, <1>5 DEF task

\* The datastore never loses or changes a task.
LEMMA TasksKept ==
    ASSUME TypeOK, HandlersWellFormed, RoundInProgress, [Next]_vars
    PROVE  \A u \in TaskId : store[u] # None => store'[u] = store[u]
<1>1. CASE \E h \in Handler : Datastore(h)
  BY <1>1, DatastoreKeeps
<1>2. CASE ~\E h \in Handler : Datastore(h)
  BY <1>2 DEF Next, Step, Arrive, Receive, CreateCheck, CreateKeypair,
              CreateInsert, StartLookup, StartPush, EndSession,
              GetVdafParameter, Deliver, Disconnect, Restart, vars
<1>3. QED
  BY <1>1, <1>2

\* Only a restart or its own steps change a handler.
LEMMA OwnSteps ==
    ASSUME TypeOK, [Next]_vars, NEW h \in Handler, handler'[h] # handler[h]
    PROVE  Arrive(h) \/ Step(h) \/ Deliver(h) \/ Disconnect(h) \/ Restart
<1> USE DEF Set, TypeOK
<1>1. ASSUME NEW g \in Handler, g # h, Arrive(g) \/ Deliver(g) \/ Disconnect(g)
      PROVE  FALSE
  BY <1>1 DEF Arrive, Receive, Deliver, Disconnect
<1>2. ASSUME NEW g \in Handler, g # h, CreateCheck(g) \/ CreateKeypair(g) \/ CreateInsert(g)
      PROVE  FALSE
  BY <1>2 DEF CreateCheck, CreateKeypair, CreateInsert, Goto, Fail, Answer
<1>3. ASSUME NEW g \in Handler, g # h, StartLookup(g) \/ Datastore(g) \/ StartPush(g)
      PROVE  FALSE
  BY <1>3 DEF StartLookup, Datastore, Provision, ProvisionError, StartPush,
              Goto, Fail, Answer
<1>4. ASSUME NEW g \in Handler, g # h, EndSession(g) \/ GetVdafParameter(g)
      PROVE  FALSE
  BY <1>4 DEF EndSession, GetVdafParameter, Fail, Answer
<1>5. ~UNCHANGED vars
  BY DEF vars
<1>6. QED
  BY <1>1, <1>2, <1>3, <1>4, <1>5 DEF Next, Step

\* Types, and what handlers know, are kept by every step.
LEMMA TypesStep ==
    ASSUME TypeOK, HandlersWellFormed, RoundInProgress, [Next]_vars
    PROVE  TypeOK' /\ HandlersWellFormed'
<1> USE DEF TypeOK, HandlersWellFormed, At
<1>1. ASSUME NEW h \in Handler, Arrive(h) PROVE TypeOK' /\ HandlersWellFormed'
  BY <1>1, SetType, StateType, AnswerType, IdleType, RequestKinds, RequestsAssumption DEF Arrive, Receive
<1>2. ASSUME NEW h \in Handler, CreateCheck(h) PROVE TypeOK' /\ HandlersWellFormed'
  <2>1. At(h, "received") /\ handler[h].req \in CreateRequest
    BY <1>2, RequestKinds DEF CreateCheck, Serves
  <2>2. UNCHANGED <<sessions, keyring, store, lock>>
    BY <1>2 DEF CreateCheck
  <2>3. CASE Fail(h)
    BY <2>1, <2>2, <2>3, SetType, AnswerType DEF Fail, Answer
  <2>4. CASE \E id \in SessionId : Goto(h, "keyring", id, None)
    BY <2>1, <2>2, <2>4, SetType, StateType DEF Goto
  <2>5. QED
    BY <1>2, <2>3, <2>4 DEF CreateCheck
<1>3. ASSUME NEW h \in Handler, CreateKeypair(h) PROVE TypeOK' /\ HandlersWellFormed'
  BY <1>3, SetType, StateType, AnswerType, IdleType, RequestKinds DEF CreateKeypair, Goto, FetchKeypair, Keypair, CreateRequest, Request
<1>4. ASSUME NEW h \in Handler, CreateInsert(h) PROVE TypeOK' /\ HandlersWellFormed'
  BY <1>4, SetType, StateType, AnswerType, IdleType, RequestKinds DEF CreateInsert, Answer, CreateRequest, Session, Request
<1>5. ASSUME NEW h \in Handler, StartLookup(h) PROVE TypeOK' /\ HandlersWellFormed'
  BY <1>5, SetType, StateType, AnswerType, IdleType, RequestKinds DEF StartLookup, Serves, Fail, Answer, Goto, Idle, StartedSession, StartRequest
<1>6. ASSUME NEW h \in Handler, Provision(h) PROVE TypeOK' /\ HandlersWellFormed'
  <2> DEFINE t == handler[h].req.task_id
             task == NewTask(StartedSession(h))
  <2>1. /\ handler[h].req \in Request /\ handler[h].req \in StartRequest
        /\ t \in TaskId
        /\ task \in Task
    BY <1>6, RoundSessionType, NewTaskType DEF Provision, Request
  <2>2. UNCHANGED <<sessions, keyring>>
    BY <1>6 DEF Provision
  <2> HIDE DEF t, task
  <2>3. CASE PutTask(t, task) /\ Goto(h, "committed", None, None) /\ UNCHANGED lock
    BY <2>1, <2>2, <2>3, SetType, StateType DEF PutTask, Goto, t
  <2>4. CASE Fail(h) /\ lock' = None /\ UNCHANGED store
    BY <2>1, <2>2, <2>4, SetType, AnswerType DEF Fail, Answer
  <2>5. QED
    BY <1>6, <2>3, <2>4 DEF Provision, t, task
<1>7. ASSUME NEW h \in Handler, ProvisionError(h) PROVE TypeOK' /\ HandlersWellFormed'
  <2> DEFINE t == handler[h].req.task_id
             task == NewTask(StartedSession(h))
  <2>1. /\ handler[h].req \in Request
        /\ t \in TaskId
        /\ task \in Task
    BY <1>7, RoundSessionType, NewTaskType DEF ProvisionError, Request
  <2> HIDE DEF t, task
  <2>2. Fail(h) /\ lock' = None /\ UNCHANGED <<sessions, keyring>>
    BY <1>7 DEF ProvisionError
  <2>3. UNCHANGED store \/ PutTask(t, task)
    BY <1>7 DEF ProvisionError, t, task
  <2>4. QED
    BY <2>1, <2>2, <2>3, SetType, AnswerType DEF PutTask, Fail, Answer
<1>8. ASSUME NEW h \in Handler, StartPush(h) PROVE TypeOK' /\ HandlersWellFormed'
  BY <1>8, SetType, StateType, AnswerType, IdleType, RequestKinds, WithTaskType, RoundSessionType DEF StartPush, Answer, StartedSession, StartRequest, Request
<1>9. ASSUME NEW h \in Handler, EndSession(h) PROVE TypeOK' /\ HandlersWellFormed'
  BY <1>9, SetType, StateType, AnswerType, IdleType, RequestKinds DEF EndSession, Serves, Fail, Answer, EndRequest
<1>10. ASSUME NEW h \in Handler, GetVdafParameter(h) PROVE TypeOK' /\ HandlersWellFormed'
  <2>1. At(h, "received") /\ handler[h].req \in Request
    BY <1>10 DEF GetVdafParameter, Serves
  <2>2. UNCHANGED <<sessions, keyring, store, lock>>
    BY <1>10 DEF GetVdafParameter
  <2>3. CASE Fail(h)
    BY <2>1, <2>2, <2>3, SetType, AnswerType DEF Fail, Answer
  <2>4. CASE \E id \in SessionId :
               /\ SessionsWithTask(handler[h].req.task_id) = {id}
               /\ Answer(h, "OK", sessions[id].vdaf_parameter)
    <3>1. PICK id \in SessionId :
               /\ SessionsWithTask(handler[h].req.task_id) = {id}
               /\ Answer(h, "OK", sessions[id].vdaf_parameter)
      BY <2>4
    <3>2. sessions[id].vdaf_parameter \in VdafParameter
      BY <3>1 DEF SessionsWithTask, Session
    <3>3. QED
      BY <2>1, <2>2, <3>1, <3>2, SetType, AnswerType DEF Answer
  <2>5. QED
    BY <1>10, <2>3, <2>4 DEF GetVdafParameter
<1>11. ASSUME NEW h \in Handler, Deliver(h) PROVE TypeOK' /\ HandlersWellFormed'
  BY <1>11, SetType, StateType, AnswerType, IdleType, RequestKinds DEF Deliver, Idle
<1>12. ASSUME NEW h \in Handler, Disconnect(h) PROVE TypeOK' /\ HandlersWellFormed'
  BY <1>12, SetType, StateType, AnswerType, IdleType, RequestKinds DEF Disconnect, Release, Idle
<1>13. CASE Restart
  BY <1>13, IdleType DEF Restart, Idle
<1>14. CASE UNCHANGED vars
  BY <1>14 DEF vars
<1>15. QED
  BY <1>1, <1>2, <1>3, <1>4, <1>5, <1>6, <1>7, <1>8, <1>9, <1>10, <1>11, <1>12, <1>13, <1>14 DEF Next, Step, Datastore

\* The sessions mutex is held by the handler in start_round.
LEMMA LockStep ==
    ASSUME TypeOK, HandlersWellFormed, LockHeldByRound, [Next]_vars
    PROVE  LockHeldByRound'
<1> USE DEF TypeOK, LockHeldByRound, At, Set
<1>1. ASSUME NEW h \in Handler, Arrive(h) PROVE LockHeldByRound'
  BY <1>1 DEF Arrive, Receive
<1>2. ASSUME NEW h \in Handler, CreateCheck(h) PROVE LockHeldByRound'
  BY <1>2 DEF CreateCheck, Serves, Fail, Answer, Goto
<1>3. ASSUME NEW h \in Handler, CreateKeypair(h) PROVE LockHeldByRound'
  BY <1>3 DEF CreateKeypair, Goto
<1>4. ASSUME NEW h \in Handler, CreateInsert(h) PROVE LockHeldByRound'
  BY <1>4 DEF CreateInsert, Answer
<1>5. ASSUME NEW h \in Handler, StartLookup(h) PROVE LockHeldByRound'
  BY <1>5 DEF StartLookup, Serves, Fail, Answer, Goto, Idle
<1>6. ASSUME NEW h \in Handler, Provision(h) PROVE LockHeldByRound'
  BY <1>6 DEF Provision, PutTask, Fail, Answer, Goto
<1>7. ASSUME NEW h \in Handler, ProvisionError(h) PROVE LockHeldByRound'
  BY <1>7 DEF ProvisionError, PutTask, Fail, Answer
<1>8. ASSUME NEW h \in Handler, StartPush(h) PROVE LockHeldByRound'
  BY <1>8 DEF StartPush, Answer
<1>9. ASSUME NEW h \in Handler, EndSession(h) PROVE LockHeldByRound'
  BY <1>9 DEF EndSession, Serves, Fail, Answer
<1>10. ASSUME NEW h \in Handler, GetVdafParameter(h) PROVE LockHeldByRound'
  BY <1>10 DEF GetVdafParameter, Serves, Fail, Answer
<1>11. ASSUME NEW h \in Handler, Deliver(h) PROVE LockHeldByRound'
  BY <1>11 DEF Deliver, Idle
<1>12. ASSUME NEW h \in Handler, Disconnect(h) PROVE LockHeldByRound'
  BY <1>12 DEF Disconnect, Release, Idle
<1>13. CASE Restart
  BY <1>13 DEF Restart, Idle
<1>14. CASE UNCHANGED vars
  BY <1>14 DEF vars
<1>15. QED
  BY <1>1, <1>2, <1>3, <1>4, <1>5, <1>6, <1>7, <1>8, <1>9, <1>10, <1>11, <1>12, <1>13, <1>14 DEF Next, Step, Datastore

\* No other handler touches the session of a round in progress.
LEMMA RoundStep ==
    ASSUME TypeOK, HandlersWellFormed, LockHeldByRound, RoundInProgress, [Next]_vars
    PROVE  RoundInProgress'
<1> USE DEF TypeOK, RoundInProgress, At, Set, StartedSession
<1>1. ASSUME NEW h \in Handler, Arrive(h) PROVE RoundInProgress'
  BY <1>1 DEF Arrive, Receive
<1>2. ASSUME NEW h \in Handler, CreateCheck(h) PROVE RoundInProgress'
  BY <1>2 DEF CreateCheck, Serves, Fail, Answer, Goto
<1>3. ASSUME NEW h \in Handler, CreateKeypair(h) PROVE RoundInProgress'
  BY <1>3 DEF CreateKeypair, Goto
<1>4. ASSUME NEW h \in Handler, CreateInsert(h) PROVE RoundInProgress'
  BY <1>4, RoundSessionType DEF CreateInsert, Answer, LockHeldByRound
<1>5. ASSUME NEW h \in Handler, StartLookup(h) PROVE RoundInProgress'
  BY <1>5 DEF StartLookup, Serves, Fail, Answer, Goto, Idle
<1>6. ASSUME NEW h \in Handler, Provision(h) PROVE RoundInProgress'
  <2> DEFINE t == handler[h].req.task_id
             task == NewTask(StartedSession(h))
  <2>1. t \in TaskId /\ task \in Task
    BY <1>6, RoundSessionType, NewTaskType DEF Provision
  <2>2. UNCHANGED sessions /\ lock = h
    BY <1>6 DEF Provision, LockHeldByRound
  <2>3. \A g \in Handler : g # h => handler[g].pc \notin {"provision", "committed"}
    BY <2>2 DEF LockHeldByRound
  <2>4. CASE Acceptable(t, task) /\ PutTask(t, task) /\ Goto(h, "committed", None, None)
    <3>1. /\ handler'[h].req = handler[h].req
          /\ \A g \in Handler : g # h => handler'[g] = handler[g]
      BY <2>4 DEF Goto
    <3>2. store'[t] # None /\ SameTask(store'[t], task)
      BY <2>1, <2>4, PutTaskResult
    <3>3. StartedSession(h) # None
      BY <1>6 DEF Provision
    <3>4. QED
      BY <2>2, <2>3, <3>1, <3>2, <3>3
  <2>5. CASE Fail(h)
    BY <2>2, <2>3, <2>5 DEF Fail, Answer
  <2>6. QED
    BY <1>6, <2>4, <2>5 DEF Provision
<1>7. ASSUME NEW h \in Handler, ProvisionError(h) PROVE RoundInProgress'
  BY <1>7, RoundSessionType DEF ProvisionError, PutTask, Fail, Answer, LockHeldByRound
<1>8. ASSUME NEW h \in Handler, StartPush(h) PROVE RoundInProgress'
  BY <1>8, RoundSessionType DEF StartPush, Answer, LockHeldByRound
<1>9. ASSUME NEW h \in Handler, EndSession(h) PROVE RoundInProgress'
  BY <1>9, RoundSessionType DEF EndSession, Serves, Fail, Answer, LockHeldByRound
<1>10. ASSUME NEW h \in Handler, GetVdafParameter(h) PROVE RoundInProgress'
  BY <1>10 DEF GetVdafParameter, Serves, Fail, Answer
<1>11. ASSUME NEW h \in Handler, Deliver(h) PROVE RoundInProgress'
  BY <1>11 DEF Deliver, Idle
<1>12. ASSUME NEW h \in Handler, Disconnect(h) PROVE RoundInProgress'
  BY <1>12 DEF Disconnect, Release, Idle
<1>13. CASE Restart
  BY <1>13 DEF Restart, Idle
<1>14. CASE UNCHANGED vars
  BY <1>14 DEF vars
<1>15. QED
  BY <1>1, <1>2, <1>3, <1>4, <1>5, <1>6, <1>7, <1>8, <1>9, <1>10, <1>11, <1>12, <1>13, <1>14 DEF Next, Step, Datastore

\* The tasks that sessions list stay provisioned.
LEMMA ListedStep ==
    ASSUME TypeOK, HandlersWellFormed, LockHeldByRound, RoundInProgress, ListedTasksProvisioned, [Next]_vars
    PROVE  ListedTasksProvisioned'
<1> USE DEF TypeOK, ListedTasksProvisioned, At, Set
<1>1. ASSUME NEW h \in Handler, Arrive(h) PROVE ListedTasksProvisioned'
  BY <1>1 DEF Arrive, Receive
<1>2. ASSUME NEW h \in Handler, CreateCheck(h) PROVE ListedTasksProvisioned'
  BY <1>2 DEF CreateCheck, Serves, Fail, Answer, Goto
<1>3. ASSUME NEW h \in Handler, CreateKeypair(h) PROVE ListedTasksProvisioned'
  BY <1>3 DEF CreateKeypair, Goto
<1>4. ASSUME NEW h \in Handler, CreateInsert(h) PROVE ListedTasksProvisioned'
  BY <1>4, RoundSessionType DEF CreateInsert, Answer, LockHeldByRound, RoundInProgress
<1>5. ASSUME NEW h \in Handler, StartLookup(h) PROVE ListedTasksProvisioned'
  BY <1>5 DEF StartLookup, Serves, Fail, Answer, Goto, Idle
<1>6. ASSUME NEW h \in Handler, Provision(h) PROVE ListedTasksProvisioned'
  BY <1>6, DatastoreKeeps DEF Datastore, Session
<1>7. ASSUME NEW h \in Handler, ProvisionError(h) PROVE ListedTasksProvisioned'
  BY <1>7, DatastoreKeeps DEF Datastore, Session
<1>8. ASSUME NEW h \in Handler, StartPush(h) PROVE ListedTasksProvisioned'
  <2> DEFINE id == handler[h].req.training_session_id
             t == handler[h].req.task_id
             s == WithTask(sessions[id], t)
  <2>1. id \in SessionId /\ t \in TaskId /\ sessions[id] \in Session
    BY <1>8, RoundSessionType DEF StartPush, StartedSession
  <2>2. /\ store[t] # None
        /\ SameTask(store[t], NewTask(sessions[id]))
    BY <1>8 DEF StartPush, RoundInProgress, StartedSession
  <2>3. sessions[id] # None
    BY <1>8 DEF StartPush, RoundInProgress, StartedSession
  <2>4. /\ sessions' = [sessions EXCEPT ![id] = s]
        /\ UNCHANGED store
    BY <1>8 DEF StartPush
  <2>5. NewTask(s) = NewTask(sessions[id]) /\ s.tasks = sessions[id].tasks \cup {t}
    BY <2>1, WithTaskType
  <2> HIDE DEF id, t, s
  <2>6. sessions'[id] = s /\ \A i \in SessionId : i # id => sessions'[i] = sessions[i]
    BY <2>1, <2>4
  <2>7. QED
    BY <2>2, <2>3, <2>4, <2>5, <2>6 DEF ListedTasksProvisioned
<1>9. ASSUME NEW h \in Handler, EndSession(h) PROVE ListedTasksProvisioned'
  BY <1>9, RoundSessionType DEF EndSession, Serves, Fail, Answer, LockHeldByRound, RoundInProgress
<1>10. ASSUME NEW h \in Handler, GetVdafParameter(h) PROVE ListedTasksProvisioned'
  BY <1>10 DEF GetVdafParameter, Serves, Fail, Answer
<1>11. ASSUME NEW h \in Handler, Deliver(h) PROVE ListedTasksProvisioned'
  BY <1>11 DEF Deliver, Idle
<1>12. ASSUME NEW h \in Handler, Disconnect(h) PROVE ListedTasksProvisioned'
  BY <1>12 DEF Disconnect, Release, Idle
<1>13. CASE Restart
  BY <1>13 DEF Restart, Idle
<1>14. CASE UNCHANGED vars
  BY <1>14 DEF vars
<1>15. QED
  BY <1>1, <1>2, <1>3, <1>4, <1>5, <1>6, <1>7, <1>8, <1>9, <1>10, <1>11, <1>12, <1>13, <1>14 DEF Next, Step, Datastore

\* What was answered stays true.
LEMMA RepliesStep ==
    ASSUME TypeOK, HandlersWellFormed, LockHeldByRound, RoundInProgress, ListedTasksProvisioned, RepliesSound, [Next]_vars
    PROVE  RepliesSound'
<1> USE DEF At
<1> DEFINE Reached(h) == handler'[h].pc = "replied" /\ handler'[h].reply.status = "OK"
           True(h) == LET req == handler'[h].req IN
             /\ req.op \in {"start_round", "get_vdaf_parameter"} =>
                  req.task_id \in TaskId /\ store'[req.task_id] # None
             /\ req.op = "get_vdaf_parameter" =>
                  store'[req.task_id].vdaf = ToVdafInstance(handler'[h].reply.body)
<1>1. \A u \in TaskId : store[u] # None => store'[u] = store[u]
  BY TasksKept
<1>2. ASSUME NEW h \in Handler, handler'[h] = handler[h], Reached(h) PROVE True(h)
  BY <1>1, <1>2 DEF RepliesSound
<1>3. ASSUME NEW h \in Handler, CreateInsert(h) PROVE True(h)
  BY <1>3 DEF CreateInsert, Answer, Set, TypeOK, HandlersWellFormed, CreateRequest
<1>4. ASSUME NEW h \in Handler, StartPush(h) PROVE True(h)
  BY <1>4 DEF StartPush, Answer, Set, TypeOK, HandlersWellFormed, RoundInProgress, StartRequest
<1>5. ASSUME NEW h \in Handler, EndSession(h) PROVE True(h)
  BY <1>5 DEF EndSession, Serves, Answer, Fail, Set, TypeOK
<1>6. ASSUME NEW h \in Handler, GetVdafParameter(h), Reached(h) PROVE True(h)
  <2> DEFINE t == handler[h].req.task_id
  <2>1. PICK id \in SessionId :
           /\ SessionsWithTask(t) = {id}
           /\ Answer(h, "OK", sessions[id].vdaf_parameter)
    BY <1>6 DEF GetVdafParameter, Fail, Answer, Set, TypeOK
  <2>2. sessions[id] # None /\ t \in sessions[id].tasks
    BY <2>1 DEF SessionsWithTask
  <2>3. t \in TaskId
    BY <2>2 DEF TypeOK, Session
  <2>4. store[t] # None /\ store[t].vdaf = ToVdafInstance(sessions[id].vdaf_parameter)
    BY <2>2 DEF ListedTasksProvisioned, SameTask, NewTask
  <2>5. /\ handler'[h].req = handler[h].req
        /\ handler'[h].reply.body = sessions[id].vdaf_parameter
    BY <2>1 DEF Answer, Set, TypeOK
  <2>6. QED
    BY <1>1, <2>3, <2>4, <2>5
<1>7. ASSUME NEW h \in Handler, handler'[h] # handler[h], Reached(h)
      PROVE  CreateInsert(h) \/ StartPush(h) \/ EndSession(h) \/ GetVdafParameter(h)
  <2>1. \/ Arrive(h) \/ Step(h) \/ Deliver(h) \/ Disconnect(h) \/ Restart
    BY <1>7, OwnSteps
  <2>2. CASE Arrive(h) \/ Deliver(h) \/ Disconnect(h) \/ Restart
    BY <1>7, <2>2 DEF Arrive, Receive, Deliver, Disconnect, Restart, Idle, Set, TypeOK
  <2>3. CASE CreateCheck(h) \/ CreateKeypair(h)
    BY <1>7, <2>3 DEF CreateCheck, CreateKeypair, Goto, Fail, Answer, Set, TypeOK
  <2>4. CASE StartLookup(h)
    BY <1>7, <2>4 DEF StartLookup, Goto, Fail, Answer, Set, Idle, TypeOK
  <2>5. CASE Datastore(h)
    BY <1>7, <2>5 DEF Datastore, Provision, ProvisionError, Goto, Fail, Answer, Set, TypeOK
  <2>6. QED
    BY <2>1, <2>2, <2>3, <2>4, <2>5 DEF Step
<1>8. QED
  BY <1>2, <1>3, <1>4, <1>5, <1>6, <1>7 DEF RepliesSound

\* Sessions have verify keys of their own.
LEMMA KeysStep ==
    ASSUME TypeOK, HandlersWellFormed, LockHeldByRound, RoundInProgress, KeysDistinct, [Next]_vars
    PROVE  KeysDistinct'
<1> USE DEF TypeOK, KeysDistinct, PendingCreate, At, Set
<1>1. ASSUME NEW h \in Handler, Arrive(h) PROVE KeysDistinct'
  BY <1>1 DEF Arrive, Receive, FreshKey, IsCreateFor
<1>2. ASSUME NEW h \in Handler, CreateCheck(h) PROVE KeysDistinct'
  BY <1>2 DEF CreateCheck, Serves, Fail, Answer, Goto
<1>3. ASSUME NEW h \in Handler, CreateKeypair(h) PROVE KeysDistinct'
  BY <1>3 DEF CreateKeypair, Goto
<1>4. ASSUME NEW h \in Handler, CreateInsert(h) PROVE KeysDistinct'
  BY <1>4 DEF CreateInsert, Answer, HandlersWellFormed, CreateRequest
<1>5. ASSUME NEW h \in Handler, StartLookup(h) PROVE KeysDistinct'
  BY <1>5 DEF StartLookup, Serves, Fail, Answer, Goto, Idle
<1>6. ASSUME NEW h \in Handler, Datastore(h) PROVE KeysDistinct'
  <2>1. /\ UNCHANGED sessions
        /\ handler'[h].pc \in {"committed", "replied"}
        /\ \A g \in Handler : g # h => handler'[g] = handler[g]
    BY <1>6 DEF Datastore, Provision, ProvisionError, Fail, Answer, Goto
  <2>2. \A g \in Handler : PendingCreate(g)' =>
            PendingCreate(g) /\ handler'[g] = handler[g]
    BY <2>1
  <2>3. ASSUME NEW g \in Handler, PendingCreate(g), NEW t \in TaskId,
               store'[t] # None
        PROVE  store'[t].verify_key # handler[g].req.verify_key
    <3>1. CASE store'[t] = store[t]
      BY <2>3, <3>1
    <3>2. CASE store'[t] # store[t]
      <4>1. /\ store'[t] = NewTask(StartedSession(h))
            /\ StartedSession(h) # None
        BY <1>6, <3>2, DatastoreAdds
      <4>2. handler[h].req.training_session_id \in SessionId
        BY <1>6, RoundSessionType DEF Datastore, Provision, ProvisionError
      <4>3. QED
        BY <2>3, <4>1, <4>2 DEF NewTask, StartedSession
    <3>3. QED
      BY <3>1, <3>2
  <2>4. QED
    BY <2>1, <2>2, <2>3
<1>7. ASSUME NEW h \in Handler, StartPush(h) PROVE KeysDistinct'
  BY <1>7, WithTaskType, RoundSessionType DEF StartPush, Answer, StartedSession
<1>8. ASSUME NEW h \in Handler, EndSession(h) PROVE KeysDistinct'
  BY <1>8 DEF EndSession, Serves, Fail, Answer
<1>9. ASSUME NEW h \in Handler, GetVdafParameter(h) PROVE KeysDistinct'
  BY <1>9 DEF GetVdafParameter, Serves, Fail, Answer
<1>10. ASSUME NEW h \in Handler, Deliver(h) PROVE KeysDistinct'
  BY <1>10 DEF Deliver, Idle
<1>11. ASSUME NEW h \in Handler, Disconnect(h) PROVE KeysDistinct'
  BY <1>11 DEF Disconnect, Release, Idle
<1>12. CASE Restart
  BY <1>12 DEF Restart, Idle
<1>13. CASE UNCHANGED vars
  BY <1>13 DEF vars
<1>14. QED
  BY <1>1, <1>2, <1>3, <1>4, <1>5, <1>6, <1>7, <1>8, <1>9, <1>10, <1>11, <1>12, <1>13 DEF Next, Step

\* The keyring generates one keypair per config id.
LEMMA KeyringStep ==
    ASSUME TypeOK, HandlersWellFormed, LockHeldByRound, RoundInProgress, KeyringCovers, [Next]_vars
    PROVE  KeyringCovers'
<1> USE DEF TypeOK, KeyringCovers, At, Set
<1>1. ASSUME NEW h \in Handler, Arrive(h) PROVE KeyringCovers'
  BY <1>1 DEF Arrive, Receive
<1>2. ASSUME NEW h \in Handler, CreateCheck(h) PROVE KeyringCovers'
  BY <1>2 DEF CreateCheck, Serves, Fail, Answer, Goto
<1>3. ASSUME NEW h \in Handler, CreateKeypair(h) PROVE KeyringCovers'
  <2>1. PICK k \in HpkeConfigId :
           LET keypair == FetchKeypair(k, handler[h].req.verify_key) IN
           /\ keyring' = [keyring EXCEPT ![k] = keypair]
           /\ Goto(h, "insert", handler[h].id, keypair)
    BY <1>3 DEF CreateKeypair
  <2> DEFINE keypair == FetchKeypair(k, handler[h].req.verify_key)
  <2>2. /\ keypair.config_id = k
        /\ keypair # None
        /\ keyring[k] # None => keypair = keyring[k]
    BY <1>3, NoneAssumption DEF FetchKeypair, CreateKeypair, Keypair, HandlersWellFormed, CreateRequest
  <2> HIDE DEF keypair
  <2>3. /\ keyring' = [keyring EXCEPT ![k] = keypair]
        /\ UNCHANGED sessions
        /\ handler'[h].keypair = keypair
        /\ \A g \in Handler : g # h => handler'[g] = handler[g]
    BY <1>3, <2>1 DEF CreateKeypair, Goto, keypair
  <2>4. \A c \in HpkeConfigId : keyring[c] # None => keyring'[c] = keyring[c]
    BY <2>2, <2>3
  <2>5. keyring'[k] = keypair
    BY <2>3
  <2>6. \A c \in HpkeConfigId : keyring'[c] # None => keyring'[c].config_id = c
    BY <2>2, <2>3
  <2>7. ASSUME NEW p \in Keypair, keyring[p.config_id] = p
        PROVE  keyring'[p.config_id] = p
    BY <2>4, <2>7, NoneAssumption DEF Keypair
  <2>8. \A i \in SessionId : sessions[i] # None =>
            sessions[i].hpke_config_and_key \in Keypair
    BY DEF Session
  <2>9. \A g \in Handler : handler[g].pc = "insert" => handler[g].keypair \in Keypair
    BY DEF HandlersWellFormed
  <2>10. QED
    BY <2>2, <2>3, <2>5, <2>6, <2>7, <2>8, <2>9
<1>4. ASSUME NEW h \in Handler, CreateInsert(h) PROVE KeyringCovers'
  BY <1>4 DEF CreateInsert, Answer
<1>5. ASSUME NEW h \in Handler, StartLookup(h) PROVE KeyringCovers'
  BY <1>5 DEF StartLookup, Serves, Fail, Answer, Goto, Idle
<1>6. ASSUME NEW h \in Handler, Provision(h) PROVE KeyringCovers'
  BY <1>6 DEF Provision, PutTask, Fail, Answer, Goto
<1>7. ASSUME NEW h \in Handler, ProvisionError(h) PROVE KeyringCovers'
  BY <1>7 DEF ProvisionError, PutTask, Fail, Answer
<1>8. ASSUME NEW h \in Handler, StartPush(h) PROVE KeyringCovers'
  BY <1>8, WithTaskType, RoundSessionType DEF StartPush, Answer, StartedSession
<1>9. ASSUME NEW h \in Handler, EndSession(h) PROVE KeyringCovers'
  BY <1>9 DEF EndSession, Serves, Fail, Answer
<1>10. ASSUME NEW h \in Handler, GetVdafParameter(h) PROVE KeyringCovers'
  BY <1>10 DEF GetVdafParameter, Serves, Fail, Answer
<1>11. ASSUME NEW h \in Handler, Deliver(h) PROVE KeyringCovers'
  BY <1>11 DEF Deliver, Idle
<1>12. ASSUME NEW h \in Handler, Disconnect(h) PROVE KeyringCovers'
  BY <1>12 DEF Disconnect, Release, Idle
<1>13. CASE Restart
  BY <1>13 DEF Restart, Idle
<1>14. CASE UNCHANGED vars
  BY <1>14 DEF vars
<1>15. QED
  BY <1>1, <1>2, <1>3, <1>4, <1>5, <1>6, <1>7, <1>8, <1>9, <1>10, <1>11, <1>12, <1>13, <1>14 DEF Next, Step, Datastore

-----------------------------------------------------------------------------

\* The inductive invariant holds when the server starts.
LEMMA InitIInv == Init => IInv
BY IdleType DEF Init, IInv, TypeOK, HandlersWellFormed, LockHeldByRound,
                RoundInProgress, ListedTasksProvisioned, RepliesSound,
                KeysDistinct, PendingCreate, KeyringCovers, At, Idle

\* Every step keeps it.
LEMMA NextIInv == IInv /\ [Next]_vars => IInv'
BY TypesStep, LockStep, RoundStep, ListedStep, RepliesStep, KeysStep,
   KeyringStep DEF IInv

\* The inductive invariant holds in every behaviour.
THEOREM Invariance == Spec => []IInv
<1>1. QED
  BY InitIInv, NextIInv, PTL DEF Spec

\* Every variable holds what the types of the code allow.
THEOREM TypeCorrect == Spec => []TypeOK
<1>1. IInv => TypeOK
  BY DEF IInv
<1>2. QED
  BY <1>1, Invariance, PTL

\* A live session lists only tasks that handle_start_round has provisioned
\* for it, however many handlers run and whichever are dropped.
THEOREM ListedTasksAreProvisioned == Spec => []ListedTasksProvisioned
<1>1. IInv => ListedTasksProvisioned
  BY DEF IInv
<1>2. QED
  BY <1>1, Invariance, PTL

\* handle_get_vdaf_parameter never finds a task in several sessions: two
\* sessions with the task would have the verify key that the task has, and
\* no two sessions have the same verify key.
THEOREM TaskHasOneSession == Spec => []TaskListedOnce
<1>1. ASSUME IInv PROVE TaskListedOnce
  <2> SUFFICES ASSUME NEW t \in TaskId,
                      NEW i \in SessionsWithTask(t),
                      NEW j \in SessionsWithTask(t)
               PROVE  i = j
    BY DEF TaskListedOnce
  <2>1. /\ i \in SessionId /\ sessions[i] # None /\ t \in sessions[i].tasks
        /\ j \in SessionId /\ sessions[j] # None /\ t \in sessions[j].tasks
    BY DEF SessionsWithTask
  <2>2. /\ store[t].verify_key = sessions[i].verify_key
        /\ store[t].verify_key = sessions[j].verify_key
    BY <1>1, <2>1 DEF IInv, ListedTasksProvisioned, SameTask, NewTask
  <2>3. QED
    BY <1>1, <2>1, <2>2 DEF IInv, KeysDistinct
<1>2. QED
  BY <1>1, Invariance, PTL

\* What handle_start_round and handle_get_vdaf_parameter answer is true of
\* the datastore and stays true.
THEOREM RepliesAreSound == Spec => []RepliesSound
<1>1. IInv => RepliesSound
  BY DEF IInv
<1>2. QED
  BY <1>1, Invariance, PTL

\* Sessions with the same HPKE config id share one keypair.
THEOREM KeypairPerConfigId == Spec => []OneKeypairPerConfigId
<1>1. IInv => OneKeypairPerConfigId
  BY DEF IInv, KeyringCovers, OneKeypairPerConfigId
<1>2. QED
  BY <1>1, Invariance, PTL

\* No step changes or removes a provisioned task.
THEOREM TasksAreWriteOnce == Spec => TasksWriteOnce
<1>1. ASSUME IInv, [Next]_vars
      PROVE  [\A t \in TaskId : store[t] # None => store'[t] = store[t]]_vars
  BY <1>1, TasksKept DEF IInv
<1>2. QED
  BY <1>1, Invariance, PTL DEF Spec, TasksWriteOnce

\* The session of a round in progress is the same session at every await
\* point of the round: the handler that waits holds the sessions mutex.
THEOREM RoundsAreIsolated == Spec => RoundIsolated
<1> DEFINE Kept(h) ==
             LET id == handler[h].req.training_session_id IN
             /\ sessions[id] # None
             /\ sessions'[id] # None
             /\ sessions'[id].verify_key = sessions[id].verify_key
             /\ sessions[id].tasks \subseteq sessions'[id].tasks
<1>1. ASSUME IInv, [Next]_vars, NEW h \in Handler,
             handler[h].pc \in {"provision", "committed"},
             handler'[h].pc \in {"provision", "committed", "replied"}
      PROVE  Kept(h)
  <2> USE DEF IInv
  <2>1. /\ handler[h].req.training_session_id \in SessionId
        /\ handler[h].req.task_id \in TaskId
        /\ StartedSession(h) \in Session
        /\ StartedSession(h) # None
        /\ lock = h
    BY <1>1, RoundSessionType DEF LockHeldByRound, RoundInProgress
  <2>2. CASE UNCHANGED sessions
    BY <2>1, <2>2 DEF StartedSession
  <2>3. CASE StartPush(h)
    BY <2>1, <2>3, WithTaskType DEF StartPush, StartedSession, TypeOK
  <2>4. ASSUME NEW g \in Handler, CreateInsert(g) \/ EndSession(g) PROVE FALSE
    BY <2>1, <2>4, NoneAssumption DEF CreateInsert, EndSession
  <2>5. ASSUME NEW g \in Handler, StartPush(g) PROVE g = h
    BY <1>1, <2>1, <2>5 DEF StartPush, At, LockHeldByRound
  <2>6. ~Restart
    BY <1>1 DEF Restart, Idle, TypeOK
  <2>7. QED
    BY <1>1, <2>2, <2>3, <2>4, <2>5, <2>6
       DEF Next, Step, Datastore, Arrive, Receive, CreateCheck, CreateKeypair,
           StartLookup, Provision, ProvisionError, GetVdafParameter, Deliver,
           Disconnect, vars
<1>2. ASSUME IInv, [Next]_vars
      PROVE  [\A h \in Handler :
                /\ handler[h].pc \in {"provision", "committed"}
                /\ handler'[h].pc \in {"provision", "committed", "replied"}
                => LET id == handler[h].req.training_session_id IN
                   /\ sessions[id] # None
                   /\ sessions'[id] # None
                   /\ sessions'[id].verify_key = sessions[id].verify_key
                   /\ sessions[id].tasks \subseteq sessions'[id].tasks]_vars
  BY <1>1, <1>2
<1>3. QED
  BY <1>2, Invariance, PTL DEF Spec, RoundIsolated

=============================================================================
