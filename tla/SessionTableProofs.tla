------------------------- MODULE SessionTableProofs -------------------------
(***************************************************************************)
(* TaskProvisioner implements SessionTable, for all values of its          *)
(* constants.                                                              *)
(***************************************************************************)
EXTENDS TaskProvisionerProofs

LEMMA TermsType ==
    ASSUME NEW task \in Task
    PROVE  TermsOf(task) \in Terms
BY DEF TermsOf, Terms, Task

LEMMA OpenOfType ==
    ASSUME NEW s \in Session
    PROVE  /\ OpenOf(s) \in Table!OpenSession
           /\ OpenOf(s) # None
           /\ OpenOf(s).terms = TermsOf(NewTask(s))
           /\ OpenOf(s).terms \in Terms
           /\ OpenOf(s).terms.verify_key = s.verify_key
           /\ OpenOf(s).rounds = s.tasks
<1>1. TermsOf(NewTask(s)) \in Terms
  BY NewTaskType, TermsType
<1>2. s.tasks \in SUBSET TaskId
  BY DEF Session
<1>3. OpenOf(s) \in Table!OpenSession
  BY <1>1, <1>2 DEF OpenOf, Table!OpenSession
<1>4. QED
  BY <1>1, <1>3, TableAssumption DEF OpenOf, TermsOf, NewTask

\* A session is open in the table when it is in the map.
LEMMA OpenInTable ==
    ASSUME TypeOK, NEW id \in SessionId
    PROVE  /\ (sessions[id] # None) <=> (TableOpen[id] # None)
           /\ sessions[id] # None => TableOpen[id] = OpenOf(sessions[id])
BY OpenOfType DEF TypeOK, TableOpen

LEMMA TaskInTable ==
    ASSUME TypeOK, NEW t \in TaskId
    PROVE  /\ (store[t] # None) <=> (TableTasks[t] # None)
           /\ store[t] # None => TableTasks[t] = TermsOf(store[t])
BY TermsType, TableAssumption DEF TypeOK, TableTasks

LEMMA InitTable == Init => Table!Init
BY DEF Init, Table!Init, TableOpen, TableTasks

\* The sessions and the datastore are all that the table sees.
LEMMA TableStutters ==
    ASSUME UNCHANGED <<sessions, store>>
    PROVE  UNCHANGED <<TableOpen, TableTasks>>
BY DEF TableOpen, TableTasks

\* The insert opens a session: no session and no task has its key yet.
LEMMA InsertOpens ==
    ASSUME IInv, NEW h \in Handler, CreateInsert(h)
    PROVE  Table!Next
<1> DEFINE id == handler[h].id
           req == handler[h].req
           s == [role |-> req.role, collector |-> req.collector,
                 verify_key |-> req.verify_key,
                 hpke_config_and_key |-> handler[h].keypair,
                 vdaf_parameter |-> req.vdaf_parameter,
                 tasks |-> {}]
<1>1. /\ id \in SessionId
      /\ req \in CreateRequest
      /\ handler[h].keypair \in Keypair
  BY DEF IInv, HandlersWellFormed, CreateInsert, At
<1>2. s \in Session /\ s.tasks = {} /\ s.verify_key = req.verify_key
  BY <1>1 DEF Session, CreateRequest
<1>3. /\ sessions' = [sessions EXCEPT ![id] = s]
      /\ UNCHANGED store
  BY DEF CreateInsert
<1>4. PendingCreate(h)
  BY <1>1 DEF CreateInsert, PendingCreate, CreateRequest, At
<1>5. /\ \A i \in SessionId : sessions[i] # None => sessions[i].verify_key # req.verify_key
      /\ \A t \in TaskId : store[t] # None => store[t].verify_key # req.verify_key
  BY <1>4 DEF IInv, KeysDistinct
<1> HIDE DEF id, req, s
<1> DEFINE terms == OpenOf(s).terms
<1>6. /\ terms \in Terms /\ terms.verify_key = req.verify_key
      /\ OpenOf(s) = [terms |-> terms, rounds |-> {}]
      /\ OpenOf(s) # None
  BY <1>2, OpenOfType DEF OpenOf
<1>7. \A i \in SessionId : TableOpen[i] # None => TableOpen[i].terms # terms
  <2> SUFFICES ASSUME NEW i \in SessionId, sessions[i] # None
               PROVE  OpenOf(sessions[i]).terms.verify_key # terms.verify_key
    BY OpenInTable DEF IInv
  <2>1. sessions[i] \in Session
    BY DEF IInv, TypeOK
  <2>2. QED
    BY <1>5, <1>6, <2>1, OpenOfType
<1>8. \A t \in TaskId : TableTasks[t] # terms
  <2> SUFFICES ASSUME NEW t \in TaskId, TableTasks[t] = terms PROVE FALSE
    OBVIOUS
  <2>1. TableTasks[t] # None
    BY <1>6, TableAssumption
  <2>2. store[t] # None /\ TableTasks[t] = TermsOf(store[t])
    BY <2>1, TaskInTable DEF IInv
  <2>3. QED
    BY <1>5, <1>6, <2>2 DEF TermsOf
<1> HIDE DEF terms
<1>9. TableOpen' = [TableOpen EXCEPT ![id] = [terms |-> terms, rounds |-> {}]]
  <2>1. s # None
    BY <1>2, NoneAssumption
  <2>2. QED
    BY <1>1, <1>3, <1>6, <2>1 DEF TableOpen, IInv, TypeOK, id
<1>10. TableTasks' = TableTasks
  BY <1>3 DEF TableTasks
<1>11. Table!Open(id, terms)
  BY <1>7, <1>8, <1>9, <1>10 DEF Table!Open, Table!IsOpen
<1>12. QED
  BY <1>1, <1>6, <1>11 DEF Table!Next, id

\* The transaction provisions the task on the terms of its session.
LEMMA DatastoreProvisions ==
    ASSUME IInv, NEW h \in Handler, Datastore(h)
    PROVE  Table!Next \/ UNCHANGED <<TableOpen, TableTasks>>
<1> DEFINE id == handler[h].req.training_session_id
           task == NewTask(StartedSession(h))
<1>1. /\ At(h, "provision")
      /\ UNCHANGED sessions
  BY DatastoreKeeps DEF IInv
<1>2. /\ id \in SessionId
      /\ sessions[id] \in Session /\ sessions[id] # None
      /\ task = NewTask(sessions[id])
      /\ task \in Task
  BY <1>1, RoundSessionType, NewTaskType, NoneAssumption
     DEF IInv, At, StartedSession
<1> HIDE DEF id
<1>3. TableOpen' = TableOpen
  BY <1>1 DEF TableOpen
<1>4. CASE UNCHANGED store
  BY <1>1, <1>4, TableStutters
<1>5. CASE store' # store
  <2>1. PICK t \in TaskId : store'[t] # store[t]
    <3>1. store' \in [TaskId -> Task \cup {None}] /\ store \in [TaskId -> Task \cup {None}]
      BY <1>2 DEF Datastore, Provision, ProvisionError, PutTask, IInv, TypeOK
    <3>2. QED
      BY <1>5, <3>1
  <2>2. store[t] = None /\ store' = [store EXCEPT ![t] = task]
    BY <2>1, DatastoreAdds DEF IInv
  <2> HIDE DEF task
  <2>3. TableTasks[t] = None
    BY <2>2 DEF TableTasks
  <2>4. TableOpen[id] # None /\ TableOpen[id].terms = TermsOf(task)
    BY <1>2, OpenInTable, OpenOfType DEF IInv
  <2>5. TableTasks' = [TableTasks EXCEPT ![t] = TableOpen[id].terms]
    BY <1>2, <2>2, <2>4, NoneAssumption DEF TableTasks, IInv, TypeOK
  <2>6. Table!Provision(id, t)
    BY <1>3, <2>3, <2>4, <2>5 DEF Table!Provision, Table!IsOpen
  <2>7. QED
    BY <1>2, <2>6 DEF Table!Next
<1>6. QED
  BY <1>4, <1>5

\* The push lists the round on the terms that its task has.
LEMMA PushLists ==
    ASSUME IInv, NEW h \in Handler, StartPush(h)
    PROVE  Table!Next
<1> DEFINE id == handler[h].req.training_session_id
           t == handler[h].req.task_id
           s == sessions[id]
<1>1. At(h, "committed")
  BY DEF StartPush
<1>2. /\ id \in SessionId /\ t \in TaskId
      /\ s \in Session /\ s # None
      /\ store[t] # None /\ SameTask(store[t], NewTask(s))
  BY <1>1, RoundSessionType, NoneAssumption
     DEF IInv, At, StartedSession, RoundInProgress
<1>3. /\ sessions' = [sessions EXCEPT ![id] = WithTask(s, t)]
      /\ UNCHANGED store
  BY DEF StartPush
<1>4. /\ WithTask(s, t) \in Session
      /\ WithTask(s, t) # None
      /\ OpenOf(WithTask(s, t)) = [terms |-> OpenOf(s).terms,
                                   rounds |-> OpenOf(s).rounds \cup {t}]
  <2>1. WithTask(s, t) \in Session
    BY <1>2, WithTaskType
  <2>2. WithTask(s, t) = [s EXCEPT !.tasks = s.tasks \cup {t}]
    BY DEF WithTask
  <2>3. /\ WithTask(s, t).tasks = s.tasks \cup {t}
        /\ NewTask(WithTask(s, t)) = NewTask(s)
    BY <1>2, <2>2 DEF Session, NewTask
  <2>4. QED
    BY <1>2, <2>1, <2>3, NoneAssumption DEF OpenOf
<1> HIDE DEF id, t
<1>5. TableOpen[id] = OpenOf(s) /\ TableOpen[id] # None
  BY <1>2, OpenInTable DEF IInv
<1>6. TableTasks[t] = TableOpen[id].terms
  <2>1. TableTasks[t] = TermsOf(store[t])
    BY <1>2, TaskInTable DEF IInv
  <2>2. TermsOf(store[t]) = TermsOf(NewTask(s))
    BY <1>2 DEF SameTask, TermsOf
  <2>3. QED
    BY <1>2, <1>5, <2>1, <2>2, OpenOfType
<1>7. TableOpen' = [TableOpen EXCEPT ![id] =
                      [terms  |-> TableOpen[id].terms,
                       rounds |-> TableOpen[id].rounds \cup {t}]]
  BY <1>2, <1>3, <1>4, <1>5 DEF TableOpen, IInv, TypeOK
<1>8. TableTasks' = TableTasks
  BY <1>3 DEF TableTasks
<1>9. Table!List(id, t)
  BY <1>5, <1>6, <1>7, <1>8 DEF Table!List, Table!IsOpen
<1>10. QED
  BY <1>2, <1>9 DEF Table!Next

LEMMA EndCloses ==
    ASSUME IInv, NEW h \in Handler, EndSession(h)
    PROVE  Table!Next
<1> DEFINE id == handler[h].req.training_session_id
<1>1. id \in SessionId
  BY DEF IInv, HandlersWellFormed, EndSession, Serves, At, Request,
         CreateRequest, StartRequest, EndRequest, GetRequest
<1>2. /\ sessions' = [sessions EXCEPT ![id] = None]
      /\ UNCHANGED store
  BY DEF EndSession
<1> HIDE DEF id
<1>3. TableOpen' = [TableOpen EXCEPT ![id] = None]
  BY <1>1, <1>2 DEF TableOpen, IInv, TypeOK
<1>4. TableTasks' = TableTasks
  BY <1>2 DEF TableTasks
<1>5. QED
  BY <1>1, <1>3, <1>4 DEF Table!Close, Table!Next

LEMMA RestartLoses == Restart => Table!Next
<1> SUFFICES ASSUME Restart PROVE Table!LoseAll
  BY DEF Table!Next
<1>1. TableOpen' = [id \in SessionId |-> None]
  BY DEF Restart, TableOpen
<1>2. TableTasks' = TableTasks
  BY DEF Restart, TableTasks
<1>3. QED
  BY <1>1, <1>2 DEF Table!LoseAll

\* Every step of a manager is a step of the table or none.
LEMMA NextTable == IInv /\ [Next]_vars => [Table!Next]_(Table!vars)
<1> SUFFICES ASSUME IInv, [Next]_vars
             PROVE  Table!Next \/ UNCHANGED <<TableOpen, TableTasks>>
  BY DEF Table!vars
<1>1. ASSUME NEW h \in Handler,
             \/ Arrive(h) \/ CreateCheck(h) \/ CreateKeypair(h)
             \/ StartLookup(h) \/ GetVdafParameter(h)
             \/ Deliver(h) \/ Disconnect(h)
      PROVE  UNCHANGED <<sessions, store>>
  BY <1>1 DEF Arrive, Receive, CreateCheck, CreateKeypair, StartLookup,
              GetVdafParameter, Deliver, Disconnect
<1>2. CASE UNCHANGED vars
  BY <1>2, TableStutters DEF vars
<1>3. QED
  BY <1>1, <1>2, TableStutters, InsertOpens, DatastoreProvisions, PushLists,
     EndCloses, RestartLoses DEF Next, Step

\* A manager implements the table of sessions and tasks, however its handlers
\* interleave, fail and are dropped.
THEOREM ManagerImplementsTable == Spec => ImplementsSessionTable
<1>1. QED
  BY InitTable, NextTable, Invariance, PTL
     DEF Spec, Table!Spec, ImplementsSessionTable

=============================================================================
