---------------------------- MODULE CallerProofs ----------------------------
(***************************************************************************)
(* Proofs about TaskProvisioner as its callers see it: what a step of a    *)
(* handler may do to the sessions, to the tasks and to what the handler    *)
(* answers.  Federation is proved from these.                              *)
(***************************************************************************)
EXTENDS TaskProvisionerProofs

\* Handler h draws id at random.
Draws(h, id) ==
    /\ handler[h].pc = "received"
    /\ handler[h].req.op = "create_session"
    /\ handler[h].req.training_session_id = None
    /\ handler'[h].pc = "keyring"
    /\ handler'[h].id = id

-----------------------------------------------------------------------------

\* A step of a handler is about its own request only.  The one that ends the
\* handler without an answer is the panic in handle_start_round.
LEMMA StepIsOwn ==
    ASSUME IInv, NEW h \in Handler, Step(h)
    PROVE  /\ handler[h].pc \notin {"idle", "replied"}
           /\ \A g \in Handler : g # h => handler'[g] = handler[g]
           /\ \/ /\ handler'[h].pc # "idle"
                 /\ handler'[h].req = handler[h].req
              \/ /\ handler'[h].pc = "idle"
                 /\ handler[h].req \in StartRequest
                 /\ StartedSession(h) # None
                 /\ StartedSession(h).role \notin {"Leader", "Helper"}
<1> USE DEF IInv, TypeOK, At, Set
<1>1. CASE CreateCheck(h)
  BY <1>1 DEF CreateCheck, Serves, Goto, Fail, Answer
<1>2. CASE CreateKeypair(h)
  BY <1>2 DEF CreateKeypair, Goto
<1>3. CASE CreateInsert(h)
  BY <1>3 DEF CreateInsert, Answer
<1>4. CASE StartLookup(h)
  BY <1>4, RequestKinds DEF StartLookup, Serves, Goto, Fail, Answer, Idle, HandlersWellFormed
<1>5. CASE Datastore(h)
  BY <1>5 DEF Datastore, Provision, ProvisionError, Goto, Fail, Answer
<1>6. CASE StartPush(h)
  BY <1>6 DEF StartPush, Answer
<1>7. CASE EndSession(h)
  BY <1>7 DEF EndSession, Serves, Fail, Answer
<1>8. CASE GetVdafParameter(h)
  BY <1>8 DEF GetVdafParameter, Serves, Fail, Answer
<1>9. QED
  BY <1>1, <1>2, <1>3, <1>4, <1>5, <1>6, <1>7, <1>8 DEF Step

\* How a step changes a session: it ends, it lists a round more, or it is made
\* from a create request that has chosen its id.
LEMMA SessionChange ==
    ASSUME IInv, NEW h \in Handler, Step(h),
           NEW id \in SessionId, sessions'[id] # sessions[id]
    PROVE  \/ /\ handler[h].req.op = "end_session"
              /\ handler[h].req.training_session_id = id
              /\ sessions'[id] = None
           \/ /\ sessions[id] # None
              /\ sessions'[id] # None
              /\ NewTask(sessions'[id]) = NewTask(sessions[id])
              /\ sessions'[id].vdaf_parameter = sessions[id].vdaf_parameter
           \/ /\ handler[h].pc = "insert"
              /\ handler[h].id = id
              /\ handler[h].req \in CreateRequest
              /\ sessions'[id] \in Session
              /\ sessions'[id].role = handler[h].req.role
              /\ sessions'[id].collector = handler[h].req.collector
              /\ sessions'[id].verify_key = handler[h].req.verify_key
              /\ sessions'[id].vdaf_parameter = handler[h].req.vdaf_parameter
<1> USE DEF IInv, TypeOK, At
<1>1. CASE CreateInsert(h)
  <2>1. handler[h].req \in CreateRequest /\ handler[h].id = id
    BY <1>1 DEF CreateInsert, HandlersWellFormed
  <2>2. sessions'[id] = [role |-> handler[h].req.role, collector |-> handler[h].req.collector,
                       verify_key |-> handler[h].req.verify_key,
                       hpke_config_and_key |-> handler[h].keypair,
                       vdaf_parameter |-> handler[h].req.vdaf_parameter,
                       tasks |-> {}]
    BY <1>1, <2>1 DEF CreateInsert
  <2>3. handler[h].pc = "insert" /\ handler[h].keypair \in Keypair
    BY <1>1 DEF CreateInsert, HandlersWellFormed
  <2>4. sessions'[id] \in Session
    BY <2>1, <2>2, <2>3 DEF Session, CreateRequest
  <2>5. QED
    BY <2>1, <2>2, <2>3, <2>4
<1>2. CASE StartPush(h)
  <2>1. /\ handler[h].req.training_session_id = id
        /\ handler[h].req.task_id \in TaskId
        /\ sessions[id] \in Session
    BY <1>2, RoundSessionType DEF StartPush, StartedSession
  <2>2. sessions'[id] = WithTask(sessions[id], handler[h].req.task_id)
    BY <1>2, <2>1 DEF StartPush
  <2>3. sessions'[id].vdaf_parameter = sessions[id].vdaf_parameter
    BY <2>1, <2>2 DEF WithTask, Session
  <2>4. QED
    BY <2>1, <2>2, <2>3, WithTaskType, NoneAssumption
<1>3. CASE EndSession(h)
  BY <1>3 DEF EndSession, Serves
<1>4. CASE \/ CreateCheck(h) \/ CreateKeypair(h) \/ StartLookup(h)
           \/ Datastore(h) \/ GetVdafParameter(h)
  BY <1>4 DEF CreateCheck, CreateKeypair, StartLookup, Datastore, Provision,
              ProvisionError, GetVdafParameter
<1>5. QED
  BY <1>1, <1>2, <1>3, <1>4 DEF Step

\* A new task is the one of the session that its start_round names.
LEMMA TaskChange ==
    ASSUME IInv, NEW h \in Handler, Step(h), NEW t \in TaskId, store'[t] # store[t]
    PROVE  LET id == handler[h].req.training_session_id IN
           /\ handler[h].req \in StartRequest
           /\ handler[h].req.task_id = t
           /\ store[t] = None
           /\ sessions[id] \in Session
           /\ store'[t] = NewTask(sessions[id])
           /\ \A u \in TaskId : u # t => store'[u] = store[u]
           /\ UNCHANGED sessions
<1> USE DEF IInv
<1>1. Datastore(h)
  BY DEF Step, CreateCheck, CreateKeypair, CreateInsert, StartLookup, StartPush,
         EndSession, GetVdafParameter
<1>2. /\ handler[h].pc = "provision"
      /\ UNCHANGED sessions
  BY <1>1, DatastoreKeeps DEF At
<1>3. /\ store[t] = None
      /\ store'[t] = NewTask(StartedSession(h))
      /\ store' = [store EXCEPT ![t] = NewTask(StartedSession(h))]
  BY <1>1, DatastoreAdds
<1>4. /\ handler[h].req \in StartRequest
      /\ StartedSession(h) \in Session
      /\ handler[h].req.task_id \in TaskId
  BY <1>2, RoundSessionType
<1>5. \A u \in TaskId : u # t => store'[u] = store[u]
  BY <1>3 DEF TypeOK
<1>6. handler[h].req.task_id = t
  <2>1. UNCHANGED store \/ PutTask(handler[h].req.task_id, NewTask(StartedSession(h)))
    BY <1>1 DEF Datastore, Provision, ProvisionError
  <2>2. QED
    BY <1>4, <2>1 DEF PutTask, TypeOK
<1>7. QED
  BY <1>2, <1>3, <1>4, <1>5, <1>6 DEF StartedSession

-----------------------------------------------------------------------------

\* Every step keeps what handlers answer in line with what they were asked.
LEMMA AnswersStep ==
    ASSUME IInv, AnswersFit, [Next]_vars
    PROVE  AnswersFit'
<1> USE DEF IInv, TypeOK, At, Set, AnswerFits
<1> SUFFICES ASSUME NEW h \in Handler PROVE AnswerFits(h)'
  BY DEF AnswersFit
<1>1. AnswerFits(h)
  BY DEF AnswersFit
<1>2. CASE handler'[h] = handler[h]
  BY <1>1, <1>2
<1>3. CASE Arrive(h)
  BY <1>3 DEF Arrive, Receive
<1>4. CASE CreateCheck(h)
  <2>1. handler[h].pc = "received" /\ handler[h].req.op = "create_session"
    BY <1>4 DEF CreateCheck, Serves
  <2>2. CASE Fail(h)
    BY <1>1, <2>1, <2>2 DEF Fail, Answer, Reply
  <2>3. ASSUME NEW id \in SessionId, ChosenId(handler[h].req, id),
               Goto(h, "keyring", id, None)
        PROVE  AnswerFits(h)'
    BY <1>1, <2>1, <2>3 DEF Goto, ChosenId
  <2>4. QED
    BY <1>4, <2>2, <2>3 DEF CreateCheck
<1>5. CASE CreateKeypair(h)
  BY <1>1, <1>5 DEF CreateKeypair, Goto
<1>6. CASE CreateInsert(h)
  BY <1>1, <1>6, NoneAssumption DEF CreateInsert, Answer, Reply, HandlersWellFormed, CreateRequest
<1>7. CASE StartLookup(h)
  BY <1>1, <1>7 DEF StartLookup, Serves, Goto, Fail, Answer, Idle, Reply
<1>8. CASE Datastore(h)
  BY <1>1, <1>8 DEF Datastore, Provision, ProvisionError, Goto, Fail, Answer, Reply
<1>9. CASE StartPush(h)
  BY <1>1, <1>9 DEF StartPush, Answer, Reply, HandlersWellFormed, StartRequest
<1>10. CASE EndSession(h)
  BY <1>1, <1>10 DEF EndSession, Serves, Fail, Answer, Reply
<1>11. CASE GetVdafParameter(h)
  <2>1. handler[h].pc = "received" /\ handler[h].req.op = "get_vdaf_parameter"
    BY <1>11 DEF GetVdafParameter, Serves
  <2>2. CASE Fail(h)
    BY <1>1, <2>1, <2>2 DEF Fail, Answer, Reply
  <2>3. ASSUME NEW id \in SessionId,
               SessionsWithTask(handler[h].req.task_id) = {id},
               Answer(h, "OK", sessions[id].vdaf_parameter)
        PROVE  AnswerFits(h)'
    <3>1. sessions[id].vdaf_parameter \in VdafParameter
      BY <2>3 DEF SessionsWithTask, Session
    <3>2. QED
      BY <1>1, <2>1, <2>3, <3>1 DEF Answer, Reply
  <2>4. QED
    BY <1>11, <2>2, <2>3 DEF GetVdafParameter
<1>12. CASE Deliver(h) \/ Disconnect(h)
  BY <1>12 DEF Deliver, Disconnect, Idle
<1>13. CASE Restart
  BY <1>13 DEF Restart, Idle
<1>14. QED
  BY <1>2, <1>3, <1>4, <1>5, <1>6, <1>7, <1>8, <1>9, <1>10, <1>11, <1>12,
     <1>13, OwnSteps DEF Step

\* Only a step of a handler changes the tasks, and but for a restart, only
\* that changes the sessions.
LEMMA OnlyStepsChange ==
    ASSUME [Next]_vars
    PROVE  \/ UNCHANGED <<sessions, store>>
           \/ \E h \in Handler : Step(h)
           \/ Restart
BY DEF Next, Arrive, Receive, Deliver, Disconnect, vars

LEMMA SessionTerms ==
    ASSUME NEW s \in Session
    PROVE  TermsOf(NewTask(s)) =
              [vdaf |-> ToVdafInstance(s.vdaf_parameter),
               verify_key |-> s.verify_key, role |-> s.role,
               collector |-> s.collector]
BY DEF TermsOf, NewTask

\* Every step keeps sessions and tasks on terms that were asked for.
LEMMA TermsFromStep ==
    ASSUME IInv, AnswersFit, TermsFromRequests, [Next]_vars
    PROVE  TermsFromRequests'
<1> USE DEF TermsFromRequests
<1>1. CASE UNCHANGED <<sessions, store>>
  BY <1>1 DEF NewTask, TermsOf
<1>2. ASSUME NEW h \in Handler, Step(h) PROVE TermsFromRequests'
  <2>1. ASSUME NEW id \in SessionId, sessions'[id] # None
        PROVE  TermsOf(NewTask(sessions'[id])) \in TermsAsked
    <3>1. CASE handler[h].pc = "insert" /\ sessions'[id] # sessions[id]
               /\ handler[h].id = id
               /\ handler[h].req \in CreateRequest
               /\ sessions'[id] \in Session
               /\ sessions'[id].role = handler[h].req.role
               /\ sessions'[id].collector = handler[h].req.collector
               /\ sessions'[id].verify_key = handler[h].req.verify_key
               /\ sessions'[id].vdaf_parameter = handler[h].req.vdaf_parameter
      <4>1. handler[h].req \in Requests /\ handler[h].req.op = "create_session"
        BY <3>1 DEF AnswersFit, AnswerFits, At, CreateRequest
      <4>2. QED
        BY <3>1, <4>1, SessionTerms DEF TermsAsked
    <3>2. QED
      BY <1>2, <2>1, <3>1, SessionChange
  <2>2. ASSUME NEW t \in TaskId, store'[t] # None
        PROVE  TermsOf(store'[t]) \in TermsAsked
    <3>1. CASE store'[t] # store[t]
      <4>1. /\ handler[h].req.training_session_id \in SessionId
            /\ sessions[handler[h].req.training_session_id] \in Session
            /\ store'[t] = NewTask(sessions[handler[h].req.training_session_id])
        BY <1>2, <3>1, TaskChange DEF StartRequest
      <4>2. QED
        BY <4>1, NoneAssumption
    <3>2. QED
      BY <2>2, <3>1
  <2>3. QED
    BY <2>1, <2>2
<1>3. CASE Restart
  BY <1>3 DEF Restart
<1>4. QED
  BY <1>1, <1>2, <1>3, OnlyStepsChange

\* Every step keeps one set of terms for each verify key.
LEMMA TermsOfKeyStep ==
    ASSUME IInv, TermsOfKey, [Next]_vars
    PROVE  TermsOfKey'
<1> DEFINE TasksMatch(t, u) ==
             /\ store[t] # None
             /\ store[u] # None
             /\ store[t].verify_key = store[u].verify_key
             => TermsOf(store[t]) = TermsOf(store[u])
           SessionMatches(id, t) ==
             /\ sessions[id] # None
             /\ store[t] # None
             /\ sessions[id].verify_key = store[t].verify_key
             => TermsOf(NewTask(sessions[id])) = TermsOf(store[t])
<1>1. /\ \A t, u \in TaskId : TasksMatch(t, u)
      /\ \A id \in SessionId, t \in TaskId : SessionMatches(id, t)
  BY DEF TermsOfKey
<1>2. CASE UNCHANGED <<sessions, store>>
  BY <1>2 DEF TermsOfKey, NewTask, TermsOf
<1>3. ASSUME NEW h \in Handler, Step(h), UNCHANGED store
      PROVE  TermsOfKey'
  <2>1. ASSUME NEW id \in SessionId, NEW t \in TaskId PROVE SessionMatches(id, t)'
    <3>1. CASE sessions'[id] = sessions[id]
      BY <1>1, <1>3, <3>1 DEF NewTask, TermsOf
    <3>2. CASE sessions'[id] = None
      BY <3>2
    <3>3. CASE sessions[id] # None /\ NewTask(sessions'[id]) = NewTask(sessions[id])
      <4>1. sessions'[id].verify_key = sessions[id].verify_key
        BY <3>3 DEF NewTask
      <4>2. QED
        BY <1>1, <1>3, <3>3, <4>1
    <3>4. CASE /\ handler[h].pc = "insert"
               /\ handler[h].req \in CreateRequest
               /\ sessions'[id].verify_key = handler[h].req.verify_key
      BY <1>3, <3>4 DEF IInv, KeysDistinct, PendingCreate, CreateRequest
    <3>5. QED
      BY <1>3, <3>1, <3>2, <3>3, <3>4, SessionChange
  <2>2. QED
    BY <1>1, <1>3, <2>1 DEF TermsOfKey
<1>4. ASSUME NEW h \in Handler, Step(h), NEW v \in TaskId, store'[v] # store[v]
      PROVE  TermsOfKey'
  <2> DEFINE i == handler[h].req.training_session_id
  <2>1. /\ i \in SessionId
        /\ sessions[i] \in Session /\ sessions[i] # None
        /\ UNCHANGED sessions
        /\ store'[v] = NewTask(sessions[i])
        /\ \A u \in TaskId : u # v => store'[u] = store[u]
    BY <1>4, TaskChange, NoneAssumption DEF StartRequest
  <2> HIDE DEF i
  <2>2. store'[v].verify_key = sessions[i].verify_key
    BY <2>1 DEF NewTask
  <2>3. ASSUME NEW u \in TaskId, u # v, store[u] # None,
               sessions[i].verify_key = store[u].verify_key
        PROVE  TermsOf(store'[v]) = TermsOf(store[u])
    BY <1>1, <2>1, <2>3
  <2>4. ASSUME NEW j \in SessionId, sessions[j] # None,
               sessions[j].verify_key = sessions[i].verify_key
        PROVE  j = i
    BY <2>1, <2>4 DEF IInv, KeysDistinct
  <2>5. \A t, u \in TaskId : TasksMatch(t, u)'
    BY <1>1, <2>1, <2>2, <2>3
  <2>6. \A id \in SessionId, t \in TaskId : SessionMatches(id, t)'
    BY <1>1, <2>1, <2>2, <2>4
  <2>7. QED
    BY <2>5, <2>6 DEF TermsOfKey
<1>5. CASE Restart
  BY <1>1, <1>5 DEF Restart, TermsOfKey
<1>6. ASSUME NEW h \in Handler, Step(h), \A v \in TaskId : store'[v] = store[v]
      PROVE  UNCHANGED store
  BY <1>6, TypesStep DEF IInv, TypeOK, Next
<1>7. QED
  BY <1>2, <1>3, <1>4, <1>5, <1>6, OnlyStepsChange

\* What the callers rely on holds when the server starts.
LEMMA InitCallerInv == Init => CallerInv
BY DEF Init, CallerInv, AnswersFit, AnswerFits, TermsFromRequests, TermsOfKey,
       At, Idle

\* Every step keeps it.
LEMMA NextCallerInv == IInv /\ CallerInv /\ [Next]_vars => CallerInv'
BY AnswersStep, TermsFromStep, TermsOfKeyStep DEF CallerInv

\* Whatever the manager answers, and on whatever terms it has sessions and
\* tasks, goes back to a request; and two tasks with one verify key are on the
\* same terms.
THEOREM CallersCanRelyOn == Spec => []CallerInv
<1>1. QED
  BY InitCallerInv, NextCallerInv, Invariance, PTL DEF Spec

-----------------------------------------------------------------------------

\* How a handler comes to hold an id: it is asked for it, or draws it.
LEMMA HoldsStep ==
    ASSUME IInv, AnswersFit, NEW h \in Handler, Step(h), NEW g \in Handler,
           NEW id \in SessionId, Holds(g, id)'
    PROVE  \/ Holds(g, id)
           \/ g = h /\ Draws(h, id)
           \/ /\ g = h
              /\ handler[h].pc # "idle"
              /\ handler[h].req.op = "create_session"
              /\ handler[h].req.training_session_id = id
<1> USE DEF IInv, TypeOK, At, Set, Holds
<1>1. CASE g # h
  BY <1>1, StepIsOwn
<1>2. CASE g = h /\ CreateCheck(h)
  <2>1. handler[h].pc = "received" /\ handler[h].req.op = "create_session"
    BY <1>2 DEF CreateCheck, Serves
  <2>2. ~Fail(h)
    BY <1>2, NoneAssumption DEF Fail, Answer
  <2>3. PICK i \in SessionId : ChosenId(handler[h].req, i) /\ Goto(h, "keyring", i, None)
    BY <1>2, <2>2 DEF CreateCheck
  <2>4. /\ i = id
        /\ handler'[h].pc = "keyring" /\ handler'[h].id = id
    BY <1>2, <2>3 DEF Goto
  <2>5. QED
    BY <1>2, <2>1, <2>3, <2>4 DEF ChosenId, Draws
<1>3. CASE g = h /\ (CreateKeypair(h) \/ CreateInsert(h))
  BY <1>3, NoneAssumption DEF CreateKeypair, CreateInsert, Goto, Answer
<1>4. CASE g = h /\ (StartLookup(h) \/ Datastore(h) \/ StartPush(h))
  BY <1>4, NoneAssumption DEF StartLookup, Serves, Datastore, Provision,
              ProvisionError, StartPush, Goto, Fail, Answer, Idle
<1>5. CASE g = h /\ (EndSession(h) \/ GetVdafParameter(h))
  BY <1>5, NoneAssumption DEF EndSession, GetVdafParameter, Serves, Fail, Answer
<1>6. QED
  BY <1>1, <1>2, <1>3, <1>4, <1>5 DEF Step

\* A step ties an id to a key and a collector only by drawing the id.
LEMMA BindsStep ==
    ASSUME IInv, AnswersFit, NEW h \in Handler, Step(h),
           NEW id \in SessionId, NEW k, NEW c, Binds(id, k, c)'
    PROVE  \/ Binds(id, k, c)
           \/ /\ Draws(h, id)
              /\ handler[h].req.verify_key = k
              /\ handler[h].req.collector = c
<1>1. CASE /\ sessions'[id] # None
           /\ sessions'[id].verify_key = k
           /\ sessions'[id].collector = c
  <2>1. CASE sessions'[id] = sessions[id]
    BY <1>1, <2>1 DEF Binds
  <2>2. CASE sessions[id] # None /\ NewTask(sessions'[id]) = NewTask(sessions[id])
    BY <1>1, <2>2 DEF Binds, NewTask
  <2>3. CASE /\ handler[h].pc = "insert"
             /\ handler[h].id = id
             /\ handler[h].req \in CreateRequest
             /\ sessions'[id].collector = handler[h].req.collector
             /\ sessions'[id].verify_key = handler[h].req.verify_key
    BY <1>1, <2>3 DEF Binds, Holds, CreateRequest
  <2>4. QED
    BY <1>1, <2>1, <2>2, <2>3, SessionChange
<1>2. ASSUME NEW g \in Handler,
             handler'[g].pc # "idle",
             handler'[g].req.op = "create_session",
             handler'[g].req.verify_key = k,
             handler'[g].req.collector = c,
             handler'[g].req.training_session_id = id \/ Holds(g, id)'
      PROVE  \/ Binds(id, k, c)
             \/ /\ Draws(h, id)
                /\ handler[h].req.verify_key = k
                /\ handler[h].req.collector = c
  <2>1. handler[g].pc # "idle" /\ handler'[g].req = handler[g].req
    BY <1>2, StepIsOwn
  <2>2. CASE handler'[g].req.training_session_id = id
    BY <1>2, <2>1, <2>2 DEF Binds
  <2>3. CASE Holds(g, id)'
    BY <1>2, <2>1, <2>3, HoldsStep DEF Binds
  <2>4. QED
    BY <1>2, <2>2, <2>3
<1>3. QED
  BY <1>1, <1>2 DEF Binds

\* When end_session is served the session is gone, whatever the answer.
LEMMA EndStep ==
    ASSUME IInv, NEW h \in Handler, Step(h), handler[h].req.op = "end_session"
    PROVE  /\ handler[h].req \in EndRequest
           /\ sessions'[handler[h].req.training_session_id] = None
<1>1. EndSession(h)
  BY DEF IInv, HandlersWellFormed, CreateRequest, StartRequest, Step,
         CreateCheck, CreateKeypair, CreateInsert, StartLookup, Datastore,
         Provision, ProvisionError, StartPush, GetVdafParameter, Serves, At
<1>2. handler[h].req \in EndRequest
  BY <1>1, RequestKinds DEF EndSession, Serves, At, IInv, HandlersWellFormed
<1>3. QED
  BY <1>1, <1>2 DEF EndSession, EndRequest, IInv, TypeOK

\* A key that nothing mentions stays so, unless a request brings it.
LEMMA FreshKeyStep ==
    ASSUME IInv, NEW k, FreshKey(k), NEW h \in Handler, Step(h)
    PROVE  FreshKey(k)'
<1>1. ASSUME NEW id \in SessionId, sessions'[id] # None
      PROVE  sessions'[id].verify_key # k
  <2>1. CASE sessions[id] # None /\ NewTask(sessions'[id]) = NewTask(sessions[id])
    BY <2>1 DEF FreshKey, NewTask
  <2>2. CASE /\ handler[h].pc = "insert"
             /\ handler[h].req \in CreateRequest
             /\ sessions'[id].verify_key = handler[h].req.verify_key
    BY <2>2 DEF FreshKey, IsCreateFor, CreateRequest
  <2>3. QED
    BY <1>1, <2>1, <2>2, SessionChange DEF FreshKey
<1>2. ASSUME NEW t \in TaskId, store'[t] # None
      PROVE  store'[t].verify_key # k
  <2>1. CASE store'[t] # store[t]
    <3>1. /\ handler[h].req.training_session_id \in SessionId
          /\ sessions[handler[h].req.training_session_id] # None
          /\ store'[t] = NewTask(sessions[handler[h].req.training_session_id])
      BY <2>1, TaskChange, NoneAssumption DEF StartRequest
    <3>2. QED
      BY <3>1 DEF FreshKey, NewTask
  <2>2. QED
    BY <1>2, <2>1 DEF FreshKey
<1>3. ASSUME NEW x \in HpkeConfigId, keyring'[x] # None
      PROVE  keyring'[x].made_for # k
  <2>1. CASE CreateKeypair(h)
    <3>1. handler[h].req.verify_key # k
      BY <2>1 DEF CreateKeypair, At, FreshKey, IsCreateFor, IInv,
                  HandlersWellFormed, CreateRequest
    <3>2. PICK y \in HpkeConfigId :
             keyring' = [keyring EXCEPT ![y] = FetchKeypair(y, handler[h].req.verify_key)]
      BY <2>1 DEF CreateKeypair
    <3>3. QED
      BY <1>3, <3>1, <3>2 DEF FreshKey, FetchKeypair, IInv, TypeOK
  <2>2. CASE UNCHANGED keyring
    BY <1>3, <2>2 DEF FreshKey
  <2>3. QED
    BY <2>1, <2>2 DEF Step, CreateCheck, CreateInsert, StartLookup, Datastore,
         Provision, ProvisionError, StartPush, EndSession, GetVdafParameter
<1>4. \A g \in Handler : ~IsCreateFor(g, k)'
  BY StepIsOwn DEF FreshKey, IsCreateFor
<1>5. QED
  BY <1>1, <1>2, <1>3, <1>4 DEF FreshKey

=============================================================================
