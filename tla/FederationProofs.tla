-------------------------- MODULE FederationProofs --------------------------
(***************************************************************************)
(* Proofs about Federation, for every set of controllers, clients, session *)
(* ids, tasks, keys and handlers.  The two managers are instances of       *)
(* TaskProvisioner, and what is proved of one manager is used for both.    *)
(***************************************************************************)
EXTENDS FederationInvariants, TLAPS

LP == INSTANCE CallerProofs
        WITH sessions <- lSessions, keyring <- lKeyring, store <- lStore,
             lock <- lLock, handler <- lHandler,
             Collector <- Controller, Requests <- LeaderRequest

HP == INSTANCE CallerProofs
        WITH sessions <- hSessions, keyring <- hKeyring, store <- hStore,
             lock <- hLock, handler <- hHandler,
             Collector <- Controller, Requests <- HelperRequest

-----------------------------------------------------------------------------
(* The two ways to name a manager: as the system does, and as the proofs   *)
(* about one manager do.                                                   *)

LEMMA LeaderAssumptions ==
    LP!NoneAssumption /\ LP!RequestsAssumption /\ LP!TableAssumption
<1>1. LP!NoneAssumption
  BY NoneAssumption, ManagerAssumption
     DEF LP!NoneAssumption, LP!Session, L!Session, LP!Task, L!Task, LP!Keypair, L!Keypair,
         LP!Role, L!Role, LP!VdafParameter, L!VdafParameter, LP!VdafInstance, L!VdafInstance,
         LP!BitSize, L!BitSize, LP!FixedTypeTag, L!FixedTypeTag
<1>2. ASSUME NEW req \in LeaderRequest PROVE req \in LP!Request
  <2>1. CASE req \in SessionRequest
    BY <2>1 DEF SessionRequest, LP!Request, LP!StartRequest, LP!EndRequest,
                LP!GetRequest
  <2>2. ASSUME NEW c \in Controller, NEW k \in VerifyKey, NEW id \in SessionId \cup {None},
               req = CreateRequestOf(c, "Leader", id, k)
        PROVE  req \in LP!CreateRequest
    BY <2>2, ParamAssumption
       DEF CreateRequestOf, LP!CreateRequest, LP!Role, LP!VdafParameter,
           VdafParameter, LP!FixedTypeTag, FixedTypeTag
  <2>3. QED
    BY <1>2, <2>1, <2>2 DEF LeaderRequest, LP!Request
<1>3. LP!TableAssumption
  BY ManagerAssumption
     DEF LP!TableAssumption, LP!Terms, L!Terms, LP!Table!OpenSession,
         L!Table!OpenSession, LP!VdafInstance, L!VdafInstance, LP!Role, L!Role,
         LP!BitSize, L!BitSize
<1>4. QED
  BY <1>1, <1>2, <1>3 DEF LP!RequestsAssumption

LEMMA HelperAssumptions ==
    HP!NoneAssumption /\ HP!RequestsAssumption /\ HP!TableAssumption
<1>1. HP!NoneAssumption
  BY NoneAssumption, ManagerAssumption
     DEF HP!NoneAssumption, HP!Session, L!Session, HP!Task, L!Task, HP!Keypair, L!Keypair,
         HP!Role, L!Role, HP!VdafParameter, L!VdafParameter, HP!VdafInstance, L!VdafInstance,
         HP!BitSize, L!BitSize, HP!FixedTypeTag, L!FixedTypeTag
<1>2. ASSUME NEW req \in HelperRequest PROVE req \in HP!Request
  <2>1. CASE req \in SessionRequest
    BY <2>1 DEF SessionRequest, HP!Request, HP!StartRequest, HP!EndRequest,
                HP!GetRequest
  <2>2. ASSUME NEW c \in Controller, NEW k \in VerifyKey, NEW id \in SessionId \cup {None},
               req = CreateRequestOf(c, "Helper", id, k)
        PROVE  req \in HP!CreateRequest
    BY <2>2, ParamAssumption
       DEF CreateRequestOf, HP!CreateRequest, HP!Role, HP!VdafParameter,
           VdafParameter, HP!FixedTypeTag, FixedTypeTag
  <2>3. QED
    BY <1>2, <2>1, <2>2 DEF HelperRequest, HP!Request
<1>3. HP!TableAssumption
  BY ManagerAssumption
     DEF HP!TableAssumption, HP!Terms, L!Terms, HP!Table!OpenSession,
         L!Table!OpenSession, HP!VdafInstance, L!VdafInstance, HP!Role, L!Role,
         HP!BitSize, L!BitSize
<1>4. QED
  BY <1>1, <1>2, <1>3 DEF HP!RequestsAssumption

\* The parts of the invariants.
LEMMA LeaderInvParts ==
    /\ L!TypeOK <=> LP!TypeOK
    /\ L!HandlersWellFormed <=> LP!HandlersWellFormed
    /\ L!LockHeldByRound <=> LP!LockHeldByRound
    /\ L!RoundInProgress <=> LP!RoundInProgress
    /\ L!ListedTasksProvisioned <=> LP!ListedTasksProvisioned
    /\ L!RepliesSound <=> LP!RepliesSound
    /\ L!KeysDistinct <=> LP!KeysDistinct
    /\ L!KeyringCovers <=> LP!KeyringCovers
    /\ L!AnswersFit <=> LP!AnswersFit
    /\ L!TermsFromRequests <=> LP!TermsFromRequests
    /\ L!TermsOfKey <=> LP!TermsOfKey
    /\ L!TypeOK' <=> LP!TypeOK'
    /\ L!HandlersWellFormed' <=> LP!HandlersWellFormed'
    /\ L!LockHeldByRound' <=> LP!LockHeldByRound'
    /\ L!RoundInProgress' <=> LP!RoundInProgress'
    /\ L!ListedTasksProvisioned' <=> LP!ListedTasksProvisioned'
    /\ L!RepliesSound' <=> LP!RepliesSound'
    /\ L!KeysDistinct' <=> LP!KeysDistinct'
    /\ L!KeyringCovers' <=> LP!KeyringCovers'
    /\ L!AnswersFit' <=> LP!AnswersFit'
    /\ L!TermsFromRequests' <=> LP!TermsFromRequests'
    /\ L!TermsOfKey' <=> LP!TermsOfKey'
<1>1. (L!TypeOK <=> LP!TypeOK) /\ (L!TypeOK' <=> LP!TypeOK')
  BY DEF L!TypeOK, LP!TypeOK, L!Session, LP!Session, L!Task, LP!Task,
        L!Keypair, LP!Keypair, L!HandlerState, LP!HandlerState, L!Role,
        LP!Role, L!Request, LP!Request, L!CreateRequest,
        LP!CreateRequest, L!StartRequest, LP!StartRequest, L!EndRequest,
        LP!EndRequest, L!GetRequest, LP!GetRequest, L!Reply, LP!Reply,
        L!VdafParameter, LP!VdafParameter, L!VdafInstance,
        LP!VdafInstance, L!BitSize, LP!BitSize, L!FixedTypeTag,
        LP!FixedTypeTag
<1>2. (L!HandlersWellFormed <=> LP!HandlersWellFormed) /\ (L!HandlersWellFormed' <=> LP!HandlersWellFormed')
  BY DEF L!HandlersWellFormed, LP!HandlersWellFormed, L!At, LP!At,
        L!Session, LP!Session, L!Task, LP!Task, L!Keypair, LP!Keypair,
        L!HandlerState, LP!HandlerState, L!Role, LP!Role, L!Request,
        LP!Request, L!CreateRequest, LP!CreateRequest, L!StartRequest,
        LP!StartRequest, L!EndRequest, LP!EndRequest, L!GetRequest,
        LP!GetRequest, L!Reply, LP!Reply, L!VdafParameter,
        LP!VdafParameter, L!VdafInstance, LP!VdafInstance, L!BitSize,
        LP!BitSize, L!FixedTypeTag, LP!FixedTypeTag
<1>3. (L!LockHeldByRound <=> LP!LockHeldByRound) /\ (L!LockHeldByRound' <=> LP!LockHeldByRound')
  BY DEF L!LockHeldByRound, LP!LockHeldByRound
<1>4. (L!RoundInProgress <=> LP!RoundInProgress) /\ (L!RoundInProgress' <=> LP!RoundInProgress')
  BY DEF L!RoundInProgress, LP!RoundInProgress, L!At, LP!At, L!NewTask,
        LP!NewTask, L!SameTask, LP!SameTask, L!StartedSession,
        LP!StartedSession, L!ToVdafInstance, LP!ToVdafInstance
<1>5. (L!ListedTasksProvisioned <=> LP!ListedTasksProvisioned) /\ (L!ListedTasksProvisioned' <=> LP!ListedTasksProvisioned')
  BY DEF L!ListedTasksProvisioned, LP!ListedTasksProvisioned, L!SameTask,
        LP!SameTask, L!NewTask, LP!NewTask, L!ToVdafInstance,
        LP!ToVdafInstance
<1>6. (L!RepliesSound <=> LP!RepliesSound) /\ (L!RepliesSound' <=> LP!RepliesSound')
  BY DEF L!RepliesSound, LP!RepliesSound, L!At, LP!At, L!ToVdafInstance,
        LP!ToVdafInstance
<1>7. (L!KeysDistinct <=> LP!KeysDistinct) /\ (L!KeysDistinct' <=> LP!KeysDistinct')
  BY DEF L!KeysDistinct, LP!KeysDistinct, L!PendingCreate,
        LP!PendingCreate
<1>8. (L!KeyringCovers <=> LP!KeyringCovers) /\ (L!KeyringCovers' <=> LP!KeyringCovers')
  BY DEF L!KeyringCovers, LP!KeyringCovers, L!At, LP!At
<1>9. (L!AnswersFit <=> LP!AnswersFit) /\ (L!AnswersFit' <=> LP!AnswersFit')
  BY DEF L!AnswersFit, LP!AnswersFit, L!AnswerFits, LP!AnswerFits, L!At,
        LP!At, L!Session, LP!Session, L!Task, LP!Task, L!Keypair,
        LP!Keypair, L!HandlerState, LP!HandlerState, L!Role, LP!Role,
        L!Request, LP!Request, L!CreateRequest, LP!CreateRequest,
        L!StartRequest, LP!StartRequest, L!EndRequest, LP!EndRequest,
        L!GetRequest, LP!GetRequest, L!Reply, LP!Reply, L!VdafParameter,
        LP!VdafParameter, L!VdafInstance, LP!VdafInstance, L!BitSize,
        LP!BitSize, L!FixedTypeTag, LP!FixedTypeTag
<1>10. (L!TermsFromRequests <=> LP!TermsFromRequests) /\ (L!TermsFromRequests' <=> LP!TermsFromRequests')
  BY DEF L!TermsFromRequests, LP!TermsFromRequests, L!TermsAsked,
        LP!TermsAsked, L!TermsOf, LP!TermsOf, L!NewTask, LP!NewTask,
        L!ToVdafInstance, LP!ToVdafInstance
<1>11. (L!TermsOfKey <=> LP!TermsOfKey) /\ (L!TermsOfKey' <=> LP!TermsOfKey')
  BY DEF L!TermsOfKey, LP!TermsOfKey, L!TermsOf, LP!TermsOf, L!NewTask,
        LP!NewTask, L!ToVdafInstance, LP!ToVdafInstance
<1>12. QED
  BY <1>1, <1>2, <1>3, <1>4, <1>5, <1>6, <1>7, <1>8, <1>9, <1>10, <1>11

LEMMA LeaderInvSame ==
    /\ L!IInv <=> LP!IInv
    /\ L!IInv' <=> LP!IInv'
    /\ L!CallerInv <=> LP!CallerInv
    /\ L!CallerInv' <=> LP!CallerInv'
BY LeaderInvParts DEF L!IInv, LP!IInv, L!CallerInv, LP!CallerInv

\* The parts of the invariants.
LEMMA HelperInvParts ==
    /\ H!TypeOK <=> HP!TypeOK
    /\ H!HandlersWellFormed <=> HP!HandlersWellFormed
    /\ H!LockHeldByRound <=> HP!LockHeldByRound
    /\ H!RoundInProgress <=> HP!RoundInProgress
    /\ H!ListedTasksProvisioned <=> HP!ListedTasksProvisioned
    /\ H!RepliesSound <=> HP!RepliesSound
    /\ H!KeysDistinct <=> HP!KeysDistinct
    /\ H!KeyringCovers <=> HP!KeyringCovers
    /\ H!AnswersFit <=> HP!AnswersFit
    /\ H!TermsFromRequests <=> HP!TermsFromRequests
    /\ H!TermsOfKey <=> HP!TermsOfKey
    /\ H!TypeOK' <=> HP!TypeOK'
    /\ H!HandlersWellFormed' <=> HP!HandlersWellFormed'
    /\ H!LockHeldByRound' <=> HP!LockHeldByRound'
    /\ H!RoundInProgress' <=> HP!RoundInProgress'
    /\ H!ListedTasksProvisioned' <=> HP!ListedTasksProvisioned'
    /\ H!RepliesSound' <=> HP!RepliesSound'
    /\ H!KeysDistinct' <=> HP!KeysDistinct'
    /\ H!KeyringCovers' <=> HP!KeyringCovers'
    /\ H!AnswersFit' <=> HP!AnswersFit'
    /\ H!TermsFromRequests' <=> HP!TermsFromRequests'
    /\ H!TermsOfKey' <=> HP!TermsOfKey'
<1>1. (H!TypeOK <=> HP!TypeOK) /\ (H!TypeOK' <=> HP!TypeOK')
  BY DEF H!TypeOK, HP!TypeOK, H!Session, HP!Session, H!Task, HP!Task,
        H!Keypair, HP!Keypair, H!HandlerState, HP!HandlerState, H!Role,
        HP!Role, H!Request, HP!Request, H!CreateRequest,
        HP!CreateRequest, H!StartRequest, HP!StartRequest, H!EndRequest,
        HP!EndRequest, H!GetRequest, HP!GetRequest, H!Reply, HP!Reply,
        H!VdafParameter, HP!VdafParameter, H!VdafInstance,
        HP!VdafInstance, H!BitSize, HP!BitSize, H!FixedTypeTag,
        HP!FixedTypeTag
<1>2. (H!HandlersWellFormed <=> HP!HandlersWellFormed) /\ (H!HandlersWellFormed' <=> HP!HandlersWellFormed')
  BY DEF H!HandlersWellFormed, HP!HandlersWellFormed, H!At, HP!At,
        H!Session, HP!Session, H!Task, HP!Task, H!Keypair, HP!Keypair,
        H!HandlerState, HP!HandlerState, H!Role, HP!Role, H!Request,
        HP!Request, H!CreateRequest, HP!CreateRequest, H!StartRequest,
        HP!StartRequest, H!EndRequest, HP!EndRequest, H!GetRequest,
        HP!GetRequest, H!Reply, HP!Reply, H!VdafParameter,
        HP!VdafParameter, H!VdafInstance, HP!VdafInstance, H!BitSize,
        HP!BitSize, H!FixedTypeTag, HP!FixedTypeTag
<1>3. (H!LockHeldByRound <=> HP!LockHeldByRound) /\ (H!LockHeldByRound' <=> HP!LockHeldByRound')
  BY DEF H!LockHeldByRound, HP!LockHeldByRound
<1>4. (H!RoundInProgress <=> HP!RoundInProgress) /\ (H!RoundInProgress' <=> HP!RoundInProgress')
  BY DEF H!RoundInProgress, HP!RoundInProgress, H!At, HP!At, H!NewTask,
        HP!NewTask, H!SameTask, HP!SameTask, H!StartedSession,
        HP!StartedSession, H!ToVdafInstance, HP!ToVdafInstance
<1>5. (H!ListedTasksProvisioned <=> HP!ListedTasksProvisioned) /\ (H!ListedTasksProvisioned' <=> HP!ListedTasksProvisioned')
  BY DEF H!ListedTasksProvisioned, HP!ListedTasksProvisioned, H!SameTask,
        HP!SameTask, H!NewTask, HP!NewTask, H!ToVdafInstance,
        HP!ToVdafInstance
<1>6. (H!RepliesSound <=> HP!RepliesSound) /\ (H!RepliesSound' <=> HP!RepliesSound')
  BY DEF H!RepliesSound, HP!RepliesSound, H!At, HP!At, H!ToVdafInstance,
        HP!ToVdafInstance
<1>7. (H!KeysDistinct <=> HP!KeysDistinct) /\ (H!KeysDistinct' <=> HP!KeysDistinct')
  BY DEF H!KeysDistinct, HP!KeysDistinct, H!PendingCreate,
        HP!PendingCreate
<1>8. (H!KeyringCovers <=> HP!KeyringCovers) /\ (H!KeyringCovers' <=> HP!KeyringCovers')
  BY DEF H!KeyringCovers, HP!KeyringCovers, H!At, HP!At
<1>9. (H!AnswersFit <=> HP!AnswersFit) /\ (H!AnswersFit' <=> HP!AnswersFit')
  BY DEF H!AnswersFit, HP!AnswersFit, H!AnswerFits, HP!AnswerFits, H!At,
        HP!At, H!Session, HP!Session, H!Task, HP!Task, H!Keypair,
        HP!Keypair, H!HandlerState, HP!HandlerState, H!Role, HP!Role,
        H!Request, HP!Request, H!CreateRequest, HP!CreateRequest,
        H!StartRequest, HP!StartRequest, H!EndRequest, HP!EndRequest,
        H!GetRequest, HP!GetRequest, H!Reply, HP!Reply, H!VdafParameter,
        HP!VdafParameter, H!VdafInstance, HP!VdafInstance, H!BitSize,
        HP!BitSize, H!FixedTypeTag, HP!FixedTypeTag
<1>10. (H!TermsFromRequests <=> HP!TermsFromRequests) /\ (H!TermsFromRequests' <=> HP!TermsFromRequests')
  BY DEF H!TermsFromRequests, HP!TermsFromRequests, H!TermsAsked,
        HP!TermsAsked, H!TermsOf, HP!TermsOf, H!NewTask, HP!NewTask,
        H!ToVdafInstance, HP!ToVdafInstance
<1>11. (H!TermsOfKey <=> HP!TermsOfKey) /\ (H!TermsOfKey' <=> HP!TermsOfKey')
  BY DEF H!TermsOfKey, HP!TermsOfKey, H!TermsOf, HP!TermsOf, H!NewTask,
        HP!NewTask, H!ToVdafInstance, HP!ToVdafInstance
<1>12. QED
  BY <1>1, <1>2, <1>3, <1>4, <1>5, <1>6, <1>7, <1>8, <1>9, <1>10, <1>11

LEMMA HelperInvSame ==
    /\ H!IInv <=> HP!IInv
    /\ H!IInv' <=> HP!IInv'
    /\ H!CallerInv <=> HP!CallerInv
    /\ H!CallerInv' <=> HP!CallerInv'
BY HelperInvParts DEF H!IInv, HP!IInv, H!CallerInv, HP!CallerInv


\* Equal instances come from equal parameters.
LEMMA SameVdaf ==
    ASSUME NEW p \in VdafParameter, NEW q \in VdafParameter,
           ToVdafInstance(p) = ToVdafInstance(q)
    PROVE  p = q
BY DEF ToVdafInstance, VdafParameter, FixedTypeTag

LEMMA LeaderStepSame ==
    ASSUME NEW h \in Handler
    PROVE  L!Step(h) <=> LP!Step(h)
BY DEF L!Step, LP!Step, L!CreateCheck, LP!CreateCheck, L!CreateKeypair,
        LP!CreateKeypair, L!CreateInsert, LP!CreateInsert,
        L!StartLookup, LP!StartLookup, L!Datastore, LP!Datastore,
        L!Provision, LP!Provision, L!ProvisionError, LP!ProvisionError,
        L!StartPush, LP!StartPush, L!EndSession, LP!EndSession,
        L!GetVdafParameter, LP!GetVdafParameter, L!Serves, LP!Serves,
        L!At, LP!At, L!Set, LP!Set, L!Goto, LP!Goto, L!Answer,
        LP!Answer, L!Fail, LP!Fail, L!ChosenId, LP!ChosenId,
        L!FetchKeypair, LP!FetchKeypair, L!StartedSession,
        LP!StartedSession, L!NewTask, LP!NewTask, L!SameTask,
        LP!SameTask, L!Acceptable, LP!Acceptable, L!PutTask, LP!PutTask,
        L!WithTask, LP!WithTask, L!SessionsWithTask,
        LP!SessionsWithTask, L!Idle, LP!Idle, L!ToVdafInstance,
        LP!ToVdafInstance

LEMMA LeaderMovesSame ==
    /\ \A h \in Handler :
          /\ \A req : L!Receive(h, req) <=> LP!Receive(h, req)
          /\ L!Deliver(h) <=> LP!Deliver(h)
          /\ L!Disconnect(h) <=> LP!Disconnect(h)
    /\ L!Restart <=> LP!Restart
BY DEF L!Receive, LP!Receive, L!Deliver, LP!Deliver, L!Disconnect,
        LP!Disconnect, L!Restart, LP!Restart, L!Release, LP!Release,
        L!At, LP!At, L!Set, LP!Set, L!Idle, LP!Idle

LEMMA LeaderFreshKeySame ==
    ASSUME NEW k
    PROVE  /\ L!FreshKey(k) <=> LP!FreshKey(k)
           /\ L!FreshKey(k)' <=> LP!FreshKey(k)'
BY DEF L!FreshKey, LP!FreshKey, L!IsCreateFor, LP!IsCreateFor

\* What a request's arrival and its end do.
LEMMA LeaderConnections ==
    ASSUME L!TypeOK, NEW h \in Handler
    PROVE  /\ \A req : L!Receive(h, req) =>
                 /\ lHandler[h].pc = "idle"
                 /\ lHandler'[h].pc = "received"
                 /\ lHandler'[h].req = req
                 /\ lHandler'[h].id = None
                 /\ \A g \in Handler : g # h => lHandler'[g] = lHandler[g]
                 /\ UNCHANGED <<lSessions, lKeyring, lStore>>
           /\ L!Deliver(h) \/ L!Disconnect(h) =>
                 /\ lHandler[h].pc # "idle"
                 /\ lHandler'[h].pc = "idle"
                 /\ lHandler'[h].id = None
                 /\ \A g \in Handler : g # h => lHandler'[g] = lHandler[g]
                 /\ UNCHANGED <<lSessions, lKeyring, lStore>>
           /\ L!Restart =>
                 /\ \A g \in Handler : lHandler'[g].pc = "idle" /\ lHandler'[g].id = None
                 /\ lSessions' = [id \in SessionId |-> None]
                 /\ lKeyring' = [k \in HpkeConfigId |-> None]
                 /\ UNCHANGED lStore
BY DEF L!TypeOK, L!Receive, L!Deliver, L!Disconnect, L!Restart, L!At, L!Set, L!Idle

\* The terms of sessions and tasks follow from their collector and key.
LEMMA LeaderTerms ==
    ASSUME L!TypeOK, L!CallerInv
    PROVE  /\ \A id \in SessionId : lSessions[id] # None =>
                 /\ lSessions[id].role = "Leader"
                 /\ lSessions[id].collector \in Controller
                 /\ lSessions[id].verify_key \in VerifyKey
                 /\ lSessions[id].vdaf_parameter = Param[lSessions[id].collector]
           /\ \A t \in TaskId : lStore[t] # None =>
                 /\ lStore[t].role = "Leader"
                 /\ lStore[t].collector \in Controller
                 /\ lStore[t].verify_key \in VerifyKey
                 /\ lStore[t].vdaf = ToVdafInstance(Param[lStore[t].collector])
<1>1. ASSUME NEW terms \in L!TermsAsked
      PROVE  /\ terms.role = "Leader"
             /\ terms.collector \in Controller
             /\ terms.verify_key \in VerifyKey
             /\ terms.vdaf = ToVdafInstance(Param[terms.collector])
  BY <1>1 DEF L!TermsAsked, LeaderRequest, SessionRequest, CreateRequestOf,
              L!ToVdafInstance, ToVdafInstance
<1>2. ASSUME NEW id \in SessionId, lSessions[id] # None
      PROVE  /\ lSessions[id].role = "Leader"
             /\ lSessions[id].collector \in Controller
             /\ lSessions[id].verify_key \in VerifyKey
             /\ lSessions[id].vdaf_parameter = Param[lSessions[id].collector]
  <2> DEFINE s == lSessions[id]
             terms == L!TermsOf(L!NewTask(s))
  <2>1. terms \in L!TermsAsked
    BY <1>2 DEF L!CallerInv, L!TermsFromRequests
  <2>2. /\ terms.role = s.role /\ terms.collector = s.collector
        /\ terms.verify_key = s.verify_key
        /\ terms.vdaf = ToVdafInstance(s.vdaf_parameter)
    BY DEF L!TermsOf, L!NewTask, L!ToVdafInstance, ToVdafInstance
  <2>3. s.vdaf_parameter \in VdafParameter
    BY <1>2 DEF L!TypeOK, L!Session, L!VdafParameter, VdafParameter,
                L!FixedTypeTag, FixedTypeTag
  <2> HIDE DEF terms, s
  <2>4. /\ s.role = "Leader" /\ s.collector \in Controller
        /\ s.verify_key \in VerifyKey
        /\ ToVdafInstance(s.vdaf_parameter) = ToVdafInstance(Param[s.collector])
    BY <1>1, <2>1, <2>2
  <2>5. s.vdaf_parameter = Param[s.collector]
    BY <2>3, <2>4, SameVdaf, ParamAssumption
  <2>6. QED
    BY <2>4, <2>5 DEF s
<1>3. ASSUME NEW t \in TaskId, lStore[t] # None
      PROVE  /\ lStore[t].role = "Leader"
             /\ lStore[t].collector \in Controller
             /\ lStore[t].verify_key \in VerifyKey
             /\ lStore[t].vdaf = ToVdafInstance(Param[lStore[t].collector])
  <2>1. L!TermsOf(lStore[t]) \in L!TermsAsked
    BY <1>3 DEF L!CallerInv, L!TermsFromRequests
  <2>2. QED
    BY <1>1, <2>1 DEF L!TermsOf
<1>4. QED
  BY <1>2, <1>3

\* What a step of a handler does to the requests and to the tasks.
LEMMA LeaderStep ==
    ASSUME L!TypeOK, L!IInv, L!CallerInv, NEW h \in Handler, L!Step(h)
    PROVE  /\ lHandler[h].pc \notin {"idle", "replied"}
           /\ lHandler'[h].pc # "idle"
           /\ lHandler'[h].req = lHandler[h].req
           /\ \A g \in Handler : g # h => lHandler'[g] = lHandler[g]
           /\ \A t \in TaskId : lStore[t] # None => lStore'[t] = lStore[t]
<1>1. LP!IInv /\ LP!Step(h)
  BY LeaderInvSame, LeaderStepSame
<1>2. /\ lHandler[h].pc \notin {"idle", "replied"}
      /\ \A g \in Handler : g # h => lHandler'[g] = lHandler[g]
      /\ \/ /\ lHandler'[h].pc # "idle"
            /\ lHandler'[h].req = lHandler[h].req
         \/ /\ lHandler[h].req \in LP!StartRequest
            /\ LP!StartedSession(h) # None
            /\ LP!StartedSession(h).role \notin {"Leader", "Helper"}
  BY <1>1, LeaderAssumptions, LP!StepIsOwn
<1>3. /\ lHandler'[h].pc # "idle"
      /\ lHandler'[h].req = lHandler[h].req
  BY <1>2, LeaderTerms DEF LP!StartRequest, LP!StartedSession
<1>4. \A t \in TaskId : lStore'[t] # lStore[t] => lStore[t] = None
  BY <1>1, LeaderAssumptions, LP!TaskChange
<1>5. QED
  BY <1>2, <1>3, <1>4


LEMMA HelperStepSame ==
    ASSUME NEW h \in Handler
    PROVE  H!Step(h) <=> HP!Step(h)
BY DEF H!Step, HP!Step, H!CreateCheck, HP!CreateCheck, H!CreateKeypair,
        HP!CreateKeypair, H!CreateInsert, HP!CreateInsert,
        H!StartLookup, HP!StartLookup, H!Datastore, HP!Datastore,
        H!Provision, HP!Provision, H!ProvisionError, HP!ProvisionError,
        H!StartPush, HP!StartPush, H!EndSession, HP!EndSession,
        H!GetVdafParameter, HP!GetVdafParameter, H!Serves, HP!Serves,
        H!At, HP!At, H!Set, HP!Set, H!Goto, HP!Goto, H!Answer,
        HP!Answer, H!Fail, HP!Fail, H!ChosenId, HP!ChosenId,
        H!FetchKeypair, HP!FetchKeypair, H!StartedSession,
        HP!StartedSession, H!NewTask, HP!NewTask, H!SameTask,
        HP!SameTask, H!Acceptable, HP!Acceptable, H!PutTask, HP!PutTask,
        H!WithTask, HP!WithTask, H!SessionsWithTask,
        HP!SessionsWithTask, H!Idle, HP!Idle, H!ToVdafInstance,
        HP!ToVdafInstance

LEMMA HelperMovesSame ==
    /\ \A h \in Handler :
          /\ \A req : H!Receive(h, req) <=> HP!Receive(h, req)
          /\ H!Deliver(h) <=> HP!Deliver(h)
          /\ H!Disconnect(h) <=> HP!Disconnect(h)
    /\ H!Restart <=> HP!Restart
BY DEF H!Receive, HP!Receive, H!Deliver, HP!Deliver, H!Disconnect,
        HP!Disconnect, H!Restart, HP!Restart, H!Release, HP!Release,
        H!At, HP!At, H!Set, HP!Set, H!Idle, HP!Idle

LEMMA HelperFreshKeySame ==
    ASSUME NEW k
    PROVE  /\ H!FreshKey(k) <=> HP!FreshKey(k)
           /\ H!FreshKey(k)' <=> HP!FreshKey(k)'
BY DEF H!FreshKey, HP!FreshKey, H!IsCreateFor, HP!IsCreateFor

\* What a request's arrival and its end do.
LEMMA HelperConnections ==
    ASSUME H!TypeOK, NEW h \in Handler
    PROVE  /\ \A req : H!Receive(h, req) =>
                 /\ hHandler[h].pc = "idle"
                 /\ hHandler'[h].pc = "received"
                 /\ hHandler'[h].req = req
                 /\ hHandler'[h].id = None
                 /\ \A g \in Handler : g # h => hHandler'[g] = hHandler[g]
                 /\ UNCHANGED <<hSessions, hKeyring, hStore>>
           /\ H!Deliver(h) \/ H!Disconnect(h) =>
                 /\ hHandler[h].pc # "idle"
                 /\ hHandler'[h].pc = "idle"
                 /\ hHandler'[h].id = None
                 /\ \A g \in Handler : g # h => hHandler'[g] = hHandler[g]
                 /\ UNCHANGED <<hSessions, hKeyring, hStore>>
           /\ H!Restart =>
                 /\ \A g \in Handler : hHandler'[g].pc = "idle" /\ hHandler'[g].id = None
                 /\ hSessions' = [id \in SessionId |-> None]
                 /\ hKeyring' = [k \in HpkeConfigId |-> None]
                 /\ UNCHANGED hStore
BY DEF H!TypeOK, H!Receive, H!Deliver, H!Disconnect, H!Restart, H!At, H!Set, H!Idle

\* The terms of sessions and tasks follow from their collector and key.
LEMMA HelperTerms ==
    ASSUME H!TypeOK, H!CallerInv
    PROVE  /\ \A id \in SessionId : hSessions[id] # None =>
                 /\ hSessions[id].role = "Helper"
                 /\ hSessions[id].collector \in Controller
                 /\ hSessions[id].verify_key \in VerifyKey
                 /\ hSessions[id].vdaf_parameter = Param[hSessions[id].collector]
           /\ \A t \in TaskId : hStore[t] # None =>
                 /\ hStore[t].role = "Helper"
                 /\ hStore[t].collector \in Controller
                 /\ hStore[t].verify_key \in VerifyKey
                 /\ hStore[t].vdaf = ToVdafInstance(Param[hStore[t].collector])
<1>1. ASSUME NEW terms \in H!TermsAsked
      PROVE  /\ terms.role = "Helper"
             /\ terms.collector \in Controller
             /\ terms.verify_key \in VerifyKey
             /\ terms.vdaf = ToVdafInstance(Param[terms.collector])
  BY <1>1 DEF H!TermsAsked, HelperRequest, SessionRequest, CreateRequestOf,
              H!ToVdafInstance, ToVdafInstance
<1>2. ASSUME NEW id \in SessionId, hSessions[id] # None
      PROVE  /\ hSessions[id].role = "Helper"
             /\ hSessions[id].collector \in Controller
             /\ hSessions[id].verify_key \in VerifyKey
             /\ hSessions[id].vdaf_parameter = Param[hSessions[id].collector]
  <2> DEFINE s == hSessions[id]
             terms == H!TermsOf(H!NewTask(s))
  <2>1. terms \in H!TermsAsked
    BY <1>2 DEF H!CallerInv, H!TermsFromRequests
  <2>2. /\ terms.role = s.role /\ terms.collector = s.collector
        /\ terms.verify_key = s.verify_key
        /\ terms.vdaf = ToVdafInstance(s.vdaf_parameter)
    BY DEF H!TermsOf, H!NewTask, H!ToVdafInstance, ToVdafInstance
  <2>3. s.vdaf_parameter \in VdafParameter
    BY <1>2 DEF H!TypeOK, H!Session, H!VdafParameter, VdafParameter,
                H!FixedTypeTag, FixedTypeTag
  <2> HIDE DEF terms, s
  <2>4. /\ s.role = "Helper" /\ s.collector \in Controller
        /\ s.verify_key \in VerifyKey
        /\ ToVdafInstance(s.vdaf_parameter) = ToVdafInstance(Param[s.collector])
    BY <1>1, <2>1, <2>2
  <2>5. s.vdaf_parameter = Param[s.collector]
    BY <2>3, <2>4, SameVdaf, ParamAssumption
  <2>6. QED
    BY <2>4, <2>5 DEF s
<1>3. ASSUME NEW t \in TaskId, hStore[t] # None
      PROVE  /\ hStore[t].role = "Helper"
             /\ hStore[t].collector \in Controller
             /\ hStore[t].verify_key \in VerifyKey
             /\ hStore[t].vdaf = ToVdafInstance(Param[hStore[t].collector])
  <2>1. H!TermsOf(hStore[t]) \in H!TermsAsked
    BY <1>3 DEF H!CallerInv, H!TermsFromRequests
  <2>2. QED
    BY <1>1, <2>1 DEF H!TermsOf
<1>4. QED
  BY <1>2, <1>3

\* What a step of a handler does to the requests and to the tasks.
LEMMA HelperStep ==
    ASSUME H!TypeOK, H!IInv, H!CallerInv, NEW h \in Handler, H!Step(h)
    PROVE  /\ hHandler[h].pc \notin {"idle", "replied"}
           /\ hHandler'[h].pc # "idle"
           /\ hHandler'[h].req = hHandler[h].req
           /\ \A g \in Handler : g # h => hHandler'[g] = hHandler[g]
           /\ \A t \in TaskId : hStore[t] # None => hStore'[t] = hStore[t]
<1>1. HP!IInv /\ HP!Step(h)
  BY HelperInvSame, HelperStepSame
<1>2. /\ hHandler[h].pc \notin {"idle", "replied"}
      /\ \A g \in Handler : g # h => hHandler'[g] = hHandler[g]
      /\ \/ /\ hHandler'[h].pc # "idle"
            /\ hHandler'[h].req = hHandler[h].req
         \/ /\ hHandler[h].req \in HP!StartRequest
            /\ HP!StartedSession(h) # None
            /\ HP!StartedSession(h).role \notin {"Leader", "Helper"}
  BY <1>1, HelperAssumptions, HP!StepIsOwn
<1>3. /\ hHandler'[h].pc # "idle"
      /\ hHandler'[h].req = hHandler[h].req
  BY <1>2, HelperTerms DEF HP!StartRequest, HP!StartedSession
<1>4. \A t \in TaskId : hStore'[t] # hStore[t] => hStore[t] = None
  BY <1>1, HelperAssumptions, HP!TaskChange
<1>5. QED
  BY <1>2, <1>3, <1>4

-----------------------------------------------------------------------------
(* The requests that are sent                                              *)

LEMMA RequestsSent ==
    ASSUME TypeOK, CallRecordsFit, CallersAwait
    PROVE  /\ \A c \in Controller :
                /\ \A k \in VerifyKey :
                      CreateRequestOf(c, "Leader", None, k) \in LeaderRequest
                /\ \A k \in VerifyKey, id \in SessionId :
                      CreateRequestOf(c, "Helper", id, k) \in HelperRequest
                /\ ctl[c].session # None =>
                      /\ EndRequestOf(c) \in LeaderRequest \cap HelperRequest
                      /\ \A t \in TaskId :
                            StartRequestOf(c, t) \in LeaderRequest \cap HelperRequest
           /\ \A i \in Client : ~InClientCall(i, "idle") =>
                 GetRequestOf(clt[i].task) \in LeaderRequest \cap HelperRequest
<1>1. ASSUME NEW c \in Controller, ctl[c].session # None
      PROVE  /\ EndRequestOf(c) \in SessionRequest
             /\ \A t \in TaskId : StartRequestOf(c, t) \in SessionRequest
  BY <1>1 DEF TypeOK, ControllerState, EndRequestOf, StartRequestOf, SessionRequest
<1>2. ASSUME NEW i \in Client, ~InClientCall(i, "idle")
      PROVE  GetRequestOf(clt[i].task) \in SessionRequest
  BY <1>2 DEF TypeOK, ClientState, CallersAwait, ClientAwaits, GetRequestOf, SessionRequest
<1>3. QED
  BY <1>1, <1>2 DEF LeaderRequest, HelperRequest

\* What the leader answers to the request of a controller.
LEMMA LeaderAnswersCreate ==
    ASSUME SystemInv, NEW c \in Controller, InCall(c, "create_leader"),
           L!Deliver(ctl[c].slot), LeaderOK(c)
    PROVE  lHandler[ctl[c].slot].reply.body \in SessionId
<1> DEFINE h == ctl[c].slot
<1>1. h \in Handler /\ lHandler[h].req = CreateRequestOf(c, "Leader", None, ctl[c].key)
  BY DEF SystemInv, CallsInv, CallersAwait, ControllerAwaits, LeaderHandles
<1>2. lHandler[h].req.op = "create_session"
  BY <1>1 DEF CreateRequestOf
<1>3. L!AnswerFits(h)
  BY <1>1 DEF SystemInv, CallsInv, L!CallerInv, L!AnswersFit
<1>4. QED
  BY <1>2, <1>3 DEF L!Deliver, LeaderOK, L!AnswerFits

-----------------------------------------------------------------------------
(* The moves of the system are moves of the two managers                   *)

LeaderMoves(h) ==
    \/ \E req \in LeaderRequest :
          /\ req.op = "create_session" => L!FreshKey(req.verify_key)
          /\ L!Receive(h, req)
    \/ L!Step(h)
    \/ L!Deliver(h) \/ L!Disconnect(h)

HelperMoves(h) ==
    \/ \E req \in HelperRequest :
          /\ req.op = "create_session" => H!FreshKey(req.verify_key)
          /\ H!Receive(h, req)
    \/ H!Step(h)
    \/ H!Deliver(h) \/ H!Disconnect(h)

\* Every step is one of the leader's manager, or leaves it as it is.
LEMMA LeaderIsManaged ==
    ASSUME SystemInv, [Next]_vars
    PROVE  \/ UNCHANGED leader
           \/ \E h \in Handler : LeaderMoves(h)
           \/ L!Restart
<1> USE DEF LeaderMoves, SystemInv, CallsInv
<1>1. ASSUME NEW c \in Controller, CreateSession(c) PROVE \E h \in Handler : LeaderMoves(h)
  <2>1. PICK k \in VerifyKey, h \in Handler :
           L!FreshKey(k) /\ L!Receive(h, CreateRequestOf(c, "Leader", None, k))
    BY <1>1 DEF CreateSession, FreshVerifyKey
  <2>2. CreateRequestOf(c, "Leader", None, k).verify_key = k
    BY DEF CreateRequestOf
  <2>3. QED
    BY <2>1, <2>2, RequestsSent
<1>2. ASSUME NEW c \in Controller, EndSession(c) \/ StartRound(c)
      PROVE  \E h \in Handler : LeaderMoves(h)
  <2>1. CASE EndSession(c)
    BY <2>1, RequestsSent DEF EndSession, EndRequestOf
  <2>2. CASE StartRound(c)
    BY <2>2, RequestsSent DEF StartRound, StartRequestOf
  <2>3. QED
    BY <1>2, <2>1, <2>2
<1>3. ASSUME NEW c \in Controller, CreateAtHelper(c) \/ EndAtHelper(c) \/ StartAtHelper(c)
      PROVE  \E h \in Handler : LeaderMoves(h)
  <2>1. ctl[c].slot \in Handler
    BY <1>3 DEF CreateAtHelper, EndAtHelper, StartAtHelper, InCall,
                CallersAwait, ControllerAwaits, LeaderHandles
  <2>2. QED
    BY <1>3, <2>1 DEF CreateAtHelper, EndAtHelper, StartAtHelper
<1>4. ASSUME NEW c \in Controller,
             \/ CreateReturns(c) \/ EndReturns(c) \/ StartReturns(c)
             \/ Collect(c) \/ CollectReturns(c) \/ CallFails(c)
      PROVE  UNCHANGED leader
  BY <1>4 DEF CreateReturns, EndReturns, StartReturns, Collect, CollectReturns, CallFails
<1>5. ASSUME NEW i \in Client, Locate(i)
      PROVE  UNCHANGED leader \/ \E h \in Handler : LeaderMoves(h)
  BY <1>5, RequestsSent DEF Locate, InClientCall, GetRequestOf
<1>6. ASSUME NEW i \in Client, HearLeader(i) \/ ClientCallFails(i)
      PROVE  UNCHANGED leader \/ \E h \in Handler : LeaderMoves(h)
  <2>1. CASE InClientCall(i, "ask_leader")
    <3>1. clt[i].slot \in Handler
      BY <2>1 DEF CallersAwait, ClientAwaits, LeaderHandles
    <3>2. QED
      BY <1>6, <2>1, <3>1 DEF HearLeader, ClientCallFails, InClientCall
  <2>2. CASE ~InClientCall(i, "ask_leader")
    BY <1>6, <2>2 DEF HearLeader, ClientCallFails, InClientCall
  <2>3. QED
    BY <2>1, <2>2
<1>7. ASSUME NEW i \in Client, FirstRound(i) \/ AskHelper(i) \/ Learn(i) \/ NextRound(i)
      PROVE  UNCHANGED leader
  BY <1>7 DEF FirstRound, AskHelper, Learn, NextRound
<1>8. ASSUME NEW h \in Handler,
             LeaderRuns(h) \/ LeaderDrops(h) \/ HelperRuns(h) \/ HelperDrops(h)
      PROVE  UNCHANGED leader \/ LeaderMoves(h)
  BY <1>8 DEF LeaderRuns, LeaderDrops, HelperRuns, HelperDrops
<1>9. CASE LeaderRestarts \/ HelperRestarts \/ UNCHANGED vars
  BY <1>9 DEF LeaderRestarts, HelperRestarts, vars
<1>10. QED
  BY <1>1, <1>2, <1>3, <1>4, <1>5, <1>6, <1>7, <1>8, <1>9
     DEF Next, Elsewhere, Calls, ClientCalls

\* So is the helper's.
LEMMA HelperIsManaged ==
    ASSUME SystemInv, [Next]_vars
    PROVE  \/ UNCHANGED helper
           \/ \E h \in Handler : HelperMoves(h)
           \/ H!Restart
<1> USE DEF HelperMoves, SystemInv, CallsInv
<1>1. ASSUME NEW c \in Controller, CreateAtHelper(c)
      PROVE  UNCHANGED helper \/ \E h \in Handler : HelperMoves(h)
  <2>1. CASE LeaderOK(c)
    <3> DEFINE id == lHandler[ctl[c].slot].reply.body
    <3>1. PICK h \in Handler : H!Receive(h, CreateRequestOf(c, "Helper", id, ctl[c].key))
      BY <1>1, <2>1 DEF CreateAtHelper
    <3>2. id \in SessionId
      BY <1>1, <2>1, LeaderAnswersCreate DEF CreateAtHelper
    <3> HIDE DEF id
    <3>3. ctl[c].key \in VerifyKey /\ H!FreshKey(ctl[c].key)
      BY <1>1 DEF CreateAtHelper, InCall, CallRecordsFit, CallRecordFits, TypeOK, ControllerState, KeysFresh
    <3>4. CreateRequestOf(c, "Helper", id, ctl[c].key).verify_key = ctl[c].key
      BY DEF CreateRequestOf
    <3>5. QED
      BY <3>1, <3>2, <3>3, <3>4, RequestsSent
  <2>2. CASE ~LeaderOK(c)
    BY <1>1, <2>2 DEF CreateAtHelper
  <2>3. QED
    BY <2>1, <2>2
<1>2. ASSUME NEW c \in Controller, EndAtHelper(c) \/ StartAtHelper(c)
      PROVE  \E h \in Handler : HelperMoves(h)
  <2>1. CASE EndAtHelper(c)
    BY <2>1, RequestsSent DEF EndAtHelper, EndRequestOf, InCall, CallRecordsFit, CallRecordFits
  <2>2. CASE StartAtHelper(c)
    <3>1. ctl[c].new_task \in TaskId /\ ctl[c].session # None
      BY <2>2 DEF StartAtHelper, InCall, CallRecordsFit, CallRecordFits, TypeOK, ControllerState
    <3>2. QED
      BY <2>2, <3>1, RequestsSent DEF StartAtHelper, StartRequestOf
  <2>3. QED
    BY <1>2, <2>1, <2>2
<1>3. ASSUME NEW c \in Controller, CreateReturns(c) \/ EndReturns(c) \/ StartReturns(c)
      PROVE  \E h \in Handler : HelperMoves(h)
  <2>1. ctl[c].slot \in Handler
    BY <1>3 DEF CreateReturns, EndReturns, StartReturns, InCall,
                CallersAwait, ControllerAwaits, HelperHandles
  <2>2. QED
    BY <1>3, <2>1 DEF CreateReturns, EndReturns, StartReturns
<1>4. ASSUME NEW c \in Controller,
             \/ CreateSession(c) \/ EndSession(c) \/ StartRound(c)
             \/ Collect(c) \/ CollectReturns(c) \/ CallFails(c)
      PROVE  UNCHANGED helper
  BY <1>4 DEF CreateSession, EndSession, StartRound, Collect, CollectReturns, CallFails
<1>5. ASSUME NEW i \in Client, AskHelper(i)
      PROVE  \E h \in Handler : HelperMoves(h)
  BY <1>5, RequestsSent DEF AskHelper, InClientCall, GetRequestOf
<1>6. ASSUME NEW i \in Client, Learn(i) \/ ClientCallFails(i)
      PROVE  UNCHANGED helper \/ \E h \in Handler : HelperMoves(h)
  <2>1. CASE InClientCall(i, "ask_helper")
    <3>1. clt[i].slot \in Handler
      BY <2>1 DEF CallersAwait, ClientAwaits, HelperHandles
    <3>2. QED
      BY <1>6, <2>1, <3>1 DEF Learn, ClientCallFails, InClientCall
  <2>2. CASE ~InClientCall(i, "ask_helper")
    BY <1>6, <2>2 DEF Learn, ClientCallFails, InClientCall
  <2>3. QED
    BY <2>1, <2>2
<1>7. ASSUME NEW i \in Client, FirstRound(i) \/ Locate(i) \/ HearLeader(i) \/ NextRound(i)
      PROVE  UNCHANGED helper
  BY <1>7 DEF FirstRound, Locate, HearLeader, NextRound
<1>8. ASSUME NEW h \in Handler,
             LeaderRuns(h) \/ LeaderDrops(h) \/ HelperRuns(h) \/ HelperDrops(h)
      PROVE  UNCHANGED helper \/ HelperMoves(h)
  BY <1>8 DEF LeaderRuns, LeaderDrops, HelperRuns, HelperDrops
<1>9. CASE LeaderRestarts \/ HelperRestarts \/ UNCHANGED vars
  BY <1>9 DEF LeaderRestarts, HelperRestarts, vars
<1>10. QED
  BY <1>1, <1>2, <1>3, <1>4, <1>5, <1>6, <1>7, <1>8, <1>9
     DEF Next, Elsewhere, Calls, ClientCalls

\* A step of the system is a step of the leader's manager, or none for it.
LEMMA LeaderNext ==
    ASSUME SystemInv, [Next]_vars
    PROVE  [L!Next]_(L!vars) /\ [LP!Next]_(LP!vars)
<1>1. CASE UNCHANGED leader
  BY <1>1 DEF leader, L!vars, LP!vars
<1>2. ASSUME NEW h \in Handler, LeaderMoves(h)
      PROVE  L!Next /\ LP!Next
  BY <1>2, LeaderMovesSame, LeaderStepSame, LeaderFreshKeySame
     DEF LeaderMoves, L!Next, LP!Next, L!Arrive, LP!Arrive
<1>3. CASE L!Restart
  BY <1>3, LeaderMovesSame DEF L!Next, LP!Next
<1>4. QED
  BY <1>1, <1>2, <1>3, LeaderIsManaged

\* Its invariants are kept.
LEMMA LeaderInvStep ==
    ASSUME SystemInv, [Next]_vars
    PROVE  L!TypeOK' /\ L!IInv' /\ L!CallerInv'
<1>1. LP!IInv /\ LP!CallerInv /\ [LP!Next]_(LP!vars)
  BY LeaderNext, LeaderInvSame DEF SystemInv, CallsInv
<1>2. LP!IInv' /\ LP!CallerInv'
  BY <1>1, LeaderAssumptions, LP!NextIInv, LP!NextCallerInv
<1>3. QED
  BY <1>2, LeaderInvSame, LeaderInvParts DEF LP!IInv

\* A step of the system is a step of the helper's manager, or none for it.
LEMMA HelperNext ==
    ASSUME SystemInv, [Next]_vars
    PROVE  [H!Next]_(H!vars) /\ [HP!Next]_(HP!vars)
<1>1. CASE UNCHANGED helper
  BY <1>1 DEF helper, H!vars, HP!vars
<1>2. ASSUME NEW h \in Handler, HelperMoves(h)
      PROVE  H!Next /\ HP!Next
  BY <1>2, HelperMovesSame, HelperStepSame, HelperFreshKeySame
     DEF HelperMoves, H!Next, HP!Next, H!Arrive, HP!Arrive
<1>3. CASE H!Restart
  BY <1>3, HelperMovesSame DEF H!Next, HP!Next
<1>4. QED
  BY <1>1, <1>2, <1>3, HelperIsManaged

\* Its invariants are kept.
LEMMA HelperInvStep ==
    ASSUME SystemInv, [Next]_vars
    PROVE  H!TypeOK' /\ H!IInv' /\ H!CallerInv'
<1>1. HP!IInv /\ HP!CallerInv /\ [HP!Next]_(HP!vars)
  BY HelperNext, HelperInvSame DEF SystemInv, CallsInv
<1>2. HP!IInv' /\ HP!CallerInv'
  BY <1>1, HelperAssumptions, HP!NextIInv, HP!NextCallerInv
<1>3. QED
  BY <1>2, HelperInvSame, HelperInvParts DEF HP!IInv

-----------------------------------------------------------------------------
(* The controllers and the clients                                         *)

\* A controller acts for itself; a restart ends its call at the manager.
LEMMA ControllerActs ==
    ASSUME TypeOK, [Next]_vars, NEW c \in Controller, ctl'[c] # ctl[c]
    PROVE  \/ Calls(c)
           \/ LeaderRestarts /\ ctl[c].pc \in LeaderCall /\ ctl'[c] = Failed(c)
           \/ HelperRestarts /\ ctl[c].pc \in HelperCall /\ ctl'[c] = Failed(c)
<1> USE DEF TypeOK, Await, Return, ReturnError
<1>1. ASSUME NEW d \in Controller, d # c, Calls(d) PROVE FALSE
  <2>1. CASE CreateSession(d) \/ CreateAtHelper(d) \/ CreateReturns(d)
    BY <1>1, <2>1 DEF CreateSession, CreateAtHelper, CreateReturns
  <2>2. CASE EndSession(d) \/ EndAtHelper(d) \/ EndReturns(d)
    BY <1>1, <2>2 DEF EndSession, EndAtHelper, EndReturns
  <2>3. CASE StartRound(d) \/ StartAtHelper(d) \/ StartReturns(d)
    BY <1>1, <2>3 DEF StartRound, StartAtHelper, StartReturns
  <2>4. CASE Collect(d) \/ CollectReturns(d) \/ CallFails(d)
    BY <1>1, <2>4 DEF Collect, CollectReturns, CallFails
  <2>5. QED
    BY <1>1, <2>1, <2>2, <2>3, <2>4 DEF Calls
<1>2. ASSUME NEW i \in Client, ClientCalls(i) PROVE FALSE
  BY <1>2 DEF ClientCalls, FirstRound, Locate, HearLeader, AskHelper, Learn,
              NextRound, ClientCallFails
<1>3. ASSUME NEW h \in Handler,
             LeaderRuns(h) \/ HelperRuns(h) \/ LeaderDrops(h) \/ HelperDrops(h)
      PROVE  FALSE
  BY <1>3 DEF LeaderRuns, HelperRuns, LeaderDrops, HelperDrops
<1>4. CASE LeaderRestarts \/ HelperRestarts
  BY <1>4 DEF LeaderRestarts, HelperRestarts
<1>5. ~UNCHANGED vars
  BY DEF vars
<1>6. QED
  BY <1>1, <1>2, <1>3, <1>4, <1>5 DEF Next, Elsewhere

LEMMA ClientActs ==
    ASSUME TypeOK, [Next]_vars, NEW i \in Client, clt'[i] # clt[i]
    PROVE  \/ ClientCalls(i)
           \/ LeaderRestarts /\ InClientCall(i, "ask_leader") /\ clt'[i] = ClientFailed(i)
           \/ HelperRestarts /\ InClientCall(i, "ask_helper") /\ clt'[i] = ClientFailed(i)
<1> USE DEF TypeOK, SetClient
<1>1. ASSUME NEW j \in Client, j # i, ClientCalls(j) PROVE FALSE
  BY <1>1 DEF ClientCalls, FirstRound, Locate, HearLeader, AskHelper, Learn,
              NextRound, ClientCallFails
<1>2. ASSUME NEW c \in Controller, Calls(c) PROVE FALSE
  BY <1>2 DEF Calls, CreateSession, CreateAtHelper, CreateReturns, EndSession,
              EndAtHelper, EndReturns, StartRound, StartAtHelper, StartReturns,
              Collect, CollectReturns, CallFails
<1>3. ASSUME NEW h \in Handler,
             LeaderRuns(h) \/ HelperRuns(h) \/ LeaderDrops(h) \/ HelperDrops(h)
      PROVE  FALSE
  BY <1>3 DEF LeaderRuns, HelperRuns, LeaderDrops, HelperDrops
<1>4. CASE LeaderRestarts \/ HelperRestarts
  BY <1>4 DEF LeaderRestarts, HelperRestarts
<1>5. ~UNCHANGED vars
  BY DEF vars
<1>6. QED
  BY <1>1, <1>2, <1>3, <1>4, <1>5 DEF Next, Elsewhere

LEMMA FailedType ==
    ASSUME TypeOK, NEW c \in Controller
    PROVE  /\ Failed(c) \in ControllerState
           /\ Failed(c).pc = "idle"
           /\ Failed(c).key = None /\ Failed(c).id = None /\ Failed(c).new_task = None
           /\ Failed(c).session = ctl[c].session /\ Failed(c).task = ctl[c].task
           /\ Failed(c).slot = None /\ Failed(c).leader_ok = FALSE
BY DEF TypeOK, ControllerState, Failed, NoCall

LEMMA SetControllerType ==
    ASSUME SystemInv, NEW c \in Controller,
           NEW state \in ControllerState, CallRecordFits(state),
           ctl' = [ctl EXCEPT ![c] = state]
    PROVE  ctl' \in [Controller -> ControllerState] /\ CallRecordsFit'
<1>1. /\ ctl \in [Controller -> ControllerState]
      /\ \A d \in Controller : CallRecordFits(ctl[d])
  BY DEF SystemInv, CallsInv, TypeOK, CallRecordsFit
<1>2. \A d \in Controller : ctl'[d] = IF d = c THEN state ELSE ctl[d]
  BY <1>1
<1>3. \A d \in Controller : CallRecordFits(ctl'[d])
  BY <1>1, <1>2
<1>4. QED
  BY <1>1, <1>3 DEF CallRecordsFit, CallRecordFits

LEMMA AwaitType ==
    ASSUME NEW c \in Controller, NEW s \in ControllerState, NEW h \in Handler,
           NEW pc \in LeaderCall \cup HelperCall
    PROVE  LET new == [s EXCEPT !.pc = pc, !.slot = h] IN
           /\ new \in ControllerState
           /\ new.pc = pc
           /\ new.key = s.key /\ new.id = s.id /\ new.new_task = s.new_task
           /\ new.session = s.session
BY DEF ControllerState

LEMMA NoCallType ==
    ASSUME NEW session \in SessionId \cup {None}, NEW task \in TaskId \cup {None}
    PROVE  NoCall(session, task) \in ControllerState /\ CallRecordFits(NoCall(session, task))
BY DEF NoCall, ControllerState, CallRecordFits

\* What a controller knows fits the point its call is at.
LEMMA ControllerTypesStep ==
    ASSUME SystemInv, [Next]_vars
    PROVE  ctl' \in [Controller -> ControllerState] /\ CallRecordsFit'
<1> DEFINE Goal == ctl' \in [Controller -> ControllerState] /\ CallRecordsFit'
<1>1. \A c \in Controller :
         /\ ctl[c] \in ControllerState
         /\ CallRecordFits(ctl[c])
         /\ ctl[c].session \in SessionId \cup {None}
         /\ ctl[c].task \in TaskId \cup {None}
         /\ ctl[c].id \in SessionId \cup {None}
         /\ ctl[c].new_task \in TaskId \cup {None}
  BY DEF SystemInv, CallsInv, TypeOK, CallRecordsFit, ControllerState
<1>2. ASSUME NEW c \in Controller, NEW s \in ControllerState, NEW h \in Handler,
             NEW pc \in LeaderCall \cup HelperCall,
             s.key # None <=> pc \in {"create_leader", "create_helper"},
             s.id # None <=> pc = "create_helper",
             s.new_task # None <=> pc \in {"round_leader", "round_helper"},
             pc \in {"end_leader", "end_helper", "round_leader", "round_helper"}
                => s.session # None,
             Await(c, s, pc, h)
      PROVE  Goal
  <2> DEFINE new == [s EXCEPT !.pc = pc, !.slot = h]
  <2>1. /\ new \in ControllerState
        /\ new.pc = pc
        /\ new.key = s.key /\ new.id = s.id /\ new.new_task = s.new_task
        /\ new.session = s.session
    BY <1>2, AwaitType
  <2>2. ctl' = [ctl EXCEPT ![c] = new]
    BY <1>2 DEF Await
  <2> HIDE DEF new
  <2>3. CallRecordFits(new)
    BY <1>2, <2>1 DEF CallRecordFits
  <2>4. QED
    BY <2>1, <2>2, <2>3, SetControllerType
<1>3. ASSUME NEW c \in Controller, NEW session \in SessionId \cup {None},
             NEW task \in TaskId \cup {None}, Return(c, session, task)
      PROVE  Goal
  BY <1>3, NoCallType, SetControllerType DEF Return
<1>4. ASSUME NEW c \in Controller, CreateSession(c) PROVE Goal
  <2>1. PICK k \in VerifyKey, h \in Handler :
           Await(c, [ctl[c] EXCEPT !.key = k], "create_leader", h)
    BY <1>4 DEF CreateSession
  <2>2. /\ [ctl[c] EXCEPT !.key = k] \in ControllerState
        /\ [ctl[c] EXCEPT !.key = k].key = k
        /\ [ctl[c] EXCEPT !.key = k].id = ctl[c].id
        /\ [ctl[c] EXCEPT !.key = k].new_task = ctl[c].new_task
    BY <1>1 DEF ControllerState
  <2>3. ctl[c].id = None /\ ctl[c].new_task = None
    BY <1>1, <1>4 DEF CallRecordFits, CreateSession, InCall
  <2>4. QED
    BY <1>2, <2>1, <2>2, <2>3, NoneAssumption DEF LeaderCall
<1>5. ASSUME NEW c \in Controller, CreateAtHelper(c) PROVE Goal
  <2>1. CASE LeaderOK(c)
    <3> DEFINE id == lHandler[ctl[c].slot].reply.body
               s == [ctl[c] EXCEPT !.id = id]
    <3>1. PICK h \in Handler : Await(c, s, "create_helper", h)
      BY <1>5, <2>1 DEF CreateAtHelper
    <3>2. id \in SessionId
      BY <1>5, <2>1, LeaderAnswersCreate DEF CreateAtHelper
    <3> HIDE DEF id
    <3>3. /\ s \in ControllerState
          /\ s.id = id /\ s.key = ctl[c].key /\ s.new_task = ctl[c].new_task
      BY <1>1, <3>2 DEF ControllerState
    <3>4. ctl[c].key # None /\ ctl[c].new_task = None
      BY <1>1, <1>5 DEF CallRecordFits, CreateAtHelper, InCall
    <3> HIDE DEF s
    <3>5. QED
      BY <1>2, <3>1, <3>2, <3>3, <3>4, NoneAssumption DEF HelperCall
  <2>2. CASE ~LeaderOK(c)
    BY <1>1, <1>3, <1>5, <2>2 DEF CreateAtHelper, ReturnError
  <2>3. QED
    BY <2>1, <2>2
<1>6. ASSUME NEW c \in Controller, EndSession(c) PROVE Goal
  BY <1>1, <1>2, <1>6 DEF EndSession, CallRecordFits, InCall, LeaderCall
<1>7. ASSUME NEW c \in Controller, StartRound(c) PROVE Goal
  <2>1. PICK t \in TaskId, h \in Handler :
           Await(c, [ctl[c] EXCEPT !.new_task = t], "round_leader", h)
    BY <1>7 DEF StartRound
  <2> DEFINE s == [ctl[c] EXCEPT !.new_task = t]
  <2>2. /\ s \in ControllerState /\ s.new_task = t /\ s.id = ctl[c].id
        /\ s.key = ctl[c].key /\ s.session = ctl[c].session
    BY <1>1 DEF ControllerState
  <2>3. ctl[c].id = None /\ ctl[c].key = None /\ ctl[c].session # None
    BY <1>1, <1>7 DEF CallRecordFits, StartRound, InCall
  <2> HIDE DEF s
  <2>4. QED
    BY <1>2, <2>1, <2>2, <2>3, NoneAssumption DEF LeaderCall, s
<1>8. ASSUME NEW c \in Controller, EndAtHelper(c) \/ StartAtHelper(c) PROVE Goal
  <2> DEFINE s == [ctl[c] EXCEPT !.leader_ok = LeaderOK(c)]
  <2>1. PICK pc \in {"end_helper", "round_helper"}, h \in Handler :
           /\ Await(c, s, pc, h)
           /\ pc = "end_helper" => InCall(c, "end_leader")
           /\ pc = "round_helper" => InCall(c, "round_leader")
    BY <1>8 DEF EndAtHelper, StartAtHelper
  <2>2. LeaderOK(c) \in BOOLEAN
    BY DEF LeaderOK
  <2>3. /\ s \in ControllerState /\ s.new_task = ctl[c].new_task
        /\ s.id = ctl[c].id /\ s.key = ctl[c].key /\ s.session = ctl[c].session
    BY <1>1, <2>2 DEF ControllerState
  <2> HIDE DEF s
  <2>4. QED
    BY <1>1, <1>2, <2>1, <2>3 DEF CallRecordFits, InCall, HelperCall
<1>9. ASSUME NEW c \in Controller,
             CreateReturns(c) \/ EndReturns(c) \/ StartReturns(c)
      PROVE  Goal
  BY <1>1, <1>3, <1>9 DEF CreateReturns, EndReturns, StartReturns, ReturnError
<1>10. ASSUME NEW c \in Controller, Collect(c) PROVE Goal
  <2>1. /\ [ctl[c] EXCEPT !.pc = "collect"] \in ControllerState
        /\ CallRecordFits([ctl[c] EXCEPT !.pc = "collect"])
    BY <1>1, <1>10 DEF ControllerState, CallRecordFits, Collect, InCall
  <2>2. ctl' = [ctl EXCEPT ![c] = [ctl[c] EXCEPT !.pc = "collect"]]
    BY <1>10 DEF Collect
  <2>3. QED
    BY <2>1, <2>2, SetControllerType
<1>11. ASSUME NEW c \in Controller, CollectReturns(c) \/ CallFails(c) PROVE Goal
  BY <1>1, <1>3, <1>11 DEF CollectReturns, CallFails, ReturnError
<1>12. CASE LeaderRestarts \/ HelperRestarts
  <2>1. \A c \in Controller : Failed(c) \in ControllerState /\ CallRecordFits(Failed(c))
    BY <1>1, NoCallType DEF Failed
  <2>2. /\ ctl' = [c \in Controller |-> ctl'[c]]
        /\ \A c \in Controller : ctl'[c] \in {ctl[c], Failed(c)}
    BY <1>12 DEF LeaderRestarts, HelperRestarts
  <2>3. \A c \in Controller : ctl'[c] \in ControllerState /\ CallRecordFits(ctl'[c])
    BY <1>1, <2>1, <2>2
  <2>4. QED
    BY <2>2, <2>3 DEF CallRecordsFit, CallRecordFits
<1>13. CASE UNCHANGED ctl
  BY <1>13 DEF SystemInv, CallsInv, TypeOK, CallRecordsFit, CallRecordFits
<1>14. QED
  BY <1>4, <1>5, <1>6, <1>7, <1>8, <1>9, <1>10, <1>11, <1>12, <1>13
     DEF Next, Elsewhere, Calls, ClientCalls, FirstRound, Locate, HearLeader,
         AskHelper, Learn, NextRound, ClientCallFails, LeaderRuns, HelperRuns,
         LeaderDrops, HelperDrops, vars

\* A manager that answers a client with a parameter knows the task.
LEMMA LeaderAnswersGet ==
    ASSUME SystemInv, NEW i \in Client, InClientCall(i, "ask_leader"),
           L!Deliver(clt[i].slot), lHandler[clt[i].slot].reply.body # None
    PROVE  LET body == lHandler[clt[i].slot].reply.body IN
           /\ body \in VdafParameter
           /\ lStore[clt[i].task] # None
           /\ lStore[clt[i].task].vdaf = ToVdafInstance(body)
<1> DEFINE h == clt[i].slot
<1>1. h \in Handler /\ lHandler[h].req = GetRequestOf(clt[i].task)
  BY DEF SystemInv, CallsInv, CallersAwait, ClientAwaits, LeaderHandles
<1>2. lHandler[h].req.op = "get_vdaf_parameter" /\ lHandler[h].req.task_id = clt[i].task
  BY <1>1 DEF GetRequestOf
<1>3. L!AnswerFits(h) /\ L!RepliesSound
  BY <1>1 DEF SystemInv, CallsInv, L!CallerInv, L!AnswersFit, L!IInv
<1>4. /\ lHandler[h].pc = "replied"
      /\ lHandler[h].reply.status = "OK"
      /\ lHandler[h].reply.body \in L!VdafParameter
  BY <1>2, <1>3 DEF L!Deliver, L!At, L!AnswerFits
<1>5. QED
  BY <1>1, <1>2, <1>3, <1>4
     DEF L!RepliesSound, L!At, L!ToVdafInstance, ToVdafInstance, L!VdafParameter,
         VdafParameter, L!FixedTypeTag, FixedTypeTag

LEMMA HelperAnswersGet ==
    ASSUME SystemInv, NEW i \in Client, InClientCall(i, "ask_helper"),
           hHandler[clt[i].slot].pc = "replied", hHandler[clt[i].slot].reply.body # None
    PROVE  LET body == hHandler[clt[i].slot].reply.body IN
           /\ body \in VdafParameter
           /\ hStore[clt[i].task] # None
           /\ hStore[clt[i].task].vdaf = ToVdafInstance(body)
<1> DEFINE h == clt[i].slot
<1>1. h \in Handler /\ hHandler[h].req = GetRequestOf(clt[i].task)
  BY DEF SystemInv, CallsInv, CallersAwait, ClientAwaits, HelperHandles
<1>2. hHandler[h].req.op = "get_vdaf_parameter" /\ hHandler[h].req.task_id = clt[i].task
  BY <1>1 DEF GetRequestOf
<1>3. H!AnswerFits(h) /\ H!RepliesSound
  BY <1>1 DEF SystemInv, CallsInv, H!CallerInv, H!AnswersFit, H!IInv
<1>4. /\ hHandler[h].reply.status = "OK"
      /\ hHandler[h].reply.body \in H!VdafParameter
  BY <1>2, <1>3 DEF H!At, H!AnswerFits
<1>5. QED
  BY <1>1, <1>2, <1>3, <1>4
     DEF H!RepliesSound, H!At, H!ToVdafInstance, ToVdafInstance, H!VdafParameter,
         VdafParameter, H!FixedTypeTag, FixedTypeTag

\* Every variable keeps its type.
LEMMA TypesStep ==
    ASSUME SystemInv, [Next]_vars
    PROVE  TypeOK'
<1>0. /\ clt \in [Client -> ClientState]
      /\ \A c \in Controller : ctl[c].task \in TaskId \cup {None}
      /\ main \in [leader : Location, helper : Location]
  BY DEF SystemInv, CallsInv, TypeOK, ControllerState
<1> DEFINE Goal == clt' \in [Client -> ClientState]
<1>1. ASSUME NEW i \in Client, NEW state \in ClientState, SetClient(i, state) PROVE Goal
  BY <1>0, <1>1 DEF SetClient
<1>2. ASSUME NEW i \in Client
      PROVE  clt[i] \in ClientState /\ ClientFailed(i) \in ClientState
  BY <1>0 DEF ClientState, ClientFailed
<1>3. ASSUME NEW i \in Client, FirstRound(i) PROVE Goal
  <2>1. PICK c \in Controller :
           SetClient(i, [clt[i] EXCEPT !.pc = "locate", !.task = ctl[c].task,
                                       !.location = main["leader"]])
    BY <1>3 DEF FirstRound, GetMainLocations
  <2>2. main["leader"] \in Location
    BY <1>0
  <2>3. [clt[i] EXCEPT !.pc = "locate", !.task = ctl[c].task,
                       !.location = main["leader"]] \in ClientState
    BY <1>0, <1>2, <2>2 DEF ClientState
  <2>4. QED
    BY <1>1, <2>1, <2>3
<1>4. ASSUME NEW i \in Client, Locate(i) PROVE Goal
  <2>1. \A h \in Handler : [clt[i] EXCEPT !.pc = "ask_leader", !.slot = h] \in ClientState
    BY <1>2 DEF ClientState
  <2>2. QED
    BY <1>1, <1>2, <1>4, <2>1 DEF Locate
<1>5. ASSUME NEW i \in Client, HearLeader(i) PROVE Goal
  <2> DEFINE param == lHandler[clt[i].slot].reply.body
  <2>1. CASE param # None
    <3>1. param \in VdafParameter
      BY <1>5, <2>1, LeaderAnswersGet DEF HearLeader
    <3>2. [clt[i] EXCEPT !.pc = "leader_known", !.slot = None,
                         !.leader_param = param] \in ClientState
      BY <1>2, <3>1 DEF ClientState
    <3>3. QED
      BY <1>1, <1>5, <2>1, <3>2 DEF HearLeader
  <2>2. CASE param = None
    BY <1>1, <1>2, <1>5, <2>2 DEF HearLeader
  <2>3. QED
    BY <2>1, <2>2
<1>6. ASSUME NEW i \in Client, AskHelper(i) PROVE Goal
  <2>1. \A h \in Handler : [clt[i] EXCEPT !.pc = "ask_helper", !.slot = h] \in ClientState
    BY <1>2 DEF ClientState
  <2>2. QED
    BY <1>1, <1>6, <2>1 DEF AskHelper
<1>7. ASSUME NEW i \in Client, Learn(i) \/ NextRound(i) PROVE Goal
  <2>1. [clt[i] EXCEPT !.pc = "idle", !.slot = None,
              !.parametrization = clt[i].leader_param, !.learned_for = clt[i].task,
              !.leader_param = None] \in ClientState
    BY <1>2 DEF ClientState
  <2>2. \A c \in Controller : [clt[i] EXCEPT !.task = ctl[c].task] \in ClientState
    BY <1>0, <1>2 DEF ClientState
  <2>3. QED
    BY <1>1, <1>2, <1>7, <2>1, <2>2 DEF Learn, NextRound
<1>8. ASSUME NEW i \in Client, ClientCallFails(i) PROVE Goal
  BY <1>1, <1>2, <1>8 DEF ClientCallFails
<1>9. ASSUME LeaderRestarts \/ HelperRestarts PROVE Goal
  <2>1. /\ clt' = [i \in Client |-> clt'[i]]
        /\ \A i \in Client : clt'[i] \in {clt[i], ClientFailed(i)}
    BY <1>9 DEF LeaderRestarts, HelperRestarts
  <2>2. \A i \in Client : clt'[i] \in ClientState
    BY <1>2, <2>1
  <2>3. QED
    BY <2>1, <2>2
<1>10. ASSUME UNCHANGED clt PROVE Goal
  BY <1>0, <1>10
<1>11. Goal
  BY <1>3, <1>4, <1>5, <1>6, <1>7, <1>8, <1>9, <1>10
     DEF Next, Elsewhere, Calls, ClientCalls, CreateSession, CreateAtHelper,
         CreateReturns, EndSession, EndAtHelper, EndReturns, StartRound,
         StartAtHelper, StartReturns, Collect, CollectReturns, CallFails,
         LeaderRuns, HelperRuns, LeaderDrops, HelperDrops, vars
<1>12. main' \in [leader : Location, helper : Location]
  <2>1. ASSUME LeaderRestarts \/ HelperRestarts
        PROVE  main' \in [leader : Location, helper : Location]
    BY <1>0, <2>1 DEF LeaderRestarts, HelperRestarts
  <2>2. ASSUME UNCHANGED main
        PROVE  main' \in [leader : Location, helper : Location]
    BY <1>0, <2>2
  <2>3. QED
    BY <2>1, <2>2
       DEF Next, Elsewhere, Calls, ClientCalls, CreateSession, CreateAtHelper,
           CreateReturns, EndSession, EndAtHelper, EndReturns, StartRound,
           StartAtHelper, StartReturns, Collect, CollectReturns, CallFails,
           FirstRound, Locate, HearLeader, AskHelper, Learn, NextRound,
           ClientCallFails, LeaderRuns, HelperRuns, LeaderDrops, HelperDrops, vars
<1>13. QED
  BY <1>11, <1>12, ControllerTypesStep, LeaderInvStep, HelperInvStep DEF TypeOK

-----------------------------------------------------------------------------
(* Who waits, and for what                                                 *)

\* A handler at the leader goes on with its request until somebody takes the
\* answer or gives it up.
LEMMA LeaderFrees ==
    ASSUME SystemInv, [Next]_vars, NEW h \in Handler, lHandler[h].pc # "idle"
    PROVE  \/ /\ lHandler'[h].pc # "idle"
              /\ lHandler'[h].req = lHandler[h].req
              /\ lHandler[h].pc = "replied" => lHandler'[h] = lHandler[h]
           \/ \E c \in Controller : ctl[c].slot = h /\ ctl[c].pc \in LeaderCall /\ ctl'[c] # ctl[c]
           \/ \E i \in Client : clt[i].slot = h /\ InClientCall(i, "ask_leader") /\ clt'[i] # clt[i]
           \/ h \notin AwaitedAtLeader
           \/ LeaderRestarts
<1> DEFINE Kept == /\ lHandler'[h].pc # "idle"
                   /\ lHandler'[h].req = lHandler[h].req
                   /\ lHandler[h].pc = "replied" => lHandler'[h] = lHandler[h]
           Taken == \E c \in Controller :
                       ctl[c].slot = h /\ ctl[c].pc \in LeaderCall /\ ctl'[c] # ctl[c]
           Given == \E i \in Client :
                       clt[i].slot = h /\ InClientCall(i, "ask_leader") /\ clt'[i] # clt[i]
<1>0. /\ L!TypeOK /\ L!IInv /\ L!CallerInv
      /\ ctl \in [Controller -> ControllerState]
      /\ clt \in [Client -> ClientState]
  BY DEF SystemInv, CallsInv, TypeOK
<1>1. ASSUME UNCHANGED leader PROVE Kept
  BY <1>1 DEF leader
<1>2. ASSUME NEW g \in Handler, NEW req, L!Receive(g, req) PROVE Kept
  BY <1>0, <1>2, LeaderConnections
<1>3. ASSUME NEW g \in Handler, L!Deliver(g) \/ L!Disconnect(g), g # h PROVE Kept
  BY <1>0, <1>3, LeaderConnections
<1>4. ASSUME NEW g \in Handler, L!Step(g) PROVE Kept
  BY <1>0, <1>4, LeaderStep
<1>5. ASSUME NEW c \in Controller, CreateSession(c) \/ EndSession(c) \/ StartRound(c) PROVE Kept
  BY <1>1, <1>2, <1>5 DEF CreateSession, EndSession, StartRound
<1>6. ASSUME NEW c \in Controller, CreateAtHelper(c) \/ EndAtHelper(c) \/ StartAtHelper(c)
      PROVE  Kept \/ Taken
  <2>1. L!Deliver(ctl[c].slot)
    BY <1>6 DEF CreateAtHelper, EndAtHelper, StartAtHelper
  <2>2. ctl[c].slot \in Handler /\ ctl[c].pc \in LeaderCall
    BY <1>6 DEF CreateAtHelper, EndAtHelper, StartAtHelper, InCall, LeaderCall, SystemInv, CallsInv, CallersAwait,
                ControllerAwaits, LeaderHandles
  <2>3. ctl'[c].pc \notin LeaderCall
    <3>1. CASE CreateAtHelper(c)
      <4>1. CASE LeaderOK(c)
        <5> DEFINE s == [ctl[c] EXCEPT !.id = lHandler[ctl[c].slot].reply.body]
        <5>1. PICK g \in Handler :
                 ctl' = [ctl EXCEPT ![c] = [s EXCEPT !.pc = "create_helper", !.slot = g]]
          BY <3>1, <4>1 DEF CreateAtHelper, Await
        <5>2. s = [ctl[c] EXCEPT !.id = s.id]
          BY <1>0 DEF ControllerState
        <5> HIDE DEF s
        <5>3. [s EXCEPT !.pc = "create_helper", !.slot = g].pc = "create_helper"
          BY <1>0, <5>2 DEF ControllerState
        <5>4. QED
          BY <1>0, <5>1, <5>3 DEF LeaderCall
      <4>2. CASE ~LeaderOK(c)
        BY <1>0, <3>1, <4>2 DEF CreateAtHelper, Return, ReturnError, NoCall, LeaderCall
      <4>3. QED
        BY <4>1, <4>2
    <3>2. CASE EndAtHelper(c)
      BY <1>0, <3>2 DEF EndAtHelper, Await, Return, ReturnError, NoCall, LeaderCall,
                          ControllerState
    <3>3. CASE StartAtHelper(c)
      BY <1>0, <3>3 DEF StartAtHelper, Await, Return, ReturnError, NoCall, LeaderCall,
                          ControllerState
    <3>4. QED
      BY <1>6, <3>1, <3>2, <3>3
  <2>4. CASE ctl[c].slot = h
    BY <2>2, <2>3, <2>4
  <2>5. CASE ctl[c].slot # h
    BY <1>3, <2>1, <2>2, <2>5
  <2>6. QED
    BY <2>4, <2>5
<1>7. ASSUME NEW c \in Controller,
             \/ CreateReturns(c) \/ EndReturns(c) \/ StartReturns(c)
             \/ Collect(c) \/ CollectReturns(c) \/ CallFails(c)
      PROVE  Kept
  BY <1>1, <1>7 DEF CreateReturns, EndReturns, StartReturns, Collect, CollectReturns, CallFails
<1>8. ASSUME NEW i \in Client, Locate(i) PROVE Kept
  BY <1>1, <1>2, <1>8 DEF Locate
<1>9. ASSUME NEW i \in Client, HearLeader(i) \/ ClientCallFails(i)
      PROVE  Kept \/ Given
  <2>1. CASE InClientCall(i, "ask_leader")
    <3>1. clt[i].slot \in Handler
      BY <2>1 DEF SystemInv, CallsInv, CallersAwait, ClientAwaits, LeaderHandles
    <3>2. L!Deliver(clt[i].slot) \/ L!Disconnect(clt[i].slot)
      BY <1>9, <2>1 DEF HearLeader, ClientCallFails, InClientCall
    <3>3. clt'[i].pc # "ask_leader"
      <4>1. CASE HearLeader(i)
        BY <1>0, <2>1, <4>1 DEF HearLeader, SetClient, ClientFailed, ClientState
      <4>2. CASE ClientCallFails(i)
        BY <1>0, <4>2 DEF ClientCallFails, SetClient, ClientFailed, ClientState
      <4>3. QED
        BY <1>9, <4>1, <4>2
    <3>4. CASE clt[i].slot = h
      BY <2>1, <3>3, <3>4 DEF InClientCall
    <3>5. CASE clt[i].slot # h
      BY <1>3, <3>1, <3>2, <3>5
    <3>6. QED
      BY <3>4, <3>5
  <2>2. CASE ~InClientCall(i, "ask_leader")
    BY <1>1, <1>9, <2>2 DEF HearLeader, ClientCallFails, InClientCall
  <2>3. QED
    BY <2>1, <2>2
<1>10. ASSUME NEW i \in Client, FirstRound(i) \/ AskHelper(i) \/ Learn(i) \/ NextRound(i)
      PROVE  Kept
  BY <1>1, <1>10 DEF FirstRound, AskHelper, Learn, NextRound
<1>11. ASSUME NEW g \in Handler, LeaderRuns(g) \/ HelperRuns(g) \/ HelperDrops(g)
      PROVE  Kept
  BY <1>1, <1>4, <1>11 DEF LeaderRuns, HelperRuns, HelperDrops
<1>12. ASSUME NEW g \in Handler, LeaderDrops(g)
      PROVE  Kept \/ h \notin AwaitedAtLeader
  BY <1>3, <1>12 DEF LeaderDrops
<1>13. ASSUME HelperRestarts \/ UNCHANGED vars PROVE Kept
  BY <1>1, <1>13 DEF HelperRestarts, vars
<1>14. QED
  BY <1>5, <1>6, <1>7, <1>8, <1>9, <1>10, <1>11, <1>12, <1>13
     DEF Next, Elsewhere, Calls, ClientCalls

\* So a handler that somebody goes on to wait for goes on.
LEMMA LeaderKeepsAwaited ==
    ASSUME SystemInv, [Next]_vars
    PROVE  /\ \A c \in Controller : ctl[c].pc \in LeaderCall /\ ctl'[c] = ctl[c] =>
                 LET h == ctl[c].slot IN
                 /\ h \in Handler
                 /\ lHandler'[h].pc # "idle"
                 /\ lHandler'[h].req = lHandler[h].req
                 /\ lHandler[h].pc = "replied" => lHandler'[h] = lHandler[h]
           /\ \A i \in Client : InClientCall(i, "ask_leader") /\ clt'[i] = clt[i] =>
                 LET h == clt[i].slot IN
                 /\ h \in Handler
                 /\ lHandler'[h].pc # "idle"
                 /\ lHandler'[h].req = lHandler[h].req
                 /\ lHandler[h].pc = "replied" => lHandler'[h] = lHandler[h]
<1>1. ASSUME NEW c \in Controller, ctl[c].pc \in LeaderCall
      PROVE  /\ ctl[c].slot \in Handler
             /\ lHandler[ctl[c].slot].pc # "idle"
             /\ lHandler[ctl[c].slot].req.op # "get_vdaf_parameter"
             /\ ctl[c].slot \in AwaitedAtLeader
             /\ LeaderRestarts => ctl'[c].pc \notin LeaderCall
  <2>1. ControllerAwaits(c)
    BY DEF SystemInv, CallsInv, CallersAwait
  <2>2. ctl[c].slot \in AwaitedAtLeader
    BY <1>1 DEF AwaitedAtLeader
  <2>3. LeaderRestarts => ctl'[c].pc \notin LeaderCall
    BY <1>1 DEF LeaderRestarts, Failed, NoCall, LeaderCall
  <2>4. QED
    BY <1>1, <2>1, <2>2, <2>3
       DEF ControllerAwaits, LeaderHandles, LeaderCall, InCall, CreateRequestOf,
           EndRequestOf, StartRequestOf
<1>2. ASSUME NEW i \in Client, InClientCall(i, "ask_leader")
      PROVE  /\ clt[i].slot \in Handler
             /\ lHandler[clt[i].slot].pc # "idle"
             /\ lHandler[clt[i].slot].req.op = "get_vdaf_parameter"
             /\ clt[i].slot \in AwaitedAtLeader
             /\ LeaderRestarts => clt'[i] # clt[i]
  <2>1. ClientAwaits(i) /\ clt[i] \in ClientState
    BY DEF SystemInv, CallsInv, CallersAwait, TypeOK
  <2>2. clt[i].slot \in AwaitedAtLeader
    BY <1>2 DEF AwaitedAtLeader, InClientCall
  <2>3. LeaderRestarts => clt'[i] # clt[i]
    BY <1>2, <2>1 DEF LeaderRestarts, ClientFailed, ClientState, InClientCall
  <2>4. QED
    BY <1>2, <2>1, <2>2, <2>3 DEF ClientAwaits, LeaderHandles, GetRequestOf
<1>3. \A c, d \in Controller :
         ctl[c].pc \in LeaderCall /\ ctl[d].pc \in LeaderCall /\ ctl[c].slot = ctl[d].slot => c = d
  BY DEF SystemInv, CallsInv, OneCallerPerHandler
<1>4. \A i, j \in Client :
         InClientCall(i, "ask_leader") /\ InClientCall(j, "ask_leader") /\ clt[i].slot = clt[j].slot => i = j
  BY DEF SystemInv, CallsInv, OneCallerPerHandler, InClientCall
<1>5. ASSUME NEW c \in Controller, ctl[c].pc \in LeaderCall, ctl'[c] = ctl[c]
      PROVE  LET h == ctl[c].slot IN
             /\ lHandler'[h].pc # "idle"
             /\ lHandler'[h].req = lHandler[h].req
             /\ lHandler[h].pc = "replied" => lHandler'[h] = lHandler[h]
  BY <1>1, <1>2, <1>3, <1>5, LeaderFrees
<1>6. ASSUME NEW i \in Client, InClientCall(i, "ask_leader"), clt'[i] = clt[i]
      PROVE  LET h == clt[i].slot IN
             /\ lHandler'[h].pc # "idle"
             /\ lHandler'[h].req = lHandler[h].req
             /\ lHandler[h].pc = "replied" => lHandler'[h] = lHandler[h]
  BY <1>1, <1>2, <1>4, <1>6, LeaderFrees
<1>7. QED
  BY <1>1, <1>2, <1>5, <1>6

\* A handler at the helper goes on with its request until somebody takes the
\* answer or gives it up.
LEMMA HelperFrees ==
    ASSUME SystemInv, [Next]_vars, NEW h \in Handler, hHandler[h].pc # "idle"
    PROVE  \/ /\ hHandler'[h].pc # "idle"
              /\ hHandler'[h].req = hHandler[h].req
              /\ hHandler[h].pc = "replied" => hHandler'[h] = hHandler[h]
           \/ \E c \in Controller : ctl[c].slot = h /\ ctl[c].pc \in HelperCall /\ ctl'[c] # ctl[c]
           \/ \E i \in Client : clt[i].slot = h /\ InClientCall(i, "ask_helper") /\ clt'[i] # clt[i]
           \/ h \notin AwaitedAtHelper
           \/ HelperRestarts
<1> DEFINE Kept == /\ hHandler'[h].pc # "idle"
                   /\ hHandler'[h].req = hHandler[h].req
                   /\ hHandler[h].pc = "replied" => hHandler'[h] = hHandler[h]
           Taken == \E c \in Controller :
                       ctl[c].slot = h /\ ctl[c].pc \in HelperCall /\ ctl'[c] # ctl[c]
           Given == \E i \in Client :
                       clt[i].slot = h /\ InClientCall(i, "ask_helper") /\ clt'[i] # clt[i]
<1>0. /\ H!TypeOK /\ H!IInv /\ H!CallerInv
      /\ ctl \in [Controller -> ControllerState]
      /\ clt \in [Client -> ClientState]
  BY DEF SystemInv, CallsInv, TypeOK
<1>1. ASSUME UNCHANGED helper PROVE Kept
  BY <1>1 DEF helper
<1>2. ASSUME NEW g \in Handler, NEW req, H!Receive(g, req) PROVE Kept
  BY <1>0, <1>2, HelperConnections
<1>3. ASSUME NEW g \in Handler, H!Deliver(g) \/ H!Disconnect(g), g # h PROVE Kept
  BY <1>0, <1>3, HelperConnections
<1>4. ASSUME NEW g \in Handler, H!Step(g) PROVE Kept
  BY <1>0, <1>4, HelperStep
<1>5. ASSUME NEW c \in Controller, CreateAtHelper(c) \/ EndAtHelper(c) \/ StartAtHelper(c) PROVE Kept
  BY <1>1, <1>2, <1>5 DEF CreateAtHelper, EndAtHelper, StartAtHelper
<1>6. ASSUME NEW c \in Controller, CreateReturns(c) \/ EndReturns(c) \/ StartReturns(c)
      PROVE  Kept \/ Taken
  <2>1. H!Deliver(ctl[c].slot)
    BY <1>6 DEF CreateReturns, EndReturns, StartReturns
  <2>2. ctl[c].slot \in Handler /\ ctl[c].pc \in HelperCall
    BY <1>6 DEF CreateReturns, EndReturns, StartReturns, InCall, HelperCall, SystemInv, CallsInv, CallersAwait,
                ControllerAwaits, HelperHandles
  <2>3. ctl'[c].pc \notin HelperCall
    <3>1. CASE CreateReturns(c)
      BY <1>0, <3>1 DEF CreateReturns, Await, Return, ReturnError, NoCall, HelperCall,
                          ControllerState
    <3>2. CASE EndReturns(c)
      BY <1>0, <3>2 DEF EndReturns, Await, Return, ReturnError, NoCall, HelperCall,
                          ControllerState
    <3>3. CASE StartReturns(c)
      BY <1>0, <3>3 DEF StartReturns, Await, Return, ReturnError, NoCall, HelperCall,
                          ControllerState
    <3>4. QED
      BY <1>6, <3>1, <3>2, <3>3
  <2>4. CASE ctl[c].slot = h
    BY <2>2, <2>3, <2>4
  <2>5. CASE ctl[c].slot # h
    BY <1>3, <2>1, <2>2, <2>5
  <2>6. QED
    BY <2>4, <2>5
<1>7. ASSUME NEW c \in Controller,
             \/ CreateSession(c) \/ EndSession(c) \/ StartRound(c)
             \/ Collect(c) \/ CollectReturns(c) \/ CallFails(c)
      PROVE  Kept
  BY <1>1, <1>7 DEF CreateSession, EndSession, StartRound, Collect, CollectReturns, CallFails
<1>8. ASSUME NEW i \in Client, AskHelper(i) PROVE Kept
  BY <1>1, <1>2, <1>8 DEF AskHelper
<1>9. ASSUME NEW i \in Client, Learn(i) \/ ClientCallFails(i)
      PROVE  Kept \/ Given
  <2>1. CASE InClientCall(i, "ask_helper")
    <3>1. clt[i].slot \in Handler
      BY <2>1 DEF SystemInv, CallsInv, CallersAwait, ClientAwaits, HelperHandles
    <3>2. H!Deliver(clt[i].slot) \/ H!Disconnect(clt[i].slot)
      BY <1>9, <2>1 DEF Learn, ClientCallFails, InClientCall
    <3>3. clt'[i].pc # "ask_helper"
      <4>1. CASE Learn(i)
        <5>1. \/ clt'[i] = [clt[i] EXCEPT !.pc = "idle", !.slot = None,
                    !.parametrization = clt[i].leader_param,
                    !.learned_for = clt[i].task, !.leader_param = None]
              \/ clt'[i] = ClientFailed(i)
          BY <1>0, <4>1 DEF Learn, SetClient
        <5>2. clt[i] \in ClientState
          BY <1>0
        <5>3. QED
          BY <5>1, <5>2 DEF ClientFailed, ClientState
      <4>2. CASE ClientCallFails(i)
        BY <1>0, <4>2 DEF ClientCallFails, SetClient, ClientFailed, ClientState
      <4>3. QED
        BY <1>9, <4>1, <4>2
    <3>4. CASE clt[i].slot = h
      BY <2>1, <3>3, <3>4 DEF InClientCall
    <3>5. CASE clt[i].slot # h
      BY <1>3, <3>1, <3>2, <3>5
    <3>6. QED
      BY <3>4, <3>5
  <2>2. CASE ~InClientCall(i, "ask_helper")
    BY <1>1, <1>9, <2>2 DEF Learn, ClientCallFails, InClientCall
  <2>3. QED
    BY <2>1, <2>2
<1>10. ASSUME NEW i \in Client, FirstRound(i) \/ Locate(i) \/ HearLeader(i) \/ NextRound(i)
      PROVE  Kept
  BY <1>1, <1>10 DEF FirstRound, Locate, HearLeader, NextRound
<1>11. ASSUME NEW g \in Handler, HelperRuns(g) \/ LeaderRuns(g) \/ LeaderDrops(g)
      PROVE  Kept
  BY <1>1, <1>4, <1>11 DEF HelperRuns, LeaderRuns, LeaderDrops
<1>12. ASSUME NEW g \in Handler, HelperDrops(g)
      PROVE  Kept \/ h \notin AwaitedAtHelper
  BY <1>3, <1>12 DEF HelperDrops
<1>13. ASSUME LeaderRestarts \/ UNCHANGED vars PROVE Kept
  BY <1>1, <1>13 DEF LeaderRestarts, vars
<1>14. QED
  BY <1>5, <1>6, <1>7, <1>8, <1>9, <1>10, <1>11, <1>12, <1>13
     DEF Next, Elsewhere, Calls, ClientCalls

\* So a handler that somebody goes on to wait for goes on.
LEMMA HelperKeepsAwaited ==
    ASSUME SystemInv, [Next]_vars
    PROVE  /\ \A c \in Controller : ctl[c].pc \in HelperCall /\ ctl'[c] = ctl[c] =>
                 LET h == ctl[c].slot IN
                 /\ h \in Handler
                 /\ hHandler'[h].pc # "idle"
                 /\ hHandler'[h].req = hHandler[h].req
                 /\ hHandler[h].pc = "replied" => hHandler'[h] = hHandler[h]
           /\ \A i \in Client : InClientCall(i, "ask_helper") /\ clt'[i] = clt[i] =>
                 LET h == clt[i].slot IN
                 /\ h \in Handler
                 /\ hHandler'[h].pc # "idle"
                 /\ hHandler'[h].req = hHandler[h].req
                 /\ hHandler[h].pc = "replied" => hHandler'[h] = hHandler[h]
<1>1. ASSUME NEW c \in Controller, ctl[c].pc \in HelperCall
      PROVE  /\ ctl[c].slot \in Handler
             /\ hHandler[ctl[c].slot].pc # "idle"
             /\ hHandler[ctl[c].slot].req.op # "get_vdaf_parameter"
             /\ ctl[c].slot \in AwaitedAtHelper
             /\ HelperRestarts => ctl'[c].pc \notin HelperCall
  <2>1. ControllerAwaits(c)
    BY DEF SystemInv, CallsInv, CallersAwait
  <2>2. ctl[c].slot \in AwaitedAtHelper
    BY <1>1 DEF AwaitedAtHelper
  <2>3. HelperRestarts => ctl'[c].pc \notin HelperCall
    BY <1>1 DEF HelperRestarts, Failed, NoCall, HelperCall
  <2>4. QED
    BY <1>1, <2>1, <2>2, <2>3
       DEF ControllerAwaits, HelperHandles, HelperCall, InCall, CreateRequestOf,
           EndRequestOf, StartRequestOf
<1>2. ASSUME NEW i \in Client, InClientCall(i, "ask_helper")
      PROVE  /\ clt[i].slot \in Handler
             /\ hHandler[clt[i].slot].pc # "idle"
             /\ hHandler[clt[i].slot].req.op = "get_vdaf_parameter"
             /\ clt[i].slot \in AwaitedAtHelper
             /\ HelperRestarts => clt'[i] # clt[i]
  <2>1. ClientAwaits(i) /\ clt[i] \in ClientState
    BY DEF SystemInv, CallsInv, CallersAwait, TypeOK
  <2>2. clt[i].slot \in AwaitedAtHelper
    BY <1>2 DEF AwaitedAtHelper, InClientCall
  <2>3. HelperRestarts => clt'[i] # clt[i]
    BY <1>2, <2>1 DEF HelperRestarts, ClientFailed, ClientState, InClientCall
  <2>4. QED
    BY <1>2, <2>1, <2>2, <2>3 DEF ClientAwaits, HelperHandles, GetRequestOf
<1>3. \A c, d \in Controller :
         ctl[c].pc \in HelperCall /\ ctl[d].pc \in HelperCall /\ ctl[c].slot = ctl[d].slot => c = d
  BY DEF SystemInv, CallsInv, OneCallerPerHandler
<1>4. \A i, j \in Client :
         InClientCall(i, "ask_helper") /\ InClientCall(j, "ask_helper") /\ clt[i].slot = clt[j].slot => i = j
  BY DEF SystemInv, CallsInv, OneCallerPerHandler, InClientCall
<1>5. ASSUME NEW c \in Controller, ctl[c].pc \in HelperCall, ctl'[c] = ctl[c]
      PROVE  LET h == ctl[c].slot IN
             /\ hHandler'[h].pc # "idle"
             /\ hHandler'[h].req = hHandler[h].req
             /\ hHandler[h].pc = "replied" => hHandler'[h] = hHandler[h]
  BY <1>1, <1>2, <1>3, <1>5, HelperFrees
<1>6. ASSUME NEW i \in Client, InClientCall(i, "ask_helper"), clt'[i] = clt[i]
      PROVE  LET h == clt[i].slot IN
             /\ hHandler'[h].pc # "idle"
             /\ hHandler'[h].req = hHandler[h].req
             /\ hHandler[h].pc = "replied" => hHandler'[h] = hHandler[h]
  BY <1>1, <1>2, <1>4, <1>6, HelperFrees
<1>7. QED
  BY <1>1, <1>2, <1>5, <1>6

-----------------------------------------------------------------------------
(* What the steps of a call leave with the controller                      *)

SameRound(c) == ctl'[c].session = ctl[c].session /\ ctl'[c].task = ctl[c].task

Ended(c) ==
    /\ ctl'[c].pc \in {"idle", "collect"}
    /\ ctl'[c].key = None /\ ctl'[c].id = None /\ ctl'[c].new_task = None

LEMMA CreateSessionOutcome ==
    ASSUME SystemInv, NEW c \in Controller, CreateSession(c)
    PROVE  \E k \in VerifyKey, h \in Handler :
              /\ FreshVerifyKey(k)
              /\ L!Receive(h, CreateRequestOf(c, "Leader", None, k))
              /\ ctl'[c].pc = "create_leader" /\ ctl'[c].slot = h
              /\ ctl'[c].key = k /\ ctl'[c].id = None /\ ctl'[c].new_task = None
              /\ SameRound(c)
<1>1. ctl \in [Controller -> ControllerState] /\ CallRecordFits(ctl[c])
  BY DEF SystemInv, CallsInv, TypeOK, CallRecordsFit
<1>2. PICK k \in VerifyKey, h \in Handler :
         /\ FreshVerifyKey(k)
         /\ L!Receive(h, CreateRequestOf(c, "Leader", None, k))
         /\ ctl' = [ctl EXCEPT ![c] =
               [[ctl[c] EXCEPT !.key = k] EXCEPT !.pc = "create_leader", !.slot = h]]
  BY DEF CreateSession, Await
<1>3. ctl[c].id = None /\ ctl[c].new_task = None
  BY <1>1 DEF CreateSession, InCall, CallRecordFits
<1>4. QED
  BY <1>1, <1>2, <1>3 DEF ControllerState, SameRound

LEMMA CreateAtHelperOutcome ==
    ASSUME SystemInv, NEW c \in Controller, CreateAtHelper(c), LeaderOK(c)
    PROVE  \E h \in Handler :
              /\ H!Receive(h, CreateRequestOf(c, "Helper", ctl'[c].id, ctl[c].key))
              /\ ctl'[c].pc = "create_helper" /\ ctl'[c].slot = h
              /\ ctl'[c].id = lHandler[ctl[c].slot].reply.body
              /\ ctl'[c].key = ctl[c].key /\ ctl'[c].new_task = None
              /\ SameRound(c)
<1> DEFINE id == lHandler[ctl[c].slot].reply.body
<1>1. ctl \in [Controller -> ControllerState] /\ CallRecordFits(ctl[c])
  BY DEF SystemInv, CallsInv, TypeOK, CallRecordsFit
<1>2. PICK h \in Handler :
         /\ H!Receive(h, CreateRequestOf(c, "Helper", id, ctl[c].key))
         /\ ctl' = [ctl EXCEPT ![c] =
               [[ctl[c] EXCEPT !.id = id] EXCEPT !.pc = "create_helper", !.slot = h]]
  BY DEF CreateAtHelper, Await
<1>3. ctl[c].new_task = None
  BY <1>1 DEF CreateAtHelper, InCall, CallRecordFits
<1> HIDE DEF id
<1>4. /\ ctl'[c].pc = "create_helper" /\ ctl'[c].slot = h
      /\ ctl'[c].id = id /\ ctl'[c].key = ctl[c].key /\ ctl'[c].new_task = None
      /\ SameRound(c)
  BY <1>1, <1>2, <1>3 DEF ControllerState, SameRound
<1>5. QED
  BY <1>2, <1>4 DEF id

LEMMA EndSessionOutcome ==
    ASSUME SystemInv, NEW c \in Controller, EndSession(c)
    PROVE  \E h \in Handler :
              /\ L!Receive(h, EndRequestOf(c))
              /\ ctl'[c].pc = "end_leader" /\ ctl'[c].slot = h
              /\ ctl'[c].key = None /\ ctl'[c].id = None /\ ctl'[c].new_task = None
              /\ SameRound(c)
BY DEF EndSession, Await, InCall, ControllerState, SameRound, SystemInv, CallsInv, TypeOK,
       CallRecordsFit, CallRecordFits

LEMMA EndAtHelperOutcome ==
    ASSUME SystemInv, NEW c \in Controller, EndAtHelper(c)
    PROVE  \E h \in Handler :
              /\ H!Receive(h, EndRequestOf(c))
              /\ ctl'[c].pc = "end_helper" /\ ctl'[c].slot = h
              /\ ctl'[c].key = None /\ ctl'[c].id = None /\ ctl'[c].new_task = None
              /\ SameRound(c)
<1>1. ctl \in [Controller -> ControllerState] /\ CallRecordFits(ctl[c])
  BY DEF SystemInv, CallsInv, TypeOK, CallRecordsFit
<1>2. PICK h \in Handler :
         /\ H!Receive(h, EndRequestOf(c))
         /\ ctl' = [ctl EXCEPT ![c] = [[ctl[c] EXCEPT !.leader_ok = LeaderOK(c)]
                                          EXCEPT !.pc = "end_helper", !.slot = h]]
  BY DEF EndAtHelper, Await
<1>3. ctl[c].key = None /\ ctl[c].id = None /\ ctl[c].new_task = None
  BY <1>1 DEF EndAtHelper, InCall, CallRecordFits
<1>4. QED
  BY <1>1, <1>2, <1>3 DEF ControllerState, SameRound

LEMMA StartRoundOutcome ==
    ASSUME SystemInv, NEW c \in Controller, StartRound(c)
    PROVE  \E t \in TaskId, h \in Handler :
              /\ FreshTask(t)
              /\ L!Receive(h, StartRequestOf(c, t))
              /\ ctl'[c].pc = "round_leader" /\ ctl'[c].slot = h
              /\ ctl'[c].key = None /\ ctl'[c].id = None /\ ctl'[c].new_task = t
              /\ SameRound(c)
<1>1. ctl \in [Controller -> ControllerState] /\ CallRecordFits(ctl[c])
  BY DEF SystemInv, CallsInv, TypeOK, CallRecordsFit
<1>2. PICK t \in TaskId, h \in Handler :
         /\ FreshTask(t)
         /\ L!Receive(h, StartRequestOf(c, t))
         /\ ctl' = [ctl EXCEPT ![c] =
               [[ctl[c] EXCEPT !.new_task = t] EXCEPT !.pc = "round_leader", !.slot = h]]
  BY DEF StartRound, Await
<1>3. ctl[c].key = None /\ ctl[c].id = None
  BY <1>1 DEF StartRound, InCall, CallRecordFits
<1>4. QED
  BY <1>1, <1>2, <1>3 DEF ControllerState, SameRound

LEMMA StartAtHelperOutcome ==
    ASSUME SystemInv, NEW c \in Controller, StartAtHelper(c)
    PROVE  \E h \in Handler :
              /\ H!Receive(h, StartRequestOf(c, ctl[c].new_task))
              /\ ctl'[c].pc = "round_helper" /\ ctl'[c].slot = h
              /\ ctl'[c].key = None /\ ctl'[c].id = None
              /\ ctl'[c].new_task = ctl[c].new_task
              /\ ctl'[c].leader_ok = LeaderOK(c)
              /\ SameRound(c)
<1>1. ctl \in [Controller -> ControllerState] /\ CallRecordFits(ctl[c])
  BY DEF SystemInv, CallsInv, TypeOK, CallRecordsFit
<1>2. PICK h \in Handler :
         /\ H!Receive(h, StartRequestOf(c, ctl[c].new_task))
         /\ ctl' = [ctl EXCEPT ![c] = [[ctl[c] EXCEPT !.leader_ok = LeaderOK(c)]
                                          EXCEPT !.pc = "round_helper", !.slot = h]]
  BY DEF StartAtHelper, Await
<1>3. ctl[c].key = None /\ ctl[c].id = None
  BY <1>1 DEF StartAtHelper, InCall, CallRecordFits
<1>4. QED
  BY <1>1, <1>2, <1>3 DEF ControllerState, SameRound

\* A call that ends changes the session or the round only if it succeeds.
LEMMA EndOfCallOutcome ==
    ASSUME SystemInv, NEW c \in Controller,
           \/ CreateAtHelper(c) /\ ~LeaderOK(c)
           \/ CreateReturns(c) \/ EndReturns(c) \/ StartReturns(c)
           \/ Collect(c) \/ CollectReturns(c) \/ CallFails(c)
           \/ ctl'[c] = Failed(c)
    PROVE  /\ Ended(c)
           /\ \/ SameRound(c)
              \/ /\ CreateReturns(c) /\ HelperOK(c)
                 /\ ctl'[c].session = ctl[c].id /\ ctl'[c].task = ctl[c].task
              \/ /\ EndReturns(c) /\ ctl[c].leader_ok /\ HelperOK(c)
                 /\ ctl'[c].session = None /\ ctl'[c].task = ctl[c].task
              \/ /\ StartReturns(c) /\ ctl[c].leader_ok /\ HelperOK(c)
                 /\ ctl'[c].session = ctl[c].session /\ ctl'[c].task = ctl[c].new_task
<1>1. ctl \in [Controller -> ControllerState] /\ CallRecordFits(ctl[c])
  BY DEF SystemInv, CallsInv, TypeOK, CallRecordsFit
<1> USE DEF Ended, SameRound
<1>2. CASE \/ CreateAtHelper(c) /\ ~LeaderOK(c)
           \/ CollectReturns(c) \/ CallFails(c) \/ ctl'[c] = Failed(c)
  BY <1>1, <1>2 DEF CreateAtHelper, CollectReturns, CallFails, ReturnError, Return, Failed, NoCall
<1>3. CASE CreateReturns(c)
  BY <1>1, <1>3 DEF CreateReturns, ReturnError, Return, NoCall
<1>4. CASE EndReturns(c)
  BY <1>1, <1>4 DEF EndReturns, ReturnError, Return, NoCall
<1>5. CASE StartReturns(c)
  BY <1>1, <1>5 DEF StartReturns, ReturnError, Return, NoCall
<1>6. CASE Collect(c)
  BY <1>1, <1>6 DEF Collect, InCall, CallRecordFits, ControllerState
<1>7. QED
  BY <1>2, <1>3, <1>4, <1>5, <1>6

\* Every way in which the state of a controller changes.
LEMMA ControllerOutcome ==
    ASSUME SystemInv, [Next]_vars, NEW c \in Controller, ctl'[c] # ctl[c]
    PROVE  \/ CreateSession(c)
           \/ CreateAtHelper(c) /\ LeaderOK(c)
           \/ EndSession(c) \/ EndAtHelper(c)
           \/ StartRound(c) \/ StartAtHelper(c)
           \/ /\ Ended(c)
              /\ \/ SameRound(c)
                 \/ /\ CreateReturns(c) /\ HelperOK(c)
                    /\ ctl'[c].session = ctl[c].id /\ ctl'[c].task = ctl[c].task
                 \/ /\ EndReturns(c) /\ ctl[c].leader_ok /\ HelperOK(c)
                    /\ ctl'[c].session = None /\ ctl'[c].task = ctl[c].task
                 \/ /\ StartReturns(c) /\ ctl[c].leader_ok /\ HelperOK(c)
                    /\ ctl'[c].session = ctl[c].session /\ ctl'[c].task = ctl[c].new_task
<1>1. TypeOK
  BY DEF SystemInv, CallsInv
<1>2. CASE Calls(c)
  <2>1. CASE \/ CreateAtHelper(c) /\ ~LeaderOK(c)
             \/ CreateReturns(c) \/ EndReturns(c) \/ StartReturns(c)
             \/ Collect(c) \/ CollectReturns(c) \/ CallFails(c)
    BY <2>1, EndOfCallOutcome
  <2>2. QED
    BY <1>2, <2>1 DEF Calls
<1>3. CASE ctl'[c] = Failed(c)
  BY <1>3, EndOfCallOutcome
<1>4. QED
  BY <1>1, <1>2, <1>3, ControllerActs

\* Every caller goes on to wait for a handler that has its request.
LEMMA AwaitStep ==
    ASSUME SystemInv, [Next]_vars
    PROVE  CallersAwait'
<1>1. /\ L!TypeOK /\ H!TypeOK
      /\ clt \in [Client -> ClientState]
      /\ ctl \in [Controller -> ControllerState]
      /\ CallersAwait
  BY DEF SystemInv, CallsInv, TypeOK
<1>2. ASSUME NEW c \in Controller PROVE ControllerAwaits(c)'
  <2> USE DEF ControllerAwaits, InCall
  <2>1. ControllerAwaits(c)
    BY <1>1 DEF CallersAwait
  <2>2. CASE ctl'[c] = ctl[c]
    BY <2>1, <2>2, LeaderKeepsAwaited, HelperKeepsAwaited
       DEF LeaderHandles, HelperHandles, LeaderCall, HelperCall, EndRequestOf, StartRequestOf
  <2>3. CASE CreateSession(c)
    BY <1>1, <2>3, CreateSessionOutcome, LeaderConnections DEF LeaderHandles
  <2>4. CASE CreateAtHelper(c) /\ LeaderOK(c)
    BY <1>1, <2>4, CreateAtHelperOutcome, HelperConnections DEF HelperHandles
  <2>5. CASE EndSession(c)
    <3>1. PICK h \in Handler :
             /\ L!Receive(h, EndRequestOf(c))
             /\ ctl'[c].pc = "end_leader" /\ ctl'[c].slot = h
             /\ ctl'[c].session = ctl[c].session
      BY <2>5, EndSessionOutcome DEF SameRound
    <3>2. EndRequestOf(c)' = EndRequestOf(c)
      BY <3>1 DEF EndRequestOf
    <3>3. LeaderHandles(h, EndRequestOf(c))'
      BY <1>1, <3>1, <3>2, LeaderConnections DEF LeaderHandles
    <3>4. QED
      BY <3>1, <3>3 DEF LeaderHandles
  <2>6. CASE EndAtHelper(c)
    <3>1. PICK h \in Handler :
             /\ H!Receive(h, EndRequestOf(c))
             /\ ctl'[c].pc = "end_helper" /\ ctl'[c].slot = h
             /\ ctl'[c].session = ctl[c].session
      BY <2>6, EndAtHelperOutcome DEF SameRound
    <3>2. EndRequestOf(c)' = EndRequestOf(c)
      BY <3>1 DEF EndRequestOf
    <3>3. HelperHandles(h, EndRequestOf(c))'
      BY <1>1, <3>1, <3>2, HelperConnections DEF HelperHandles
    <3>4. QED
      BY <3>1, <3>3 DEF HelperHandles
  <2>7. CASE StartRound(c)
    <3>1. PICK t \in TaskId, h \in Handler :
             /\ L!Receive(h, StartRequestOf(c, t))
             /\ ctl'[c].pc = "round_leader" /\ ctl'[c].slot = h
             /\ ctl'[c].new_task = t /\ ctl'[c].session = ctl[c].session
      BY <2>7, StartRoundOutcome DEF SameRound
    <3>2. StartRequestOf(c, ctl[c].new_task)' = StartRequestOf(c, t)
      BY <3>1 DEF StartRequestOf
    <3>3. LeaderHandles(h, StartRequestOf(c, ctl[c].new_task))'
      BY <1>1, <3>1, <3>2, LeaderConnections DEF LeaderHandles
    <3>4. QED
      BY <3>1, <3>3 DEF LeaderHandles
  <2>8. CASE StartAtHelper(c)
    <3>1. PICK h \in Handler :
             /\ H!Receive(h, StartRequestOf(c, ctl[c].new_task))
             /\ ctl'[c].pc = "round_helper" /\ ctl'[c].slot = h
             /\ ctl'[c].new_task = ctl[c].new_task /\ ctl'[c].session = ctl[c].session
      BY <2>8, StartAtHelperOutcome DEF SameRound
    <3>2. StartRequestOf(c, ctl[c].new_task)' = StartRequestOf(c, ctl[c].new_task)
      BY <3>1 DEF StartRequestOf
    <3>3. HelperHandles(h, StartRequestOf(c, ctl[c].new_task))'
      BY <1>1, <3>1, <3>2, HelperConnections DEF HelperHandles
    <3>4. QED
      BY <3>1, <3>3 DEF HelperHandles
  <2>9. CASE Ended(c)
    BY <2>9 DEF Ended
  <2>10. QED
    BY <2>2, <2>3, <2>4, <2>5, <2>6, <2>7, <2>8, <2>9, ControllerOutcome
<1>3. ASSUME NEW i \in Client PROVE ClientAwaits(i)'
  <2> USE DEF ClientAwaits, InClientCall
  <2>1. ClientAwaits(i)
    BY <1>1 DEF CallersAwait
  <2>2. CASE clt'[i] = clt[i]
    BY <2>1, <2>2, LeaderKeepsAwaited, HelperKeepsAwaited
       DEF LeaderHandles, HelperHandles, GetRequestOf
  <2>3. CASE clt'[i] = ClientFailed(i)
    BY <1>1, <2>3 DEF ClientFailed, ClientState
  <2>4. CASE FirstRound(i) \/ NextRound(i)
    BY <1>1, <2>4 DEF FirstRound, NextRound, SetClient, ClientState
  <2>5. CASE Locate(i)
    <3>1. CASE clt'[i] = ClientFailed(i)
      BY <2>3, <3>1
    <3>2. ASSUME NEW h \in Handler, L!Receive(h, GetRequestOf(clt[i].task)),
                 SetClient(i, [clt[i] EXCEPT !.pc = "ask_leader", !.slot = h])
          PROVE  ClientAwaits(i)'
      <4>1. /\ clt'[i].pc = "ask_leader" /\ clt'[i].slot = h
            /\ clt'[i].task = clt[i].task
        BY <1>1, <3>2 DEF SetClient, ClientState
      <4>2. LeaderHandles(h, GetRequestOf(clt[i].task))'
        BY <1>1, <3>2, <4>1, LeaderConnections DEF LeaderHandles, GetRequestOf
      <4>3. clt[i].task # None
        BY <2>1, <2>5 DEF Locate
      <4>4. QED
        BY <4>1, <4>2, <4>3 DEF LeaderHandles, GetRequestOf
    <3>3. QED
      BY <1>1, <2>5, <3>1, <3>2 DEF Locate, SetClient
  <2>6. CASE AskHelper(i)
    <3>1. PICK h \in Handler :
             /\ H!Receive(h, GetRequestOf(clt[i].task))
             /\ SetClient(i, [clt[i] EXCEPT !.pc = "ask_helper", !.slot = h])
      BY <2>6 DEF AskHelper
    <3>2. /\ clt'[i].pc = "ask_helper" /\ clt'[i].slot = h
          /\ clt'[i].task = clt[i].task
      BY <1>1, <3>1 DEF SetClient, ClientState
    <3>3. HelperHandles(h, GetRequestOf(clt[i].task))'
      BY <1>1, <3>1, <3>2, HelperConnections DEF HelperHandles, GetRequestOf
    <3>4. clt[i].task # None
      BY <2>1, <2>6 DEF AskHelper
    <3>5. QED
      BY <3>2, <3>3, <3>4 DEF HelperHandles, GetRequestOf
  <2>7. CASE HearLeader(i) \/ Learn(i)
    <3>1. \/ clt'[i] = ClientFailed(i)
          \/ /\ clt'[i].pc \in {"leader_known", "idle"}
             /\ clt'[i].task = clt[i].task
      <4>1. CASE HearLeader(i)
        <5> DEFINE param == lHandler[clt[i].slot].reply.body
        <5>1. \/ clt'[i] = ClientFailed(i)
              \/ clt'[i] = [clt[i] EXCEPT !.pc = "leader_known", !.slot = None,
                                          !.leader_param = param]
          BY <1>1, <4>1 DEF HearLeader, SetClient
        <5> HIDE DEF param
        <5>2. QED
          BY <1>1, <5>1 DEF ClientState
      <4>2. CASE Learn(i)
        <5>1. \/ clt'[i] = ClientFailed(i)
              \/ clt'[i] = [clt[i] EXCEPT !.pc = "idle", !.slot = None,
                                          !.parametrization = clt[i].leader_param,
                                          !.learned_for = clt[i].task,
                                          !.leader_param = None]
          BY <1>1, <4>2 DEF Learn, SetClient
        <5>2. QED
          BY <1>1, <5>1 DEF ClientState
      <4>3. QED
        BY <2>7, <4>1, <4>2
    <3>2. clt[i].task # None
      BY <2>1, <2>7 DEF HearLeader, Learn
    <3>3. QED
      BY <2>3, <3>1, <3>2
  <2>8. CASE ClientCallFails(i)
    BY <1>1, <2>3, <2>8 DEF ClientCallFails, SetClient
  <2>9. QED
    BY <2>2, <2>3, <2>4, <2>5, <2>6, <2>7, <2>8, ClientActs DEF SystemInv, CallsInv, ClientCalls
<1>4. QED
  BY <1>2, <1>3 DEF CallersAwait

-----------------------------------------------------------------------------
(* Whom a manager hears                                                    *)

\* A step of one controller is a step of that controller alone.
LEMMA CallsAreSingle ==
    ASSUME TypeOK, NEW c \in Controller, Calls(c)
    PROVE  clt' = clt /\ \A d \in Controller : d # c => ctl'[d] = ctl[d]
<1>1. ctl \in [Controller -> ControllerState]
  BY DEF TypeOK
<1>2. clt' = clt /\ \E new : ctl' = [ctl EXCEPT ![c] = new]
  <2>1. CASE CreateSession(c) \/ EndSession(c) \/ StartRound(c)
    BY <2>1 DEF CreateSession, EndSession, StartRound, Await
  <2>2. CASE CreateAtHelper(c) \/ EndAtHelper(c) \/ StartAtHelper(c)
    BY <2>2 DEF CreateAtHelper, EndAtHelper, StartAtHelper, Await, ReturnError, Return
  <2>3. CASE CreateReturns(c) \/ EndReturns(c) \/ StartReturns(c)
    BY <2>3 DEF CreateReturns, EndReturns, StartReturns, ReturnError, Return
  <2>4. CASE Collect(c) \/ CollectReturns(c) \/ CallFails(c)
    BY <2>4 DEF Collect, CollectReturns, CallFails, ReturnError, Return
  <2>5. QED
    BY <2>1, <2>2, <2>3, <2>4 DEF Calls
<1>3. QED
  BY <1>1, <1>2

\* A step of one client is a step of that client alone.
LEMMA ClientCallsAreSingle ==
    ASSUME TypeOK, NEW i \in Client, ClientCalls(i)
    PROVE  ctl' = ctl /\ \A j \in Client : j # i => clt'[j] = clt[j]
<1>1. clt \in [Client -> ClientState]
  BY DEF TypeOK
<1>2. ctl' = ctl /\ \E new : clt' = [clt EXCEPT ![i] = new]
  BY DEF ClientCalls, FirstRound, Locate, HearLeader, AskHelper, Learn, NextRound,
         ClientCallFails, SetClient
<1>3. QED
  BY <1>1, <1>2

\* The handlers that somebody waits for are at work.
LEMMA AwaitedAreBusy ==
    ASSUME SystemInv
    PROVE  /\ \A c \in Controller :
                /\ ctl[c].pc \in LeaderCall =>
                      /\ ctl[c].slot \in Handler
                      /\ lHandler[ctl[c].slot].pc # "idle"
                      /\ lHandler[ctl[c].slot].req.op # "get_vdaf_parameter"
                /\ ctl[c].pc \in HelperCall =>
                      /\ ctl[c].slot \in Handler
                      /\ hHandler[ctl[c].slot].pc # "idle"
                      /\ hHandler[ctl[c].slot].req.op # "get_vdaf_parameter"
           /\ \A i \in Client :
                /\ InClientCall(i, "ask_leader") =>
                      clt[i].slot \in Handler /\ lHandler[clt[i].slot].pc # "idle"
                /\ InClientCall(i, "ask_helper") =>
                      clt[i].slot \in Handler /\ hHandler[clt[i].slot].pc # "idle"
<1>1. CallersAwait
  BY DEF SystemInv, CallsInv
<1>2. ASSUME NEW c \in Controller
      PROVE  /\ ctl[c].pc \in LeaderCall =>
                   /\ ctl[c].slot \in Handler
                   /\ lHandler[ctl[c].slot].pc # "idle"
                   /\ lHandler[ctl[c].slot].req.op # "get_vdaf_parameter"
             /\ ctl[c].pc \in HelperCall =>
                   /\ ctl[c].slot \in Handler
                   /\ hHandler[ctl[c].slot].pc # "idle"
                   /\ hHandler[ctl[c].slot].req.op # "get_vdaf_parameter"
  <2>1. ControllerAwaits(c)
    BY <1>1 DEF CallersAwait
  <2>2. QED
    BY <2>1 DEF ControllerAwaits, LeaderHandles, HelperHandles, LeaderCall,
                HelperCall, InCall, CreateRequestOf, EndRequestOf, StartRequestOf
<1>3. QED
  BY <1>1, <1>2 DEF CallersAwait, ClientAwaits, LeaderHandles, HelperHandles

\* A caller begins to wait for a handler that was idle.
LEMMA ControllerAsks ==
    ASSUME SystemInv, [Next]_vars, NEW c \in Controller, ctl'[c] # ctl[c]
    PROVE  /\ ctl'[c].pc \in LeaderCall =>
                 /\ Calls(c) /\ ctl'[c].slot \in Handler
                 /\ lHandler[ctl'[c].slot].pc = "idle"
           /\ ctl'[c].pc \in HelperCall =>
                 /\ Calls(c) /\ ctl'[c].slot \in Handler
                 /\ hHandler[ctl'[c].slot].pc = "idle"
<1>1. L!TypeOK /\ H!TypeOK
  BY DEF SystemInv, CallsInv, TypeOK
<1> USE DEF LeaderCall, HelperCall
<1>2. CASE CreateSession(c)
  BY <1>1, <1>2, CreateSessionOutcome, LeaderConnections DEF Calls
<1>3. CASE CreateAtHelper(c) /\ LeaderOK(c)
  BY <1>1, <1>3, CreateAtHelperOutcome, HelperConnections DEF Calls
<1>4. CASE EndSession(c)
  BY <1>1, <1>4, EndSessionOutcome, LeaderConnections DEF Calls
<1>5. CASE EndAtHelper(c)
  BY <1>1, <1>5, EndAtHelperOutcome, HelperConnections DEF Calls
<1>6. CASE StartRound(c)
  BY <1>1, <1>6, StartRoundOutcome, LeaderConnections DEF Calls
<1>7. CASE StartAtHelper(c)
  BY <1>1, <1>7, StartAtHelperOutcome, HelperConnections DEF Calls
<1>8. CASE Ended(c)
  BY <1>8 DEF Ended
<1>9. QED
  BY <1>2, <1>3, <1>4, <1>5, <1>6, <1>7, <1>8, ControllerOutcome

KeepsParametrization(i) ==
    /\ clt'[i].parametrization = clt[i].parametrization
    /\ clt'[i].learned_for = clt[i].learned_for

\* Client i is told of the current round of some controller.
HearsOfRound(i) ==
    \E c \in Controller : ctl[c].task # None /\ clt'[i].task = ctl[c].task

\* What the steps of a client make of its call.
LEMMA ClientOutcome ==
    ASSUME TypeOK, [Next]_vars, NEW i \in Client, clt'[i] # clt[i]
    PROVE  \/ /\ clt'[i] = ClientFailed(i) /\ clt[i].pc # "idle"
              /\ clt'[i].pc = "idle" /\ clt'[i].task = None
              /\ KeepsParametrization(i)
           \/ /\ FirstRound(i) /\ clt[i].parametrization = None
              /\ clt'[i].pc = "locate" /\ HearsOfRound(i)
              /\ KeepsParametrization(i)
           \/ /\ Locate(i) /\ clt[i].pc = "locate"
              /\ clt'[i].pc = "ask_leader" /\ clt'[i].task = clt[i].task
              /\ clt'[i].slot \in Handler
              /\ L!Receive(clt'[i].slot, GetRequestOf(clt[i].task))
              /\ KeepsParametrization(i)
           \/ /\ HearLeader(i) /\ clt[i].pc = "ask_leader"
              /\ clt'[i].pc = "leader_known" /\ clt'[i].task = clt[i].task
              /\ clt'[i].leader_param = lHandler[clt[i].slot].reply.body
              /\ lHandler[clt[i].slot].reply.body # None
              /\ KeepsParametrization(i)
           \/ /\ AskHelper(i) /\ clt[i].pc = "leader_known"
              /\ clt'[i].pc = "ask_helper" /\ clt'[i].task = clt[i].task
              /\ clt'[i].leader_param = clt[i].leader_param
              /\ clt'[i].slot \in Handler
              /\ H!Receive(clt'[i].slot, GetRequestOf(clt[i].task))
              /\ KeepsParametrization(i)
           \/ /\ Learn(i) /\ clt[i].pc = "ask_helper"
              /\ clt'[i].pc = "idle" /\ clt'[i].task = clt[i].task
              /\ clt'[i].parametrization = clt[i].leader_param
              /\ clt'[i].learned_for = clt[i].task
           \/ /\ NextRound(i)
              /\ clt'[i].pc = "idle" /\ HearsOfRound(i)
              /\ KeepsParametrization(i)
<1>1. clt \in [Client -> ClientState]
  BY DEF TypeOK
<1> USE DEF KeepsParametrization, InClientCall
<1>2. CASE clt'[i] = ClientFailed(i) /\ clt[i].pc # "idle"
  BY <1>1, <1>2 DEF ClientFailed, ClientState
<1>3. CASE FirstRound(i)
  <2>1. PICK c \in Controller :
           /\ ctl[c].task # None
           /\ clt' = [clt EXCEPT ![i] = [clt[i] EXCEPT !.pc = "locate", !.task = ctl[c].task,
                                             !.location = GetMainLocations("leader")]]
    BY <1>3 DEF FirstRound, SetClient
  <2>2. clt'[i].pc = "locate" /\ clt'[i].task = ctl[c].task /\ KeepsParametrization(i)
    BY <1>1, <2>1 DEF ClientState
  <2>3. QED
    BY <1>3, <2>1, <2>2 DEF FirstRound, HearsOfRound
<1>4. CASE Locate(i)
  <2>1. CASE clt'[i] = ClientFailed(i)
    BY <1>2, <1>4, <2>1 DEF Locate
  <2>2. ASSUME NEW h \in Handler, L!Receive(h, GetRequestOf(clt[i].task)),
               clt' = [clt EXCEPT ![i] = [clt[i] EXCEPT !.pc = "ask_leader", !.slot = h]]
        PROVE  /\ clt'[i].pc = "ask_leader" /\ clt'[i].task = clt[i].task
               /\ clt'[i].slot = h /\ KeepsParametrization(i)
    BY <1>1, <2>2 DEF ClientState
  <2>3. QED
    BY <1>1, <1>4, <2>1, <2>2 DEF Locate, SetClient
<1>5. CASE HearLeader(i)
  <2> DEFINE param == lHandler[clt[i].slot].reply.body
  <2>1. CASE clt'[i] = ClientFailed(i)
    BY <1>2, <1>5, <2>1 DEF HearLeader
  <2>2. CASE clt'[i] # ClientFailed(i)
    <3>1. /\ param # None
          /\ clt' = [clt EXCEPT ![i] = [clt[i] EXCEPT !.pc = "leader_known", !.slot = None,
                                                     !.leader_param = param]]
      BY <1>1, <1>5, <2>2 DEF HearLeader, SetClient
    <3> HIDE DEF param
    <3>2. /\ clt'[i].pc = "leader_known" /\ clt'[i].task = clt[i].task
          /\ clt'[i].leader_param = param /\ KeepsParametrization(i)
      BY <1>1, <3>1 DEF ClientState
    <3>3. QED
      BY <1>5, <3>1, <3>2 DEF param, HearLeader
  <2>3. QED
    BY <2>1, <2>2
<1>6. CASE AskHelper(i)
  <2>1. PICK h \in Handler :
           /\ H!Receive(h, GetRequestOf(clt[i].task))
           /\ clt' = [clt EXCEPT ![i] = [clt[i] EXCEPT !.pc = "ask_helper", !.slot = h]]
    BY <1>6 DEF AskHelper, SetClient
  <2>2. /\ clt'[i].pc = "ask_helper" /\ clt'[i].task = clt[i].task /\ clt'[i].slot = h
        /\ clt'[i].leader_param = clt[i].leader_param /\ KeepsParametrization(i)
    BY <1>1, <2>1 DEF ClientState
  <2>3. QED
    BY <1>6, <2>1, <2>2 DEF AskHelper
<1>7. CASE Learn(i)
  <2>1. CASE clt'[i] = ClientFailed(i)
    BY <1>2, <1>7, <2>1 DEF Learn
  <2>2. CASE clt'[i] # ClientFailed(i)
    <3>1. clt' = [clt EXCEPT ![i] = [clt[i] EXCEPT !.pc = "idle", !.slot = None,
                                !.parametrization = clt[i].leader_param,
                                !.learned_for = clt[i].task,
                                !.leader_param = None]]
      BY <1>1, <1>7, <2>2 DEF Learn, SetClient
    <3>2. QED
      BY <1>1, <1>7, <3>1 DEF ClientState, Learn
  <2>3. QED
    BY <2>1, <2>2
<1>8. CASE NextRound(i)
  <2>1. PICK c \in Controller :
           /\ ctl[c].task # None
           /\ clt' = [clt EXCEPT ![i] = [clt[i] EXCEPT !.task = ctl[c].task]]
    BY <1>8 DEF NextRound, SetClient
  <2>2. clt'[i].pc = "idle" /\ clt'[i].task = ctl[c].task /\ KeepsParametrization(i)
    BY <1>1, <1>8, <2>1 DEF ClientState, NextRound
  <2>3. QED
    BY <1>8, <2>1, <2>2 DEF HearsOfRound
<1>9. CASE ClientCallFails(i)
  BY <1>1, <1>2, <1>9 DEF ClientCallFails, SetClient
<1>10. CASE \/ LeaderRestarts /\ InClientCall(i, "ask_leader") /\ clt'[i] = ClientFailed(i)
            \/ HelperRestarts /\ InClientCall(i, "ask_helper") /\ clt'[i] = ClientFailed(i)
  BY <1>2, <1>10
<1>11. QED
  BY <1>3, <1>4, <1>5, <1>6, <1>7, <1>8, <1>9, <1>10, ClientActs DEF ClientCalls

LEMMA ClientAsks ==
    ASSUME SystemInv, [Next]_vars, NEW i \in Client, clt'[i] # clt[i]
    PROVE  /\ clt'[i].pc = "ask_leader" =>
                 /\ ClientCalls(i) /\ clt'[i].slot \in Handler
                 /\ lHandler[clt'[i].slot].pc = "idle"
           /\ clt'[i].pc = "ask_helper" =>
                 /\ ClientCalls(i) /\ clt'[i].slot \in Handler
                 /\ hHandler[clt'[i].slot].pc = "idle"
<1>1. L!TypeOK /\ H!TypeOK /\ TypeOK
  BY DEF SystemInv, CallsInv, TypeOK
<1>2. QED
  BY <1>1, ClientOutcome, LeaderConnections, HelperConnections DEF ClientCalls

\* No two callers come to wait for one handler.
LEMMA OneCallerStep ==
    ASSUME SystemInv, [Next]_vars
    PROVE  OneCallerPerHandler'
<1>0. TypeOK /\ OneCallerPerHandler
  BY DEF SystemInv, CallsInv
<1>1. ASSUME NEW c \in Controller, NEW d \in Controller, ctl'[c] # ctl[c],
             ctl'[c].slot = ctl'[d].slot,
             \/ ctl'[c].pc \in LeaderCall /\ ctl'[d].pc \in LeaderCall
             \/ ctl'[c].pc \in HelperCall /\ ctl'[d].pc \in HelperCall
      PROVE  c = d
  BY <1>0, <1>1, ControllerAsks, CallsAreSingle, AwaitedAreBusy
<1>2. ASSUME NEW i \in Client, NEW j \in Client, clt'[i] # clt[i],
             clt'[i].slot = clt'[j].slot, clt'[i].pc = clt'[j].pc,
             clt'[i].pc \in {"ask_leader", "ask_helper"}
      PROVE  i = j
  BY <1>0, <1>2, ClientAsks, ClientCallsAreSingle, AwaitedAreBusy DEF InClientCall
<1>3. QED
  BY <1>0, <1>1, <1>2 DEF OneCallerPerHandler

\* Every request at the leader is an earlier one, or one of the controllers'
\* and clients' steps sends it.
LEMMA LeaderHears ==
    ASSUME SystemInv, [Next]_vars, NEW h \in Handler, lHandler'[h].pc # "idle"
    PROVE  \/ /\ lHandler[h].pc # "idle"
              /\ lHandler'[h].req = lHandler[h].req
           \/ /\ lHandler[h].pc = "idle"
              /\ lHandler'[h].pc = "received"
              /\ lHandler'[h].id = None
              /\ UNCHANGED <<lSessions, lKeyring, lStore>>
              /\ \/ \E c \in Controller : 
                       /\ CreateSession(c) /\ ctl'[c].slot = h
                       /\ lHandler'[h].req = CreateRequestOf(c, "Leader", None, ctl'[c].key)
                 \/ \E c \in Controller : 
                       EndSession(c) /\ lHandler'[h].req = EndRequestOf(c)
                 \/ \E c \in Controller : 
                       /\ StartRound(c)
                       /\ lHandler'[h].req = StartRequestOf(c, ctl'[c].new_task)
                 \/ \E i \in Client : lHandler'[h].req = GetRequestOf(clt[i].task)
<1> DEFINE Kept == lHandler[h].pc # "idle" /\ lHandler'[h].req = lHandler[h].req
           New(req) == /\ lHandler[h].pc = "idle"
                       /\ lHandler'[h].pc = "received"
                       /\ lHandler'[h].id = None
                       /\ lHandler'[h].req = req
                       /\ UNCHANGED <<lSessions, lKeyring, lStore>>
<1>0. L!TypeOK /\ L!IInv /\ L!CallerInv
  BY DEF SystemInv, CallsInv, TypeOK
<1>1. ASSUME UNCHANGED leader PROVE Kept
  BY <1>1 DEF leader
<1>2. ASSUME NEW g \in Handler, NEW req, L!Receive(g, req) PROVE Kept \/ (g = h /\ New(req))
  BY <1>0, <1>2, LeaderConnections
<1>3. ASSUME NEW g \in Handler, L!Deliver(g) \/ L!Disconnect(g) PROVE Kept
  BY <1>0, <1>3, LeaderConnections
<1>4. ASSUME NEW g \in Handler, L!Step(g) PROVE Kept
  BY <1>0, <1>4, LeaderStep
<1>5. ASSUME L!Restart PROVE Kept
  BY <1>0, <1>5, LeaderConnections
<1>6. ASSUME NEW c \in Controller, CreateSession(c)
      PROVE  \/ Kept
             \/ New(CreateRequestOf(c, "Leader", None, ctl'[c].key)) /\ ctl'[c].slot = h
  <2>1. PICK k \in VerifyKey, g \in Handler :
           /\ L!Receive(g, CreateRequestOf(c, "Leader", None, k))
           /\ ctl'[c].slot = g /\ ctl'[c].key = k
    BY <1>6, CreateSessionOutcome
  <2>2. QED
    BY <1>2, <2>1
<1>7. ASSUME NEW c \in Controller, EndSession(c) PROVE Kept \/ New(EndRequestOf(c))
  BY <1>2, <1>7, EndSessionOutcome
<1>8. ASSUME NEW c \in Controller, StartRound(c)
      PROVE  Kept \/ New(StartRequestOf(c, ctl'[c].new_task))
  BY <1>2, <1>8, StartRoundOutcome
<1>9. ASSUME NEW i \in Client, Locate(i) PROVE Kept \/ New(GetRequestOf(clt[i].task))
  BY <1>1, <1>2, <1>9 DEF Locate
<1>10. ASSUME NEW c \in Controller, CreateAtHelper(c) \/ EndAtHelper(c) \/ StartAtHelper(c)
       PROVE  Kept
  <2>1. L!Deliver(ctl[c].slot) /\ ctl[c].pc \in LeaderCall
    BY <1>10 DEF CreateAtHelper, EndAtHelper, StartAtHelper, InCall, LeaderCall
  <2>2. QED
    BY <1>3, <2>1, AwaitedAreBusy
<1>11. ASSUME NEW c \in Controller,
              \/ CreateReturns(c) \/ EndReturns(c) \/ StartReturns(c)
              \/ Collect(c) \/ CollectReturns(c) \/ CallFails(c)
       PROVE  Kept
  BY <1>1, <1>11 DEF CreateReturns, EndReturns, StartReturns, Collect, CollectReturns, CallFails
<1>12. ASSUME NEW i \in Client, HearLeader(i) \/ ClientCallFails(i) PROVE Kept
  <2>1. CASE InClientCall(i, "ask_leader")
    <3>1. L!Deliver(clt[i].slot) \/ L!Disconnect(clt[i].slot)
      BY <1>12, <2>1 DEF HearLeader, ClientCallFails, InClientCall
    <3>2. QED
      BY <1>3, <2>1, <3>1, AwaitedAreBusy
  <2>2. CASE ~InClientCall(i, "ask_leader")
    BY <1>1, <1>12, <2>2 DEF HearLeader, ClientCallFails, InClientCall
  <2>3. QED
    BY <2>1, <2>2
<1>13. ASSUME NEW i \in Client, FirstRound(i) \/ AskHelper(i) \/ Learn(i) \/ NextRound(i)
       PROVE  Kept
  BY <1>1, <1>13 DEF FirstRound, AskHelper, Learn, NextRound
<1>14. ASSUME NEW g \in Handler,
              LeaderRuns(g) \/ LeaderDrops(g) \/ HelperRuns(g) \/ HelperDrops(g)
       PROVE  Kept
  BY <1>1, <1>3, <1>4, <1>14 DEF LeaderRuns, LeaderDrops, HelperRuns, HelperDrops
<1>15. ASSUME LeaderRestarts \/ HelperRestarts \/ UNCHANGED vars PROVE Kept
  BY <1>1, <1>5, <1>15 DEF LeaderRestarts, HelperRestarts, vars
<1> HIDE DEF Kept
<1>16. \/ Kept
       \/ \E c \in Controller :
             /\ CreateSession(c)
             /\ New(CreateRequestOf(c, "Leader", None, ctl'[c].key)) /\ ctl'[c].slot = h
       \/ \E c \in Controller : EndSession(c) /\ New(EndRequestOf(c))
       \/ \E c \in Controller : StartRound(c) /\ New(StartRequestOf(c, ctl'[c].new_task))
       \/ \E i \in Client : New(GetRequestOf(clt[i].task))
  <2> HIDE DEF New
  <2>1. QED
    BY <1>6, <1>7, <1>8, <1>9, <1>10, <1>11, <1>12, <1>13, <1>14, <1>15
       DEF Next, Elsewhere, Calls, ClientCalls
<1>17. QED
  BY <1>16 DEF Kept

\* Every request at the helper is an earlier one, or one of the controllers'
\* and clients' steps sends it.
LEMMA HelperHears ==
    ASSUME SystemInv, [Next]_vars, NEW h \in Handler, hHandler'[h].pc # "idle"
    PROVE  \/ /\ hHandler[h].pc # "idle"
              /\ hHandler'[h].req = hHandler[h].req
           \/ /\ hHandler[h].pc = "idle"
              /\ hHandler'[h].pc = "received"
              /\ hHandler'[h].id = None
              /\ UNCHANGED <<hSessions, hKeyring, hStore>>
              /\ \/ \E c \in Controller : 
                       /\ CreateAtHelper(c) /\ LeaderOK(c) /\ ctl'[c].slot = h
                       /\ hHandler'[h].req = CreateRequestOf(c, "Helper", ctl'[c].id, ctl[c].key)
                 \/ \E c \in Controller : 
                       EndAtHelper(c) /\ hHandler'[h].req = EndRequestOf(c)
                 \/ \E c \in Controller : 
                       /\ StartAtHelper(c)
                       /\ hHandler'[h].req = StartRequestOf(c, ctl[c].new_task)
                 \/ \E i \in Client : hHandler'[h].req = GetRequestOf(clt[i].task)
<1> DEFINE Kept == hHandler[h].pc # "idle" /\ hHandler'[h].req = hHandler[h].req
           New(req) == /\ hHandler[h].pc = "idle"
                       /\ hHandler'[h].pc = "received"
                       /\ hHandler'[h].id = None
                       /\ hHandler'[h].req = req
                       /\ UNCHANGED <<hSessions, hKeyring, hStore>>
<1>0. H!TypeOK /\ H!IInv /\ H!CallerInv
  BY DEF SystemInv, CallsInv, TypeOK
<1>1. ASSUME UNCHANGED helper PROVE Kept
  BY <1>1 DEF helper
<1>2. ASSUME NEW g \in Handler, NEW req, H!Receive(g, req) PROVE Kept \/ (g = h /\ New(req))
  BY <1>0, <1>2, HelperConnections
<1>3. ASSUME NEW g \in Handler, H!Deliver(g) \/ H!Disconnect(g) PROVE Kept
  BY <1>0, <1>3, HelperConnections
<1>4. ASSUME NEW g \in Handler, H!Step(g) PROVE Kept
  BY <1>0, <1>4, HelperStep
<1>5. ASSUME H!Restart PROVE Kept
  BY <1>0, <1>5, HelperConnections
<1>6. ASSUME NEW c \in Controller, CreateAtHelper(c)
      PROVE  \/ Kept
             \/ /\ LeaderOK(c)
                /\ New(CreateRequestOf(c, "Helper", ctl'[c].id, ctl[c].key)) /\ ctl'[c].slot = h
  <2>1. CASE LeaderOK(c)
    BY <1>2, <1>6, <2>1, CreateAtHelperOutcome
  <2>2. CASE ~LeaderOK(c)
    BY <1>1, <1>6, <2>2 DEF CreateAtHelper
  <2>3. QED
    BY <2>1, <2>2
<1>7. ASSUME NEW c \in Controller, EndAtHelper(c) PROVE Kept \/ New(EndRequestOf(c))
  BY <1>2, <1>7, EndAtHelperOutcome
<1>8. ASSUME NEW c \in Controller, StartAtHelper(c)
      PROVE  Kept \/ New(StartRequestOf(c, ctl[c].new_task))
  BY <1>2, <1>8, StartAtHelperOutcome
<1>9. ASSUME NEW i \in Client, AskHelper(i) PROVE Kept \/ New(GetRequestOf(clt[i].task))
  BY <1>2, <1>9 DEF AskHelper
<1>10. ASSUME NEW c \in Controller, CreateReturns(c) \/ EndReturns(c) \/ StartReturns(c)
       PROVE  Kept
  <2>1. H!Deliver(ctl[c].slot) /\ ctl[c].pc \in HelperCall
    BY <1>10 DEF CreateReturns, EndReturns, StartReturns, InCall, HelperCall
  <2>2. QED
    BY <1>3, <2>1, AwaitedAreBusy
<1>11. ASSUME NEW c \in Controller,
              \/ CreateSession(c) \/ EndSession(c) \/ StartRound(c)
              \/ Collect(c) \/ CollectReturns(c) \/ CallFails(c)
       PROVE  Kept
  BY <1>1, <1>11 DEF CreateSession, EndSession, StartRound, Collect, CollectReturns, CallFails
<1>12. ASSUME NEW i \in Client, Learn(i) \/ ClientCallFails(i) PROVE Kept
  <2>1. CASE InClientCall(i, "ask_helper")
    <3>1. H!Deliver(clt[i].slot) \/ H!Disconnect(clt[i].slot)
      BY <1>12, <2>1 DEF Learn, ClientCallFails, InClientCall
    <3>2. QED
      BY <1>3, <2>1, <3>1, AwaitedAreBusy
  <2>2. CASE ~InClientCall(i, "ask_helper")
    BY <1>1, <1>12, <2>2 DEF Learn, ClientCallFails, InClientCall
  <2>3. QED
    BY <2>1, <2>2
<1>13. ASSUME NEW i \in Client, FirstRound(i) \/ Locate(i) \/ HearLeader(i) \/ NextRound(i)
       PROVE  Kept
  BY <1>1, <1>13 DEF FirstRound, Locate, HearLeader, NextRound
<1>14. ASSUME NEW g \in Handler,
              LeaderRuns(g) \/ LeaderDrops(g) \/ HelperRuns(g) \/ HelperDrops(g)
       PROVE  Kept
  BY <1>1, <1>3, <1>4, <1>14 DEF LeaderRuns, LeaderDrops, HelperRuns, HelperDrops
<1>15. ASSUME LeaderRestarts \/ HelperRestarts \/ UNCHANGED vars PROVE Kept
  BY <1>1, <1>5, <1>15 DEF LeaderRestarts, HelperRestarts, vars
<1> HIDE DEF Kept
<1>16. \/ Kept
       \/ \E c \in Controller :
             /\ CreateAtHelper(c) /\ LeaderOK(c)
             /\ New(CreateRequestOf(c, "Helper", ctl'[c].id, ctl[c].key)) /\ ctl'[c].slot = h
       \/ \E c \in Controller : EndAtHelper(c) /\ New(EndRequestOf(c))
       \/ \E c \in Controller : StartAtHelper(c) /\ New(StartRequestOf(c, ctl[c].new_task))
       \/ \E i \in Client : New(GetRequestOf(clt[i].task))
  <2> HIDE DEF New
  <2>1. QED
    BY <1>6, <1>7, <1>8, <1>9, <1>10, <1>11, <1>12, <1>13, <1>14, <1>15
       DEF Next, Elsewhere, Calls, ClientCalls
<1>17. QED
  BY <1>16 DEF Kept

-----------------------------------------------------------------------------
(* The rest of the invariant                                               *)

LEMMA RequestOps ==
    /\ \A c, role, id, k : CreateRequestOf(c, role, id, k).op = "create_session"
    /\ \A c : EndRequestOf(c).op = "end_session"
    /\ \A c, t : StartRequestOf(c, t).op = "start_round"
    /\ \A t : GetRequestOf(t).op = "get_vdaf_parameter"
BY DEF CreateRequestOf, EndRequestOf, StartRequestOf, GetRequestOf

\* Keys and task ids of calls are drawn afresh and then kept.
LEMMA DrawnAfresh ==
    ASSUME SystemInv, [Next]_vars, NEW c \in Controller
    PROVE  /\ \/ ctl'[c].key \in {None, ctl[c].key}
              \/ CreateSession(c) /\ FreshVerifyKey(ctl'[c].key)
           /\ \/ ctl'[c].new_task \in {None, ctl[c].new_task}
              \/ StartRound(c) /\ FreshTask(ctl'[c].new_task)
           /\ ctl'[c].new_task # None => ctl'[c].session = ctl[c].session
<1>1. CASE ctl'[c] = ctl[c]
  BY <1>1
<1>2. CASE CreateSession(c)
  BY <1>2, CreateSessionOutcome
<1>3. CASE CreateAtHelper(c) /\ LeaderOK(c)
  BY <1>3, CreateAtHelperOutcome
<1>4. CASE EndSession(c)
  BY <1>4, EndSessionOutcome
<1>5. CASE EndAtHelper(c)
  BY <1>5, EndAtHelperOutcome
<1>6. CASE StartRound(c)
  BY <1>6, StartRoundOutcome DEF SameRound
<1>7. CASE StartAtHelper(c)
  BY <1>7, StartAtHelperOutcome DEF SameRound
<1>8. CASE Ended(c)
  BY <1>8 DEF Ended
<1>9. QED
  BY <1>1, <1>2, <1>3, <1>4, <1>5, <1>6, <1>7, <1>8, ControllerOutcome

\* A key stays fresh at the helper until a controller brings it there.
LEMMA HelperKeepsKeyFresh ==
    ASSUME SystemInv, [Next]_vars, NEW k, H!FreshKey(k),
           \A c \in Controller : CreateAtHelper(c) /\ LeaderOK(c) => ctl[c].key # k
    PROVE  H!FreshKey(k)'
<1>1. H!TypeOK /\ H!IInv
  BY DEF SystemInv, CallsInv, TypeOK
<1>2. ASSUME NEW g \in Handler, H!IsCreateFor(g, k)' PROVE FALSE
  <2>1. hHandler'[g].pc # "idle" /\ hHandler'[g].req.op = "create_session"
        /\ hHandler'[g].req.verify_key = k
    BY <1>2 DEF H!IsCreateFor, H!At
  <2>2. ~H!IsCreateFor(g, k)
    BY DEF H!FreshKey
  <2>3. CASE hHandler[g].pc # "idle" /\ hHandler'[g].req = hHandler[g].req
    BY <2>1, <2>2, <2>3 DEF H!IsCreateFor, H!At
  <2>4. ASSUME NEW c \in Controller, CreateAtHelper(c), LeaderOK(c),
               hHandler'[g].req = CreateRequestOf(c, "Helper", ctl'[c].id, ctl[c].key)
        PROVE  FALSE
    BY <2>1, <2>4 DEF CreateRequestOf
  <2>5. QED
    BY <2>1, <2>3, <2>4, HelperHears, RequestOps
<1>3. CASE UNCHANGED <<hSessions, hKeyring, hStore>>
  BY <1>2, <1>3 DEF H!FreshKey
<1>4. ASSUME NEW h \in Handler, H!Step(h) PROVE H!FreshKey(k)'
  BY <1>4, HelperInvSame, HelperStepSame, HelperFreshKeySame, HelperAssumptions,
     HP!FreshKeyStep DEF SystemInv, CallsInv
<1>5. CASE H!Restart
  BY <1>1, <1>2, <1>5 DEF H!FreshKey, H!Restart
<1>6. QED
  BY <1>1, <1>3, <1>4, <1>5, HelperIsManaged, HelperConnections DEF helper, HelperMoves

LEMMA KeysFreshStep ==
    ASSUME SystemInv, [Next]_vars
    PROVE  KeysFresh'
<1>0. /\ TypeOK /\ KeysFresh /\ CallRecordsFit
      /\ CallRecordsFit'
  BY ControllerTypesStep DEF SystemInv, CallsInv
<1>1. ASSUME NEW c \in Controller, ctl'[c].pc = "create_leader"
      PROVE  H!FreshKey(ctl[c].key)'
  <2>1. CASE ctl'[c] = ctl[c]
    <3>1. ctl[c].key # None /\ H!FreshKey(ctl[c].key)
      BY <1>0, <1>1, <2>1 DEF KeysFresh, InCall, CallRecordsFit, CallRecordFits
    <3>2. ASSUME NEW d \in Controller, CreateAtHelper(d), LeaderOK(d),
                 ctl[d].key = ctl[c].key
          PROVE  FALSE
      <4>1. c = d
        BY <1>0, <3>1, <3>2 DEF KeysFresh
      <4>2. QED
        BY <1>1, <3>2, <4>1, CreateAtHelperOutcome
    <3>3. \A k : k = ctl[c].key => H!FreshKey(k)'
      BY <3>1, <3>2, HelperKeepsKeyFresh
    <3>4. QED
      BY <2>1, <3>3 DEF H!FreshKey, H!IsCreateFor
  <2>2. CASE CreateSession(c)
    <3>1. PICK k \in VerifyKey : FreshVerifyKey(k) /\ ctl'[c].key = k
      BY <2>2, CreateSessionOutcome
    <3>2. UNCHANGED helper
      BY <2>2 DEF CreateSession
    <3>3. H!FreshKey(k)'
      BY <3>1, <3>2 DEF FreshVerifyKey, H!FreshKey, H!IsCreateFor, H!At, helper
    <3>4. QED
      BY <3>1, <3>3 DEF H!FreshKey, H!IsCreateFor
  <2>3. CASE CreateAtHelper(c) /\ LeaderOK(c)
    BY <1>1, <2>3, CreateAtHelperOutcome
  <2>4. CASE EndSession(c) \/ EndAtHelper(c) \/ StartRound(c) \/ StartAtHelper(c)
    BY <1>1, <2>4, EndSessionOutcome, EndAtHelperOutcome, StartRoundOutcome,
       StartAtHelperOutcome
  <2>5. CASE Ended(c)
    BY <1>1, <2>5 DEF Ended
  <2>6. QED
    BY <2>1, <2>2, <2>3, <2>4, <2>5, ControllerOutcome
<1>2. ASSUME NEW c \in Controller, NEW d \in Controller,
             ctl'[c].key # None, ctl'[c].key = ctl'[d].key
      PROVE  c = d
  <2>1. ASSUME NEW e \in Controller, NEW f \in Controller,
               CreateSession(e), FreshVerifyKey(ctl'[e].key), ctl'[e].key = ctl'[f].key
        PROVE  e = f
    <3>1. ctl[f].key # ctl'[e].key
      BY <2>1 DEF FreshVerifyKey
    <3>2. e # f => ctl'[f] = ctl[f]
      BY <1>0, <2>1, CallsAreSingle DEF Calls
    <3>3. QED
      BY <2>1, <3>1, <3>2
  <2>2. CASE ctl'[c].key = ctl[c].key /\ ctl'[d].key = ctl[d].key
    BY <1>0, <1>2, <2>2 DEF KeysFresh
  <2>3. QED
    BY <1>2, <2>1, <2>2, DrawnAfresh
<1>3. QED
  BY <1>1, <1>2 DEF KeysFresh, InCall

LEMMA StartsAreOwnStep ==
    ASSUME SystemInv, [Next]_vars
    PROVE  StartsAreOwn'
<1>0. TypeOK /\ StartsAreOwn
  BY DEF SystemInv, CallsInv
<1>1. ASSUME NEW c \in Controller, NEW d \in Controller,
             ctl'[c].new_task # None, ctl'[c].new_task = ctl'[d].new_task
      PROVE  c = d
  <2>1. ASSUME NEW e \in Controller, NEW f \in Controller,
               StartRound(e), FreshTask(ctl'[e].new_task), ctl'[e].new_task = ctl'[f].new_task
        PROVE  e = f
    <3>1. ctl[f].new_task # ctl'[e].new_task
      BY <2>1 DEF FreshTask
    <3>2. e # f => ctl'[f] = ctl[f]
      BY <1>0, <2>1, CallsAreSingle DEF Calls
    <3>3. QED
      BY <2>1, <3>1, <3>2
  <2>2. CASE ctl'[c].new_task = ctl[c].new_task /\ ctl'[d].new_task = ctl[d].new_task
    BY <1>0, <1>1, <2>2 DEF StartsAreOwn
  <2>3. QED
    BY <1>1, <2>1, <2>2, DrawnAfresh
<1>2. ASSUME NEW c \in Controller, NEW h \in Handler, ctl'[c].new_task # None,
             StartsTask(lHandler, h, ctl[c].new_task)'
      PROVE  lHandler'[h].req.training_session_id = ctl'[c].session
  <2> DEFINE t == ctl'[c].new_task
  <2>1. /\ lHandler'[h].pc # "idle"
        /\ lHandler'[h].req.op = "start_round"
        /\ lHandler'[h].req.task_id = t
    BY <1>2 DEF StartsTask
  <2>2. ctl'[c].session = ctl[c].session
    BY <1>2, DrawnAfresh
  <2>3. CASE lHandler[h].pc # "idle" /\ lHandler'[h].req = lHandler[h].req
    <3>1. CASE t = ctl[c].new_task
      BY <1>0, <1>2, <2>1, <2>2, <2>3, <3>1 DEF StartsAreOwn, StartsTask
    <3>2. CASE FreshTask(t)
      BY <2>1, <2>3, <3>2 DEF FreshTask, L!At
    <3>3. QED
      BY <1>2, <3>1, <3>2, DrawnAfresh
  <2>4. ASSUME NEW d \in Controller, StartRound(d),
               lHandler'[h].req = StartRequestOf(d, ctl'[d].new_task)
        PROVE  lHandler'[h].req.training_session_id = ctl'[c].session
    <3>1. ctl'[d].new_task = t /\ lHandler'[h].req.training_session_id = ctl[d].session
      BY <2>1, <2>4 DEF StartRequestOf
    <3>2. c = d
      BY <1>1, <1>2, <3>1
    <3>3. QED
      BY <2>2, <3>1, <3>2
  <2>5. QED
    BY <2>1, <2>3, <2>4, LeaderHears, RequestOps
<1>3. ASSUME NEW c \in Controller, NEW h \in Handler, ctl'[c].new_task # None,
             StartsTask(hHandler, h, ctl[c].new_task)'
      PROVE  hHandler'[h].req.training_session_id = ctl'[c].session
  <2> DEFINE t == ctl'[c].new_task
  <2>1. /\ hHandler'[h].pc # "idle"
        /\ hHandler'[h].req.op = "start_round"
        /\ hHandler'[h].req.task_id = t
    BY <1>3 DEF StartsTask
  <2>2. ctl'[c].session = ctl[c].session
    BY <1>3, DrawnAfresh
  <2>3. CASE hHandler[h].pc # "idle" /\ hHandler'[h].req = hHandler[h].req
    <3>1. CASE t = ctl[c].new_task
      BY <1>0, <1>3, <2>1, <2>2, <2>3, <3>1 DEF StartsAreOwn, StartsTask
    <3>2. CASE FreshTask(t)
      BY <2>1, <2>3, <3>2 DEF FreshTask, H!At
    <3>3. QED
      BY <1>3, <3>1, <3>2, DrawnAfresh
  <2>4. ASSUME NEW d \in Controller, StartAtHelper(d),
               hHandler'[h].req = StartRequestOf(d, ctl[d].new_task)
        PROVE  hHandler'[h].req.training_session_id = ctl'[c].session
    <3>1. ctl[d].new_task = t /\ hHandler'[h].req.training_session_id = ctl[d].session
      BY <2>1, <2>4 DEF StartRequestOf
    <3>2. ctl'[d].new_task = t
      BY <2>4, <3>1, StartAtHelperOutcome
    <3>3. c = d
      BY <1>1, <1>3, <3>2
    <3>4. QED
      BY <2>2, <3>1, <3>3
  <2>5. QED
    BY <2>1, <2>3, <2>4, HelperHears, RequestOps
<1>4. QED
  BY <1>1, <1>2, <1>3 DEF StartsAreOwn

\* A task stays as it was provisioned.
LEMMA TasksKept ==
    ASSUME SystemInv, [Next]_vars, NEW t \in TaskId
    PROVE  /\ lStore[t] # None => lStore'[t] = lStore[t]
           /\ hStore[t] # None => hStore'[t] = hStore[t]
<1>1. /\ L!TypeOK /\ L!IInv /\ L!CallerInv
      /\ H!TypeOK /\ H!IInv /\ H!CallerInv
  BY DEF SystemInv, CallsInv, TypeOK
<1>2. lStore[t] # None => lStore'[t] = lStore[t]
  <2>1. ASSUME NEW h \in Handler, LeaderMoves(h)
        PROVE  lStore[t] # None => lStore'[t] = lStore[t]
    BY <1>1, <2>1, LeaderConnections, LeaderStep DEF LeaderMoves
  <2>2. QED
    BY <1>1, <2>1, LeaderIsManaged DEF leader, L!Restart
<1>3. hStore[t] # None => hStore'[t] = hStore[t]
  <2>1. ASSUME NEW h \in Handler, HelperMoves(h)
        PROVE  hStore[t] # None => hStore'[t] = hStore[t]
    BY <1>1, <2>1, HelperConnections, HelperStep DEF HelperMoves
  <2>2. QED
    BY <1>1, <2>1, HelperIsManaged DEF helper, H!Restart
<1>4. QED
  BY <1>2, <1>3

\* A manager that answers a start_round with OK has the task.
LEMMA StartAnswered ==
    ASSUME SystemInv, NEW c \in Controller
    PROVE  /\ StartAtHelper(c) /\ LeaderOK(c) =>
                 ctl[c].new_task \in TaskId /\ lStore[ctl[c].new_task] # None
           /\ StartReturns(c) /\ HelperOK(c) =>
                 ctl[c].new_task \in TaskId /\ hStore[ctl[c].new_task] # None
<1>1. ControllerAwaits(c) /\ L!RepliesSound /\ H!RepliesSound
  BY DEF SystemInv, CallsInv, CallersAwait, L!IInv, H!IInv
<1>2. CASE StartAtHelper(c) /\ LeaderOK(c)
  <2> DEFINE h == ctl[c].slot
  <2>1. /\ h \in Handler /\ lHandler[h].req = StartRequestOf(c, ctl[c].new_task)
        /\ L!At(h, "replied") /\ lHandler[h].reply.status = "OK"
    BY <1>1, <1>2 DEF StartAtHelper, ControllerAwaits, LeaderHandles, L!Deliver, LeaderOK, InCall
  <2>2. lHandler[h].req.op = "start_round" /\ lHandler[h].req.task_id = ctl[c].new_task
    BY <2>1 DEF StartRequestOf
  <2>3. ctl[c].new_task \in TaskId /\ lStore[ctl[c].new_task] # None
    BY <1>1, <2>1, <2>2 DEF L!RepliesSound
  <2>4. ~StartReturns(c)
    BY <1>2 DEF StartAtHelper, StartReturns, InCall
  <2>5. QED
    BY <2>3, <2>4
<1>3. CASE StartReturns(c) /\ HelperOK(c)
  <2> DEFINE h == ctl[c].slot
  <2>1. /\ h \in Handler /\ hHandler[h].req = StartRequestOf(c, ctl[c].new_task)
        /\ H!At(h, "replied") /\ hHandler[h].reply.status = "OK"
    BY <1>1, <1>3 DEF StartReturns, ControllerAwaits, HelperHandles, H!Deliver, HelperOK, InCall
  <2>2. hHandler[h].req.op = "start_round" /\ hHandler[h].req.task_id = ctl[c].new_task
    BY <2>1 DEF StartRequestOf
  <2>3. ctl[c].new_task \in TaskId /\ hStore[ctl[c].new_task] # None
    BY <1>1, <2>1, <2>2 DEF H!RepliesSound
  <2>4. ~StartAtHelper(c)
    BY <1>3 DEF StartAtHelper, StartReturns, InCall
  <2>5. QED
    BY <2>3, <2>4
<1>4. QED
  BY <1>2, <1>3

LEMMA LeaderHasNewTaskStep ==
    ASSUME SystemInv, [Next]_vars
    PROVE  LeaderHasNewTask'
<1>0. /\ LeaderHasNewTask /\ CallRecordsFit
      /\ ctl \in [Controller -> ControllerState]
  BY DEF SystemInv, CallsInv, TypeOK
<1>1. ASSUME NEW c \in Controller, ctl'[c].pc = "round_helper", ctl'[c].leader_ok
      PROVE  lStore'[ctl'[c].new_task] # None
  <2>1. CASE ctl'[c] = ctl[c]
    <3>1. ctl[c].new_task \in TaskId /\ lStore[ctl[c].new_task] # None
      BY <1>0, <1>1, <2>1 DEF LeaderHasNewTask, InCall, CallRecordsFit, CallRecordFits,
                              ControllerState
    <3>2. QED
      BY <2>1, <3>1, TasksKept
  <2>2. CASE StartAtHelper(c)
    <3>1. LeaderOK(c) /\ ctl'[c].new_task = ctl[c].new_task
      BY <1>1, <2>2, StartAtHelperOutcome
    <3>2. QED
      BY <2>2, <3>1, StartAnswered, TasksKept
  <2>3. CASE CreateSession(c) \/ EndSession(c) \/ EndAtHelper(c) \/ StartRound(c)
    BY <1>1, <2>3, CreateSessionOutcome, EndSessionOutcome, EndAtHelperOutcome,
       StartRoundOutcome
  <2>4. CASE CreateAtHelper(c) /\ LeaderOK(c)
    BY <1>1, <2>4, CreateAtHelperOutcome
  <2>5. CASE Ended(c)
    BY <1>1, <2>5 DEF Ended
  <2>6. QED
    BY <2>1, <2>2, <2>3, <2>4, <2>5, ControllerOutcome
<1>2. QED
  BY <1>1 DEF LeaderHasNewTask, InCall

\* A round changes only when it was started: both managers have answered OK.
LEMMA RoundChange ==
    ASSUME SystemInv, [Next]_vars, NEW c \in Controller, ctl'[c].task # ctl[c].task
    PROVE  /\ StartReturns(c)
           /\ ctl'[c].task = ctl[c].new_task /\ ctl'[c].session = ctl[c].session
           /\ ctl[c].new_task \in TaskId
           /\ lStore[ctl[c].new_task] # None /\ hStore[ctl[c].new_task] # None
<1>1. /\ StartReturns(c) /\ ctl[c].leader_ok /\ HelperOK(c)
      /\ ctl'[c].task = ctl[c].new_task /\ ctl'[c].session = ctl[c].session
  <2>1. CASE SameRound(c)
    BY <2>1 DEF SameRound
  <2>2. CASE CreateSession(c) \/ EndSession(c) \/ EndAtHelper(c) \/ StartRound(c)
             \/ StartAtHelper(c)
    BY <2>1, <2>2, CreateSessionOutcome, EndSessionOutcome, EndAtHelperOutcome,
       StartRoundOutcome, StartAtHelperOutcome
  <2>3. CASE CreateAtHelper(c) /\ LeaderOK(c)
    BY <2>1, <2>3, CreateAtHelperOutcome
  <2>4. QED
    BY <2>1, <2>2, <2>3, ControllerOutcome
<1>2. lStore[ctl[c].new_task] # None
  BY <1>1 DEF SystemInv, CallsInv, LeaderHasNewTask, StartReturns
<1>3. QED
  BY <1>1, <1>2, StartAnswered

LEMMA RoundProvisionedStep ==
    ASSUME SystemInv, [Next]_vars
    PROVE  RoundProvisioned'
<1>0. RoundProvisioned /\ ctl \in [Controller -> ControllerState]
  BY DEF SystemInv, CallsInv, TypeOK
<1>1. L!TypeOK /\ L!CallerInv /\ H!TypeOK /\ H!CallerInv
  BY DEF SystemInv, CallsInv, TypeOK
<1>2. ASSUME NEW c \in Controller, ctl'[c].task # None
      PROVE  LET t == ctl'[c].task IN
             t \in TaskId /\ lStore[t] # None /\ hStore[t] # None
  <2>1. CASE ctl'[c].task = ctl[c].task
    BY <1>0, <1>2, <2>1 DEF RoundProvisioned, ControllerState
  <2>2. CASE ctl'[c].task # ctl[c].task
    BY <2>2, RoundChange
  <2>3. QED
    BY <2>1, <2>2
<1>3. ASSUME NEW t \in TaskId, lStore[t] # None, hStore[t] # None
      PROVE  /\ lStore'[t] # None /\ lStore'[t].role = "Leader"
             /\ hStore'[t] # None /\ hStore'[t].role = "Helper"
  BY <1>1, <1>3, TasksKept, LeaderTerms, HelperTerms
<1>4. QED
  BY <1>2, <1>3 DEF RoundProvisioned

-----------------------------------------------------------------------------
(* The theorems                                                            *)

LEMMA InitSystemInv == Init => SystemInv
<1> SUFFICES ASSUME Init PROVE SystemInv
  OBVIOUS
<1>1. L!IInv /\ L!CallerInv
  <2>1. LP!Init
    BY DEF Init, L!Init, LP!Init, L!Idle, LP!Idle
  <2>2. LP!IInv /\ LP!CallerInv
    BY <2>1, LeaderAssumptions, LP!InitIInv, LP!InitCallerInv
  <2>3. QED
    BY <2>2, LeaderInvSame
<1>2. H!IInv /\ H!CallerInv
  <2>1. HP!Init
    BY DEF Init, H!Init, HP!Init, H!Idle, HP!Idle
  <2>2. HP!IInv /\ HP!CallerInv
    BY <2>1, HelperAssumptions, HP!InitIInv, HP!InitCallerInv
  <2>3. QED
    BY <2>2, HelperInvSame
<1>3. /\ ctl = [c \in Controller |-> NoCall(None, None)]
      /\ clt = [i \in Client |-> NewClient]
      /\ main \in [leader : Location, helper : Location]
  BY DEF Init
<1>4. TypeOK
  <2>1. NoCall(None, None) \in ControllerState /\ NewClient \in ClientState
    BY DEF NoCall, ControllerState, NewClient, ClientState
  <2>2. QED
    BY <1>1, <1>2, <1>3, <2>1 DEF TypeOK, L!IInv, H!IInv
<1>5. CallRecordsFit /\ CallersAwait /\ OneCallerPerHandler
  BY <1>3 DEF CallRecordsFit, CallRecordFits, CallersAwait, ControllerAwaits, ClientAwaits,
              OneCallerPerHandler, NoCall, NewClient, InCall, InClientCall, LeaderCall,
              HelperCall
<1>6. KeysFresh /\ StartsAreOwn /\ LeaderHasNewTask /\ RoundProvisioned
  BY <1>3 DEF KeysFresh, StartsAreOwn, LeaderHasNewTask, RoundProvisioned, NoCall, InCall
<1>7. QED
  BY <1>1, <1>2, <1>4, <1>5, <1>6 DEF SystemInv, CallsInv

\* Every step keeps it.
LEMMA NextSystemInv == SystemInv /\ [Next]_vars => SystemInv'
BY TypesStep, LeaderInvStep, HelperInvStep, ControllerTypesStep, AwaitStep,
   OneCallerStep, KeysFreshStep, StartsAreOwnStep, LeaderHasNewTaskStep,
   RoundProvisionedStep DEF SystemInv, CallsInv

\* Whatever fails, restarts or is drawn, the inductive invariant of the whole
\* system holds: both managers keep theirs, and callers and handlers agree on
\* what they are doing for each other.
THEOREM Invariance == Spec => []SystemInv
<1>1. QED
  BY InitSystemInv, NextSystemInv, PTL DEF Spec

\* Calls, requests in flight and answers fit together, whatever fails and
\* whichever ids are drawn.
THEOREM CallsFit == Spec => []CallsInv
<1>1. SystemInv => CallsInv
  BY DEF SystemInv
<1>2. QED
  BY <1>1, Invariance, PTL

\* Managers, controllers and clients stay within their types.
THEOREM TypeCorrect == Spec => []TypeOK
<1>1. SystemInv => TypeOK
  BY DEF SystemInv, CallsInv
<1>2. QED
  BY <1>1, Invariance, PTL

\* The round that api_start_round announced is at both aggregators, each in
\* its own role, whatever calls failed and whichever manager has restarted.
THEOREM RoundsAreProvisioned == Spec => []RoundProvisioned
<1>1. SystemInv => RoundProvisioned
  BY DEF SystemInv, CallsInv
<1>2. QED
  BY <1>1, Invariance, PTL

\* Within the system, the leader's manager is a TaskProvisioner that is sent
\* only what the callers of a leader send; so everything that is proved of
\* one holds of it.
THEOREM LeaderIsManager == Spec => L!Spec
<1>1. Init => L!Init
  BY DEF Init
<1>2. SystemInv /\ [Next]_vars => [L!Next]_(L!vars)
  BY LeaderNext
<1>3. QED
  BY <1>1, <1>2, Invariance, PTL DEF Spec, L!Spec

\* So is the helper's.
THEOREM HelperIsManager == Spec => H!Spec
<1>1. Init => H!Init
  BY DEF Init
<1>2. SystemInv /\ [Next]_vars => [H!Next]_(H!vars)
  BY HelperNext
<1>3. QED
  BY <1>1, <1>2, Invariance, PTL DEF Spec, H!Spec

=============================================================================
