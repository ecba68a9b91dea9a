--------------------------- MODULE FreshIdProofs ---------------------------
(***************************************************************************)
(* What the system promises as long as random session ids do not collide.  *)
(*                                                                         *)
(* The heart of the argument is OneKeyPerId: whatever ties a session id to *)
(* a verify key - a session, a request, the answer to it, the record of    *)
(* a controller, the task of a round being started - goes back to the one  *)
(* handler of the leader that drew the id.  BoundStep follows the tie      *)
(* through every step of the system.                                       *)
(***************************************************************************)
EXTENDS FederationProofs

-----------------------------------------------------------------------------
(* Who holds an id at a manager                                            *)

LEMMA LeaderHoldsSame ==
    ASSUME NEW h, NEW id
    PROVE  /\ L!Holds(h, id) <=> LP!Holds(h, id)
           /\ L!Holds(h, id)' <=> LP!Holds(h, id)'
BY DEF L!Holds, LP!Holds

LEMMA LeaderBindsSame ==
    ASSUME NEW id, NEW k, NEW c
    PROVE  /\ L!Binds(id, k, c) <=> LP!Binds(id, k, c)
           /\ L!Binds(id, k, c)' <=> LP!Binds(id, k, c)'
BY DEF L!Binds, LP!Binds, L!Holds, LP!Holds

LEMMA HelperHoldsSame ==
    ASSUME NEW h, NEW id
    PROVE  /\ H!Holds(h, id) <=> HP!Holds(h, id)
           /\ H!Holds(h, id)' <=> HP!Holds(h, id)'
BY DEF H!Holds, HP!Holds

LEMMA HelperBindsSame ==
    ASSUME NEW id, NEW k, NEW c
    PROVE  /\ H!Binds(id, k, c) <=> HP!Binds(id, k, c)
           /\ H!Binds(id, k, c)' <=> HP!Binds(id, k, c)'
BY DEF H!Binds, HP!Binds, H!Holds, HP!Holds

\* The leader is asked for no particular id, the helper always is.
LEMMA IdsAskedFor ==
    ASSUME SystemInv, NEW h \in Handler
    PROVE  /\ lHandler[h].pc # "idle" /\ lHandler[h].req.op = "create_session"
                 => lHandler[h].req.training_session_id = None
           /\ hHandler[h].pc # "idle" /\ hHandler[h].req.op = "create_session"
                 => hHandler[h].req.training_session_id \in SessionId
<1>1. L!AnswerFits(h) /\ H!AnswerFits(h)
  BY DEF SystemInv, CallsInv, L!CallerInv, H!CallerInv, L!AnswersFit, H!AnswersFit
<1>2. ASSUME lHandler[h].pc # "idle", lHandler[h].req.op = "create_session"
      PROVE  lHandler[h].req.training_session_id = None
  <2>1. lHandler[h].req \in LeaderRequest
    BY <1>1, <1>2 DEF L!AnswerFits, L!At
  <2>2. QED
    BY <1>2, <2>1 DEF LeaderRequest, SessionRequest, CreateRequestOf
<1>3. ASSUME hHandler[h].pc # "idle", hHandler[h].req.op = "create_session"
      PROVE  hHandler[h].req.training_session_id \in SessionId
  <2>1. hHandler[h].req \in HelperRequest
    BY <1>1, <1>3 DEF H!AnswerFits, H!At
  <2>2. QED
    BY <1>3, <2>1 DEF HelperRequest, SessionRequest, CreateRequestOf
<1>4. QED
  BY <1>2, <1>3

\* What a handler of the helper holds it was asked for.
LEMMA HelperHoldsAsked ==
    ASSUME SystemInv, NEW h \in Handler, NEW id \in SessionId, H!Holds(h, id)
    PROVE  HelperIsAskedFor(h, id)
<1>1. H!AnswerFits(h) /\ H!HandlersWellFormed
  BY DEF SystemInv, CallsInv, H!CallerInv, H!AnswersFit, H!IInv
<1>2. id # None
  BY NoneAssumption
<1>3. CASE hHandler[h].id = id
  <2>1. /\ hHandler[h].pc \in {"keyring", "insert"}
        /\ hHandler[h].req.training_session_id \in {None, id}
    BY <1>1, <1>2, <1>3 DEF H!AnswerFits
  <2>2. hHandler[h].req.op = "create_session"
    BY <1>1, <2>1 DEF H!HandlersWellFormed, H!CreateRequest, H!At
  <2>3. QED
    BY <2>1, <2>2, IdsAskedFor, NoneAssumption DEF HelperIsAskedFor
<1>4. CASE /\ hHandler[h].pc = "replied"
           /\ hHandler[h].req.op = "create_session"
           /\ hHandler[h].reply.body = id
  <2>1. hHandler[h].req.training_session_id \in {None, id}
    BY <1>1, <1>2, <1>4 DEF H!AnswerFits, H!At
  <2>2. QED
    BY <1>4, <2>1, IdsAskedFor, NoneAssumption DEF HelperIsAskedFor
<1>5. QED
  BY <1>3, <1>4 DEF H!Holds

\* A handler of the leader comes to hold an id by drawing it.
LEMMA LeaderHoldsStep ==
    ASSUME SystemInv, [Next]_vars, NEW g \in Handler, NEW id \in SessionId,
           L!Holds(g, id)'
    PROVE  L!Holds(g, id) \/ LP!Draws(g, id)
<1>0. L!TypeOK /\ L!IInv /\ L!AnswersFit /\ id # None
  BY NoneAssumption DEF SystemInv, CallsInv, TypeOK, L!CallerInv
<1>1. CASE UNCHANGED leader
  BY <1>1 DEF leader, L!Holds
<1>2. ASSUME NEW h \in Handler, NEW req, L!Receive(h, req) PROVE L!Holds(g, id)
  BY <1>0, <1>2, LeaderConnections DEF L!Holds
<1>3. ASSUME NEW h \in Handler, L!Deliver(h) \/ L!Disconnect(h) PROVE L!Holds(g, id)
  BY <1>0, <1>3, LeaderConnections DEF L!Holds
<1>4. ASSUME NEW h \in Handler, L!Step(h) PROVE L!Holds(g, id) \/ LP!Draws(g, id)
  <2>1. LP!IInv /\ LP!AnswersFit /\ LP!Step(h) /\ LP!Holds(g, id)'
    BY <1>0, <1>4, LeaderInvSame, LeaderInvParts, LeaderStepSame, LeaderHoldsSame
  <2>2. \/ LP!Holds(g, id)
        \/ g = h /\ LP!Draws(h, id)
        \/ /\ lHandler[h].pc # "idle"
           /\ lHandler[h].req.op = "create_session"
           /\ lHandler[h].req.training_session_id = id
    BY <2>1, LeaderAssumptions, LP!HoldsStep
  <2>3. QED
    BY <1>0, <2>2, LeaderHoldsSame, IdsAskedFor
<1>5. CASE L!Restart
  BY <1>0, <1>5, LeaderConnections DEF L!Holds
<1>6. QED
  BY <1>1, <1>2, <1>3, <1>4, <1>5, LeaderIsManaged DEF LeaderMoves

\* It binds an id to a new key by drawing it, too.
LEMMA LeaderBindsStep ==
    ASSUME SystemInv, [Next]_vars, NEW id \in SessionId, NEW k, NEW c,
           L!Binds(id, k, c)'
    PROVE  \/ L!Binds(id, k, c)
           \/ \E h \in Handler :
                 /\ LP!Draws(h, id)
                 /\ lHandler[h].req.verify_key = k
                 /\ lHandler[h].req.collector = c
<1>0. L!TypeOK /\ L!IInv /\ L!AnswersFit /\ id # None
  BY NoneAssumption DEF SystemInv, CallsInv, TypeOK, L!CallerInv
<1>1. CASE UNCHANGED leader
  BY <1>1 DEF leader, L!Binds, L!Holds
<1>2. ASSUME NEW h \in Handler, NEW req \in LeaderRequest, L!Receive(h, req)
      PROVE  L!Binds(id, k, c)
  <2>1. req.op = "create_session" => req.training_session_id = None
    BY DEF LeaderRequest, SessionRequest, CreateRequestOf
  <2>2. /\ lHandler'[h].pc = "received" /\ lHandler'[h].req = req /\ lHandler'[h].id = None
        /\ \A g \in Handler : g # h => lHandler'[g] = lHandler[g]
        /\ lSessions' = lSessions
    BY <1>0, <1>2, LeaderConnections
  <2>3. QED
    BY <1>0, <2>1, <2>2 DEF L!Binds, L!Holds
<1>3. ASSUME NEW h \in Handler, L!Deliver(h) \/ L!Disconnect(h) PROVE L!Binds(id, k, c)
  BY <1>0, <1>3, LeaderConnections DEF L!Binds, L!Holds
<1>4. ASSUME NEW h \in Handler, L!Step(h)
      PROVE  \/ L!Binds(id, k, c)
             \/ /\ LP!Draws(h, id)
                /\ lHandler[h].req.verify_key = k
                /\ lHandler[h].req.collector = c
  <2>1. LP!IInv /\ LP!AnswersFit /\ LP!Step(h) /\ LP!Binds(id, k, c)'
    BY <1>0, <1>4, LeaderInvSame, LeaderInvParts, LeaderStepSame, LeaderBindsSame
  <2>2. QED
    BY <2>1, LeaderAssumptions, LP!BindsStep, LeaderBindsSame
<1>5. CASE L!Restart
  BY <1>0, <1>5, LeaderConnections DEF L!Binds, L!Restart
<1>6. QED
  BY <1>1, <1>2, <1>3, <1>4, <1>5, LeaderIsManaged DEF LeaderMoves

\* The helper binds an id to a key when a controller asks it to.
LEMMA HelperBindsStep ==
    ASSUME SystemInv, [Next]_vars, NEW id \in SessionId, NEW k, NEW c,
           H!Binds(id, k, c)'
    PROVE  \/ H!Binds(id, k, c)
           \/ /\ c \in Controller
              /\ CreateAtHelper(c) /\ LeaderOK(c)
              /\ ctl'[c].id = id
              /\ ctl[c].key = k
<1>0. H!TypeOK /\ H!IInv /\ H!AnswersFit /\ id # None
  BY NoneAssumption DEF SystemInv, CallsInv, TypeOK, H!CallerInv
<1>1. CASE UNCHANGED helper
  BY <1>1 DEF helper, H!Binds, H!Holds
<1>2. ASSUME NEW h \in Handler, NEW req, H!Receive(h, req), ~H!Binds(id, k, c)
      PROVE  /\ c \in Controller
             /\ CreateAtHelper(c) /\ LeaderOK(c)
             /\ ctl'[c].id = id
             /\ ctl[c].key = k
  <2>1. /\ hHandler[h].pc = "idle"
        /\ hHandler'[h].pc = "received" /\ hHandler'[h].id = None
        /\ \A g \in Handler : g # h => hHandler'[g] = hHandler[g]
        /\ hSessions' = hSessions
    BY <1>0, <1>2, HelperConnections
  <2>2. /\ hHandler'[h].req.op = "create_session"
        /\ hHandler'[h].req.verify_key = k
        /\ hHandler'[h].req.collector = c
        /\ hHandler'[h].req.training_session_id = id
    BY <1>0, <1>2, <2>1 DEF H!Binds, H!Holds
  <2>3. PICK d \in Controller :
           /\ CreateAtHelper(d) /\ LeaderOK(d)
           /\ hHandler'[h].req = CreateRequestOf(d, "Helper", ctl'[d].id, ctl[d].key)
    BY <2>1, <2>2, HelperHears, RequestOps
  <2>4. QED
    BY <2>2, <2>3 DEF CreateRequestOf
<1>3. ASSUME NEW h \in Handler, H!Deliver(h) \/ H!Disconnect(h) PROVE H!Binds(id, k, c)
  BY <1>0, <1>3, HelperConnections DEF H!Binds, H!Holds
<1>4. ASSUME NEW h \in Handler, H!Step(h) PROVE H!Binds(id, k, c)
  <2>1. HP!IInv /\ HP!AnswersFit /\ HP!Step(h) /\ HP!Binds(id, k, c)'
    BY <1>0, <1>4, HelperInvSame, HelperInvParts, HelperStepSame, HelperBindsSame
  <2>2. HP!Binds(id, k, c) \/ HP!Draws(h, id)
    BY <2>1, HelperAssumptions, HP!BindsStep
  <2>3. ~HP!Draws(h, id)
    BY IdsAskedFor, NoneAssumption DEF HP!Draws
  <2>4. QED
    BY <2>2, <2>3, HelperBindsSame
<1>5. CASE H!Restart
  BY <1>0, <1>5, HelperConnections DEF H!Binds, H!Restart
<1>6. QED
  BY <1>1, <1>2, <1>3, <1>4, <1>5, HelperIsManaged DEF HelperMoves

-----------------------------------------------------------------------------
(* An id that is drawn is new                                              *)

LEMMA FreshNextIsNext == [FreshIdNext]_vars => [Next]_vars
BY DEF FreshIdNext, Next

\* No handler of the leader runs in a step of somebody else.
LEMMA OthersDoNotDraw ==
    ASSUME SystemInv, Elsewhere, NEW h \in Handler, NEW id
    PROVE  ~LP!Draws(h, id)
<1> SUFFICES ASSUME lHandler[h].pc = "received", lHandler'[h].pc = "keyring"
             PROVE  FALSE
  BY DEF LP!Draws
<1>0. L!TypeOK
  BY DEF SystemInv, CallsInv, TypeOK
<1>1. ASSUME UNCHANGED leader PROVE FALSE
  BY <1>1 DEF leader
<1>2. ASSUME NEW g \in Handler, NEW req, L!Receive(g, req) PROVE FALSE
  BY <1>0, <1>2, LeaderConnections
<1>3. ASSUME NEW g \in Handler, L!Deliver(g) \/ L!Disconnect(g) PROVE FALSE
  BY <1>0, <1>3, LeaderConnections
<1>4. ASSUME L!Restart PROVE FALSE
  BY <1>0, <1>4, LeaderConnections
<1>5. ASSUME NEW c \in Controller, CreateSession(c) \/ EndSession(c) \/ StartRound(c)
      PROVE  FALSE
  BY <1>2, <1>5 DEF CreateSession, EndSession, StartRound
<1>6. ASSUME NEW c \in Controller, CreateAtHelper(c) \/ EndAtHelper(c) \/ StartAtHelper(c)
      PROVE  FALSE
  <2>1. L!Deliver(ctl[c].slot) /\ ctl[c].pc \in LeaderCall
    BY <1>6 DEF CreateAtHelper, EndAtHelper, StartAtHelper, InCall, LeaderCall
  <2>2. QED
    BY <1>3, <2>1, AwaitedAreBusy
<1>7. ASSUME NEW c \in Controller,
             \/ CreateReturns(c) \/ EndReturns(c) \/ StartReturns(c)
             \/ Collect(c) \/ CollectReturns(c) \/ CallFails(c)
      PROVE  FALSE
  BY <1>1, <1>7 DEF CreateReturns, EndReturns, StartReturns, Collect, CollectReturns, CallFails
<1>8. ASSUME NEW i \in Client, Locate(i) PROVE FALSE
  BY <1>1, <1>2, <1>8 DEF Locate
<1>9. ASSUME NEW i \in Client, HearLeader(i) \/ ClientCallFails(i) PROVE FALSE
  <2>1. CASE InClientCall(i, "ask_leader")
    <3>1. L!Deliver(clt[i].slot) \/ L!Disconnect(clt[i].slot)
      BY <1>9, <2>1 DEF HearLeader, ClientCallFails, InClientCall
    <3>2. QED
      BY <1>3, <2>1, <3>1, AwaitedAreBusy
  <2>2. CASE ~InClientCall(i, "ask_leader")
    BY <1>1, <1>9, <2>2 DEF HearLeader, ClientCallFails, InClientCall
  <2>3. QED
    BY <2>1, <2>2
<1>10. ASSUME NEW i \in Client, FirstRound(i) \/ AskHelper(i) \/ Learn(i) \/ NextRound(i)
       PROVE  FALSE
  BY <1>1, <1>10 DEF FirstRound, AskHelper, Learn, NextRound
<1>11. ASSUME NEW g \in Handler, LeaderDrops(g) \/ HelperRuns(g) \/ HelperDrops(g)
       PROVE  FALSE
  BY <1>1, <1>3, <1>11 DEF LeaderDrops, HelperRuns, HelperDrops
<1>12. ASSUME LeaderRestarts \/ HelperRestarts PROVE FALSE
  BY <1>1, <1>4, <1>12 DEF LeaderRestarts, HelperRestarts
<1>13. QED
  BY <1>5, <1>6, <1>7, <1>8, <1>9, <1>10, <1>11, <1>12 DEF Elsewhere, Calls, ClientCalls

LEMMA DrawnIsUnused ==
    ASSUME SystemInv, [FreshIdNext]_vars, NEW h \in Handler, NEW id, LP!Draws(h, id)
    PROVE  LeaderRuns(h) /\ ~IdInUse(id)
<1>0. L!TypeOK /\ L!IInv /\ L!CallerInv
  BY DEF SystemInv, CallsInv, TypeOK
<1>1. lHandler[h].pc = "received" /\ lHandler'[h].pc = "keyring" /\ lHandler'[h].id = id
  BY DEF LP!Draws
<1>2. ~UNCHANGED vars
  BY <1>1 DEF vars, leader
<1>3. PICK g \in Handler : LeaderRuns(g) /\ ~DrawsUsedId(g)
  BY <1>2, OthersDoNotDraw DEF FreshIdNext
<1>4. g = h
  BY <1>0, <1>1, <1>3, LeaderStep DEF LeaderRuns
<1>5. QED
  BY <1>1, <1>3, <1>4 DEF DrawsUsedId, L!At

\* Nothing is tied to an id that is not in use.
LEMMA UnusedIsUnbound ==
    ASSUME SystemInv, NEW id \in SessionId, ~IdInUse(id),
           NEW k, NEW c \in Controller
    PROVE  ~BoundTo(id, k, c)
<1>0. id # None
  BY NoneAssumption
<1>1. ~L!Binds(id, k, c)
  <2>1. lSessions[id] = None
    BY DEF IdInUse
  <2>2. \A h \in Handler : ~L!Holds(h, id)
    BY DEF IdInUse, L!Holds, L!At
  <2>3. QED
    BY <1>0, <2>1, <2>2, IdsAskedFor DEF L!Binds
<1>2. ~H!Binds(id, k, c)
  <2>1. hSessions[id] = None
    BY DEF IdInUse
  <2>2. \A h \in Handler : ~HelperIsAskedFor(h, id)
    BY DEF IdInUse, HelperIsAskedFor, H!At
  <2>3. \A h \in Handler : ~H!Holds(h, id)
    BY <2>2, HelperHoldsAsked
  <2>4. QED
    BY <2>1, <2>2, <2>3 DEF H!Binds, HelperIsAskedFor
<1>3. \A d \in Controller : ctl[d].id # id /\ ctl[d].session # id
  BY DEF IdInUse
<1>4. QED
  BY <1>1, <1>2, <1>3 DEF BoundTo

-----------------------------------------------------------------------------
(* How ids are tied to keys                                                *)

\* A controller whose session is being created holds the id that the leader
\* has answered it.
LEMMA AnswerBinds ==
    ASSUME SystemInv, [Next]_vars, NEW c \in Controller, CreateAtHelper(c), LeaderOK(c)
    PROVE  /\ ctl[c].slot \in Handler
           /\ ctl'[c].id \in SessionId
           /\ L!Holds(ctl[c].slot, ctl'[c].id)
           /\ L!Binds(ctl'[c].id, ctl[c].key, c)
           /\ lHandler'[ctl[c].slot].pc = "idle" /\ lHandler'[ctl[c].slot].id = None
<1> DEFINE h == ctl[c].slot
<1>0. L!TypeOK
  BY DEF SystemInv, CallsInv, TypeOK
<1>1. InCall(c, "create_leader") /\ L!Deliver(h)
  BY DEF CreateAtHelper
<1>2. h \in Handler /\ lHandler[h].req = CreateRequestOf(c, "Leader", None, ctl[c].key)
  BY <1>1 DEF SystemInv, CallsInv, CallersAwait, ControllerAwaits, LeaderHandles
<1>3. /\ lHandler[h].req.op = "create_session"
      /\ lHandler[h].req.verify_key = ctl[c].key
      /\ lHandler[h].req.collector = c
  BY <1>2 DEF CreateRequestOf
<1>4. lHandler[h].reply.body \in SessionId
  BY <1>1, LeaderAnswersCreate
<1>5. ctl'[c].id = lHandler[h].reply.body
  BY CreateAtHelperOutcome
<1>6. lHandler[h].pc = "replied"
  BY <1>1 DEF L!Deliver, L!At
<1>7. lHandler'[h].pc = "idle" /\ lHandler'[h].id = None
  BY <1>0, <1>1, <1>2, LeaderConnections
<1>8. QED
  BY <1>2, <1>3, <1>4, <1>5, <1>6, <1>7 DEF L!Holds, L!Binds

\* The task of a round that is being started comes from the session that the
\* round was started in.
LEMMA LeaderTaskBinds ==
    ASSUME SystemInv, [Next]_vars, NEW d \in Controller, NEW k, NEW c,
           ctl'[d].new_task # None, IsOnKey(lStore'[ctl'[d].new_task], k, c)
    PROVE  /\ ctl'[d].session = ctl[d].session
           /\ ctl[d].session \in SessionId
           /\ \/ L!Binds(ctl[d].session, k, c)
              \/ ctl[d].new_task # None /\ IsOnKey(lStore[ctl[d].new_task], k, c)
<1> DEFINE t == ctl'[d].new_task
<1>0. /\ L!TypeOK /\ L!IInv /\ TypeOK /\ StartsAreOwn
      /\ ctl' \in [Controller -> ControllerState] /\ CallRecordsFit'
  BY ControllerTypesStep DEF SystemInv, CallsInv, TypeOK
<1>1. t \in TaskId /\ ctl'[d].session = ctl[d].session /\ ctl[d].session \in SessionId
  <2>1. ctl'[d].session # None
    BY <1>0 DEF CallRecordsFit, CallRecordFits
  <2>2. QED
    BY <1>0, <2>1, DrawnAfresh DEF ControllerState
<1>2. CASE lStore[t] # None
  <2>1. ~FreshTask(t)
    BY <1>2 DEF FreshTask
  <2>2. ctl[d].new_task = t
    BY <2>1, DrawnAfresh
  <2>3. QED
    BY <1>1, <1>2, <2>2, TasksKept
<1>3. CASE lStore[t] = None
  <2>1. lStore'[t] # None
    BY DEF IsOnKey
  <2>2. PICK h \in Handler : L!Step(h)
    <3>1. lStore' # lStore
      BY <1>3, <2>1
    <3>2. ASSUME NEW h \in Handler, LeaderMoves(h) PROVE L!Step(h)
      BY <1>0, <3>1, <3>2, LeaderConnections DEF LeaderMoves
    <3>3. QED
      BY <3>1, <3>2, LeaderIsManaged DEF leader, L!Restart
  <2>3. LET id == lHandler[h].req.training_session_id IN
        /\ lHandler[h].req \in LP!StartRequest
        /\ lHandler[h].req.task_id = t
        /\ lSessions[id] \in LP!Session
        /\ lStore'[t] = LP!NewTask(lSessions[id])
    BY <1>0, <1>1, <1>3, <2>1, <2>2, LeaderInvSame, LeaderStepSame, LeaderAssumptions,
       LP!TaskChange
  <2>4. lHandler[h].req.op = "start_round" /\ lHandler[h].req.training_session_id \in SessionId
    BY <2>3 DEF LP!StartRequest
  <2>5. lHandler[h].pc # "idle"
    BY <1>0, <2>2, LeaderStep DEF SystemInv, CallsInv
  <2>6. ctl[d].new_task = t
    BY <2>3, <2>4, <2>5, DrawnAfresh DEF FreshTask, L!At
  <2>7. lHandler[h].req.training_session_id = ctl[d].session
    BY <1>0, <2>3, <2>4, <2>5, <2>6 DEF StartsAreOwn, StartsTask
  <2>8. lSessions[ctl[d].session] # None
    BY <2>3, <2>7, LeaderAssumptions, ManagerAssumption DEF LP!Session, L!Session
  <2>9. /\ lStore'[t].verify_key = lSessions[ctl[d].session].verify_key
        /\ lStore'[t].collector = lSessions[ctl[d].session].collector
    BY <2>3, <2>7 DEF LP!NewTask
  <2>10. L!Binds(ctl[d].session, k, c)
    BY <2>8, <2>9 DEF L!Binds, IsOnKey
  <2>11. QED
    BY <1>1, <2>10
<1>4. QED
  BY <1>2, <1>3

LEMMA HelperTaskBinds ==
    ASSUME SystemInv, [Next]_vars, NEW d \in Controller, NEW k, NEW c,
           ctl'[d].new_task # None, IsOnKey(hStore'[ctl'[d].new_task], k, c)
    PROVE  /\ ctl'[d].session = ctl[d].session
           /\ ctl[d].session \in SessionId
           /\ \/ H!Binds(ctl[d].session, k, c)
              \/ ctl[d].new_task # None /\ IsOnKey(hStore[ctl[d].new_task], k, c)
<1> DEFINE t == ctl'[d].new_task
<1>0. /\ H!TypeOK /\ H!IInv /\ TypeOK /\ StartsAreOwn
      /\ ctl' \in [Controller -> ControllerState] /\ CallRecordsFit'
  BY ControllerTypesStep DEF SystemInv, CallsInv, TypeOK
<1>1. t \in TaskId /\ ctl'[d].session = ctl[d].session /\ ctl[d].session \in SessionId
  <2>1. ctl'[d].session # None
    BY <1>0 DEF CallRecordsFit, CallRecordFits
  <2>2. QED
    BY <1>0, <2>1, DrawnAfresh DEF ControllerState
<1>2. CASE hStore[t] # None
  <2>1. ~FreshTask(t)
    BY <1>2 DEF FreshTask
  <2>2. ctl[d].new_task = t
    BY <2>1, DrawnAfresh
  <2>3. QED
    BY <1>1, <1>2, <2>2, TasksKept
<1>3. CASE hStore[t] = None
  <2>1. hStore'[t] # None
    BY DEF IsOnKey
  <2>2. PICK h \in Handler : H!Step(h)
    <3>1. hStore' # hStore
      BY <1>3, <2>1
    <3>2. ASSUME NEW h \in Handler, HelperMoves(h) PROVE H!Step(h)
      BY <1>0, <3>1, <3>2, HelperConnections DEF HelperMoves
    <3>3. QED
      BY <3>1, <3>2, HelperIsManaged DEF helper, H!Restart
  <2>3. LET id == hHandler[h].req.training_session_id IN
        /\ hHandler[h].req \in HP!StartRequest
        /\ hHandler[h].req.task_id = t
        /\ hSessions[id] \in HP!Session
        /\ hStore'[t] = HP!NewTask(hSessions[id])
    BY <1>0, <1>1, <1>3, <2>1, <2>2, HelperInvSame, HelperStepSame, HelperAssumptions,
       HP!TaskChange
  <2>4. hHandler[h].req.op = "start_round" /\ hHandler[h].req.training_session_id \in SessionId
    BY <2>3 DEF HP!StartRequest
  <2>5. hHandler[h].pc # "idle"
    BY <1>0, <2>2, HelperStep DEF SystemInv, CallsInv
  <2>6. ctl[d].new_task = t
    BY <2>3, <2>4, <2>5, DrawnAfresh DEF FreshTask, H!At
  <2>7. hHandler[h].req.training_session_id = ctl[d].session
    BY <1>0, <2>3, <2>4, <2>5, <2>6 DEF StartsAreOwn, StartsTask
  <2>8. hSessions[ctl[d].session] # None
    BY <2>3, <2>7, HelperAssumptions, ManagerAssumption DEF HP!Session, H!Session
  <2>9. /\ hStore'[t].verify_key = hSessions[ctl[d].session].verify_key
        /\ hStore'[t].collector = hSessions[ctl[d].session].collector
    BY <2>3, <2>7 DEF HP!NewTask
  <2>10. H!Binds(ctl[d].session, k, c)
    BY <2>8, <2>9 DEF H!Binds, IsOnKey
  <2>11. QED
    BY <1>1, <2>10
<1>4. QED
  BY <1>2, <1>3

-----------------------------------------------------------------------------
(* How the records of controllers change                                   *)

LEMMA DrawsAlone ==
    ASSUME SystemInv, [FreshIdNext]_vars, NEW g \in Handler, NEW h \in Handler, NEW id,
           LP!Draws(g, id), LP!Draws(h, id)
    PROVE  g = h
<1>1. L!TypeOK /\ L!IInv /\ L!CallerInv
  BY DEF SystemInv, CallsInv, TypeOK
<1>2. lHandler'[h] # lHandler[h] /\ L!Step(g)
  BY DrawnIsUnused DEF LP!Draws, LeaderRuns
<1>3. QED
  BY <1>1, <1>2, LeaderStep

\* A controller gets the id of a session from the leader's answer.
LEMMA IdChange ==
    ASSUME SystemInv, [Next]_vars, NEW c \in Controller, ctl'[c].id # None
    PROVE  \/ ctl'[c] = ctl[c]
           \/ CreateAtHelper(c) /\ LeaderOK(c)
<1>1. CASE CreateSession(c) \/ EndSession(c) \/ EndAtHelper(c) \/ StartRound(c)
           \/ StartAtHelper(c)
  BY <1>1, CreateSessionOutcome, EndSessionOutcome, EndAtHelperOutcome,
     StartRoundOutcome, StartAtHelperOutcome
<1>2. CASE Ended(c)
  BY <1>2 DEF Ended
<1>3. QED
  BY <1>1, <1>2, ControllerOutcome

\* Its session changes only when both managers have answered OK.
LEMMA SessionOfControllerChange ==
    ASSUME SystemInv, [Next]_vars, NEW c \in Controller, ctl'[c].session # ctl[c].session
    PROVE  \/ /\ CreateReturns(c) /\ HelperOK(c)
              /\ ctl'[c].session = ctl[c].id /\ ctl'[c].id = None
           \/ /\ EndReturns(c) /\ ctl[c].leader_ok /\ HelperOK(c)
              /\ ctl'[c].session = None
<1>1. CASE SameRound(c)
  BY <1>1 DEF SameRound
<1>2. CASE CreateSession(c) \/ EndSession(c) \/ EndAtHelper(c) \/ StartRound(c)
           \/ StartAtHelper(c)
  BY <1>1, <1>2, CreateSessionOutcome, EndSessionOutcome, EndAtHelperOutcome,
     StartRoundOutcome, StartAtHelperOutcome
<1>3. CASE CreateAtHelper(c) /\ LeaderOK(c)
  BY <1>1, <1>3, CreateAtHelperOutcome
<1>4. QED
  BY <1>1, <1>2, <1>3, ControllerOutcome DEF Ended

\* Whatever ties an id to a key did so before, or the leader draws the id.
LEMMA BoundStep ==
    ASSUME SystemInv, [FreshIdNext]_vars,
           NEW id \in SessionId, NEW k \in VerifyKey, NEW c \in Controller,
           BoundTo(id, k, c)'
    PROVE  \/ BoundTo(id, k, c)
           \/ \E h \in Handler :
                 /\ LP!Draws(h, id)
                 /\ ~IdInUse(id)
                 /\ lHandler[h].req.verify_key = k
                 /\ lHandler[h].req.collector = c
<1>0. [Next]_vars /\ id # None
  BY FreshNextIsNext, NoneAssumption
<1>1. CASE L!Binds(id, k, c)'
  BY <1>0, <1>1, LeaderBindsStep, DrawnIsUnused DEF BoundTo
<1>2. CASE H!Binds(id, k, c)'
  BY <1>0, <1>2, HelperBindsStep, AnswerBinds DEF BoundTo
<1>3. CASE ctl'[c].id = id /\ ctl'[c].key = k
  <2>1. CASE ctl'[c] = ctl[c]
    BY <1>3, <2>1 DEF BoundTo
  <2>2. CASE CreateAtHelper(c) /\ LeaderOK(c)
    BY <1>0, <1>3, <2>2, AnswerBinds, CreateAtHelperOutcome DEF BoundTo
  <2>3. QED
    BY <1>0, <1>3, <2>1, <2>2, IdChange
<1>4. ASSUME NEW d \in Controller, ctl'[d].session = id, ctl'[d].new_task # None,
             \/ IsOnKey(lStore'[ctl'[d].new_task], k, c)
             \/ IsOnKey(hStore'[ctl'[d].new_task], k, c)
      PROVE  BoundTo(id, k, c)
  <2>1. CASE IsOnKey(lStore'[ctl'[d].new_task], k, c)
    BY <1>0, <1>4, <2>1, LeaderTaskBinds DEF BoundTo
  <2>2. CASE IsOnKey(hStore'[ctl'[d].new_task], k, c)
    BY <1>0, <1>4, <2>2, HelperTaskBinds DEF BoundTo
  <2>3. QED
    BY <1>4, <2>1, <2>2
<1>5. QED
  BY <1>1, <1>2, <1>3, <1>4 DEF BoundTo, IsOnKey

LEMMA OneKeyStep ==
    ASSUME SystemInv, OneKeyPerId, [FreshIdNext]_vars
    PROVE  OneKeyPerId'
<1>1. L!TypeOK /\ L!IInv /\ L!CallerInv
  BY DEF SystemInv, CallsInv, TypeOK
<1>2. SUFFICES ASSUME NEW id \in SessionId, NEW k \in VerifyKey, NEW l \in VerifyKey,
                      NEW c \in Controller, NEW d \in Controller,
                      BoundTo(id, k, c)', BoundTo(id, l, d)'
               PROVE  k = l /\ c = d
  BY DEF OneKeyPerId
<1>3. CASE IdInUse(id)
  BY <1>2, <1>3, BoundStep DEF OneKeyPerId
<1>4. CASE ~IdInUse(id)
  <2>1. ~BoundTo(id, k, c) /\ ~BoundTo(id, l, d)
    BY <1>4, UnusedIsUnbound
  <2>2. PICK h \in Handler : /\ LP!Draws(h, id)
                             /\ lHandler[h].req.verify_key = k
                             /\ lHandler[h].req.collector = c
    BY <1>2, <2>1, BoundStep
  <2>3. PICK g \in Handler : /\ LP!Draws(g, id)
                             /\ lHandler[g].req.verify_key = l
                             /\ lHandler[g].req.collector = d
    BY <1>2, <2>1, BoundStep
  <2>4. g = h
    BY <2>2, <2>3, DrawsAlone
  <2>5. QED
    BY <2>2, <2>3, <2>4
<1>5. QED
  BY <1>3, <1>4

\* A controller takes a session only when both managers have created it.
LEMMA SessionsAreOwnStep ==
    ASSUME SystemInv, OneKeyPerId, SessionsAreOwn, [FreshIdNext]_vars
    PROVE  SessionsAreOwn'
<1>0. /\ [Next]_vars /\ ctl \in [Controller -> ControllerState] /\ CallRecordsFit
      /\ ctl' \in [Controller -> ControllerState]
  BY FreshNextIsNext, ControllerTypesStep DEF SystemInv, CallsInv, TypeOK
<1>1. ASSUME NEW d \in Controller, NEW id \in SessionId, ctl'[d].session = id,
             NEW k \in VerifyKey, NEW c \in Controller, BoundTo(id, k, c)'
      PROVE  c = d
  <2>1. CASE id = ctl[d].session
    <3>1. IdInUse(id)
      BY <2>1 DEF IdInUse
    <3>2. BoundTo(id, k, c)
      BY <1>1, <3>1, BoundStep
    <3>3. ctl[d].session # None
      BY <2>1, NoneAssumption
    <3>4. QED
      BY <2>1, <3>2, <3>3 DEF SessionsAreOwn
  <2>2. CASE id # ctl[d].session
    <3>1. CreateReturns(d) /\ id = ctl[d].id
      BY <1>0, <1>1, <2>2, SessionOfControllerChange, NoneAssumption
    <3>2. IdInUse(id)
      BY <3>1 DEF IdInUse
    <3>3. BoundTo(id, k, c)
      BY <1>1, <3>2, BoundStep
    <3>4. ctl[d].key \in VerifyKey
      BY <1>0, <3>1 DEF CreateReturns, InCall, CallRecordsFit, CallRecordFits, ControllerState
    <3>5. BoundTo(id, ctl[d].key, d)
      BY <3>1 DEF BoundTo
    <3>6. QED
      BY <3>3, <3>4, <3>5 DEF OneKeyPerId
  <2>3. QED
    BY <2>1, <2>2
<1>2. ASSUME NEW d \in Controller, ctl'[d].session # None,
             NEW k \in VerifyKey, NEW c \in Controller, BoundTo(ctl[d].session, k, c)'
      PROVE  c = d
  <2>1. PICK id \in SessionId : ctl'[d].session = id
    BY <1>0, <1>2 DEF ControllerState
  <2>2. BoundTo(id, k, c)'
    BY <1>2, <2>1 DEF BoundTo, L!Binds, H!Binds, L!Holds, H!Holds
  <2>3. QED
    BY <1>1, <2>1, <2>2
<1>3. QED
  BY <1>2 DEF SessionsAreOwn

-----------------------------------------------------------------------------
(* How ids are passed on                                                   *)

\* What the helper is asked for it was asked for before, or a controller
\* passes on what a handler of the leader has answered.
LEMMA AskedStep ==
    ASSUME SystemInv, [Next]_vars, NEW g \in Handler, NEW id \in SessionId,
           HelperIsAskedFor(g, id)'
    PROVE  \/ HelperIsAskedFor(g, id)
           \/ \E c \in Controller :
                 /\ CreateAtHelper(c) /\ LeaderOK(c)
                 /\ ctl'[c].id = id /\ ctl'[c].slot = g
<1>1. /\ hHandler'[g].pc # "idle"
      /\ hHandler'[g].req.op = "create_session"
      /\ hHandler'[g].req.training_session_id = id
  BY DEF HelperIsAskedFor
<1>2. CASE hHandler[g].pc # "idle" /\ hHandler'[g].req = hHandler[g].req
  BY <1>1, <1>2 DEF HelperIsAskedFor
<1>3. ASSUME NEW c \in Controller, CreateAtHelper(c), LeaderOK(c), ctl'[c].slot = g,
             hHandler'[g].req = CreateRequestOf(c, "Helper", ctl'[c].id, ctl[c].key)
      PROVE  ctl'[c].id = id
  BY <1>1, <1>3 DEF CreateRequestOf
<1>4. QED
  BY <1>1, <1>2, <1>3, HelperHears, RequestOps

\* The answer of the leader with this id, and nothing else, leads to one
\* request to the helper.
LEMMA PassedOnByOne ==
    ASSUME SystemInv, IdsPassedOn, [Next]_vars, NEW c \in Controller,
           CreateAtHelper(c), LeaderOK(c), NEW id \in SessionId, ctl'[c].id = id
    PROVE  /\ \A h \in Handler : ~L!Holds(h, id)'
           /\ \A g \in Handler : ~HelperIsAskedFor(g, id)
           /\ \A d \in Controller : ctl[d].id # id /\ ctl'[d].session # id
           /\ \A d \in Controller : d # c => ctl'[d].id # id
<1>1. /\ ctl[c].slot \in Handler /\ L!Holds(ctl[c].slot, id)
      /\ lHandler'[ctl[c].slot].pc = "idle" /\ lHandler'[ctl[c].slot].id = None
  BY AnswerBinds
<1>2. ASSUME NEW h \in Handler, L!Holds(h, id)' PROVE FALSE
  <2>1. ~LP!Draws(h, id)
    BY OthersDoNotDraw DEF Elsewhere, Calls
  <2>2. h = ctl[c].slot
    BY <1>1, <1>2, <2>1, LeaderHoldsStep DEF IdsPassedOn
  <2>3. QED
    BY <1>1, <1>2, <2>2, NoneAssumption DEF L!Holds
<1>3. /\ \A g \in Handler : ~HelperIsAskedFor(g, id)
      /\ \A d \in Controller : ctl[d].id # id /\ ctl[d].session # id
  BY <1>1 DEF IdsPassedOn
<1>4. TypeOK /\ Calls(c)
  BY DEF SystemInv, CallsInv, Calls
<1>5. ctl'[c].session = ctl[c].session
  BY CreateAtHelperOutcome DEF SameRound
<1>6. \A d \in Controller : d # c => ctl'[d] = ctl[d]
  BY <1>4, CallsAreSingle
<1>7. QED
  BY <1>2, <1>3, <1>5, <1>6

LEMMA PassedOnStep ==
    ASSUME SystemInv, OneKeyPerId, IdsPassedOn, [FreshIdNext]_vars
    PROVE  IdsPassedOn'
<1>0. /\ [Next]_vars /\ TypeOK /\ CallRecordsFit
      /\ ctl \in [Controller -> ControllerState]
  BY FreshNextIsNext DEF SystemInv, CallsInv, TypeOK
<1> SUFFICES ASSUME NEW id \in SessionId
             PROVE  /\ \A h \in Handler : L!Holds(h, id)' =>
                          /\ \A g \in Handler : L!Holds(g, id)' => g = h
                          /\ \A g \in Handler : ~HelperIsAskedFor(g, id)'
                          /\ \A c \in Controller : id \notin {ctl'[c].id, ctl'[c].session}
                    /\ \A g \in Handler : HelperIsAskedFor(g, id)' =>
                          \A c \in Controller :
                              /\ ctl'[c].session # id
                              /\ ctl'[c].id = id => g = ctl'[c].slot
                    /\ \A c, d \in Controller : ctl'[c].id = id => ctl'[d].session # id
  BY DEF IdsPassedOn
<1>1. id # None
  BY NoneAssumption
\* Either the id is passed on in this step, or no part of the system gets it
\* from another but a controller from its own record.
<1>2. ASSUME NEW e \in Controller, CreateAtHelper(e), LeaderOK(e), ctl'[e].id = id
      PROVE  /\ \A h \in Handler : ~L!Holds(h, id)'
             /\ \A g \in Handler : HelperIsAskedFor(g, id)' => g = ctl'[e].slot
             /\ \A c \in Controller : ctl'[c].session # id
             /\ \A c \in Controller : ctl'[c].id = id => c = e
  <2>1. /\ \A h \in Handler : ~L!Holds(h, id)'
        /\ \A g \in Handler : ~HelperIsAskedFor(g, id)
        /\ \A d \in Controller : ctl[d].id # id /\ ctl'[d].session # id
        /\ \A d \in Controller : d # e => ctl'[d].id # id
    BY <1>0, <1>2, PassedOnByOne
  <2>2. \A g \in Handler : HelperIsAskedFor(g, id)' => g = ctl'[e].slot
    BY <1>0, <2>1, AskedStep
  <2>3. QED
    BY <2>1, <2>2
<1>3. ASSUME ~\E e \in Controller : CreateAtHelper(e) /\ LeaderOK(e) /\ ctl'[e].id = id
      PROVE  /\ \A g \in Handler : HelperIsAskedFor(g, id)' => HelperIsAskedFor(g, id)
             /\ \A c \in Controller : ctl'[c].id = id => ctl'[c] = ctl[c]
             /\ \A c \in Controller : ctl'[c].session = id =>
                   \/ ctl[c].session = id
                   \/ CreateReturns(c) /\ ctl[c].id = id /\ ctl'[c].id = None
  <2>1. \A g \in Handler : HelperIsAskedFor(g, id)' => HelperIsAskedFor(g, id)
    BY <1>0, <1>3, AskedStep
  <2>2. \A c \in Controller : ctl'[c].id = id => ctl'[c] = ctl[c]
    BY <1>0, <1>1, <1>3, IdChange
  <2>3. \A c \in Controller : ctl'[c].session = id =>
           \/ ctl[c].session = id
           \/ CreateReturns(c) /\ ctl[c].id = id /\ ctl'[c].id = None
    BY <1>0, <1>1, SessionOfControllerChange
  <2>4. QED
    BY <2>1, <2>2, <2>3
<1>4. CASE \E e \in Controller : CreateAtHelper(e) /\ LeaderOK(e) /\ ctl'[e].id = id
  BY <1>2, <1>4
<1>5. CASE ~\E e \in Controller : CreateAtHelper(e) /\ LeaderOK(e) /\ ctl'[e].id = id
  <2>1. ASSUME NEW h \in Handler, L!Holds(h, id)'
        PROVE  /\ \A g \in Handler : L!Holds(g, id)' => g = h
               /\ \A g \in Handler : ~HelperIsAskedFor(g, id)'
               /\ \A c \in Controller : id \notin {ctl'[c].id, ctl'[c].session}
    <3>1. CASE IdInUse(id)
      <4>1. \A g \in Handler : ~LP!Draws(g, id)
        BY <3>1, DrawnIsUnused
      <4>2. L!Holds(h, id)
        BY <1>0, <2>1, <4>1, LeaderHoldsStep
      <4>3. \A g \in Handler : L!Holds(g, id)' => g = h
        BY <1>0, <4>1, <4>2, LeaderHoldsStep DEF IdsPassedOn
      <4>4. /\ \A g \in Handler : ~HelperIsAskedFor(g, id)
            /\ \A c \in Controller : ctl[c].id # id /\ ctl[c].session # id
        BY <4>2 DEF IdsPassedOn
      <4>5. QED
        BY <1>3, <1>5, <4>3, <4>4
    <3>2. CASE ~IdInUse(id)
      <4>1. \A g \in Handler : ~L!Holds(g, id)
        BY <3>2 DEF IdInUse, L!Holds, L!At
      <4>2. \A g \in Handler : L!Holds(g, id)' => g = h
        BY <1>0, <2>1, <4>1, LeaderHoldsStep, DrawsAlone
      <4>3. /\ \A g \in Handler : ~HelperIsAskedFor(g, id)
            /\ \A c \in Controller : ctl[c].id # id /\ ctl[c].session # id
        BY <3>2 DEF IdInUse, HelperIsAskedFor, H!At
      <4>4. QED
        BY <1>3, <1>5, <4>2, <4>3
    <3>3. QED
      BY <3>1, <3>2
  <2>2. ASSUME NEW g \in Handler, HelperIsAskedFor(g, id)', NEW c \in Controller
        PROVE  ctl'[c].session # id /\ (ctl'[c].id = id => g = ctl'[c].slot)
    <3>1. HelperIsAskedFor(g, id)
      BY <1>3, <1>5, <2>2
    <3>2. ctl[c].session # id /\ (ctl[c].id = id => g = ctl[c].slot)
      BY <3>1 DEF IdsPassedOn
    <3>3. ctl'[c].id = id => g = ctl'[c].slot
      BY <1>3, <1>5, <3>2
    <3>4. ASSUME CreateReturns(c), ctl[c].id = id PROVE FALSE
      <4>1. H!Deliver(g)
        BY <3>2, <3>4 DEF CreateReturns
      <4>2. hHandler'[g].pc = "idle"
        BY <1>0, <4>1, HelperConnections DEF TypeOK
      <4>3. QED
        BY <2>2, <4>2 DEF HelperIsAskedFor
    <3>5. QED
      BY <1>3, <1>5, <3>2, <3>3, <3>4
  <2>3. ASSUME NEW c \in Controller, NEW d \in Controller, ctl'[c].id = id,
               ctl'[d].session = id
        PROVE  FALSE
    <3>1. ctl'[c] = ctl[c] /\ ctl[c].id = id
      BY <1>3, <1>5, <2>3
    <3>2. CreateReturns(d) /\ ctl[d].id = id /\ ctl'[d].id = None
      BY <1>3, <1>5, <2>3, <3>1 DEF IdsPassedOn
    <3>3. BoundTo(id, ctl[c].key, c) /\ BoundTo(id, ctl[d].key, d)
      BY <3>1, <3>2 DEF BoundTo
    <3>4. ctl[c].key \in VerifyKey /\ ctl[d].key \in VerifyKey
      BY <1>0, <1>1, <3>1, <3>2 DEF CallRecordsFit, CallRecordFits, ControllerState
    <3>5. c = d
      BY <3>3, <3>4 DEF OneKeyPerId
    <3>6. QED
      BY <1>1, <2>3, <3>2, <3>5
  <2>4. QED
    BY <2>1, <2>2, <2>3
<1>6. QED
  BY <1>4, <1>5

\* A session appears only where a handler holds its id.
LEMMA LeaderSessionAppears ==
    ASSUME SystemInv, [Next]_vars, NEW id \in SessionId,
           lSessions[id] = None, lSessions'[id] # None
    PROVE  \E h \in Handler : L!Holds(h, id)
<1>0. L!TypeOK /\ L!IInv
  BY DEF SystemInv, CallsInv, TypeOK
<1>1. PICK h \in Handler : L!Step(h)
  <2>1. ASSUME NEW h \in Handler, LeaderMoves(h) PROVE L!Step(h)
    BY <1>0, <2>1, LeaderConnections DEF LeaderMoves
  <2>2. QED
    BY <2>1, LeaderIsManaged DEF leader, L!Restart
<1>2. lHandler[h].id = id
  BY <1>0, <1>1, LeaderInvSame, LeaderStepSame, LeaderAssumptions, LP!SessionChange
<1>3. QED
  BY <1>1, <1>2 DEF L!Holds

\* An end_session that is answered has ended the session.
LEMMA LeaderEnds ==
    ASSUME SystemInv, [Next]_vars, NEW h \in Handler, NEW id \in SessionId,
           lHandler[h].req.op = "end_session", lHandler[h].req.training_session_id = id,
           lHandler[h].pc # "replied", lHandler'[h].pc = "replied"
    PROVE  lSessions'[id] = None
<1>0. L!TypeOK /\ L!IInv /\ L!CallerInv
  BY DEF SystemInv, CallsInv, TypeOK
<1>1. L!Step(h)
  <2>1. ASSUME NEW g \in Handler, LeaderMoves(g) PROVE L!Step(h)
    BY <1>0, <2>1, LeaderConnections, LeaderStep DEF LeaderMoves
  <2>2. ~L!Restart
    BY <1>0, LeaderConnections
  <2>3. QED
    BY <2>1, <2>2, LeaderIsManaged DEF leader
<1>2. QED
  BY <1>0, <1>1, LeaderInvSame, LeaderStepSame, LeaderAssumptions, LP!EndStep

LEMMA HelperSessionAppears ==
    ASSUME SystemInv, [Next]_vars, NEW id \in SessionId,
           hSessions[id] = None, hSessions'[id] # None
    PROVE  \E h \in Handler : H!Holds(h, id)
<1>0. H!TypeOK /\ H!IInv
  BY DEF SystemInv, CallsInv, TypeOK
<1>1. PICK h \in Handler : H!Step(h)
  <2>1. ASSUME NEW h \in Handler, HelperMoves(h) PROVE H!Step(h)
    BY <1>0, <2>1, HelperConnections DEF HelperMoves
  <2>2. QED
    BY <2>1, HelperIsManaged DEF helper, H!Restart
<1>2. hHandler[h].id = id
  BY <1>0, <1>1, HelperInvSame, HelperStepSame, HelperAssumptions, HP!SessionChange
<1>3. QED
  BY <1>1, <1>2 DEF H!Holds

LEMMA HelperEnds ==
    ASSUME SystemInv, [Next]_vars, NEW h \in Handler, NEW id \in SessionId,
           hHandler[h].req.op = "end_session", hHandler[h].req.training_session_id = id,
           hHandler[h].pc # "replied", hHandler'[h].pc = "replied"
    PROVE  hSessions'[id] = None
<1>0. H!TypeOK /\ H!IInv /\ H!CallerInv
  BY DEF SystemInv, CallsInv, TypeOK
<1>1. H!Step(h)
  <2>1. ASSUME NEW g \in Handler, HelperMoves(g) PROVE H!Step(h)
    BY <1>0, <2>1, HelperConnections, HelperStep DEF HelperMoves
  <2>2. ~H!Restart
    BY <1>0, HelperConnections
  <2>3. QED
    BY <2>1, <2>2, HelperIsManaged DEF helper
<1>2. QED
  BY <1>0, <1>1, HelperInvSame, HelperStepSame, HelperAssumptions, HP!EndStep


LEMMA EndedStep ==
    ASSUME SystemInv, IdsPassedOn, EndedWhereServed, [Next]_vars
    PROVE  EndedWhereServed'
<1>0. /\ L!TypeOK /\ H!TypeOK /\ TypeOK /\ CallersAwait /\ CallRecordsFit
      /\ ctl \in [Controller -> ControllerState]
  BY DEF SystemInv, CallsInv, TypeOK
\* Where the session of a controller is not, it does not appear.
<1>1. ASSUME NEW c \in Controller, ctl[c].session \in SessionId
      PROVE  /\ lSessions[ctl[c].session] = None => lSessions'[ctl[c].session] = None
             /\ hSessions[ctl[c].session] = None => hSessions'[ctl[c].session] = None
  BY <1>1, LeaderSessionAppears, HelperSessionAppears, HelperHoldsAsked DEF IdsPassedOn
<1>2. ASSUME NEW c \in Controller, ctl'[c] = ctl[c],
             ctl[c].pc \in {"end_leader", "end_helper"}
      PROVE  LET id == ctl[c].session IN
             /\ ctl[c].pc = "end_leader" /\ lHandler'[ctl[c].slot].pc = "replied"
                   => lSessions'[id] = None
             /\ ctl[c].pc = "end_helper" => lSessions'[id] = None
             /\ ctl[c].pc = "end_helper" /\ hHandler'[ctl[c].slot].pc = "replied"
                   => hSessions'[id] = None
  <2> DEFINE id == ctl[c].session
             h == ctl[c].slot
  <2>1. id \in SessionId
    BY <1>0, <1>2 DEF CallRecordsFit, CallRecordFits, ControllerState
  <2>2. ControllerAwaits(c)
    BY <1>0 DEF CallersAwait
  <2>3. CASE ctl[c].pc = "end_leader"
    <3>1. h \in Handler /\ lHandler[h].req = EndRequestOf(c)
      BY <2>2, <2>3 DEF ControllerAwaits, LeaderHandles, InCall
    <3>2. /\ lHandler[h].req.op = "end_session"
          /\ lHandler[h].req.training_session_id = id
      BY <3>1 DEF EndRequestOf
    <3>3. lHandler[h].pc = "replied" => lSessions[id] = None
      BY <2>3 DEF EndedWhereServed, InCall, L!At
    <3>4. QED
      BY <1>1, <2>1, <2>3, <3>1, <3>2, <3>3, LeaderEnds
  <2>4. CASE ctl[c].pc = "end_helper"
    <3>1. h \in Handler /\ hHandler[h].req = EndRequestOf(c)
      BY <2>2, <2>4 DEF ControllerAwaits, HelperHandles, InCall
    <3>2. /\ hHandler[h].req.op = "end_session"
          /\ hHandler[h].req.training_session_id = id
      BY <3>1 DEF EndRequestOf
    <3>3. /\ lSessions[id] = None
          /\ hHandler[h].pc = "replied" => hSessions[id] = None
      BY <2>4 DEF EndedWhereServed, InCall, H!At
    <3>4. QED
      BY <1>1, <2>1, <2>4, <3>1, <3>2, <3>3, HelperEnds
  <2>5. QED
    BY <1>2, <2>3, <2>4
<1>3. ASSUME NEW c \in Controller, EndSession(c)
      PROVE  ctl'[c].pc = "end_leader" /\ lHandler'[ctl'[c].slot].pc = "received"
  BY <1>0, <1>3, EndSessionOutcome, LeaderConnections
<1>4. ASSUME NEW c \in Controller, EndAtHelper(c)
      PROVE  /\ ctl'[c].pc = "end_helper" /\ ctl'[c].session = ctl[c].session
             /\ hHandler'[ctl'[c].slot].pc = "received"
             /\ lSessions'[ctl[c].session] = None
  <2>1. /\ ctl'[c].pc = "end_helper" /\ ctl'[c].session = ctl[c].session
        /\ hHandler'[ctl'[c].slot].pc = "received"
    BY <1>0, <1>4, EndAtHelperOutcome, HelperConnections DEF SameRound
  <2>2. lSessions[ctl[c].session] = None
    BY <1>4 DEF EndAtHelper, EndedWhereServed, L!Deliver, InCall
  <2>3. ctl[c].session \in SessionId
    BY <1>0, <1>4 DEF EndAtHelper, InCall, CallRecordsFit, CallRecordFits, ControllerState
  <2>4. QED
    BY <1>1, <2>1, <2>2, <2>3
<1>5. ASSUME NEW c \in Controller, ctl'[c] # ctl[c], ~EndSession(c), ~EndAtHelper(c)
      PROVE  ctl'[c].pc \notin {"end_leader", "end_helper"}
  <2>1. CASE CreateSession(c) \/ StartRound(c) \/ StartAtHelper(c)
    BY <2>1, CreateSessionOutcome, StartRoundOutcome, StartAtHelperOutcome
  <2>2. CASE CreateAtHelper(c) /\ LeaderOK(c)
    BY <2>2, CreateAtHelperOutcome
  <2>3. CASE Ended(c)
    BY <2>3 DEF Ended
  <2>4. QED
    BY <1>5, <2>1, <2>2, <2>3, ControllerOutcome
<1>6. ASSUME NEW c \in Controller
      PROVE  LET id == ctl'[c].session IN
             /\ ctl'[c].pc = "end_leader" /\ lHandler'[ctl'[c].slot].pc = "replied"
                   => lSessions'[id] = None
             /\ ctl'[c].pc = "end_helper" => lSessions'[id] = None
             /\ ctl'[c].pc = "end_helper" /\ hHandler'[ctl'[c].slot].pc = "replied"
                   => hSessions'[id] = None
  <2>1. CASE EndSession(c)
    BY <1>3, <2>1
  <2>2. CASE EndAtHelper(c)
    BY <1>4, <2>2
  <2>3. CASE ctl'[c] = ctl[c]
    BY <1>2, <2>3
  <2>4. QED
    BY <1>5, <2>1, <2>2, <2>3
<1>7. QED
  BY <1>6 DEF EndedWhereServed, InCall, L!At, H!At

-----------------------------------------------------------------------------
(* Rounds                                                                  *)

\* The two tasks of a round come from one session id, and so from one key.
LEMMA RoundAgreementStep ==
    ASSUME SystemInv, OneKeyPerId, SessionsAreOwn, RoundAgreement, [Next]_vars
    PROVE  RoundAgreement'
<1>0. /\ ctl \in [Controller -> ControllerState] /\ CallRecordsFit /\ RoundProvisioned
      /\ L!TypeOK /\ L!CallerInv /\ H!TypeOK /\ H!CallerInv
  BY DEF SystemInv, CallsInv, TypeOK
<1>1. ASSUME NEW c \in Controller, ctl'[c].task # None
      PROVE  LET t == ctl'[c].task IN
             /\ t \in TaskId
             /\ lStore[t] # None /\ hStore[t] # None
             /\ lStore[t].verify_key = hStore[t].verify_key
             /\ lStore[t].collector = c /\ hStore[t].collector = c
  <2> DEFINE t == ctl'[c].task
  <2>1. CASE t = ctl[c].task
    BY <1>0, <1>1, <2>1 DEF RoundProvisioned, RoundAgreement, ControllerState
  <2>2. CASE t # ctl[c].task
    <3>1. /\ StartReturns(c) /\ ctl[c].new_task = t /\ t \in TaskId
          /\ lStore[t] # None /\ hStore[t] # None
      BY <2>2, RoundChange
    <3>2. ctl[c].session \in SessionId /\ ctl[c].new_task # None
      BY <1>0, <3>1 DEF StartReturns, InCall, CallRecordsFit, CallRecordFits, ControllerState
    <3>3. /\ lStore[t].collector \in Controller /\ lStore[t].verify_key \in VerifyKey
          /\ hStore[t].collector \in Controller /\ hStore[t].verify_key \in VerifyKey
      BY <1>0, <3>1, LeaderTerms, HelperTerms
    <3>4. /\ BoundTo(ctl[c].session, lStore[t].verify_key, lStore[t].collector)
          /\ BoundTo(ctl[c].session, hStore[t].verify_key, hStore[t].collector)
      BY <3>1, <3>2 DEF BoundTo, IsOnKey
    <3>5. lStore[t].verify_key = hStore[t].verify_key
      BY <3>2, <3>3, <3>4 DEF OneKeyPerId
    <3>6. lStore[t].collector = c /\ hStore[t].collector = c
      BY <3>2, <3>3, <3>4, NoneAssumption DEF SessionsAreOwn
    <3>7. QED
      BY <3>1, <3>5, <3>6
  <2>3. QED
    BY <2>1, <2>2
<1>2. ASSUME NEW c \in Controller, ctl'[c].task # None
      PROVE  LET t == ctl'[c].task IN
             /\ lStore'[t] = lStore[t] /\ hStore'[t] = hStore[t]
             /\ lStore[t].vdaf = ToVdafInstance(Param[c])
             /\ hStore[t].vdaf = ToVdafInstance(Param[c])
  BY <1>0, <1>1, <1>2, TasksKept, LeaderTerms, HelperTerms
<1>3. QED
  BY <1>1, <1>2 DEF RoundAgreement

\* What controllers announce is a round, and it stays one.
LEMMA RoundsStay ==
    ASSUME SystemInv, [Next]_vars, NEW t \in TaskId, IsRound(t)
    PROVE  lStore'[t] = lStore[t] /\ hStore'[t] = hStore[t] /\ IsRound(t)'
<1>1. lStore'[t] = lStore[t] /\ hStore'[t] = hStore[t]
  BY TasksKept DEF IsRound
<1>2. QED
  BY <1>1 DEF IsRound, RoundTermsOf

LEMMA AnnouncedIsRound ==
    ASSUME SystemInv, RoundAgreement, NEW c \in Controller, ctl[c].task # None
    PROVE  ctl[c].task \in TaskId /\ IsRound(ctl[c].task)
<1>1. /\ ctl[c].task \in TaskId
      /\ lStore[ctl[c].task] # None /\ hStore[ctl[c].task] # None
  BY DEF SystemInv, CallsInv, TypeOK, RoundProvisioned, ControllerState
<1>2. QED
  BY <1>1 DEF RoundAgreement, IsRound, RoundTermsOf

\* A client learns its parametrization from both managers, for a round.
LEMMA ClientsKnowStep ==
    ASSUME SystemInv, RoundAgreement, ClientsKnowRounds, [Next]_vars
    PROVE  ClientsKnowRounds'
<1>0. TypeOK /\ CallersAwait /\ clt \in [Client -> ClientState] /\ clt' \in [Client -> ClientState]
  BY TypesStep DEF SystemInv, CallsInv, TypeOK
<1> SUFFICES ASSUME NEW i \in Client
             PROVE  /\ clt'[i].task # None => IsRound(clt[i].task)'
                    /\ clt'[i].pc # "idle" => clt'[i].parametrization = None
                    /\ clt'[i].pc \in {"leader_known", "ask_helper"} =>
                          /\ clt'[i].leader_param \in VdafParameter
                          /\ lStore'[clt'[i].task].vdaf = ToVdafInstance(clt'[i].leader_param)
                    /\ clt'[i].parametrization # None =>
                          /\ clt'[i].task # None
                          /\ clt'[i].learned_for # None
                          /\ IsRound(clt[i].learned_for)'
                          /\ lStore'[clt'[i].learned_for].vdaf
                                = ToVdafInstance(clt'[i].parametrization)
  BY DEF ClientsKnowRounds, InClientCall
\* What the client knows already stays true.
<1>1. /\ clt[i].task \in TaskId \cup {None} /\ clt[i].learned_for \in TaskId \cup {None}
      /\ clt[i].task # None => IsRound(clt[i].task)
      /\ clt[i].pc # "idle" => clt[i].task # None /\ clt[i].parametrization = None
      /\ clt[i].pc \in {"leader_known", "ask_helper"} =>
            /\ clt[i].leader_param \in VdafParameter
            /\ lStore[clt[i].task].vdaf = ToVdafInstance(clt[i].leader_param)
      /\ clt[i].parametrization # None =>
            /\ clt[i].task # None
            /\ clt[i].learned_for # None
            /\ IsRound(clt[i].learned_for)
            /\ lStore[clt[i].learned_for].vdaf = ToVdafInstance(clt[i].parametrization)
  BY <1>0 DEF ClientsKnowRounds, InClientCall, CallersAwait, ClientAwaits, ClientState
<1> DEFINE Round(t) == /\ lStore[t] # None
                       /\ hStore[t] # None
                       /\ RoundTermsOf(lStore[t]) = RoundTermsOf(hStore[t])
           NewRound(t) == /\ lStore'[t] # None
                          /\ hStore'[t] # None
                          /\ RoundTermsOf(lStore'[t]) = RoundTermsOf(hStore'[t])
<1>2. \A t \in TaskId : IsRound(t) => lStore'[t] = lStore[t] /\ NewRound(t)
  BY RoundsStay DEF IsRound, RoundTermsOf
<1>3. /\ IsRound(clt[i].task)' <=> NewRound(clt'[i].task)
      /\ IsRound(clt[i].learned_for)' <=> NewRound(clt'[i].learned_for)
  BY DEF IsRound, RoundTermsOf
<1>4. HearsOfRound(i) => clt'[i].task \in TaskId /\ NewRound(clt'[i].task)
  BY <1>2, AnnouncedIsRound DEF HearsOfRound
<1>5. /\ clt[i].task # None => /\ lStore'[clt[i].task] = lStore[clt[i].task]
                               /\ NewRound(clt[i].task)
      /\ clt[i].parametrization # None =>
            /\ lStore'[clt[i].learned_for] = lStore[clt[i].learned_for]
            /\ NewRound(clt[i].learned_for)
  BY <1>1, <1>2
<1> HIDE DEF NewRound
<1> USE DEF KeepsParametrization
<1>6. CASE clt'[i] = clt[i]
  BY <1>1, <1>3, <1>5, <1>6
<1>7. CASE /\ clt[i].pc # "idle" /\ clt'[i].pc = "idle" /\ clt'[i].task = None
           /\ KeepsParametrization(i)
  BY <1>1, <1>7
<1>8. CASE /\ FirstRound(i) /\ clt[i].parametrization = None
           /\ clt'[i].pc = "locate" /\ HearsOfRound(i)
           /\ KeepsParametrization(i)
  BY <1>3, <1>4, <1>8
<1>9. CASE /\ clt[i].pc = "locate" /\ clt'[i].pc = "ask_leader"
           /\ clt'[i].task = clt[i].task
           /\ KeepsParametrization(i)
  BY <1>1, <1>3, <1>5, <1>9
<1>10. CASE /\ HearLeader(i) /\ clt[i].pc = "ask_leader"
            /\ clt'[i].pc = "leader_known" /\ clt'[i].task = clt[i].task
            /\ clt'[i].leader_param = lHandler[clt[i].slot].reply.body
            /\ lHandler[clt[i].slot].reply.body # None
            /\ KeepsParametrization(i)
  <2>1. /\ clt'[i].leader_param \in VdafParameter
        /\ lStore[clt[i].task].vdaf = ToVdafInstance(clt'[i].leader_param)
    BY <1>10, LeaderAnswersGet DEF HearLeader
  <2>2. QED
    BY <1>1, <1>3, <1>5, <1>10, <2>1
<1>11. CASE /\ clt[i].pc = "leader_known" /\ clt'[i].pc = "ask_helper"
            /\ clt'[i].task = clt[i].task
            /\ clt'[i].leader_param = clt[i].leader_param
            /\ KeepsParametrization(i)
  BY <1>1, <1>3, <1>5, <1>11
<1>12. CASE /\ clt[i].pc = "ask_helper" /\ clt'[i].pc = "idle"
            /\ clt'[i].task = clt[i].task
            /\ clt'[i].parametrization = clt[i].leader_param
            /\ clt'[i].learned_for = clt[i].task
  BY <1>1, <1>3, <1>5, <1>12
<1>13. CASE /\ NextRound(i) /\ clt'[i].pc = "idle" /\ HearsOfRound(i)
            /\ KeepsParametrization(i)
  BY <1>1, <1>3, <1>4, <1>5, <1>13, NoneAssumption
<1>14. QED
  BY <1>0, <1>6, <1>7, <1>8, <1>9, <1>10, <1>11, <1>12, <1>13, ClientOutcome

-----------------------------------------------------------------------------
(* The theorems                                                            *)

LEMMA InitFreshIdInv == Init => FreshIdInv
<1> SUFFICES ASSUME Init PROVE FreshIdInv
  OBVIOUS
<1>1. /\ ctl = [c \in Controller |-> NoCall(None, None)]
      /\ clt = [i \in Client |-> NewClient]
      /\ L!Init /\ H!Init
  BY DEF Init
<1>2. \A c \in Controller : /\ ctl[c].session = None /\ ctl[c].id = None
                            /\ ctl[c].new_task = None /\ ctl[c].task = None
                            /\ ctl[c].pc = "idle"
  BY <1>1 DEF NoCall
<1>3. \A i \in Client : /\ clt[i].pc = "idle" /\ clt[i].task = None
                        /\ clt[i].parametrization = None
  BY <1>1 DEF NewClient
<1>4. /\ \A id \in SessionId : lSessions[id] = None /\ hSessions[id] = None
      /\ \A h \in Handler : /\ lHandler[h].pc = "idle" /\ lHandler[h].id = None
                            /\ hHandler[h].pc = "idle" /\ hHandler[h].id = None
  BY <1>1 DEF L!Init, H!Init, L!Idle, H!Idle
<1>5. \A id \in SessionId, k \in VerifyKey, c \in Controller : ~BoundTo(id, k, c)
  BY <1>2, <1>4, NoneAssumption DEF BoundTo, L!Binds, H!Binds
<1>6. OneKeyPerId /\ SessionsAreOwn
  BY <1>2, <1>5 DEF OneKeyPerId, SessionsAreOwn
<1>7. IdsPassedOn
  BY <1>2, <1>4, NoneAssumption DEF IdsPassedOn, L!Holds, HelperIsAskedFor
<1>8. EndedWhereServed /\ RoundAgreement
  BY <1>2 DEF EndedWhereServed, RoundAgreement, InCall
<1>9. ClientsKnowRounds
  BY <1>3 DEF ClientsKnowRounds, InClientCall
<1>10. QED
  BY <1>6, <1>7, <1>8, <1>9 DEF FreshIdInv

\* Every step without a collision keeps it.
LEMMA NextFreshIdInv == SystemInv /\ FreshIdInv /\ [FreshIdNext]_vars => FreshIdInv'
BY FreshNextIsNext, OneKeyStep, SessionsAreOwnStep, PassedOnStep, EndedStep,
   RoundAgreementStep, ClientsKnowStep DEF FreshIdInv

\* A behaviour without collisions is one of the system.
LEMMA FreshIdsAreAllowed == FreshIdSpec => Spec
BY FreshNextIsNext, PTL DEF FreshIdSpec, Spec

\* As long as random session ids do not collide, an id stands for one
\* create_session in every part of the system.
THEOREM FreshIdInvariance == FreshIdSpec => [](SystemInv /\ FreshIdInv)
<1>1. FreshIdSpec => []SystemInv
  BY FreshIdsAreAllowed, Invariance, PTL
<1>2. QED
  BY <1>1, InitFreshIdInv, NextFreshIdInv, PTL DEF FreshIdSpec

\* The two tasks of a round have one verify key, and the collector and VDAF of
\* the controller that started it.
THEOREM RoundsAgree == FreshIdSpec => []RoundAgreement
<1>1. FreshIdInv => RoundAgreement
  BY DEF FreshIdInv
<1>2. QED
  BY <1>1, FreshIdInvariance, PTL

\* Sessions that the managers hold under one id are the two halves of one
\* create_session.
THEOREM SessionsAreHalves == FreshIdSpec => []SessionsAgree
<1>1. SystemInv /\ FreshIdInv => SessionsAgree
  <2> SUFFICES ASSUME SystemInv, FreshIdInv, NEW id \in SessionId,
                      lSessions[id] # None, hSessions[id] # None
               PROVE  /\ lSessions[id].verify_key = hSessions[id].verify_key
                      /\ lSessions[id].collector = hSessions[id].collector
                      /\ lSessions[id].vdaf_parameter = hSessions[id].vdaf_parameter
    BY DEF SessionsAgree
  <2>1. L!TypeOK /\ L!CallerInv /\ H!TypeOK /\ H!CallerInv /\ OneKeyPerId
    BY DEF SystemInv, CallsInv, TypeOK, FreshIdInv
  <2>2. /\ BoundTo(id, lSessions[id].verify_key, lSessions[id].collector)
        /\ BoundTo(id, hSessions[id].verify_key, hSessions[id].collector)
    BY DEF BoundTo, L!Binds, H!Binds
  <2>3. /\ lSessions[id].collector \in Controller /\ lSessions[id].verify_key \in VerifyKey
        /\ hSessions[id].collector \in Controller /\ hSessions[id].verify_key \in VerifyKey
        /\ lSessions[id].vdaf_parameter = Param[lSessions[id].collector]
        /\ hSessions[id].vdaf_parameter = Param[hSessions[id].collector]
    BY <2>1, LeaderTerms, HelperTerms
  <2>4. /\ lSessions[id].verify_key = hSessions[id].verify_key
        /\ lSessions[id].collector = hSessions[id].collector
    BY <2>1, <2>2, <2>3 DEF OneKeyPerId
  <2>5. QED
    BY <2>3, <2>4
<1>2. QED
  BY <1>1, FreshIdInvariance, PTL

\* When api_end_session succeeds, neither manager has the session.
THEOREM SessionsEndAtBoth == FreshIdSpec => EndedAtBoth
<1>1. ASSUME SystemInv, FreshIdInv, [Next]_vars, NEW c \in Controller,
             ctl[c].session # None, ctl'[c].session = None
      PROVE  lSessions'[ctl[c].session] = None /\ hSessions'[ctl[c].session] = None
  <2>1. TypeOK /\ H!TypeOK /\ CallersAwait /\ CallRecordsFit /\ EndedWhereServed
        /\ ctl \in [Controller -> ControllerState]
    BY <1>1 DEF SystemInv, CallsInv, TypeOK, FreshIdInv
  <2>2. EndReturns(c)
    <3>1. CASE CreateReturns(c) /\ ctl'[c].session = ctl[c].id
      BY <1>1, <2>1, <3>1 DEF CreateReturns, InCall, CallRecordsFit, CallRecordFits
    <3>2. QED
      BY <1>1, <3>1, SessionOfControllerChange
  <2>3. InCall(c, "end_helper") /\ H!At(ctl[c].slot, "replied")
        /\ H!Deliver(ctl[c].slot) /\ lSessions' = lSessions
    BY <2>2 DEF EndReturns, H!Deliver, leader
  <2>4. lSessions[ctl[c].session] = None /\ hSessions[ctl[c].session] = None
    BY <2>1, <2>3 DEF EndedWhereServed
  <2>5. hSessions' = hSessions
    BY <2>3 DEF H!Deliver
  <2>6. QED
    BY <2>3, <2>4, <2>5
<1>2. SystemInv /\ FreshIdInv /\ [FreshIdNext]_vars =>
         [\A c \in Controller :
            ctl[c].session # None /\ ctl'[c].session = None =>
                /\ lSessions'[ctl[c].session] = None
                /\ hSessions'[ctl[c].session] = None]_vars
  BY <1>1, FreshNextIsNext
<1>3. QED
  BY <1>2, FreshIdInvariance, PTL DEF FreshIdSpec, EndedAtBoth

\* A client is never told that leader and helper have different parameters.
THEOREM ClientsAreToldOne == FreshIdSpec => []ClientsGetOneParameter
<1>1. SystemInv /\ FreshIdInv => ClientsGetOneParameter
  <2> SUFFICES ASSUME SystemInv, FreshIdInv, NEW i \in Client,
                      InClientCall(i, "ask_helper"), H!At(clt[i].slot, "replied"),
                      hHandler[clt[i].slot].reply.status = "OK"
               PROVE  hHandler[clt[i].slot].reply.body = clt[i].leader_param
    BY DEF ClientsGetOneParameter
  <2> DEFINE h == clt[i].slot
             body == hHandler[h].reply.body
  <2>1. h \in Handler /\ hHandler[h].req = GetRequestOf(clt[i].task) /\ clt[i].task # None
    BY DEF SystemInv, CallsInv, CallersAwait, ClientAwaits, HelperHandles, InClientCall
  <2>2. H!AnswerFits(h)
    BY <2>1 DEF SystemInv, CallsInv, H!CallerInv, H!AnswersFit
  <2>3. body \in VdafParameter
    BY <2>1, <2>2, RequestOps DEF H!AnswerFits, H!VdafParameter, VdafParameter,
                                  H!FixedTypeTag, FixedTypeTag
  <2>4. hStore[clt[i].task].vdaf = ToVdafInstance(body)
    BY <2>3, HelperAnswersGet, NoneAssumption DEF H!At
  <2>5. /\ IsRound(clt[i].task)
        /\ clt[i].leader_param \in VdafParameter
        /\ lStore[clt[i].task].vdaf = ToVdafInstance(clt[i].leader_param)
    BY <2>1 DEF FreshIdInv, ClientsKnowRounds, InClientCall
  <2>6. lStore[clt[i].task].vdaf = hStore[clt[i].task].vdaf
    BY <2>5 DEF IsRound, RoundTermsOf
  <2>7. QED
    BY <2>3, <2>4, <2>5, <2>6, SameVdaf
<1>2. QED
  BY <1>1, FreshIdInvariance, PTL

\* A client holds task ids of rounds that both aggregators have on one set of
\* terms, and its parametrization is that of the round it learned it for.
THEOREM ClientsKnowTheirRounds == FreshIdSpec => []ClientsKnowRounds
<1>1. FreshIdInv => ClientsKnowRounds
  BY DEF FreshIdInv
<1>2. QED
  BY <1>1, FreshIdInvariance, PTL

\* A report for a task of the session that the client learned its
\* parametrization from fits both aggregators.
THEOREM SameSessionReportsAreAccepted == FreshIdSpec => []SameSessionReportsFit
<1>1. SystemInv /\ FreshIdInv => SameSessionReportsFit
  <2> SUFFICES ASSUME SystemInv, FreshIdInv, NEW i \in Client, NEW m \in Measurement,
                      Submits(i, m),
                      lStore[clt[i].task].verify_key = lStore[clt[i].learned_for].verify_key
               PROVE  Fits(m, clt[i].task)
    BY DEF SameSessionReportsFit
  <2> DEFINE p == clt[i].parametrization
             t == clt[i].task
             u == clt[i].learned_for
  <2>1. /\ p # None /\ p \in VdafParameter
        /\ t \in TaskId \cup {None} /\ u \in TaskId \cup {None}
        /\ Accepts(p, m)
    BY DEF Submits, SystemInv, CallsInv, TypeOK, ClientState
  <2>2. /\ t # None /\ u # None /\ IsRound(t) /\ IsRound(u)
        /\ lStore[u].vdaf = ToVdafInstance(p)
    BY <2>1 DEF FreshIdInv, ClientsKnowRounds
  <2>3. L!TermsOf(lStore[t]) = L!TermsOf(lStore[u])
    BY <2>1, <2>2 DEF SystemInv, CallsInv, L!CallerInv, L!TermsOfKey, IsRound
  <2>4. lStore[t].vdaf = ToVdafInstance(p)
    BY <2>2, <2>3 DEF L!TermsOf
  <2>5. hStore[t].vdaf = ToVdafInstance(p)
    BY <2>2, <2>4 DEF IsRound, RoundTermsOf
  <2>6. HasShape(m, ToVdafInstance(p))
    BY <2>1 DEF HasShape, Accepts
  <2>7. QED
    BY <2>4, <2>5, <2>6 DEF Fits
<1>2. QED
  BY <1>1, FreshIdInvariance, PTL

-----------------------------------------------------------------------------
(* The refinement of RoundLedger                                           *)

\* Only a handler of the leader provisions a task there.
LEMMA LeaderProvisions ==
    ASSUME SystemInv, [Next]_vars, NEW t \in TaskId, lStore'[t] # lStore[t]
    PROVE  /\ lStore[t] = None
           /\ lStore'[t] # None
           /\ \A u \in TaskId : u # t => lStore'[u] = lStore[u]
           /\ UNCHANGED <<hStore, ctl>>
<1>1. ASSUME NEW c \in Controller, Calls(c) PROVE lStore' = lStore
  BY <1>1 DEF Calls, CreateSession, CreateAtHelper, CreateReturns, EndSession, EndAtHelper,
              EndReturns, StartRound, StartAtHelper, StartReturns, Collect, CollectReturns,
              CallFails, L!Receive, L!Deliver, leader
<1>2. ASSUME NEW i \in Client, ClientCalls(i) PROVE lStore' = lStore
  BY <1>2 DEF ClientCalls, FirstRound, Locate, HearLeader, AskHelper, Learn, NextRound,
              ClientCallFails, L!Receive, L!Deliver, L!Disconnect, leader
<1>3. ASSUME NEW h \in Handler, HelperRuns(h) \/ HelperDrops(h) \/ LeaderDrops(h)
      PROVE  lStore' = lStore
  BY <1>3 DEF HelperRuns, HelperDrops, LeaderDrops, L!Deliver, L!Disconnect, leader
<1>4. ASSUME LeaderRestarts \/ HelperRestarts \/ UNCHANGED vars PROVE lStore' = lStore
  BY <1>4 DEF LeaderRestarts, HelperRestarts, L!Restart, leader, vars
<1>5. PICK h \in Handler : LeaderRuns(h)
  <2>1. lStore' # lStore
    OBVIOUS
  <2>2. QED
    BY <2>1, <1>1, <1>2, <1>3, <1>4 DEF Next, Elsewhere, Calls, ClientCalls
<1>6. L!TypeOK /\ L!IInv
  BY DEF SystemInv, CallsInv, TypeOK
<1>7. /\ lStore[t] = None
      /\ \A u \in TaskId : u # t => lStore'[u] = lStore[u]
  BY <1>5, <1>6, LeaderInvSame, LeaderStepSame, LeaderAssumptions, LP!TaskChange DEF LeaderRuns
<1>8. QED
  BY <1>5, <1>7 DEF LeaderRuns, helper

LEMMA HelperProvisions ==
    ASSUME SystemInv, [Next]_vars, NEW t \in TaskId, hStore'[t] # hStore[t]
    PROVE  /\ hStore[t] = None
           /\ hStore'[t] # None
           /\ \A u \in TaskId : u # t => hStore'[u] = hStore[u]
           /\ UNCHANGED <<lStore, ctl>>
<1>1. ASSUME NEW c \in Controller, Calls(c) PROVE hStore' = hStore
  BY <1>1 DEF Calls, CreateSession, CreateAtHelper, CreateReturns, EndSession, EndAtHelper,
              EndReturns, StartRound, StartAtHelper, StartReturns, Collect, CollectReturns,
              CallFails, H!Receive, H!Deliver, helper
<1>2. ASSUME NEW i \in Client, ClientCalls(i) PROVE hStore' = hStore
  BY <1>2 DEF ClientCalls, FirstRound, Locate, HearLeader, AskHelper, Learn, NextRound,
              ClientCallFails, H!Receive, H!Deliver, H!Disconnect, helper
<1>3. ASSUME NEW h \in Handler, LeaderRuns(h) \/ HelperDrops(h) \/ LeaderDrops(h)
      PROVE  hStore' = hStore
  BY <1>3 DEF LeaderRuns, HelperDrops, LeaderDrops, H!Deliver, H!Disconnect, helper
<1>4. ASSUME LeaderRestarts \/ HelperRestarts \/ UNCHANGED vars PROVE hStore' = hStore
  BY <1>4 DEF LeaderRestarts, HelperRestarts, H!Restart, helper, vars
<1>5. PICK h \in Handler : HelperRuns(h)
  <2>1. hStore' # hStore
    OBVIOUS
  <2>2. QED
    BY <2>1, <1>1, <1>2, <1>3, <1>4 DEF Next, Elsewhere, Calls, ClientCalls
<1>6. H!TypeOK /\ H!IInv
  BY DEF SystemInv, CallsInv, TypeOK
<1>7. /\ hStore[t] = None
      /\ \A u \in TaskId : u # t => hStore'[u] = hStore[u]
  BY <1>5, <1>6, HelperInvSame, HelperStepSame, HelperAssumptions, HP!TaskChange DEF HelperRuns
<1>8. QED
  BY <1>5, <1>7 DEF HelperRuns, leader

\* The terms of a new task are among those of the ledger.
LEMMA TaskRoundTerms ==
    /\ \A task \in L!Task : RoundTermsOf(task) \in RoundTerms
    /\ \A task \in H!Task : RoundTermsOf(task) \in RoundTerms
BY DEF L!Task, H!Task, RoundTermsOf, RoundTerms, L!VdafInstance, H!VdafInstance,
       VdafInstance, L!BitSize, H!BitSize, BitSize

LEMMA LedgerStep ==
    ASSUME SystemInv, FreshIdInv, [FreshIdNext]_vars
    PROVE  [Ledger!Next]_(Ledger!vars)
<1>0. /\ [Next]_vars /\ TypeOK /\ TypeOK'
      /\ lStore \in [TaskId -> L!Task \cup {None}] /\ lStore' \in [TaskId -> L!Task \cup {None}]
      /\ hStore \in [TaskId -> H!Task \cup {None}] /\ hStore' \in [TaskId -> H!Task \cup {None}]
      /\ ctl \in [Controller -> ControllerState]
  BY FreshNextIsNext, TypesStep DEF SystemInv, CallsInv, TypeOK, L!TypeOK, H!TypeOK
<1> DEFINE Round(state) == [c \in Controller |-> state[c].task]
<1>1. ASSUME NEW t \in TaskId, lStore'[t] # lStore[t] PROVE Ledger!ProvisionLeader(t)
  <2>1. /\ lStore[t] = None /\ lStore'[t] # None
        /\ \A u \in TaskId : u # t => lStore'[u] = lStore[u]
        /\ hStore' = hStore /\ ctl' = ctl
    BY <1>0, <1>1, LeaderProvisions
  <2>2. RoundTermsOf(lStore'[t]) \in RoundTerms
    BY <1>0, <2>1, TaskRoundTerms
  <2>3. LedgerTasks(lStore') = [LedgerTasks(lStore) EXCEPT ![t] = RoundTermsOf(lStore'[t])]
    BY <2>1 DEF LedgerTasks
  <2>4. LedgerTasks(lStore)[t] = None
    BY <2>1 DEF LedgerTasks
  <2>5. QED
    BY <2>1, <2>2, <2>3, <2>4 DEF Ledger!ProvisionLeader
<1>2. ASSUME NEW t \in TaskId, hStore'[t] # hStore[t] PROVE Ledger!ProvisionHelper(t)
  <2>1. /\ hStore[t] = None /\ hStore'[t] # None
        /\ \A u \in TaskId : u # t => hStore'[u] = hStore[u]
        /\ lStore' = lStore /\ ctl' = ctl
    BY <1>0, <1>2, HelperProvisions
  <2>2. RoundTermsOf(hStore'[t]) \in RoundTerms
    BY <1>0, <2>1, TaskRoundTerms
  <2>3. LedgerTasks(hStore') = [LedgerTasks(hStore) EXCEPT ![t] = RoundTermsOf(hStore'[t])]
    BY <2>1 DEF LedgerTasks
  <2>4. LedgerTasks(hStore)[t] = None
    BY <2>1 DEF LedgerTasks
  <2>5. QED
    BY <2>1, <2>2, <2>3, <2>4 DEF Ledger!ProvisionHelper
<1>3. ASSUME NEW c \in Controller, ctl'[c].task # ctl[c].task
      PROVE  \E t \in TaskId : Ledger!Announce(c, t)
  <2>0. PICK t \in TaskId : ctl'[c].task = t
    BY <1>0, <1>3, RoundChange
  <2>1. /\ StartReturns(c)
        /\ lStore[t] # None /\ hStore[t] # None
    BY <1>0, <1>3, <2>0, RoundChange
  <2>2. lStore' = lStore /\ hStore' = hStore
    BY <2>1 DEF StartReturns, leader, H!Deliver
  <2>3. RoundAgreement'
    BY <1>0, RoundAgreementStep DEF FreshIdInv
  <2>4. t # None
    BY <2>1, NoneAssumption
  <2>5. /\ lStore[t].verify_key = hStore[t].verify_key
        /\ lStore[t].collector = c /\ hStore[t].collector = c
        /\ lStore[t].vdaf = hStore[t].vdaf
    BY <2>0, <2>2, <2>3, <2>4 DEF RoundAgreement
  <2>6. /\ LedgerTasks(lStore)[t] = RoundTermsOf(lStore[t])
        /\ LedgerTasks(hStore)[t] = RoundTermsOf(hStore[t])
    BY <2>1 DEF LedgerTasks
  <2>7. RoundTermsOf(lStore[t]) \in RoundTerms
    BY <1>0, <2>1, TaskRoundTerms
  <2>8. /\ LedgerTasks(lStore)[t] # None
        /\ LedgerTasks(lStore)[t] = LedgerTasks(hStore)[t]
        /\ LedgerTasks(lStore)[t].collector = c
    BY <2>5, <2>6, <2>7, LedgerAssumption DEF RoundTermsOf
  <2>9. \A d \in Controller : d # c => ctl'[d] = ctl[d]
    BY <1>0, <2>1, CallsAreSingle DEF Calls
  <2>10. Round(ctl') = [Round(ctl) EXCEPT ![c] = t]
    BY <2>0, <2>9
  <2>11. Ledger!Announce(c, t)
    BY <2>2, <2>8, <2>10 DEF Ledger!Announce
  <2>12. QED
    BY <2>1, <2>11
<1>4. CASE /\ \A t \in TaskId : lStore'[t] = lStore[t] /\ hStore'[t] = hStore[t]
           /\ \A c \in Controller : ctl'[c].task = ctl[c].task
  <2>1. lStore' = lStore /\ hStore' = hStore
    BY <1>0, <1>4
  <2>2. Round(ctl') = Round(ctl)
    BY <1>4
  <2>3. QED
    BY <2>1, <2>2 DEF Ledger!vars, LedgerTasks
<1>5. QED
  BY <1>1, <1>2, <1>3, <1>4 DEF Ledger!Next

\* Controllers and managers implement the ledger: a round is announced only
\* when both aggregators have its task on one set of terms.
THEOREM RoundLedgerIsImplemented == FreshIdSpec => ImplementsRoundLedger
<1>1. Init => Ledger!Init
  <2> SUFFICES ASSUME Init PROVE Ledger!Init
    OBVIOUS
  <2>1. /\ lStore = [t \in TaskId |-> None] /\ hStore = [t \in TaskId |-> None]
        /\ ctl = [c \in Controller |-> NoCall(None, None)]
    BY DEF Init, L!Init, H!Init
  <2>2. \A c \in Controller : ctl[c].task = None
    BY <2>1 DEF NoCall
  <2>3. QED
    BY <2>1, <2>2 DEF Ledger!Init, LedgerTasks
<1>2. QED
  BY <1>1, LedgerStep, FreshIdInvariance, PTL DEF FreshIdSpec, ImplementsRoundLedger, Ledger!Spec

=============================================================================
