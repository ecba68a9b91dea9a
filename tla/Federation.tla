----------------------------- MODULE Federation -----------------------------
(***************************************************************************)
(* The whole system: controllers, training clients and the two janus       *)
(* managers, each a TaskProvisioner with its own datastore.                *)
(*                                                                         *)
(* A controller (controller/interface/embedded.rs over JanusManagerClient) *)
(* runs one API call at a time, and a call asks the leader's manager first *)
(* and the helper's second.  The caller of a request may see an error at   *)
(* any time; the handler it leaves behind may still run to its end, be     *)
(* dropped at an await point, or never have read the request.              *)
(*                                                                         *)
(* A client (client/implementation/mod.rs) learns the VDAF parameter from  *)
(* both managers for the first round that it is told of, and keeps it.     *)
(* The janus aggregators themselves are external: an upload reaches a task *)
(* that both of them have.                                                 *)
(*                                                                         *)
(* As in TaskProvisioner, an operator whose comment begins with "Bug:" is  *)
(* the next definition with a plausible bug, and no part of the model.     *)
(***************************************************************************)
EXTENDS CoreTypes

CONSTANTS
    SessionId, TaskId, HpkeConfigId, VerifyKey,
    Handler,            \* bound on the requests in flight at one manager
    Controller,
    Param,              \* the VDAF parameter of each controller
    Client,
    Location,           \* what a manager may be configured to say of janus
    None

ASSUME ParamAssumption == Param \in [Controller -> VdafParameter]

ASSUME NoneAssumption ==
    None \notin SessionId \cup TaskId \cup VerifyKey \cup Handler \cup VdafParameter

VARIABLES
    lSessions, lKeyring, lStore, lLock, lHandler,   \* the leader's manager
    hSessions, hKeyring, hStore, hLock, hHandler,   \* the helper's manager
    ctl,        \* the state of each controller, and its call in progress
    clt,        \* the state of each client, and its call in progress
    main        \* the main locations in the configuration of each manager

leader == <<lSessions, lKeyring, lStore, lLock, lHandler>>
helper == <<hSessions, hKeyring, hStore, hLock, hHandler>>
vars == <<leader, helper, ctl, clt, main>>

-----------------------------------------------------------------------------
(* The requests that controllers and clients send                          *)

CreateRequestOf(c, role, id, k) ==
    [op |-> "create_session", training_session_id |-> id, role |-> role,
     collector |-> c, verify_key |-> k, vdaf_parameter |-> Param[c],
     decodable |-> TRUE]

SessionRequest ==
    [op : {"end_session"}, training_session_id : SessionId]
    \cup [op : {"start_round"}, training_session_id : SessionId, task_id : TaskId]
    \cup [op : {"get_vdaf_parameter"}, task_id : TaskId]

\* The leader is asked for a session under any id, the helper for one under
\* the id that the leader has chosen.
LeaderRequest ==
    SessionRequest \cup
    {CreateRequestOf(c, "Leader", None, k) : c \in Controller, k \in VerifyKey}

HelperRequest ==
    SessionRequest \cup
    {CreateRequestOf(c, "Helper", id, k) :
        c \in Controller, id \in SessionId, k \in VerifyKey}

L == INSTANCE TaskProvisioner
       WITH sessions <- lSessions, keyring <- lKeyring, store <- lStore,
            lock <- lLock, handler <- lHandler,
            Collector <- Controller, Requests <- LeaderRequest

H == INSTANCE TaskProvisioner
       WITH sessions <- hSessions, keyring <- hKeyring, store <- hStore,
            lock <- hLock, handler <- hHandler,
            Collector <- Controller, Requests <- HelperRequest

ASSUME ManagerAssumption ==
    None \notin L!Session \cup L!Task \cup L!Keypair
                  \cup L!Terms \cup L!Table!OpenSession

-----------------------------------------------------------------------------

LeaderCall == {"create_leader", "end_leader", "round_leader"}
HelperCall == {"create_helper", "end_helper", "round_helper"}

\* session and task are ControllerStateRound; the rest belongs to the call.
ControllerState ==
    [session   : SessionId \cup {None},
     task      : TaskId \cup {None},
     pc        : {"idle", "collect"} \cup LeaderCall \cup HelperCall,
     slot      : Handler \cup {None},
     key       : VerifyKey \cup {None},
     id        : SessionId \cup {None},
     new_task  : TaskId \cup {None},
     leader_ok : BOOLEAN]

NoCall(session, task) ==
    [session |-> session, task |-> task, pc |-> "idle", slot |-> None,
     key |-> None, id |-> None, new_task |-> None, leader_ok |-> FALSE]

Measurement == [gradient_len : GradientLen, submission_type : FixedTypeTag]

\* A parametrization of None is the InitState of ClientStatePU.  learned_for
\* is the task it was fetched for.
ClientState ==
    [parametrization : VdafParameter \cup {None},
     location        : Location \cup {None},
     learned_for     : TaskId \cup {None},
     task            : TaskId \cup {None},
     pc              : {"idle", "locate", "ask_leader", "leader_known", "ask_helper"},
     slot            : Handler \cup {None},
     leader_param    : VdafParameter \cup {None}]

NewClient ==
    [parametrization |-> None, location |-> None, learned_for |-> None,
     task |-> None, pc |-> "idle", slot |-> None, leader_param |-> None]

Init ==
    /\ L!Init
    /\ H!Init
    /\ ctl = [c \in Controller |-> NoCall(None, None)]
    /\ clt = [i \in Client |-> NewClient]
    /\ main \in [leader : Location, helper : Location]

-----------------------------------------------------------------------------
(* Calls over the network                                                  *)

\* The requests in flight that somebody still waits for.
AwaitedAtLeader ==
    {ctl[c].slot : c \in {c \in Controller : ctl[c].pc \in LeaderCall}}
    \cup {clt[i].slot : i \in {i \in Client : clt[i].pc = "ask_leader"}}

AwaitedAtHelper ==
    {ctl[c].slot : c \in {c \in Controller : ctl[c].pc \in HelperCall}}
    \cup {clt[i].slot : i \in {i \in Client : clt[i].pc = "ask_helper"}}

InCall(c, pc) == ctl[c].pc = pc

\* Controller c waits at pc for the answer to the request in slot h.
Await(c, state, pc, h) ==
    ctl' = [ctl EXCEPT ![c] = [state EXCEPT !.pc = pc, !.slot = h]]

\* The call returns and leaves the controller this state.
Return(c, session, task) == ctl' = [ctl EXCEPT ![c] = NoCall(session, task)]

Failed(c) == NoCall(ctl[c].session, ctl[c].task)

ReturnError(c) == Return(c, ctl[c].session, ctl[c].task)

LeaderOK(c) == lHandler[ctl[c].slot].reply.status = "OK"

HelperOK(c) == hHandler[ctl[c].slot].reply.status = "OK"

-----------------------------------------------------------------------------
(* api_create_session                                                      *)

\* The verify key is random: nothing in the system mentions it yet.
FreshVerifyKey(k) ==
    /\ L!FreshKey(k)
    /\ H!FreshKey(k)
    /\ \A c \in Controller : ctl[c].key # k

CreateSession(c) ==
    /\ InCall(c, "idle")
    /\ \E k \in VerifyKey, h \in Handler :
          /\ FreshVerifyKey(k)
          /\ L!Receive(h, CreateRequestOf(c, "Leader", None, k))
          /\ Await(c, [ctl[c] EXCEPT !.key = k], "create_leader", h)
    /\ UNCHANGED <<helper, clt, main>>

\* Bug: every request gets a verify key of its own.
CreateAtHelperAnew(c) ==
    LET id == lHandler[ctl[c].slot].reply.body IN
    /\ InCall(c, "create_leader")
    /\ L!Deliver(ctl[c].slot)
    /\ LeaderOK(c)
    /\ \E k \in VerifyKey, h \in Handler :
          /\ FreshVerifyKey(k)
          /\ H!Receive(h, CreateRequestOf(c, "Helper", id, k))
          /\ Await(c, [ctl[c] EXCEPT !.id = id], "create_helper", h)
    /\ UNCHANGED <<clt, main>>

\* The helper is asked to use the id that the leader chose.
CreateAtHelper(c) ==
    LET id == lHandler[ctl[c].slot].reply.body IN
    /\ InCall(c, "create_leader")
    /\ L!Deliver(ctl[c].slot)
    /\ \/ /\ LeaderOK(c)
          /\ \E h \in Handler :
                /\ H!Receive(h, CreateRequestOf(c, "Helper", id, ctl[c].key))
                /\ Await(c, [ctl[c] EXCEPT !.id = id], "create_helper", h)
       \/ /\ ~LeaderOK(c)
          /\ ReturnError(c)
          /\ UNCHANGED helper
    /\ UNCHANGED <<clt, main>>

CreateReturns(c) ==
    /\ InCall(c, "create_helper")
    /\ H!Deliver(ctl[c].slot)
    /\ IF HelperOK(c) THEN Return(c, ctl[c].id, ctl[c].task)
                      ELSE ReturnError(c)
    /\ UNCHANGED <<leader, clt, main>>

-----------------------------------------------------------------------------
(* api_end_session                                                         *)

EndRequestOf(c) ==
    [op |-> "end_session", training_session_id |-> ctl[c].session]

EndSession(c) ==
    /\ InCall(c, "idle")
    /\ ctl[c].session # None
    /\ \E h \in Handler :
          /\ L!Receive(h, EndRequestOf(c))
          /\ Await(c, ctl[c], "end_leader", h)
    /\ UNCHANGED <<helper, clt, main>>

EndAtHelper(c) ==
    /\ InCall(c, "end_leader")
    /\ L!Deliver(ctl[c].slot)
    /\ \E h \in Handler :
          /\ H!Receive(h, EndRequestOf(c))
          /\ Await(c, [ctl[c] EXCEPT !.leader_ok = LeaderOK(c)], "end_helper", h)
    /\ UNCHANGED <<clt, main>>

EndReturns(c) ==
    /\ InCall(c, "end_helper")
    /\ H!Deliver(ctl[c].slot)
    /\ IF ctl[c].leader_ok /\ HelperOK(c) THEN Return(c, None, ctl[c].task)
                                          ELSE ReturnError(c)
    /\ UNCHANGED <<leader, clt, main>>

-----------------------------------------------------------------------------
(* api_start_round and api_collect                                         *)

StartRequestOf(c, t) ==
    [op |-> "start_round", training_session_id |-> ctl[c].session, task_id |-> t]

\* The task id is random, too.
FreshTask(t) ==
    /\ lStore[t] = None /\ hStore[t] = None
    /\ \A c \in Controller : ctl[c].new_task # t
    /\ \A h \in Handler :
          /\ ~L!At(h, "idle") /\ lHandler[h].req.op = "start_round"
             => lHandler[h].req.task_id # t
          /\ ~H!At(h, "idle") /\ hHandler[h].req.op = "start_round"
             => hHandler[h].req.task_id # t

StartRound(c) ==
    /\ InCall(c, "idle")
    /\ ctl[c].session # None
    /\ \E t \in TaskId, h \in Handler :
          /\ FreshTask(t)
          /\ L!Receive(h, StartRequestOf(c, t))
          /\ Await(c, [ctl[c] EXCEPT !.new_task = t], "round_leader", h)
    /\ UNCHANGED <<helper, clt, main>>

\* The helper is asked whatever the leader answered.
StartAtHelper(c) ==
    /\ InCall(c, "round_leader")
    /\ L!Deliver(ctl[c].slot)
    /\ \E h \in Handler :
          /\ H!Receive(h, StartRequestOf(c, ctl[c].new_task))
          /\ Await(c, [ctl[c] EXCEPT !.leader_ok = LeaderOK(c)], "round_helper", h)
    /\ UNCHANGED <<clt, main>>

\* Bug: only the helper's status is looked at.
StartReturnsOnHelperOK(c) ==
    /\ InCall(c, "round_helper")
    /\ H!Deliver(ctl[c].slot)
    /\ IF HelperOK(c) THEN Return(c, ctl[c].session, ctl[c].new_task)
                      ELSE ReturnError(c)
    /\ UNCHANGED <<leader, clt, main>>

StartReturns(c) ==
    /\ InCall(c, "round_helper")
    /\ H!Deliver(ctl[c].slot)
    /\ IF ctl[c].leader_ok /\ HelperOK(c)
       THEN Return(c, ctl[c].session, ctl[c].new_task)
       ELSE ReturnError(c)
    /\ UNCHANGED <<leader, clt, main>>

\* The aggregator of the leader is asked for the result of the task.
Collect(c) ==
    /\ InCall(c, "idle")
    /\ ctl[c].task # None
    /\ ctl' = [ctl EXCEPT ![c].pc = "collect"]
    /\ UNCHANGED <<leader, helper, clt, main>>

CollectReturns(c) ==
    /\ InCall(c, "collect")
    /\ ReturnError(c)
    /\ UNCHANGED <<leader, helper, clt, main>>

\* Bug: the current session is reset before the call, not after it.
CallFailsForgetsSession(c) ==
    /\ ctl[c].pc \in LeaderCall \cup HelperCall
    /\ Return(c, IF ctl[c].pc \in {"end_leader", "end_helper"}
                 THEN None ELSE ctl[c].session, ctl[c].task)
    /\ UNCHANGED <<leader, helper, clt, main>>

\* The send fails or the connection breaks: every ? in the calls.
CallFails(c) ==
    /\ ctl[c].pc \in LeaderCall \cup HelperCall
    /\ ReturnError(c)
    /\ UNCHANGED <<leader, helper, clt, main>>

-----------------------------------------------------------------------------
(* The training client                                                     *)

GetRequestOf(t) == [op |-> "get_vdaf_parameter", task_id |-> t]

InClientCall(i, pc) == clt[i].pc = pc

SetClient(i, state) == clt' = [clt EXCEPT ![i] = state]

\* The endpoint get_main_locations: it reads what the manager is configured
\* with and waits for nothing.
GetMainLocations(manager) == main[manager]

\* Nothing of a failed initialisation is kept.
ClientFailed(i) ==
    [clt[i] EXCEPT !.pc = "idle", !.slot = None, !.task = None,
                   !.location = None, !.leader_param = None]

\* ClientState::new; the task id reaches the client out of band, from the
\* controller that started the round.  The leader tells the main locations
\* here, the helper in the next step.
FirstRound(i) ==
    /\ InClientCall(i, "idle")
    /\ clt[i].parametrization = None
    /\ \E c \in Controller :
          /\ ctl[c].task # None
          /\ SetClient(i, [clt[i] EXCEPT !.pc = "locate", !.task = ctl[c].task,
                                         !.location = GetMainLocations("leader")])
    /\ UNCHANGED <<leader, helper, ctl, main>>

\* The two managers must name the same locations.
Locate(i) ==
    /\ InClientCall(i, "locate")
    /\ \/ /\ GetMainLocations("helper") = clt[i].location
          /\ \E h \in Handler :
                /\ L!Receive(h, GetRequestOf(clt[i].task))
                /\ SetClient(i, [clt[i] EXCEPT !.pc = "ask_leader", !.slot = h])
       \/ /\ GetMainLocations("helper") # clt[i].location
          /\ SetClient(i, ClientFailed(i))
          /\ UNCHANGED leader
    /\ UNCHANGED <<helper, ctl, main>>

\* Bug: the answer of a leader that does not know the task is not noticed.
HearLeaderOK(i) ==
    LET param == lHandler[clt[i].slot].reply.body IN
    /\ InClientCall(i, "ask_leader")
    /\ L!Deliver(clt[i].slot)
    /\ param # None
    /\ SetClient(i, [clt[i] EXCEPT !.pc = "leader_known", !.slot = None,
                                   !.leader_param = param])
    /\ UNCHANGED <<helper, ctl, main>>

HearLeader(i) ==
    LET param == lHandler[clt[i].slot].reply.body IN
    /\ InClientCall(i, "ask_leader")
    /\ L!Deliver(clt[i].slot)
    /\ \/ /\ param # None
          /\ SetClient(i, [clt[i] EXCEPT !.pc = "leader_known", !.slot = None,
                                         !.leader_param = param])
       \/ /\ param = None
          /\ SetClient(i, ClientFailed(i))
    /\ UNCHANGED <<helper, ctl, main>>

AskHelper(i) ==
    /\ InClientCall(i, "leader_known")
    /\ \E h \in Handler :
          /\ H!Receive(h, GetRequestOf(clt[i].task))
          /\ SetClient(i, [clt[i] EXCEPT !.pc = "ask_helper", !.slot = h])
    /\ UNCHANGED <<leader, ctl, main>>

SameParam(leader_param, helper_param) == leader_param = helper_param

\* The parametrization is taken when both managers give the same.
Learn(i) ==
    /\ InClientCall(i, "ask_helper")
    /\ H!Deliver(clt[i].slot)
    /\ IF SameParam(clt[i].leader_param, hHandler[clt[i].slot].reply.body)
       THEN SetClient(i, [clt[i] EXCEPT !.pc = "idle", !.slot = None,
                              !.parametrization = clt[i].leader_param,
                              !.learned_for = clt[i].task,
                              !.leader_param = None])
       ELSE SetClient(i, ClientFailed(i))
    /\ UNCHANGED <<leader, ctl, main>>

\* update_to_next_round_config: the parametrization stays.
NextRound(i) ==
    /\ InClientCall(i, "idle")
    /\ clt[i].parametrization # None
    /\ \E c \in Controller :
          /\ ctl[c].task # None
          /\ SetClient(i, [clt[i] EXCEPT !.task = ctl[c].task])
    /\ UNCHANGED <<leader, helper, ctl, main>>

\* Bug: only the length is looked at.
AcceptsAnyType(param, m) == m.gradient_len = param.gradient_len

Accepts(param, m) ==
    /\ m.gradient_len = param.gradient_len
    /\ m.submission_type = param.submission_type

\* What api_submit uploads to the task of client i.  It leaves the client as
\* it is; janus takes the report when both aggregators have the task.
Submits(i, m) ==
    /\ InClientCall(i, "idle")
    /\ clt[i].parametrization # None
    /\ lStore[clt[i].task] # None
    /\ hStore[clt[i].task] # None
    /\ Accepts(clt[i].parametrization, m)

\* A get_vdaf_parameter that is served late changes nothing, so the handler of
\* a client that is gone is dropped at once.
ClientCallFails(i) ==
    /\ SetClient(i, ClientFailed(i))
    /\ \/ /\ InClientCall(i, "locate") \/ InClientCall(i, "leader_known")
          /\ UNCHANGED <<leader, helper>>
       \/ /\ InClientCall(i, "ask_leader")
          /\ L!Disconnect(clt[i].slot) \/ L!Deliver(clt[i].slot)
          /\ UNCHANGED helper
       \/ /\ InClientCall(i, "ask_helper")
          /\ H!Disconnect(clt[i].slot) \/ H!Deliver(clt[i].slot)
          /\ UNCHANGED leader
    /\ UNCHANGED <<ctl, main>>

-----------------------------------------------------------------------------
(* The managers                                                            *)

LeaderRuns(h) == L!Step(h) /\ UNCHANGED <<helper, ctl, clt, main>>

HelperRuns(h) == H!Step(h) /\ UNCHANGED <<leader, ctl, clt, main>>

\* A request that nobody waits for is dropped, or its answer is.
LeaderDrops(h) ==
    /\ h \notin AwaitedAtLeader
    /\ L!Disconnect(h) \/ L!Deliver(h)
    /\ UNCHANGED <<helper, ctl, clt, main>>

HelperDrops(h) ==
    /\ h \notin AwaitedAtHelper
    /\ H!Disconnect(h) \/ H!Deliver(h)
    /\ UNCHANGED <<leader, ctl, clt, main>>

\* All requests at the manager fail with it, and it reads its configuration anew.
LeaderRestarts ==
    /\ L!Restart
    /\ ctl' = [c \in Controller |->
                 IF ctl[c].pc \in LeaderCall THEN Failed(c) ELSE ctl[c]]
    /\ clt' = [i \in Client |->
                 IF InClientCall(i, "ask_leader") THEN ClientFailed(i) ELSE clt[i]]
    /\ \E l \in Location : main' = [main EXCEPT !.leader = l]
    /\ UNCHANGED helper

HelperRestarts ==
    /\ H!Restart
    /\ ctl' = [c \in Controller |->
                 IF ctl[c].pc \in HelperCall THEN Failed(c) ELSE ctl[c]]
    /\ clt' = [i \in Client |->
                 IF InClientCall(i, "ask_helper") THEN ClientFailed(i) ELSE clt[i]]
    /\ \E l \in Location : main' = [main EXCEPT !.helper = l]
    /\ UNCHANGED leader

-----------------------------------------------------------------------------

Calls(c) ==
    \/ CreateSession(c) \/ CreateAtHelper(c) \/ CreateReturns(c)
    \/ EndSession(c) \/ EndAtHelper(c) \/ EndReturns(c)
    \/ StartRound(c) \/ StartAtHelper(c) \/ StartReturns(c)
    \/ Collect(c) \/ CollectReturns(c) \/ CallFails(c)

ClientCalls(i) ==
    \/ FirstRound(i) \/ Locate(i) \/ HearLeader(i) \/ AskHelper(i) \/ Learn(i)
    \/ NextRound(i) \/ ClientCallFails(i)

\* Every step but those of the handlers at the leader's manager.
Elsewhere ==
    \/ \E c \in Controller : Calls(c)
    \/ \E i \in Client : ClientCalls(i)
    \/ \E h \in Handler : HelperRuns(h) \/ HelperDrops(h) \/ LeaderDrops(h)
    \/ LeaderRestarts
    \/ HelperRestarts

Next == Elsewhere \/ \E h \in Handler : LeaderRuns(h)

Spec == Init /\ [][Next]_vars

\* The steps that go on with a call when its answer is there.
Continues(c) ==
    \/ CreateAtHelper(c) \/ CreateReturns(c)
    \/ EndAtHelper(c) \/ EndReturns(c)
    \/ StartAtHelper(c) \/ StartReturns(c)

ClientContinues(i) == Locate(i) \/ HearLeader(i) \/ AskHelper(i) \/ Learn(i)

\* The handlers are fair as in TaskProvisioner, callers act on the answers
\* they get, and hyper ends the handlers of callers that are gone.  That a
\* connection breaks or a manager restarts is not assumed: the callers have
\* no timeout that would wake them up.
Fairness ==
    /\ \A c \in Controller : SF_vars(Continues(c))
    /\ \A i \in Client : SF_vars(ClientContinues(i))
    /\ \A h \in Handler :
          /\ SF_vars(LeaderRuns(h)) /\ SF_vars(HelperRuns(h))
          /\ WF_vars(LeaderDrops(h)) /\ WF_vars(HelperDrops(h))

FairSpec == Spec /\ Fairness

\* A session id that some part of the system still uses.
IdInUse(id) ==
    \/ lSessions[id] # None \/ hSessions[id] # None
    \/ \E c \in Controller : id \in {ctl[c].session, ctl[c].id}
    \/ \E h \in Handler :
          \/ lHandler[h].id = id
          \/ hHandler[h].id = id
          \/ L!At(h, "replied") /\ lHandler[h].reply.body = id
          \/ /\ ~H!At(h, "idle")
             /\ hHandler[h].req.op = "create_session"
             /\ hHandler[h].req.training_session_id = id

\* The random u16 that handler h of the leader draws is in use.
DrawsUsedId(h) ==
    /\ L!At(h, "received")
    /\ lHandler'[h].pc = "keyring"
    /\ IdInUse(lHandler'[h].id)

\* The system without collisions of random session ids.
FreshIdNext ==
    Elsewhere \/ \E h \in Handler : LeaderRuns(h) /\ ~DrawsUsedId(h)

FreshIdSpec == Init /\ [][FreshIdNext]_vars

-----------------------------------------------------------------------------
(* Properties                                                              *)

\* Managers, controllers and clients hold what the code's types allow.
TypeOK ==
    /\ L!TypeOK
    /\ H!TypeOK
    /\ ctl \in [Controller -> ControllerState]
    /\ clt \in [Client -> ClientState]
    /\ main \in [leader : Location, helper : Location]

\* The task id that api_start_round returned names a task at both aggregators,
\* each in its own role, whatever calls failed and whichever manager has
\* restarted since.
RoundProvisioned ==
    \A c \in Controller : ctl[c].task # None =>
        LET t == ctl[c].task IN
        /\ lStore[t] # None /\ lStore[t].role = "Leader"
        /\ hStore[t] # None /\ hStore[t].role = "Helper"

\* As long as random session ids do not collide, those two tasks have the
\* same verify key, and the VDAF and the collector of the controller that
\* started the round, so that it can collect the result.
RoundAgreement ==
    \A c \in Controller : ctl[c].task # None =>
        LET t == ctl[c].task IN
        /\ lStore[t].verify_key = hStore[t].verify_key
        /\ lStore[t].collector = c /\ hStore[t].collector = c
        /\ lStore[t].vdaf = ToVdafInstance(Param[c])
        /\ hStore[t].vdaf = ToVdafInstance(Param[c])

\* Sessions that the managers hold under one id are the two halves of one
\* create_session, also after partial failures, restarts and late requests.
SessionsAgree ==
    \A id \in SessionId : lSessions[id] # None /\ hSessions[id] # None =>
        /\ lSessions[id].verify_key = hSessions[id].verify_key
        /\ lSessions[id].collector = hSessions[id].collector
        /\ lSessions[id].vdaf_parameter = hSessions[id].vdaf_parameter

\* When api_end_session succeeds, neither manager has the session.
EndedAtBoth ==
    [][\A c \in Controller :
         ctl[c].session # None /\ ctl'[c].session = None =>
             /\ lSessions'[ctl[c].session] = None
             /\ hSessions'[ctl[c].session] = None]_vars

\* "The leader and helper have different vdaf params" is never what a client is
\* told: when both managers know the task, they give the same parameter, also
\* if sessions have ended, managers have restarted or other controllers have
\* taken the session id between the two requests.
ClientsGetOneParameter ==
    \A i \in Client :
        /\ InClientCall(i, "ask_helper")
        /\ H!At(clt[i].slot, "replied")
        /\ hHandler[clt[i].slot].reply.status = "OK"
        => hHandler[clt[i].slot].reply.body = clt[i].leader_param

\* The VDAF of a task expects measurements of one shape.
HasShape(m, vdaf) ==
    \E p \in VdafParameter :
        /\ p.gradient_len = m.gradient_len
        /\ p.submission_type = m.submission_type
        /\ vdaf = ToVdafInstance(p)

Fits(m, t) == HasShape(m, lStore[t].vdaf) /\ HasShape(m, hStore[t].vdaf)

\* "We assume that the vdaf parameters don't change between tasks of the same
\* session": a report for a task of the session that the client learned its
\* parametrization from has the shape that both aggregators expect.
SameSessionReportsFit ==
    \A i \in Client, m \in Measurement :
        /\ Submits(i, m)
        /\ lStore[clt[i].task].verify_key = lStore[clt[i].learned_for].verify_key
        => Fits(m, clt[i].task)

\* Every call of a controller returns, be it with an error: neither manager
\* keeps it waiting.  Collections are left out, janus may have nothing to give.
CallsReturn ==
    \A c \in Controller :
        ctl[c].pc \in LeaderCall \cup HelperCall ~> InCall(c, "idle")

\* So does the initialisation of a client.
ClientCallsReturn ==
    \A i \in Client : ~InClientCall(i, "idle") ~> InClientCall(i, "idle")

\* What the two tasks of a round must share.
RoundTerms ==
    [verify_key : VerifyKey, collector : Controller, vdaf : VdafInstance]

ASSUME LedgerAssumption == None \notin RoundTerms

RoundTermsOf(task) ==
    [verify_key |-> task.verify_key, collector |-> task.collector,
     vdaf |-> task.vdaf]

LedgerTasks(store) ==
    [t \in TaskId |-> IF store[t] = None THEN None ELSE RoundTermsOf(store[t])]

Ledger ==
    INSTANCE RoundLedger
      WITH leaderTask <- LedgerTasks(lStore),
           helperTask <- LedgerTasks(hStore),
           round <- [c \in Controller |-> ctl[c].task],
           Terms <- RoundTerms

\* As long as random session ids do not collide, controllers and managers
\* implement the ledger: api_start_round announces a round only when both
\* aggregators have its task on one set of terms, and nothing changes it then.
ImplementsRoundLedger == Ledger!Spec

\* The verify key "needs to be the same for both aggregators": the keys of
\* the two tasks of a round agree, with nothing assumed about session ids.
VerifyKeysAgree ==
    \A c \in Controller : ctl[c].task # None =>
        lStore[ctl[c].task].verify_key = hStore[ctl[c].task].verify_key

\* api_collect asks for the "gradient vector, associated to the currently
\* active training round": a task that both aggregators have, and a collection
\* can be answered for, belongs to the controller's session.  It would also
\* hold if end_session did "delete the associated data", the ended session's
\* tasks with it.
CollectsActiveRound ==
    \A c \in Controller :
        /\ InCall(c, "collect")
        /\ lStore[ctl[c].task] # None
        /\ hStore[ctl[c].task] # None
        /\ ctl[c].session # None
        /\ lSessions[ctl[c].session] # None
        => ctl[c].task \in lSessions[ctl[c].session].tasks

\* A gradient's "type matches with the type tag for this round": every report
\* has the shape that its own task expects.
ReportsFit ==
    \A i \in Client, m \in Measurement : Submits(i, m) => Fits(m, clt[i].task)

=============================================================================
