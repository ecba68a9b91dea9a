-------------------------- MODULE TaskProvisioner --------------------------
(***************************************************************************)
(* One janus manager: the TaskProvisioner that the warp server of          *)
(* provider.rs shares between all HTTP requests.                           *)
(*                                                                         *)
(* Every request in flight is a handler (a future on the tokio runtime).   *)
(* A handler runs from one await point to the next in one step; handlers   *)
(* interleave at their await points.  The await points that matter are     *)
(* the acquisitions of the two async mutexes and the datastore             *)
(* transaction of provision_task.  A handler is dropped at an await point  *)
(* when its connection closes.  A restart of the process loses the         *)
(* sessions and the keyring; the datastore is durable.                     *)
(*                                                                         *)
(* Abstractions.  A Collector stands for everything that one               *)
(* JanusManagerClient generates once and sends with each of its sessions:  *)
(* the collector HPKE config and the two auth tokens.  A keypair is named  *)
(* by its config id and the verify key of the create request that made it. *)
(* Session.tasks is a set, because the code only asks it for membership.   *)
(*                                                                         *)
(* An operator whose comment begins with "Bug:" is no part of the model.   *)
(* It is the next definition as a plausible bug would have it: a property  *)
(* must fail with it.                                                      *)
(***************************************************************************)
EXTENDS CoreTypes

CONSTANTS
    SessionId,      \* u16 in the code: small enough for random ids to collide
    TaskId,         \* 32 random bytes
    HpkeConfigId,   \* u8
    VerifyKey,      \* drawn at random by the controller for each new session
    Collector,
    Handler,        \* bound on the requests in flight
    Requests,       \* the requests that the environment sends
    None

Role == {"Leader", "Helper", "Collector", "Client"}

Keypair == [config_id : HpkeConfigId, made_for : VerifyKey]

Session ==
    [role : Role, collector : Collector, verify_key : VerifyKey,
     hpke_config_and_key : Keypair, vdaf_parameter : VdafParameter,
     tasks : SUBSET TaskId]

Task ==
    [role : Role, collector : Collector, verify_key : VerifyKey,
     hpke_config_and_key : Keypair, vdaf : VdafInstance]

\* An id of None is an absent Option; decodable is FALSE when one of the
\* base64 fields or tokens is malformed, and so is a task_id of None.
CreateRequest ==
    [op : {"create_session"}, training_session_id : SessionId \cup {None},
     role : Role, collector : Collector, verify_key : VerifyKey,
     vdaf_parameter : VdafParameter, decodable : BOOLEAN]

StartRequest ==
    [op : {"start_round"}, training_session_id : SessionId,
     task_id : TaskId \cup {None}]

EndRequest == [op : {"end_session"}, training_session_id : SessionId]

GetRequest == [op : {"get_vdaf_parameter"}, task_id : TaskId \cup {None}]

Request == CreateRequest \cup StartRequest \cup EndRequest \cup GetRequest

Reply ==
    [status : {"OK", "BAD_REQUEST"},
     body   : SessionId \cup VdafParameter \cup {None}]

HandlerState ==
    [pc      : {"idle", "received", "keyring", "insert",
                "provision", "committed", "replied"},
     req     : Request \cup {None},
     id      : SessionId \cup {None},
     keypair : Keypair \cup {None},
     reply   : Reply \cup {None}]

ASSUME RequestsAssumption == Requests \subseteq Request

ASSUME NoneAssumption ==
    /\ None \notin Session
    /\ None \notin Task
    /\ None \notin Keypair
    /\ None \notin SessionId
    /\ None \notin TaskId
    /\ None \notin Handler

VARIABLES
    sessions,   \* training_sessions: the map behind the sessions mutex
    keyring,    \* the map behind the keyring mutex
    store,      \* the aggregator tasks in the janus datastore
    lock,       \* the handler that holds the sessions mutex across an await
    handler     \* the requests in flight

vars == <<sessions, keyring, store, lock, handler>>

Idle ==
    [pc |-> "idle", req |-> None, id |-> None, keypair |-> None, reply |-> None]

Init ==
    /\ sessions = [id \in SessionId |-> None]
    /\ keyring = [k \in HpkeConfigId |-> None]
    /\ store = [t \in TaskId |-> None]
    /\ lock = None
    /\ handler = [h \in Handler |-> Idle]

-----------------------------------------------------------------------------
(* The HTTP layer: a request arrives, is answered, or loses its client.    *)

At(h, pc) == handler[h].pc = pc

Serves(h, op) == At(h, "received") /\ handler[h].req.op = op

Set(h, state) == handler' = [handler EXCEPT ![h] = state]

\* Handler h goes on to its next await point.
Goto(h, pc, id, keypair) ==
    Set(h, [pc |-> pc, req |-> handler[h].req, id |-> id,
            keypair |-> keypair, reply |-> None])

Answer(h, status, body) ==
    Set(h, [pc |-> "replied", req |-> handler[h].req, id |-> None,
            keypair |-> None, reply |-> [status |-> status, body |-> body]])

Fail(h) == Answer(h, "BAD_REQUEST", None)

Receive(h, req) ==
    /\ At(h, "idle")
    /\ Set(h, [pc |-> "received", req |-> req, id |-> None,
               keypair |-> None, reply |-> None])
    /\ UNCHANGED <<sessions, keyring, store, lock>>

\* The controller draws a verify key at random for each session that it
\* creates; a key that nothing here mentions is as good as a new one.
IsCreateFor(h, k) ==
    /\ handler[h].pc # "idle"
    /\ handler[h].req.op = "create_session"
    /\ handler[h].req.verify_key = k

FreshKey(k) ==
    /\ \A id \in SessionId : sessions[id] # None => sessions[id].verify_key # k
    /\ \A t \in TaskId : store[t] # None => store[t].verify_key # k
    /\ \A c \in HpkeConfigId : keyring[c] # None => keyring[c].made_for # k
    /\ \A h \in Handler : ~IsCreateFor(h, k)

Arrive(h) ==
    \E req \in Requests :
        /\ req.op = "create_session" => FreshKey(req.verify_key)
        /\ Receive(h, req)

Deliver(h) ==
    /\ At(h, "replied")
    /\ Set(h, Idle)
    /\ UNCHANGED <<sessions, keyring, store, lock>>

\* The future of the handler is dropped at an await point.  Its mutex guard
\* goes with it; what the datastore committed stays.  What it has not committed
\* by then it never will: dropping the future abandons the transaction.  This is
\* assumed of the datastore, which is not part of the repository.
Release(h) == lock' = IF lock = h THEN None ELSE lock

Disconnect(h) ==
    /\ handler[h].pc \notin {"idle", "replied"}
    /\ Set(h, Idle)
    /\ Release(h)
    /\ UNCHANGED <<sessions, keyring, store>>

-----------------------------------------------------------------------------
(* handle_create_session                                                   *)

\* Bug: a free id is drawn although one was requested.
ChosenIdOwn(req, id) == sessions[id] = None

\* The requested id must not be taken; without one, a random id is used as
\* it comes.  The mutex is released before the handler goes on.
ChosenId(req, id) ==
    IF req.training_session_id # None
    THEN id = req.training_session_id /\ sessions[id] = None
    ELSE TRUE

CreateCheck(h) ==
    LET req == handler[h].req IN
    /\ Serves(h, "create_session")
    /\ req.training_session_id # None => lock = None
    /\ \/ /\ req.decodable
          /\ \E id \in SessionId :
                /\ ChosenId(req, id)
                /\ Goto(h, "keyring", id, None)
       \/ /\ req.decodable => \A id \in SessionId : ~ChosenId(req, id)
          /\ Fail(h)
    /\ UNCHANGED <<sessions, keyring, store, lock>>

\* Bug: the map is never asked.
FetchKeypairAnew(k, made_for) == [config_id |-> k, made_for |-> made_for]

\* HpkeConfigRegistry.fetch_keypair: a keypair is generated once per id.
FetchKeypair(k, made_for) ==
    IF keyring[k] = None THEN [config_id |-> k, made_for |-> made_for]
                         ELSE keyring[k]

CreateKeypair(h) ==
    /\ At(h, "keyring")
    /\ \E k \in HpkeConfigId :
          LET keypair == FetchKeypair(k, handler[h].req.verify_key) IN
          /\ keyring' = [keyring EXCEPT ![k] = keypair]
          /\ Goto(h, "insert", handler[h].id, keypair)
    /\ UNCHANGED <<sessions, store, lock>>

\* HashMap.insert: replaces what the map holds under the id by then.
CreateInsert(h) ==
    LET req == handler[h].req IN
    /\ At(h, "insert")
    /\ lock = None
    /\ sessions' = [sessions EXCEPT ![handler[h].id] =
                      [role |-> req.role, collector |-> req.collector,
                       verify_key |-> req.verify_key,
                       hpke_config_and_key |-> handler[h].keypair,
                       vdaf_parameter |-> req.vdaf_parameter,
                       tasks |-> {}]]
    /\ Answer(h, "OK", handler[h].id)
    /\ UNCHANGED <<keyring, store, lock>>

-----------------------------------------------------------------------------
(* handle_start_round: the sessions mutex is held from the lookup to the   *)
(* end, over the datastore transaction.                                    *)

StartedSession(h) == sessions[handler[h].req.training_session_id]

\* Bug: the mutex is released before the transaction.
StartLookupUnlocked(h) ==
    /\ Serves(h, "start_round")
    /\ lock = None
    /\ \/ /\ StartedSession(h) = None \/ handler[h].req.task_id = None
          /\ Fail(h)
       \/ /\ StartedSession(h) # None /\ handler[h].req.task_id # None
          /\ Goto(h, "provision", None, None)
    /\ UNCHANGED <<sessions, keyring, store, lock>>

StartLookup(h) ==
    /\ Serves(h, "start_round")
    /\ lock = None
    /\ \/ /\ StartedSession(h) = None \/ handler[h].req.task_id = None
          /\ Fail(h)
          /\ UNCHANGED lock
       \/ /\ StartedSession(h) # None /\ handler[h].req.task_id # None
          /\ \/ /\ StartedSession(h).role \in {"Leader", "Helper"}
                /\ lock' = h
                /\ Goto(h, "provision", None, None)
             \/ /\ StartedSession(h).role \notin {"Leader", "Helper"}
                /\ Set(h, Idle)  \* todo!() panics
                /\ UNCHANGED lock
    /\ UNCHANGED <<sessions, keyring, store>>

\* Bug: the parameter is stored as it came.
NewTaskUnconverted(s) ==
    [role |-> s.role, collector |-> s.collector, verify_key |-> s.verify_key,
     hpke_config_and_key |-> s.hpke_config_and_key, vdaf |-> s.vdaf_parameter]

NewTask(s) ==
    [role |-> s.role, collector |-> s.collector, verify_key |-> s.verify_key,
     hpke_config_and_key |-> s.hpke_config_and_key,
     vdaf |-> ToVdafInstance(s.vdaf_parameter)]

\* Bug: the verify key is taken for one of the random fields.
SameTaskButKey(existing, task) ==
    /\ existing.vdaf = task.vdaf
    /\ existing.role = task.role
    /\ existing.collector = task.collector

\* The comparison ignores the fields that are generated at random.
SameTask(existing, task) ==
    /\ existing.vdaf = task.vdaf
    /\ existing.verify_key = task.verify_key
    /\ existing.role = task.role
    /\ existing.collector = task.collector

\* Bug: a task that exists is taken for the one to provision.
AcceptAny(t, task) == TRUE

Acceptable(t, task) == store[t] # None => SameTask(store[t], task)

PutTask(t, task) ==
    store' = IF store[t] = None THEN [store EXCEPT ![t] = task] ELSE store

\* Bug: the task is written without a look at the existing one.
ProvisionOverwrites(h) ==
    /\ At(h, "provision")
    /\ store' = [store EXCEPT ![handler[h].req.task_id] = NewTask(StartedSession(h))]
    /\ Goto(h, "committed", None, None)
    /\ UNCHANGED <<sessions, keyring, lock>>

\* The transaction commits, or finds another task under the id.
Provision(h) ==
    LET t == handler[h].req.task_id
        task == NewTask(StartedSession(h))
    IN
    /\ At(h, "provision")
    /\ \/ /\ Acceptable(t, task)
          /\ PutTask(t, task)
          /\ Goto(h, "committed", None, None)
          /\ UNCHANGED lock
       \/ /\ ~Acceptable(t, task)
          /\ lock' = None
          /\ Fail(h)
          /\ UNCHANGED store
    /\ UNCHANGED <<sessions, keyring>>

\* Bug: the error of the datastore is logged and not returned.
ProvisionErrorIgnored(h) ==
    /\ At(h, "provision")
    /\ Goto(h, "committed", None, None)
    /\ UNCHANGED <<sessions, keyring, store, lock>>

\* The datastore fails the call; an acceptable task may have been committed,
\* but then it was before the error, that is while the mutex was held.
ProvisionError(h) ==
    LET t == handler[h].req.task_id
        task == NewTask(StartedSession(h))
    IN
    /\ At(h, "provision")
    /\ UNCHANGED store \/ (Acceptable(t, task) /\ PutTask(t, task))
    /\ lock' = None
    /\ Fail(h)
    /\ UNCHANGED <<sessions, keyring>>

WithTask(s, t) == [s EXCEPT !.tasks = @ \cup {t}]

\* Bug: the session is looked up once more for the push, and the mutex locked
\* for it although this handler still holds it.
StartPushLocksAgain(h) ==
    LET req == handler[h].req IN
    /\ At(h, "committed")
    /\ lock = None
    /\ sessions' = [sessions EXCEPT ![req.training_session_id] =
                      WithTask(@, req.task_id)]
    /\ Answer(h, "OK", None)
    /\ UNCHANGED <<keyring, store, lock>>

StartPush(h) ==
    LET req == handler[h].req IN
    /\ At(h, "committed")
    /\ sessions' = [sessions EXCEPT ![req.training_session_id] =
                      WithTask(@, req.task_id)]
    /\ lock' = None
    /\ Answer(h, "OK", None)
    /\ UNCHANGED <<keyring, store>>

-----------------------------------------------------------------------------
(* handle_end_session and handle_get_vdaf_parameter                        *)

\* Bug: the session is removed without a wait for the mutex.
EndSessionUnlocked(h) ==
    LET id == handler[h].req.training_session_id IN
    /\ Serves(h, "end_session")
    /\ sessions' = [sessions EXCEPT ![id] = None]
    /\ IF sessions[id] # None THEN Answer(h, "OK", None) ELSE Fail(h)
    /\ UNCHANGED <<keyring, store, lock>>

EndSession(h) ==
    LET id == handler[h].req.training_session_id IN
    /\ Serves(h, "end_session")
    /\ lock = None
    /\ sessions' = [sessions EXCEPT ![id] = None]
    /\ IF sessions[id] # None THEN Answer(h, "OK", None) ELSE Fail(h)
    /\ UNCHANGED <<keyring, store, lock>>

SessionsWithTask(t) ==
    {id \in SessionId : sessions[id] # None /\ t \in sessions[id].tasks}

\* Bug: the parameter of any session is given.
GetAnyVdafParameter(h) ==
    /\ Serves(h, "get_vdaf_parameter")
    /\ lock = None
    /\ \/ \E id \in SessionId :
             /\ sessions[id] # None
             /\ Answer(h, "OK", sessions[id].vdaf_parameter)
       \/ /\ \A id \in SessionId : sessions[id] = None
          /\ Fail(h)
    /\ UNCHANGED <<sessions, keyring, store, lock>>

GetVdafParameter(h) ==
    LET found == SessionsWithTask(handler[h].req.task_id) IN
    /\ Serves(h, "get_vdaf_parameter")
    /\ handler[h].req.task_id # None => lock = None
    /\ \/ \E id \in SessionId :
             /\ found = {id}
             /\ Answer(h, "OK", sessions[id].vdaf_parameter)
       \/ /\ \A id \in SessionId : found # {id}
          /\ Fail(h)
    /\ UNCHANGED <<sessions, keyring, store, lock>>

-----------------------------------------------------------------------------

\* The process ends and starts again with an empty TaskProvisioner.
Restart ==
    /\ sessions' = [id \in SessionId |-> None]
    /\ keyring' = [k \in HpkeConfigId |-> None]
    /\ lock' = None
    /\ handler' = [h \in Handler |-> Idle]
    /\ UNCHANGED store

Datastore(h) == Provision(h) \/ ProvisionError(h)

Step(h) ==
    \/ CreateCheck(h) \/ CreateKeypair(h) \/ CreateInsert(h)
    \/ StartLookup(h) \/ Datastore(h) \/ StartPush(h)
    \/ EndSession(h) \/ GetVdafParameter(h)

Next ==
    \/ \E h \in Handler : Arrive(h) \/ Step(h) \/ Deliver(h) \/ Disconnect(h)
    \/ Restart

Spec == Init /\ [][Next]_vars

\* The runtime polls every handler that can go on, tokio's mutex serves its
\* waiters in FIFO order, and the datastore answers.
Fairness == \A h \in Handler : SF_vars(Step(h))

FairSpec == Spec /\ Fairness

-----------------------------------------------------------------------------
(* Properties                                                              *)

\* Every variable holds what the code's types allow.
TypeOK ==
    /\ sessions \in [SessionId -> Session \cup {None}]
    /\ keyring \in [HpkeConfigId -> Keypair \cup {None}]
    /\ store \in [TaskId -> Task \cup {None}]
    /\ lock \in Handler \cup {None}
    /\ handler \in [Handler -> HandlerState]

\* A live session lists only tasks that are in the datastore, under its own
\* verify key, role, collector and VDAF: handle_start_round pushes the task
\* id into the very session whose task it has provisioned, although it waits
\* for the datastore in between.
ListedTasksProvisioned ==
    \A id \in SessionId : sessions[id] # None =>
        \A t \in sessions[id].tasks :
            store[t] # None /\ SameTask(store[t], NewTask(sessions[id]))

\* No task id is in two live sessions, so that the "Multiple sessions" error
\* of handle_get_vdaf_parameter is never given: the comparison in
\* provision_task turns away the second session.
TaskListedOnce ==
    \A t \in TaskId : \A i, j \in SessionsWithTask(t) : i = j

\* What handle_start_round and handle_get_vdaf_parameter answer with OK is
\* true of the datastore: the round's task is there, and the parameter is the
\* one the task was provisioned with, whatever happened to sessions, process
\* and connections since.
RepliesSound ==
    \A h \in Handler :
        At(h, "replied") /\ handler[h].reply.status = "OK" =>
            LET req == handler[h].req
                body == handler[h].reply.body
            IN
            /\ req.op \in {"start_round", "get_vdaf_parameter"} =>
                 req.task_id \in TaskId /\ store[req.task_id] # None
            /\ req.op = "get_vdaf_parameter" =>
                 store[req.task_id].vdaf = ToVdafInstance(body)

\* Sessions that were given the same HPKE config id hold the same keypair
\* (HpkeConfigRegistry: one key pair with each possible id), also when their
\* create requests were served at the same time.
OneKeypairPerConfigId ==
    \A i, j \in SessionId :
        /\ sessions[i] # None
        /\ sessions[j] # None
        /\ sessions[i].hpke_config_and_key.config_id
             = sessions[j].hpke_config_and_key.config_id
        => sessions[i].hpke_config_and_key = sessions[j].hpke_config_and_key

\* What is provisioned under a task id never changes: neither a second
\* start_round with the id, nor the end of the session, nor a restart.
TasksWriteOnce ==
    [][\A t \in TaskId : store[t] # None => store'[t] = store[t]]_vars

\* A session keeps its identity from the lookup of handle_start_round to the
\* push: no other handler removes or replaces it while this one waits for
\* the datastore.
RoundIsolated ==
    [][\A h \in Handler :
         /\ handler[h].pc \in {"provision", "committed"}
         /\ handler'[h].pc \in {"provision", "committed", "replied"}
         => LET id == handler[h].req.training_session_id IN
            /\ sessions[id] # None
            /\ sessions'[id] # None
            /\ sessions'[id].verify_key = sessions[id].verify_key
            /\ sessions[id].tasks \subseteq sessions'[id].tasks]_vars

\* Every request is answered, or its connection is gone: no path leaves the
\* sessions mutex locked and no handler waits for it forever.
RequestsAnswered ==
    \A h \in Handler : At(h, "received") ~> handler[h].pc \in {"replied", "idle"}

\* handle_create_session takes "requested id if exists": "There already exists
\* a training session with id {id}" is what a request for a taken id is told.
\* So no create request with an explicit id replaces a live session.
RequestedIdNotReplaced ==
    [][\A h \in Handler :
         /\ At(h, "insert")
         /\ handler'[h].pc = "replied"
         /\ handler[h].req.training_session_id # None
         => sessions[handler[h].id] = None]_vars

-----------------------------------------------------------------------------
(* The abstract table that the manager implements                          *)

Terms == [vdaf : VdafInstance, verify_key : VerifyKey, role : Role,
          collector : Collector]

\* The fields that SameTask compares.
TermsOf(task) ==
    [vdaf |-> task.vdaf, verify_key |-> task.verify_key, role |-> task.role,
     collector |-> task.collector]

OpenOf(s) == [terms |-> TermsOf(NewTask(s)), rounds |-> s.tasks]

TableOpen ==
    [id \in SessionId |->
        IF sessions[id] = None THEN None ELSE OpenOf(sessions[id])]

TableTasks ==
    [t \in TaskId |-> IF store[t] = None THEN None ELSE TermsOf(store[t])]

Table == INSTANCE SessionTable WITH open <- TableOpen, tasks <- TableTasks

ASSUME TableAssumption ==
    /\ None \notin Terms
    /\ None \notin Table!OpenSession

\* The manager implements the table, whatever its handlers do at the same
\* time: a session has terms that nothing had before it, a task is provisioned
\* for a session that is open just then and never again, and a round is
\* listed in a session with the terms of its task.
ImplementsSessionTable == Table!Spec

-----------------------------------------------------------------------------
(* The inductive invariant behind the safety properties                    *)

\* What a handler knows about its request at each await point.
HandlersWellFormed ==
    \A h \in Handler :
        /\ ~At(h, "idle") => handler[h].req \in Request
        /\ handler[h].pc \in {"keyring", "insert"} =>
              handler[h].req \in CreateRequest /\ handler[h].id \in SessionId
        /\ At(h, "insert") => handler[h].keypair \in Keypair
        /\ handler[h].pc \in {"provision", "committed"} =>
              /\ handler[h].req \in StartRequest
              /\ handler[h].req.task_id \in TaskId

\* The mutex is held across an await by the handler in start_round, if any.
LockHeldByRound ==
    \A h \in Handler : (handler[h].pc \in {"provision", "committed"}) <=> (lock = h)

\* The reference of that handler into the map is good, and what its
\* transaction committed belongs to the session.
RoundInProgress ==
    \A h \in Handler :
        /\ handler[h].pc \in {"provision", "committed"} => StartedSession(h) # None
        /\ At(h, "committed") =>
              /\ store[handler[h].req.task_id] # None
              /\ SameTask(store[handler[h].req.task_id], NewTask(StartedSession(h)))

\* A create request that has not inserted its session yet.
PendingCreate(h) ==
    /\ handler[h].pc \in {"received", "keyring", "insert"}
    /\ handler[h].req.op = "create_session"

\* No two sessions, made or in the making, have the same verify key, and one
\* in the making has none of a task.
KeysDistinct ==
    /\ \A i, j \in SessionId :
          /\ sessions[i] # None
          /\ sessions[j] # None
          /\ sessions[i].verify_key = sessions[j].verify_key
          => i = j
    /\ \A h \in Handler : PendingCreate(h) =>
          /\ \A i \in SessionId : sessions[i] # None =>
                sessions[i].verify_key # handler[h].req.verify_key
          /\ \A t \in TaskId : store[t] # None =>
                store[t].verify_key # handler[h].req.verify_key
          /\ \A g \in Handler :
                PendingCreate(g) /\ handler[g].req.verify_key = handler[h].req.verify_key
                => g = h

\* Every keypair in use is the one that the keyring has for its config id.
KeyringCovers ==
    /\ \A k \in HpkeConfigId : keyring[k] # None => keyring[k].config_id = k
    /\ \A i \in SessionId : sessions[i] # None =>
          LET keypair == sessions[i].hpke_config_and_key IN
          keyring[keypair.config_id] = keypair
    /\ \A h \in Handler : At(h, "insert") =>
          keyring[handler[h].keypair.config_id] = handler[h].keypair

IInv ==
    /\ TypeOK
    /\ HandlersWellFormed
    /\ LockHeldByRound
    /\ RoundInProgress
    /\ ListedTasksProvisioned
    /\ RepliesSound
    /\ KeysDistinct
    /\ KeyringCovers

-----------------------------------------------------------------------------
(* What the callers of a manager rely on                                   *)

\* A handler keeps its request to the end.  The id it has chosen is the one
\* that was asked for, if any, and so is the id it answers; nothing comes with
\* an error.
AnswerFits(h) ==
    LET req == handler[h].req
        reply == handler[h].reply
    IN
    /\ ~At(h, "idle") => req \in Requests
    /\ handler[h].id # None =>
          /\ handler[h].pc \in {"keyring", "insert"}
          /\ req.training_session_id \in {None, handler[h].id}
    /\ At(h, "replied") =>
          /\ reply \in Reply
          /\ reply.body # None => reply.status = "OK"
          /\ reply.status = "OK" /\ req.op = "create_session" =>
                /\ reply.body \in SessionId
                /\ req.training_session_id \in {None, reply.body}
          /\ reply.status = "OK" /\ req.op = "get_vdaf_parameter" =>
                reply.body \in VdafParameter

AnswersFit == \A h \in Handler : AnswerFits(h)

\* The terms that create requests ask for.
TermsAsked ==
    {[vdaf |-> ToVdafInstance(req.vdaf_parameter), verify_key |-> req.verify_key,
      role |-> req.role, collector |-> req.collector] :
        req \in {r \in Requests : r.op = "create_session"}}

\* Sessions and tasks are on terms that somebody asked for.
TermsFromRequests ==
    /\ \A id \in SessionId : sessions[id] # None =>
          TermsOf(NewTask(sessions[id])) \in TermsAsked
    /\ \A t \in TaskId : store[t] # None => TermsOf(store[t]) \in TermsAsked

\* A verify key stands for one set of terms.
TermsOfKey ==
    /\ \A t, u \in TaskId :
          /\ store[t] # None
          /\ store[u] # None
          /\ store[t].verify_key = store[u].verify_key
          => TermsOf(store[t]) = TermsOf(store[u])
    /\ \A id \in SessionId, t \in TaskId :
          /\ sessions[id] # None
          /\ store[t] # None
          /\ sessions[id].verify_key = store[t].verify_key
          => TermsOf(NewTask(sessions[id])) = TermsOf(store[t])

\* A caller gets the answer to what it asked, and all that a manager has on one
\* verify key is on the terms of the one request that brought the key.
CallerInv == AnswersFit /\ TermsFromRequests /\ TermsOfKey

\* Handler h has chosen id for a session, or has answered it.
Holds(h, id) ==
    \/ handler[h].id = id
    \/ /\ handler[h].pc = "replied"
       /\ handler[h].req.op = "create_session"
       /\ handler[h].reply.body = id

\* Some part of the manager ties session id to verify key k of collector c:
\* a session, or a create request from its arrival to its answer.
Binds(id, k, c) ==
    \/ /\ sessions[id] # None
       /\ sessions[id].verify_key = k
       /\ sessions[id].collector = c
    \/ \E h \in Handler :
          /\ handler[h].pc # "idle"
          /\ handler[h].req.op = "create_session"
          /\ handler[h].req.verify_key = k
          /\ handler[h].req.collector = c
          /\ handler[h].req.training_session_id = id \/ Holds(h, id)

=============================================================================
