----------------------- MODULE FederationInvariants -----------------------
(***************************************************************************)
(* The inductive invariants behind the safety properties of Federation.    *)
(* SystemInv holds of every behaviour, FreshIdInv of those in which random *)
(* session ids do not collide.                                             *)
(***************************************************************************)
EXTENDS Federation

-----------------------------------------------------------------------------
(* What holds whatever ids are drawn                                       *)

\* A controller's record holds what the call at this point has found out.
CallRecordFits(state) ==
    /\ state.key # None <=> state.pc \in {"create_leader", "create_helper"}
    /\ state.id # None <=> state.pc = "create_helper"
    /\ state.new_task # None <=> state.pc \in {"round_leader", "round_helper"}
    /\ state.pc \in {"end_leader", "end_helper", "round_leader", "round_helper"}
          => state.session # None

CallRecordsFit == \A c \in Controller : CallRecordFits(ctl[c])

LeaderHandles(h, req) ==
    h \in Handler /\ lHandler[h].pc # "idle" /\ lHandler[h].req = req

HelperHandles(h, req) ==
    h \in Handler /\ hHandler[h].pc # "idle" /\ hHandler[h].req = req

\* Whoever waits for a manager waits for a handler that has this very request.
ControllerAwaits(c) ==
    LET h == ctl[c].slot IN
    /\ InCall(c, "create_leader") =>
          LeaderHandles(h, CreateRequestOf(c, "Leader", None, ctl[c].key))
    /\ InCall(c, "create_helper") =>
          HelperHandles(h, CreateRequestOf(c, "Helper", ctl[c].id, ctl[c].key))
    /\ InCall(c, "end_leader") => LeaderHandles(h, EndRequestOf(c))
    /\ InCall(c, "end_helper") => HelperHandles(h, EndRequestOf(c))
    /\ InCall(c, "round_leader") =>
          LeaderHandles(h, StartRequestOf(c, ctl[c].new_task))
    /\ InCall(c, "round_helper") =>
          HelperHandles(h, StartRequestOf(c, ctl[c].new_task))

ClientAwaits(i) ==
    /\ ~InClientCall(i, "idle") => clt[i].task # None
    /\ InClientCall(i, "ask_leader") =>
          LeaderHandles(clt[i].slot, GetRequestOf(clt[i].task))
    /\ InClientCall(i, "ask_helper") =>
          HelperHandles(clt[i].slot, GetRequestOf(clt[i].task))

CallersAwait ==
    /\ \A c \in Controller : ControllerAwaits(c)
    /\ \A i \in Client : ClientAwaits(i)

\* No two of them wait for the same handler.
OneCallerPerHandler ==
    /\ \A c, d \in Controller :
          /\ ctl[c].slot = ctl[d].slot
          /\ \/ ctl[c].pc \in LeaderCall /\ ctl[d].pc \in LeaderCall
             \/ ctl[c].pc \in HelperCall /\ ctl[d].pc \in HelperCall
          => c = d
    /\ \A i, j \in Client :
          /\ clt[i].slot = clt[j].slot
          /\ clt[i].pc = clt[j].pc
          /\ clt[i].pc \in {"ask_leader", "ask_helper"}
          => i = j

\* The verify key of a session that the helper is yet to hear of is new to it.
KeysFresh ==
    /\ \A c \in Controller : InCall(c, "create_leader") => H!FreshKey(ctl[c].key)
    /\ \A c, d \in Controller : ctl[c].key # None /\ ctl[c].key = ctl[d].key => c = d

StartsTask(handler, h, t) ==
    /\ handler[h].pc # "idle"
    /\ handler[h].req.op = "start_round"
    /\ handler[h].req.task_id = t

\* A task that is being started belongs to one controller, and all that asks
\* for it does so for the session of that controller.
StartsAreOwn ==
    /\ \A c, d \in Controller :
          ctl[c].new_task # None /\ ctl[c].new_task = ctl[d].new_task => c = d
    /\ \A c \in Controller, h \in Handler : ctl[c].new_task # None =>
          /\ StartsTask(lHandler, h, ctl[c].new_task)
                => lHandler[h].req.training_session_id = ctl[c].session
          /\ StartsTask(hHandler, h, ctl[c].new_task)
                => hHandler[h].req.training_session_id = ctl[c].session

\* A leader that said OK to a round has its task.
LeaderHasNewTask ==
    \A c \in Controller :
        InCall(c, "round_helper") /\ ctl[c].leader_ok => lStore[ctl[c].new_task] # None

\* Calls, requests in flight and answers fit together at every moment, also
\* after failed calls, leftover handlers, restarts and collisions: nobody takes
\* an answer to another request for its own, and nobody else starts its task.
CallsInv ==
    /\ CallRecordsFit
    /\ CallersAwait
    /\ OneCallerPerHandler
    /\ KeysFresh
    /\ StartsAreOwn
    /\ LeaderHasNewTask

\* Both managers keep their invariants, and the round that a controller holds
\* is at both aggregators.
SystemInv ==
    /\ TypeOK
    /\ L!IInv /\ L!CallerInv
    /\ H!IInv /\ H!CallerInv
    /\ CallsInv
    /\ RoundProvisioned

-----------------------------------------------------------------------------
(* What holds as long as random session ids do not collide                 *)

IsOnKey(task, k, c) ==
    task # None /\ task.verify_key = k /\ task.collector = c

\* Some part of the system ties session id to verify key k of collector c.
BoundTo(id, k, c) ==
    \/ L!Binds(id, k, c)
    \/ H!Binds(id, k, c)
    \/ ctl[c].id = id /\ ctl[c].key = k
    \/ \E d \in Controller :
          /\ ctl[d].session = id
          /\ ctl[d].new_task # None
          /\ \/ IsOnKey(lStore[ctl[d].new_task], k, c)
             \/ IsOnKey(hStore[ctl[d].new_task], k, c)

\* A session id stands for one create_session.
OneKeyPerId ==
    \A id \in SessionId, k, l \in VerifyKey, c, d \in Controller :
        BoundTo(id, k, c) /\ BoundTo(id, l, d) => k = l /\ c = d

\* The session of a controller is its own.
SessionsAreOwn ==
    \A d \in Controller : ctl[d].session # None =>
        \A k \in VerifyKey, c \in Controller : BoundTo(ctl[d].session, k, c) => c = d

HelperIsAskedFor(h, id) ==
    /\ hHandler[h].pc # "idle"
    /\ hHandler[h].req.op = "create_session"
    /\ hHandler[h].req.training_session_id = id

\* An id goes from the handler of the leader that draws it to the controller,
\* with it to the handler of the helper, and then stays with the controller:
\* what has passed it on is done with it.
IdsPassedOn ==
    \A id \in SessionId :
        /\ \A h \in Handler : L!Holds(h, id) =>
              /\ \A g \in Handler : L!Holds(g, id) => g = h
              /\ \A g \in Handler : ~HelperIsAskedFor(g, id)
              /\ \A c \in Controller : id \notin {ctl[c].id, ctl[c].session}
        /\ \A g \in Handler : HelperIsAskedFor(g, id) =>
              \A c \in Controller :
                  /\ ctl[c].session # id
                  /\ ctl[c].id = id => g = ctl[c].slot
        /\ \A c, d \in Controller : ctl[c].id = id => ctl[d].session # id

\* Where end_session was served, the session stays away.
EndedWhereServed ==
    \A c \in Controller :
        LET id == ctl[c].session IN
        /\ InCall(c, "end_leader") /\ L!At(ctl[c].slot, "replied") => lSessions[id] = None
        /\ InCall(c, "end_helper") => lSessions[id] = None
        /\ InCall(c, "end_helper") /\ H!At(ctl[c].slot, "replied") => hSessions[id] = None

\* Both aggregators have the task, on the same terms.
IsRound(t) ==
    /\ lStore[t] # None
    /\ hStore[t] # None
    /\ RoundTermsOf(lStore[t]) = RoundTermsOf(hStore[t])

\* What a client knows is true of a round that was announced.
ClientsKnowRounds ==
    \A i \in Client :
        /\ clt[i].task # None => IsRound(clt[i].task)
        /\ ~InClientCall(i, "idle") => clt[i].parametrization = None
        /\ clt[i].pc \in {"leader_known", "ask_helper"} =>
              /\ clt[i].leader_param \in VdafParameter
              /\ lStore[clt[i].task].vdaf = ToVdafInstance(clt[i].leader_param)
        /\ clt[i].parametrization # None =>
              /\ clt[i].task # None
              /\ clt[i].learned_for # None
              /\ IsRound(clt[i].learned_for)
              /\ lStore[clt[i].learned_for].vdaf = ToVdafInstance(clt[i].parametrization)

\* A session id stands for one create_session wherever it is: at a manager, in
\* a request or its answer, with a controller, in a round being started.  What
\* controllers and clients know of sessions and rounds is then true.
FreshIdInv ==
    /\ OneKeyPerId
    /\ SessionsAreOwn
    /\ IdsPassedOn
    /\ EndedWhereServed
    /\ RoundAgreement
    /\ ClientsKnowRounds

=============================================================================
