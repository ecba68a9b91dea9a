------------------------- MODULE MCTaskProvisioner -------------------------
(***************************************************************************)
(* Instances of TaskProvisioner for TLC: the requests the environment      *)
(* sends, and the symmetries of the model values.                          *)
(***************************************************************************)
EXTENDS TaskProvisioner, TLC

CONSTANTS
    RequestRole,    \* the roles asked for
    ExplicitIds     \* the ids that create requests ask for, None for none

OneLen == {3}
OnePrivacy == {1}

CreateRequests(decodable) ==
    [op : {"create_session"}, training_session_id : ExplicitIds,
     role : RequestRole, collector : Collector, verify_key : VerifyKey,
     vdaf_parameter : VdafParameter, decodable : decodable]

StartRequests(tasks) ==
    [op : {"start_round"}, training_session_id : SessionId, task_id : tasks]

GetRequests(tasks) == [op : {"get_vdaf_parameter"}, task_id : tasks]

\* What controllers and clients send.
WellFormedRequests ==
    CreateRequests({TRUE}) \cup StartRequests(TaskId) \cup EndRequest
        \cup GetRequests(TaskId)

\* Malformed requests too.
AllRequests ==
    CreateRequests(BOOLEAN) \cup StartRequests(TaskId \cup {None})
        \cup EndRequest \cup GetRequests(TaskId \cup {None})

Symmetry ==
    Permutations(VerifyKey) \cup Permutations(TaskId)
        \cup Permutations(Handler) \cup Permutations(HpkeConfigId)

SessionSymmetry == Symmetry \cup Permutations(SessionId)

=============================================================================
