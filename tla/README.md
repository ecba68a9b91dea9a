# dpsa4fl in TLA+

dpsa4fl lets a federated-learning *controller* have gradients aggregated by two
*aggregators* (janus servers) that it need not trust. Beside each aggregator runs
a *janus manager*, the server of this crate, which writes aggregation tasks into
that aggregator's datastore. This directory models the managers, the controller
and client libraries that call them, and the fixed-point conversion of
gradients, checks the models with TLC, and proves their safety
properties with TLAPS: of one manager, of the whole system, of a collection's
interval and of the conversion. Paths below are relative to the repository's `src/`.

## The system

| Component | State | Operations |
|---|---|---|
| `TaskProvisioner` (`janus_manager/implementation`, `interface/types.rs`) | sessions map behind an async mutex; keyring of HPKE keypairs behind another; tasks in the datastore | create session, start round, end session, get VDAF parameter |
| HTTP provider (`interface/network/provider.rs`) | none of its own (one shared `TaskProvisioner`) | dispatch of five endpoints; OK or BAD_REQUEST |
| `JanusManagerClient` (`interface/network/consumer.rs`) | keys and tokens made once | create/end session, start round (leader first, then helper), collect; for clients: get VDAF parameter, get main locations |
| Controller (`controller/interface`) | current session id, current task id | create session, end session, start round, collect |
| Client (`client`) | uninitialised, or the parametrization of its first round and the current task id | update round settings, submit |
| Core types (`core/types.rs`, `core/fixed.rs`) | none | VDAF parameter to janus VDAF; float to fixed point |
| janus aggregator and datastore | external | transactions, uploads, collection |

Interactions. A controller calls the leader's manager, waits, then calls the
helper's. A client does the same to learn the VDAF parameter of a task id that
it got out of band. The managers never talk to each other: what makes two
sessions, or two tasks, the halves of one thing is only the data that the
controller sends to both. A manager and its aggregator share the datastore.

What is hard here:

- **Interleaving.** Each request is a future; handlers interleave wherever they
  await a mutex or the datastore. `handle_create_session` takes the sessions
  mutex twice; `handle_start_round` holds it over a transaction.
- **Partial failure.** Every two-manager call may stop after the first half, and
  the handler a failed call leaves behind may still do its work later.
- **Crash.** A restarted manager has its tasks and none of its sessions or keys.
- **Collisions.** Session ids are random 16 bit numbers.
- **Stale state.** The controller's task id and the client's parametrization
  outlive what they belong to.
- **Clocks.** The interval that a collection asks for is computed from the
  controller's clock and compared with the clocks of clients.
- **Waiting.** No HTTP request has a timeout; the clients of the crate wait for
  as long as a manager does not answer.
- **Numeric edges** of the conversion into a type that reaches -1 but not 1.

What makes each part correct: the map of sessions tells the truth about the
datastore whatever happens in between (manager); tasks are written once; the
two managers agree wherever the controller or a client relies on both, and a
round is announced only when it exists at both (federation); every call returns;
a client's report has the shape that the task expects; a collection has every
recent report; a conversion rounds to the neighbour in the asked direction or
refuses with good reason.

## Modules

**`CoreTypes`** - `VdafParameter` and `ToVdafInstance`.

**`TaskProvisioner`** - one manager. `sessions`, `keyring` and `store` are the
two maps and the datastore; `lock` says which handler holds the sessions mutex
across an await; `handler[h]` is a request in flight with the await point it has
reached.

| Code | Actions |
|---|---|
| `handle_create_session` | `CreateCheck` (decode, check or draw the id), `CreateKeypair` (under the keyring mutex), `CreateInsert` |
| `handle_start_round` | `StartLookup`, `Provision` or `ProvisionError` (the transaction commits, is refused, or fails with or without having committed), `StartPush` |
| `handle_end_session` | `EndSession` |
| `handle_get_vdaf_parameter` | `GetVdafParameter` |
| warp, hyper, process | `Arrive`, `Deliver`, `Disconnect` (the future is dropped, its mutex guard too), `Restart` |

A handler that needs the sessions mutex can run only when nobody holds it; a
mutex that is taken and released without an await between is not visible as
`lock`. The `todo!()` for roles that have no tasks is a panic that drops the
handler. A dropped handler's transaction is over with it: what was committed
stays, and nothing of it is committed after its guard is released (`Disconnect`;
`ProvisionError` and `Restart` likewise). That is an assumption about the external datastore, and
`ImplementsSessionTable` and its proof rest on it: a commit that came later could
provision a task for a session that has meanwhile ended. `Collector` stands for the HPKE config and tokens a
`JanusManagerClient` sends. The static parameters of a task (endpoint, query
type, batch sizes, time precision) are equal in every task of one manager and
left out, so `AggregatorTask::new` does not fail. Each session has a new verify
key (`FreshKey`): 16 random bytes do not repeat, unlike the 16 random bits of a
session id, which may.

**`SessionTable`** - what a manager promises, without handlers, mutexes, keys
and answers: sessions open on terms that were not used before, provision tasks on
those terms, list them, and close; a task is there once and stays. In
`TaskProvisioner`, `ImplementsSessionTable` is this specification under the
refinement mapping `TableOpen`, `TableTasks`: the terms of a session are its
`TermsOf` (VDAF, verify key, role and collector, the fields that the comparison
of two tasks looks at), its rounds are its task list. Every
interleaving of handlers, failed commits and restarts thus looks from outside
like atomic operations one after the other. The insert of a session is `Open`,
the commit `Provision`, the push `List`.

**`Federation`** - two instances of `TaskProvisioner`, `L` and `H`, with
controllers and clients. An API call is a sequence of actions, one per request
or answer (`CreateSession`, `CreateAtHelper`, `CreateReturns`, and so on); the
call in progress is part of the controller's state. `CallFails` is any of the
`?` in the calls: the caller goes on and its handler stays behind. After that
the handler runs, is dropped (`LeaderDrops`, `HelperDrops`) or both. A manager's
restart fails every call that waits for it. A controller runs one call at a time
because the API takes its state by `&mut`.

A client's first round is four requests, as in `ClientState::new` and
`get_parametrization`: the main locations of both managers (`FirstRound`,
`Locate`), then the parameter from the leader (`HearLeader`) and from the helper
(`AskHelper`, `Learn`). Locations that differ, a manager that does not know the
task or parameters that differ fail the call and nothing of it is kept.
`get_main_locations` waits for nothing, so its request and answer are one step;
`main` is what each manager is configured with, and may be another location
after a restart. Once a client has a `parametrization` it keeps it for good
(`NextRound`), and submits the measurements that pass its checks. Submitting
leaves a client as it is, so `Submits` is a relation, not an action; the
properties look at everything that may be submitted. `learned_for` is history
for the properties. The request of a client that gives up changes nothing at a
manager when it is served late; `ClientCallFails` drops its handler at once.

`Spec` lets random session ids collide. `FreshIdSpec` is the same system where
the id drawn at the leader is one nothing refers to any more; it is what the code
silently assumes, and the runs say which of the two they use.

**`RoundLedger`** - what the two managers and the API calls promise together:
each aggregator gets a task at most once and keeps it, and a round is announced
only when both have its task, on the same terms, for the controller that
announces it. `ImplementsRoundLedger` in `Federation` maps the two stores through
`LedgerTasks` (what is left of a task are the terms that both halves share) and
`round` to the controllers' task ids.

**`CollectWindow`** - `collect_generic`: the interval of a collection begins
`LookBack` precisions before the controller's clock rounded down to the
precision (`RealStart`) and is `Length` precisions long; the code has 3600
seconds, 5 and 15. The clocks of the controller and the clients are within
`ClockError` of the leader's. What janus does is external: it takes a report
that is at most the task's `tolerable_clock_skew` ahead (`Accepted`), and
closes the batch of a collection when the interval has enough reports (`Return`).
That moment counts: the answer may reach the controller later, and reports that
come in between are not promised to be in it. `Next` asks and waits for
one collection at a time, as `api_collect` does.

**`FixedPoint`** - `float_to_fixed_with`. A float is an integer count of units
`Grain` times finer than the fixed type, which is exact because scaling by a
power of two is. NaN and infinities are left out; both are refused by the cast.

**`MCTaskProvisioner`, `MCFederation`, `MCCollectWindow`** - instances for TLC:
the requests, the parameters of controllers, the symmetry sets.

**`FederationInvariants`** - `SystemInv` (with its part `CallsInv`) and
`FreshIdInv`, the inductive invariants of the system; see Proofs.

**`TaskProvisionerProofs`, `SessionTableProofs`, `CallerProofs`,
`FederationProofs`, `FreshIdProofs`, `CollectWindowProofs`,
`FixedPointProofs`** - the theorems; `IntegerDivision` has the lemmas about
rounding that the last uses.

An operator whose comment begins with `Bug:` is the next definition with a
plausible mistake. No specification uses it: it is there to show that a property
fails when the code is wrong in that way (`PROJECT.json`, `mutants`).

## Runs

Passing:

| Configuration | Specification | Question |
|---|---|---|
| `MCTaskProvisioner_safety` | `Spec` | Two interleaved requests of any kind at one manager, malformed ones and a role that panics included, with dropped handlers, failed transactions and restarts: do sessions, keyring, datastore and answers stay consistent (`ListedTasksProvisioned`, `TaskListedOnce`, `RepliesSound`, `OneKeypairPerConfigId`), are tasks written once, is a round undisturbed while it waits for the datastore, does a caller get the answer to what it asked (`CallerInv`), and do the inductive invariants hold? |
| `MCTaskProvisioner_liveness` | `FairSpec` | Is every request answered (`RequestsAnswered`), and does the manager implement its table (`ImplementsSessionTable`)? |
| `MCFederation_orphans` | `FreshIdSpec` | With two controllers, failed calls and the handlers they leave: do two sessions of one id (`SessionsAgree`) and the two tasks of a round (`RoundAgreement`) belong together, does a successful end remove both sessions (`EndedAtBoth`), do the calls implement the ledger (`ImplementsRoundLedger`), and does an id stand for one `create_session` in every part of the system (`FreshIdInv`)? |
| `MCFederation_collisions` | `Spec` | With two controllers whose session ids may collide: is a started round at both aggregators, each in its role (`RoundProvisioned`), and do callers, requests in flight and answers fit together (`CallsInv`)? |
| `MCFederation_clients` | `FreshIdSpec` | With two controllers of different fixed-point types and measurements of two lengths: is a client ever told two different parameters for one task although it asks one manager after the other (`ClientsGetOneParameter`), is what it knows true of a round at both aggregators (`ClientsKnowRounds`), and does its report fit both tasks as long as it stays with the session it asked about (`SameSessionReportsFit`)? |
| `MCFederation_calls` | `FairSpec` | Does every call of a controller (`CallsReturn`) and every initialisation of a client (`ClientCallsReturn`) return, with abandoned handlers, restarts and managers whose locations differ? |
| `MCCollectWindow` | `Spec` | With clocks that differ and calls at any moment of the hour: does a collection have every recent report (`RecentReportsCollected`), and does its interval start after the epoch (`TypeOK`)? |
| `FixedPoint` | `Spec` | Is a result the neighbour on the side asked for (`RoundsToNeighbour`), and does a conversion fail exactly where the type has none (`FailsExactlyOutside`)? |

Violated, each a disagreement between the code and its own words (`PROJECT.json`,
`findings`, quotes them):

| Configuration | What TLC finds |
|---|---|
| `MCTaskProvisioner_requested_id` | two creates for one id both pass the check; the later insert replaces the earlier session |
| `MCFederation_verify_keys` | an id drawn at the leader is in use and replaces a live session there, while the helper refuses it; the next round has two different verify keys |
| `MCFederation_stale_collect` | after a session was ended at both managers and the next one created, `api_collect` asks for the ended session's task, and both aggregators still have it |
| `MCFederation_stale_client` | a client that moves to another session's round submits in the first session's shape |

`MCFederation_stale_collect` stands for two findings. `CollectsActiveRound` would
hold if `api_collect` asked for the active round, as `embedded.rs` line 91 says,
and also if `end_session` deleted the data of the ended session, as
`consumer.rs` line 171 says: it speaks only of tasks that both aggregators have.
The code does neither.

Two more things a reader of the code may wonder about are as the code has them,
and contradict no promise. After an `end_session` that only one manager served,
that manager refuses every later one, so the call that should end it at the
other never succeeds (`EndReturns` needs both answers). And `core/fixed.rs` line
107 says that a float "should be in the range `[-1..1]`", which asks something of
the caller and does not say that each such float is converted: 1.0, which
the type cannot hold, is refused by both roundings (`OutOfRange`).

### Bounds

- Two handlers at a manager are enough for two requests to overtake each other
  at any await point; a third would wait for the same mutex. The federation runs
  with one handler per manager still interleave several callers, and a handler
  that a failed call leaves behind occupies the slot until it ends or is
  dropped; `orphans` has two slots and two controllers, so that a leftover
  handler runs beside the next call and beside the other controller's. In
  `clients` everything may happen between two requests of a client's
  initialisation, since it holds a slot of one manager at a time.
- Two sessions and two tasks let a task be listed twice and a session be
  replaced by another. In `orphans` a single task is enough for two attempts at
  one round to meet, and for both controllers to want it. Two verify keys are two
  sessions that exist or were given a task; a third session in their place is
  covered by the proofs. One session id (`orphans`, `clients`) makes every reuse of an id happen at once; in
  `stale_collect` it also means that a controller gets a second session only after the first was ended at both
  managers, since ids in use are not drawn there.
- Keys and task ids are finite and used only while nothing mentions them, so a
  run stops issuing new ones when they are all in use; tasks are never deleted,
  so two task ids mean two rounds.
- The privacy budget is one value: the code passes it on and never looks at it. Both type
  tags are used where a property is about them (`orphans`, `clients`,
  `stale_client`: the second controller is 32 bit), and measurements have two
  lengths, one that no round has, in `clients`.
- `calls` has one controller, client, key and slot: what keeps a call waiting is
  the handler of its own request, a handler before it that nobody drops, or its
  own failure to go on. Contention for the sessions mutex is the subject of
  `MCTaskProvisioner_liveness`. Two locations let the managers differ, and
  agree again after a restart.
- `MCCollectWindow` scales the hour to 3 units and the interval to 2 + 3 hours, so
  that a call falls at three different places in its hour; the skew and the clock
  error are 1, less than an hour as in the code (1000 of 3600
  seconds). Three reports, one more than a batch: a collection can succeed and
  still miss one. The horizon lets a call and the close of its batch be more than an hour
  apart, and reports fall on both ends of the interval; the theorems hold for
  every value.
- `FracBits` 4 and `Grain` 8 cover both ends of the range and the points half
  way; the theorems hold for all values.

Symmetry is used for safety only, the refinement of the ledger (which has no
fairness) included, over values that no definition
distinguishes; controllers are not symmetric, since their parameters differ.

### Fairness

`FairSpec` has strong fairness of `Step(h)`, all the steps of a handler's own
code. Tokio polls every ready task and its mutex serves waiters first come,
first served, so a handler whose mutex is free again and again gets it; hence
strong fairness. It includes that the datastore call returns, with a result or
an error. Nothing is assumed of callers, disconnections or restarts.

`Federation`'s `FairSpec` assumes the same of the handlers at both managers
(`LeaderRuns`, `HelperRuns`); that a caller whose answer is there, or whose next
request can be sent, goes on (`Continues`, `ClientContinues`, strong because a
slot for the next request may be taken and freed again and again); and that
hyper ends the handler of a caller that is gone (`LeaderDrops`, `HelperDrops`).
Failures and restarts are not assumed to happen: with no timeout in the HTTP
clients they cannot be what ends a wait. When a manager does restart, its callers
notice at once, since their connections are reset; a peer that falls silent
without that, its machine gone or the network cut, is assumed away, and would
keep a caller waiting for good. New calls are not assumed to start. A
collection is left out, since janus may never have a batch.

## Proofs

### One manager

`TaskProvisionerProofs` proves for any sets of sessions, tasks, config ids,
keys, collectors and handlers, and any `Requests`, that `Spec` implies always
`IInv`, and from it `TypeOK`, `ListedTasksProvisioned`, `TaskListedOnce`,
`RepliesSound` and `OneKeypairPerConfigId`, and the action properties
`TasksWriteOnce` and `RoundIsolated`. The assumptions are those of
`TaskProvisioner`: the requests are well typed and `None` is no value of another
type.

Why `IInv` is needed. `ListedTasksProvisioned` is not inductive: `StartPush`
adds a task id to a session, and nothing in the property says that this session
still is the one whose task was stored. `HandlersWellFormed` gives a handler's
request its type at each await point; `LockHeldByRound` says that a handler
between lookup and push is the holder of the mutex, so there is at most one;
with it, `RoundInProgress` is kept by all other handlers, because those that
write `sessions` need the mutex free: the session is there and, once committed,
its task is stored with matching fields. `StartPush` then re-establishes
`ListedTasksProvisioned`, and the datastore steps keep it because they write
only absent tasks (`DatastoreKeeps`). `TaskListedOnce` needs `KeysDistinct`
(sessions, made or in the making, differ in their verify keys): a task listed by
two sessions would have the keys of both. `KeysDistinct` also says that no task
has the key of a session that is still in the making: without it, a session
could be inserted whose key a task already has, and the table's `Open`, which
asks for unused terms, would not allow the step. `KeyringCovers` does for keypairs what
`RoundInProgress` does for tasks.

The step proof has one lemma per action; the lemmas about `PutTask` and the
datastore carry what several of them use.

`SessionTableProofs` proves that `Spec` implies `ImplementsSessionTable`
(`ManagerImplementsTable`), from the same assumptions and
`TableAssumption` (`None` is neither terms nor an open session): the initial
states map to the table's, and each action under `IInv` and `IInv'` to one
action of the table or to a stutter. The interesting steps are `CreateInsert`
(fresh terms, from `KeysDistinct`), the datastore steps (`DatastoreAdds`: they
add at most the task of the round in progress, on the terms of the session that
`RoundInProgress` says is open) and `StartPush` (the task has the session's
terms).

### The system as a whole

`CallerProofs` proves of one manager what its callers rely on. `CallerInv` says
that a handler keeps its request to the end and answers with the id that was
asked for (`AnswersFit`), and that all sessions and tasks with one verify key
are on the terms of the one create request that brought the key (`TermsOfKey`;
that the terms are requested ones at all, `TermsFromRequests`, is what makes it
a statement about the caller's parameters). The lemmas `SessionChange`,
`TaskChange`, `HoldsStep`, `BindsStep` and `EndStep` say for each kind of state
which single step can change it and into what.

`FederationProofs` instantiates this module twice, as `LP` and `HP`, and uses
its lemmas for both managers. The module has two copies of some lemmas, one per
manager, since the halves differ in what they are asked. First: each move of
the system is a move or a stutter of each manager (`LeaderNext`, `HelperNext`;
a controller that sends a request is an `Arrive`, a caller that goes away
leaves a `Disconnect` for later), hence `LeaderIsManager` and `HelperIsManager`,
and all theorems about one manager hold of both. Second: `SystemInv`, which
`Invariance` proves under `Spec`, collisions included. Beyond the managers' own
invariants it has `CallsInv` and `RoundProvisioned`:

- `CallRecordsFit` and `CallersAwait`: a caller that waits has a handler there
  that works on exactly its request. Without it, an OK could be the answer to
  another request. A restart ends the handler and the wait in one step, which is
  why it must fail the calls, and a handler that a failed call leaves behind
  must not be taken for the one of the next call (`OneCallerPerHandler`).
- `KeysFresh`: the helper has not heard of the verify key of a create that is
  still at the leader, so that the request for the helper has a new key there.
- `StartsAreOwn`: the task id of a `start_round` in progress is that
  controller's alone, and every request for it names the controller's current
  session, the leftovers of earlier tries included.
- `LeaderHasNewTask` and the property `RoundProvisioned`: the leader's OK means
  its task is there (`RepliesSound`), tasks are written once, so it still is when the
  helper's OK arrives and the id is announced.

`FreshIdProofs` adds the assumption that random ids do not collide
(`FreshIdSpec`, whose behaviours are behaviours of `Spec`). The properties that
compare the two managers need to know that a session id stands for one
`create_session`. None of them is inductive: between the draw of the id and
the helper's insert the tie between id and key exists only in a handler, then in
an answer, then in the controller's record, then in a request, and after a
restart perhaps nowhere but in a task that is being provisioned. `BoundTo(id, k,
c)` collects all these places, and `OneKeyPerId` says that there is never more
than one key and collector for an id. `BoundStep` follows the tie through every
action: a new tie is either an old one passed on, or starts at the handler that
draws the id, which nothing was tied to (`UnusedIsUnbound`). `IdsPassedOn` says
that whoever has passed an id on is done with it, which `EndedWhereServed` needs: once a
manager has served `end_session`, no late insert brings the session back
before the call returns. `ClientsKnowRounds` carries what a client learned over sessions
that end and ids that are used again; it needs that tasks stay and that rounds
agree. From `FreshIdInv` follow `RoundAgreement`, `SessionsAgree`,
`EndedAtBoth`, `ClientsGetOneParameter`, `SameSessionReportsFit`, and, step by
step, the refinement: a transaction that provisions a task is
`ProvisionLeader` or `ProvisionHelper` of `RoundLedger`, `StartReturns` with
success is `Announce`, all else stutters.

The assumptions are those of `TaskProvisioner` for both managers
(`ManagerAssumption`), that parameters of controllers are parameters
(`ParamAssumption`), and that `None` is no value of another type
(`NoneAssumption`, `LedgerAssumption`). TLC evaluates them in every run.

### The interval and the conversion

`CollectWindowProofs` proves `TypeOK` and `RecentReportsCollected` for every
precision, look-back, length, skew, batch size and number of clients, given
`ConstantsAssumption` and, for the second, `ClocksAssumption` (clocks are off by
at most the skew that the leader tolerates). The invariant behind it
(`WindowInvariance`) says that a query in progress was computed from a reading of
the controller's clock at its time, that reports and results lie in the past, and
the property itself. `CoveredInBatch` is the arithmetic: rounding down loses less
than one precision (`RealStartBounds`), the clocks add their errors, and so what
the query surely covers is in its batch.

`FixedPointProofs` proves `RoundsToNeighbour` and `FailsExactlyOutside` for every
`FracBits` and `Grain`, hence for the 16 and the 32 bit type, from lemmas about
integer division (`IntegerDivision`) that stand for floor and ceiling. The second
is an equivalence: `FloorReaches` and `CeilStays` say which numbers of the grid
the rounding of `x` reaches, hence when it leaves the type at either end. `2 ^ FracBits` is left
opaque but for being an integer.

### Only model-checked

The liveness properties `RequestsAnswered`, `CallsReturn` and
`ClientCallsReturn`: they rest on fairness, which the prover does not handle.
The four violated properties are counterexamples, not theorems. All safety
properties and both refinements that the runs check are proved; the runs show
that the properties can be violated by a wrong program (each mutant), that the
interesting states occur, and they found the invariants' gaps before the proofs
did.

## Not modelled

- The HTTP client and its URLs: a location is a value that the managers compare
  equal or not.
- CORS, metrics, tracing, command line and build files: no state. The changelog
  speaks of three bit sizes; the code has two.
- Upload, aggregation, noise and collection inside janus. An upload reaches the
  aggregators when both have the task; the clients' `Duration` of one second in
  `get_janus_client`, where tasks have an hour, is janus's to interpret.
- A collection that is repeated in a later hour asks janus for an overlapping
  interval of the same task; what it gets is decided there. So is the wait of a
  round that has fewer reports than a batch: no client is obliged to submit, and
  nothing can be promised.
- What janus makes of the ten queries per batch that a task allows.
- A controller or client that crashes: its state is in memory only, so a crash
  is the end of that participant and its successor is another one. The session it
  leaves at the managers is like one that a failed create leaves.

## Plan

Done: all modules above, the refinement of one manager to `SessionTable` and of
the whole to `RoundLedger`, and the proofs of every safety property that a run
checks.

Left:

1. What remains true under `Spec`, when ids do collide: the leader's session of
   an id may then be another's, but the tasks of a round still have the role
   (`RoundProvisioned`). Which of `RoundAgreement`'s conjuncts survive at the
   helper, which refuses an id that is taken, is worth stating and proving.
2. The lemmas that `FederationProofs` states once per manager, stated of one
   manager and instantiated.
