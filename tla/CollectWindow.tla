---------------------------- MODULE CollectWindow ----------------------------
(***************************************************************************)
(* Which reports of a round api_collect gets: the interval that            *)
(* collect_generic computes from the controller's clock, against the times *)
(* that clients stamp on their reports.                                    *)
(*                                                                         *)
(* The controller's and the clients' clocks are at most ClockError away    *)
(* from the true time, which the leader's clock shows.  The leader of      *)
(* janus is external: it refuses a report from too far in the future, and  *)
(* answers a collection when the reports of the interval are a batch.      *)
(***************************************************************************)
EXTENDS Integers, FiniteSets

CONSTANTS
    TimePrecision,  \* TIME_PRECISION
    LookBack,       \* the 5 in TIME_PRECISION * 5
    Length,         \* the 15 in TIME_PRECISION * 15
    Skew,           \* tolerable_clock_skew of a task
    MinBatchSize,   \* min_batch_size of a task
    ClockError,
    Horizon,        \* bound on the time
    Client,
    None

Before == LookBack * TimePrecision
Span == Length * TimePrecision

\* The subtraction needs a clock past the first LookBack hours of 1970.
FirstMoment == Before + ClockError

ASSUME ConstantsAssumption ==
    /\ TimePrecision \in Nat \ {0}
    /\ LookBack \in Nat /\ Length \in Nat
    /\ Skew \in Nat /\ ClockError \in Nat
    /\ Horizon \in Nat /\ FirstMoment <= Horizon

\* Needed for the properties only.
ASSUME ClocksAssumption == ClockError <= Skew

VARIABLES
    now,        \* the true time
    reports,    \* the reports that clients have sent for the round
    call,       \* the collection in progress: when it was asked for, what for
    result      \* the last collection that succeeded

vars == <<now, reports, call, result>>

Moment == FirstMoment..Horizon

\* The reading of a clock at true time t.
Reading(t) == (t - ClockError)..(t + ClockError)

Report ==
    UNION {[client : Client, sent : {t}, stamp : Reading(t)] : t \in Moment}

Query == [at : Moment, start : Nat]

Collection == [query : Query, at : Moment, reports : SUBSET Report]

Init ==
    /\ now = FirstMoment
    /\ reports = {}
    /\ call = None
    /\ result = None

Tick ==
    /\ now < Horizon
    /\ now' = now + 1
    /\ UNCHANGED <<reports, call, result>>

\* A client submits once to the round.
Upload(i) ==
    /\ \A r \in reports : r.client # i
    /\ \E stamp \in Reading(now) :
          reports' = reports \cup {[client |-> i, sent |-> now, stamp |-> stamp]}
    /\ UNCHANGED <<now, call, result>>

\* Bug: the clock is rounded up to the next hour.
RealStartUp(clock) == ((clock \div TimePrecision) + 1) * TimePrecision - Before

\* Bug: the interval is moved back by its length.
RealStartEarly(clock) == (clock \div TimePrecision) * TimePrecision - Span

RealStart(clock) == (clock \div TimePrecision) * TimePrecision - Before

Collect ==
    /\ call = None
    /\ \E clock \in Reading(now) :
          call' = [at |-> now, start |-> RealStart(clock)]
    /\ UNCHANGED <<now, reports, result>>

InInterval(r, query) ==
    query.start <= r.stamp /\ r.stamp < query.start + Span

\* The leader took the report when it came.
Accepted(r) == r.stamp <= r.sent + Skew

Batch(query) == {r \in reports : Accepted(r) /\ InInterval(r, query)}

\* Janus closes the batch of a collection and makes the result of it.  When
\* the controller hears of it is of no account here.
Return ==
    /\ call # None
    /\ Cardinality(Batch(call)) >= MinBatchSize
    /\ result' = [query |-> call, at |-> now, reports |-> Batch(call)]
    /\ call' = None
    /\ UNCHANGED <<now, reports>>

Fails ==
    /\ call # None
    /\ call' = None
    /\ UNCHANGED <<now, reports, result>>

Next == Tick \/ (\E i \in Client : Upload(i)) \/ Collect \/ Return \/ Fails

Spec == Init /\ [][Next]_vars

-----------------------------------------------------------------------------
(* Properties                                                              *)

TypeOK ==
    /\ now \in Moment
    /\ reports \in SUBSET Report
    /\ call \in Query \cup {None}
    /\ result \in Collection \cup {None}

\* The part of a query's interval that it has however the clocks are off and
\* wherever in its hour the call falls: an hour less than the interval ahead.
Covers(query, sent) ==
    /\ query.at - Before + 2 * ClockError <= sent
    /\ sent <= query.at + Span - Before - TimePrecision - 2 * ClockError

\* A collection that succeeds has every report that was sent to the round less
\* than LookBack hours before the call, wherever the call falls in its hour,
\* also the reports that came while it waited, until janus closed the batch.
RecentReportsCollected ==
    result # None =>
        \A r \in reports :
            Covers(result.query, r.sent) /\ r.sent < result.at
                => r \in result.reports

=============================================================================
