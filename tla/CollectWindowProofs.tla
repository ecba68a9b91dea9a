------------------------- MODULE CollectWindowProofs -------------------------
(***************************************************************************)
(* Proofs about CollectWindow, for every precision, length and position of *)
(* the interval, every clock error up to the tolerated skew, and any       *)
(* number of clients.                                                      *)
(***************************************************************************)
EXTENDS CollectWindow, IntegerDivision

LEMMA SpansType == Before \in Int /\ Span \in Int /\ Horizon \in Int
BY ConstantsAssumption DEF Before, Span

\* The start lies LookBack hours before the reading, or up to an hour more.
LEMMA RealStartBounds ==
    ASSUME NEW clock \in Int
    PROVE  /\ RealStart(clock) \in Int
           /\ RealStart(clock) <= clock - Before
           /\ RealStart(clock) > clock - Before - TimePrecision
<1> DEFINE rounded == (clock \div TimePrecision) * TimePrecision
<1>1. /\ clock \div TimePrecision \in Int
      /\ rounded <= clock
      /\ clock < rounded + TimePrecision
  BY DivisionRoundsDown, ConstantsAssumption
<1>2. rounded \in Int
  BY <1>1, ConstantsAssumption
<1>3. RealStart(clock) = rounded - Before
  BY DEF RealStart
<1> HIDE DEF rounded
<1>4. QED
  BY <1>1, <1>2, <1>3, SpansType, ConstantsAssumption

\* It does not lie before the epoch.
LEMMA RealStartNotNegative ==
    ASSUME NEW clock \in Int, clock >= Before
    PROVE  RealStart(clock) \in Nat
<1> DEFINE hour == clock \div TimePrecision
<1>1. hour \in Int /\ clock < hour * TimePrecision + TimePrecision
  BY DivisionRoundsDown, ConstantsAssumption
<1>2. RealStart(clock) = hour * TimePrecision - LookBack * TimePrecision
  BY DEF RealStart, Before
<1> HIDE DEF hour
<1>3. hour * TimePrecision \in Int /\ LookBack * TimePrecision \in Int
  BY <1>1, ConstantsAssumption
<1>4. CASE hour < LookBack
  <2>1. hour * TimePrecision + TimePrecision <= LookBack * TimePrecision
    BY <1>1, <1>4, GridSteps, ConstantsAssumption
  <2>2. QED
    BY <1>1, <1>3, <2>1, ConstantsAssumption DEF Before
<1>5. CASE LookBack < hour
  <2>1. LookBack * TimePrecision + TimePrecision <= hour * TimePrecision
    BY <1>1, <1>5, GridSteps, ConstantsAssumption
  <2>2. QED
    BY <1>2, <1>3, <2>1, ConstantsAssumption
<1>6. CASE hour = LookBack
  BY <1>2, <1>3, <1>6
<1>7. QED
  BY <1>1, <1>4, <1>5, <1>6, ConstantsAssumption

LEMMA ReportFields ==
    ASSUME NEW r \in Report
    PROVE  /\ r.client \in Client
           /\ r.sent \in Moment
           /\ r.stamp \in Reading(r.sent)
BY DEF Report

LEMMA MomentType == \A t \in Moment : t \in Int
BY DEF Moment

LEMMA ReadingBounds ==
    ASSUME NEW t \in Int, NEW clock \in Reading(t)
    PROVE  /\ clock \in Int
           /\ t - ClockError <= clock
           /\ clock <= t + ClockError
BY ConstantsAssumption DEF Reading

\* The query of a call was computed from the controller's clock at its time.
FromClock(query) ==
    \E clock \in Reading(query.at) : query.start = RealStart(clock)

\* The invariant: nothing happens in the future, a call's query comes from the
\* clock, and a result is complete in the sense of the property.
WInv ==
    /\ TypeOK
    /\ \A r \in reports : r.sent <= now
    /\ call # None => FromClock(call)
    /\ result # None => result.at <= now
    /\ RecentReportsCollected

LEMMA InitWInv == Init => WInv
<1> SUFFICES ASSUME Init PROVE WInv
  OBVIOUS
<1>1. now \in Moment
  BY SpansType, ConstantsAssumption DEF Init, Moment, FirstMoment
<1>2. QED
  BY <1>1 DEF Init, WInv, TypeOK, RecentReportsCollected

\* The reports a query covers are in its batch.
LEMMA CoveredInBatch ==
    ASSUME NEW query \in Query, FromClock(query),
           NEW r \in Report, r \in reports, Covers(query, r.sent)
    PROVE  r \in Batch(query)
<1>1. PICK clock \in Reading(query.at) : query.start = RealStart(clock)
  BY DEF FromClock
<1>2. /\ query.at \in Int /\ query.start \in Int
      /\ clock \in Int
      /\ query.at - ClockError <= clock /\ clock <= query.at + ClockError
  <2>1. query.at \in Moment /\ query.start \in Nat
    BY DEF Query
  <2>2. query.at \in Int /\ query.start \in Int
    BY <2>1, MomentType
  <2>3. QED
    BY <1>1, <2>2, ReadingBounds
<1>3. /\ query.start <= clock - Before
      /\ query.start > clock - Before - TimePrecision
  BY <1>1, <1>2, RealStartBounds
<1>4. /\ r.sent \in Int /\ r.stamp \in Int
      /\ r.sent - ClockError <= r.stamp /\ r.stamp <= r.sent + ClockError
  <2>1. r.sent \in Int /\ r.stamp \in Reading(r.sent)
    BY ReportFields, MomentType
  <2>2. QED
    BY <2>1, ReadingBounds
<1>5. Accepted(r)
  BY <1>4, ConstantsAssumption, ClocksAssumption DEF Accepted
<1>6. /\ query.at - Before + 2 * ClockError <= r.sent
      /\ r.sent <= query.at + Span - Before - TimePrecision - 2 * ClockError
  BY DEF Covers
<1>7. InInterval(r, query)
  BY <1>2, <1>3, <1>4, <1>6, SpansType, ConstantsAssumption DEF InInterval
<1>8. QED
  BY <1>5, <1>7 DEF Batch

LEMMA TickStep == WInv /\ Tick => WInv'
<1> SUFFICES ASSUME WInv, Tick PROVE WInv'
  OBVIOUS
<1>1. now' = now + 1 /\ now' \in Moment /\ now \in Int
  BY SpansType, ConstantsAssumption
     DEF WInv, TypeOK, Tick, Moment, FirstMoment
<1>2. \A r \in reports' : r.sent <= now'
  <2> SUFFICES ASSUME NEW r \in reports PROVE r.sent <= now + 1
    BY <1>1 DEF Tick
  <2>1. r.sent \in Int /\ r.sent <= now
    BY ReportFields, MomentType DEF WInv, TypeOK
  <2>2. QED
    BY <1>1, <2>1
<1>3. result' # None => result'.at <= now'
  <2> SUFFICES ASSUME result # None PROVE result.at <= now + 1
    BY <1>1 DEF Tick
  <2>1. result.at \in Int /\ result.at <= now
    BY MomentType DEF WInv, TypeOK, Collection
  <2>2. QED
    BY <1>1, <2>1
<1>4. QED
  BY <1>1, <1>2, <1>3
     DEF Tick, WInv, TypeOK, RecentReportsCollected

LEMMA UploadStep ==
    ASSUME WInv, NEW i \in Client, Upload(i)
    PROVE  WInv'
<1>1. PICK stamp \in Reading(now) :
         reports' = reports \cup {[client |-> i, sent |-> now, stamp |-> stamp]}
  BY DEF Upload
<1> DEFINE new == [client |-> i, sent |-> now, stamp |-> stamp]
<1>2. now \in Moment /\ now \in Int
  BY MomentType DEF WInv, TypeOK
<1>3. new \in [client : Client, sent : {now}, stamp : Reading(now)]
  OBVIOUS
<1>4. new \in Report
  BY <1>2, <1>3 DEF Report
<1>5. new.sent = now /\ reports' = reports \cup {new}
  BY <1>1
<1> HIDE DEF new
<1>6. \A r \in reports' : r.sent <= now'
  BY <1>2, <1>5 DEF WInv, Upload
<1>7. RecentReportsCollected'
  <2> SUFFICES ASSUME result # None, NEW r \in reports',
                      Covers(result.query, r.sent), r.sent < result.at
               PROVE  r \in result.reports
    BY DEF RecentReportsCollected, Upload, Covers
  <2>1. result.at \in Int /\ result.at <= now
    BY MomentType DEF WInv, TypeOK, Collection
  <2>2. r \in reports
    BY <1>2, <1>5, <2>1
  <2>3. QED
    BY <2>2 DEF WInv, RecentReportsCollected
<1>8. QED
  BY <1>4, <1>5, <1>6, <1>7 DEF Upload, WInv, TypeOK

LEMMA CollectStep == WInv /\ Collect => WInv'
<1> SUFFICES ASSUME WInv, Collect PROVE WInv'
  OBVIOUS
<1>1. PICK clock \in Reading(now) : call' = [at |-> now, start |-> RealStart(clock)]
  BY DEF Collect
<1>2. now \in Int /\ now \in Moment /\ now >= Before + ClockError
  BY SpansType, ConstantsAssumption DEF WInv, TypeOK, Moment, FirstMoment
<1>3. clock \in Int /\ clock >= Before
  BY <1>2, SpansType, ConstantsAssumption DEF Reading
<1>4. call' \in Query
  BY <1>1, <1>2, <1>3, RealStartNotNegative DEF Query
<1>5. FromClock(call')
  BY <1>1 DEF FromClock
<1>6. QED
  BY <1>4, <1>5
     DEF Collect, WInv, TypeOK, RecentReportsCollected, FromClock

LEMMA ReturnStep == WInv /\ Return => WInv'
<1> SUFFICES ASSUME WInv, Return PROVE WInv'
  OBVIOUS
<1>1. /\ call \in Query /\ FromClock(call)
      /\ now \in Moment /\ now \in Int
      /\ reports \in SUBSET Report
  BY MomentType DEF WInv, TypeOK, Return
<1>2. /\ result' = [query |-> call, at |-> now, reports |-> Batch(call)]
      /\ call' = None
      /\ reports' = reports /\ now' = now
  BY DEF Return
<1>3. result' \in Collection
  BY <1>1, <1>2 DEF Collection, Batch
<1>4. RecentReportsCollected'
  <2> SUFFICES ASSUME NEW r \in reports, Covers(call, r.sent)
               PROVE  r \in Batch(call)
    BY <1>2 DEF RecentReportsCollected, Covers
  <2>1. QED
    BY <1>1, CoveredInBatch
<1>5. QED
  BY <1>1, <1>2, <1>3, <1>4 DEF WInv, TypeOK

LEMMA FailsStep == WInv /\ Fails => WInv'
BY DEF WInv, TypeOK, Fails, RecentReportsCollected

LEMMA StutterStep == WInv /\ UNCHANGED vars => WInv'
BY DEF WInv, TypeOK, RecentReportsCollected, FromClock, vars

\* The invariant holds in every reachable state.
THEOREM WindowInvariance == Spec => []WInv
<1>1. WInv /\ [Next]_vars => WInv'
  BY TickStep, UploadStep, CollectStep, ReturnStep, FailsStep, StutterStep
     DEF Next
<1>2. QED
  BY InitWInv, <1>1, PTL DEF Spec

\* Types are kept; in particular the start of the interval never underflows.
THEOREM WindowTypeCorrect == Spec => []TypeOK
<1>1. WInv => TypeOK
  BY DEF WInv
<1>2. QED
  BY WindowInvariance, <1>1, PTL

\* A collection has every report that was sent in the part of the interval
\* which it covers for sure.
THEOREM RecentReportsAreCollected == Spec => []RecentReportsCollected
<1>1. WInv => RecentReportsCollected
  BY DEF WInv
<1>2. QED
  BY WindowInvariance, <1>1, PTL

=============================================================================
