------------------------------ MODULE Reports -------------------------------
(***************************************************************************)
(* The statistics that are counted by day and by longer periods: each      *)
(* event adds to a row of every period, by upserts that are sent together, *)
(* may fail one by one and are not repeated.  A nightly job removes the    *)
(* rows of periods that are long over.  One counter stands for those of a  *)
(* row.                                                                    *)
(***************************************************************************)
EXTENDS Integers, FiniteSets, Functions

CONSTANTS
    Span,               \* length in days of the longer periods
    Parties,            \* those of vendor and driver that have statistics
    Reporters,          \* events under way
    Retention,          \* retentionStatisticsDays
    MaxDay, MaxReports  \* bounds: days, events

ASSUME ReportsAssumption ==
    /\ \A p \in DOMAIN Span : Span[p] \in Nat \ {0, 1}
    /\ "DAILY" \notin DOMAIN Span
    /\ IsFiniteSet(Reporters)
    /\ Retention \in Nat \ {0}
    /\ MaxDay \in Nat /\ MaxReports \in Nat

VARIABLES
    today,
    stat,       \* counted per subject, period and first day; 0 without a row
    report,     \* upserts to come of each event, and its day
    reported,   \* events so far
    missed      \* upserts of each subject that failed

reportsVars == <<today, stat, report, reported, missed>>

CalendarDays == 0..MaxDay
Periods == {"DAILY"} \cup DOMAIN Span
Subjects == {"app"} \cup Parties

Length(p) == IF p = "DAILY" THEN 1 ELSE Span[p]

\* getPeriodsForDate: first day of the period, which covers it.
StartOf(p, day) == day - (day % Length(p))
DaysOf(p, start) == start..(start + Length(p) - 1)

ReportsTypeOK ==
    /\ today \in CalendarDays
    /\ stat \in [Subjects \X Periods \X CalendarDays -> 0..MaxReports]
    /\ report \in [Reporters -> [day : CalendarDays, left : SUBSET (Subjects \X Periods)]]
    /\ reported \in 0..MaxReports
    /\ missed \in [Subjects -> Nat]

ReportsInit ==
    /\ today = 0
    /\ stat = [x \in Subjects \X Periods \X CalendarDays |-> 0]
    /\ report = [r \in Reporters |-> [day |-> 0, left |-> {}]]
    /\ reported = 0
    /\ missed = [s \in Subjects |-> 0]

AtRest == \A r \in Reporters : report[r].left = {}

NextDay ==
    /\ today < MaxDay
    /\ today' = today + 1
    /\ UNCHANGED <<stat, report, reported, missed>>

\* The upserts of an event: one for every subject and period, all of one date.
Record(r, S) ==
    /\ report[r].left = {}
    /\ reported < MaxReports
    /\ report' = [report EXCEPT ![r] = [day |-> today, left |-> S \X Periods]]
    /\ reported' = reported + 1
    /\ UNCHANGED <<today, stat, missed>>

\* recordCancellation: of the app, and of the vendor and the driver if there are any.
CancellationSubjects(P) == {"app"} \cup P

\* recordDispatchSent, recordDispatchAccepted, recordDispatchRejected, recordDispatchExpired
DispatchSubjects == {"driver"} \cap Parties

\* handleOrderCancelled, after what it sends to the users.
RecordCancellation(r, P) == Record(r, CancellationSubjects(P))

\* handleDispatchSent, after what it sends to the driver.
RecordDispatchSent(r) == Record(r, DispatchSubjects)

\* handleDispatchResponded: of the search, that is all for an offer that expired.
RecordResponse(r) == Record(r, DispatchSubjects)

Done(r, x) == report' = [report EXCEPT ![r].left = @ \ {x}]

\* Mistake: each period is that of the moment.
UpsertToday(r, x) ==
    /\ x \in report[r].left
    /\ stat' = [stat EXCEPT ![<<x[1], x[2], StartOf(x[2], today)>>] = @ + 1]
    /\ Done(r, x)
    /\ UNCHANGED <<today, reported, missed>>

\* Mistake: an upsert may be repeated that has been done.
UpsertRepeated(r, x) ==
    /\ x \in report[r].left
    /\ stat' = [stat EXCEPT ![<<x[1], x[2], StartOf(x[2], report[r].day)>>] = @ + 1]
    /\ UNCHANGED <<today, report, reported, missed>>

\* upsertVendorStat, upsertDriverStat, upsertAppStat
Upsert(r, x) ==
    /\ x \in report[r].left
    /\ stat' = [stat EXCEPT ![<<x[1], x[2], StartOf(x[2], report[r].day)>>] = @ + 1]
    /\ Done(r, x)
    /\ UNCHANGED <<today, reported, missed>>

\* The listener goes on without.
UpsertFails(r, x) ==
    /\ x \in report[r].left
    /\ missed' = [missed EXCEPT ![x[1]] = @ + 1]
    /\ Done(r, x)
    /\ UNCHANGED <<today, stat, reported>>

\* endDate < cutoff
Outdated(p, start) == start + Length(p) - 1 + Retention < today

StatisticsCleanup ==
    /\ \E x \in DOMAIN stat : stat[x] > 0 /\ Outdated(x[2], x[3])
    /\ stat' = [x \in DOMAIN stat |-> IF Outdated(x[2], x[3]) THEN 0 ELSE stat[x]]
    /\ UNCHANGED <<today, report, reported, missed>>

ReportsNext ==
    \/ NextDay \/ StatisticsCleanup
    \/ \E r \in Reporters :
          \/ \E P \in SUBSET Parties : RecordCancellation(r, P)
          \/ RecordDispatchSent(r) \/ RecordResponse(r)
          \/ \E x \in report[r].left : Upsert(r, x) \/ UpsertFails(r, x)

ReportsSpec == ReportsInit /\ [][ReportsNext]_reportsVars

-----------------------------------------------------------------------------
(* Properties *)

\* When no event is under way, a longer period counts what its days count, but for
\* upserts that failed and days that are long over, midnight in between or not
\* (getPeriodsForDate, recordCancellation, recordDispatchSent, ...).
PeriodsAgree ==
    AtRest => \A s \in Subjects, p \in DOMAIN Span, day \in CalendarDays :
        LET start == StartOf(p, day)
            D == DaysOf(p, start) \cap CalendarDays
            daily == SumFunction([d \in D |-> stat[<<s, "DAILY", d>>]])
        IN  ~Outdated(p, start) =>
            /\ daily <= stat[<<s, p, start>>] + missed[s]
            /\ (\A d \in D : ~Outdated("DAILY", d)) => stat[<<s, p, start>>] <= daily + missed[s]
=============================================================================
