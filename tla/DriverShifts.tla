---------------------------- MODULE DriverShifts ----------------------------
(***************************************************************************)
(* Shifts: pools with a capacity, bookings by drivers and by admins, the   *)
(* swap board, start and end of a shift, and the three jobs that warn,     *)
(* mark a shift as missed and end the overdue ones.                        *)
(*                                                                         *)
(* Bookings lock their pools FOR UPDATE; everything else reads and then    *)
(* writes, by id, what it has decided.  Jobs work on a list read at their  *)
(* start, and an update of a row that is gone ends the whole job.          *)
(***************************************************************************)
EXTENDS Integers, FiniteSets

CONSTANTS
    Couriers,           \* drivers
    Pools,              \* shift pools; a pool also names its hours
    Overlap,            \* pairs of pools whose hours overlap
    Weeks,              \* choices of pools that make a working week
    Shifts,             \* rows that can ever be created, in this order
    MaxCapacity,        \* bound on the capacity of a pool
    LastHour,           \* bound on the time that passes
    TopTier,            \* the highest tier, 3 in the code
    Calls,              \* requests in flight
    Workers,            \* jobs in flight
    NoCall

NoPool == "no pool"

ASSUME ShiftsAssumption ==
    /\ Overlap \subseteq Pools \X Pools
    /\ \A p \in Pools : <<p, p>> \in Overlap
    /\ \A p, q \in Pools : <<p, q>> \in Overlap => <<q, p>> \in Overlap
    /\ Weeks \subseteq SUBSET Pools /\ \A W \in Weeks : IsFiniteSet(W)
    /\ NoPool \notin Pools
    /\ NoCall \notin Calls \cup Workers
    /\ MaxCapacity \in Nat
    /\ TopTier \in Nat \ {0}
    /\ IsFiniteSet(Shifts) /\ Shifts = 1..Cardinality(Shifts)

Hours == {"far", "soon", "late", "over"}
Slots == Calls \cup Workers
Tiers == 1..TopTier     \* BRONZE, SILVER, GOLD
OpenStatuses == {"SCHEDULED", "ACTIVE"}
ClosedStatuses == {"COMPLETED", "MISSED"}
SwapStatuses == {"NONE", "PENDING", "ACCEPTED", "CANCELLED"}

VARIABLES
    hours,      \* where now is with respect to the hours of a pool
    capacity,   \* shiftPools.maxDrivers; of a pool that does not exist, -1
    shift,      \* driverShifts rows
    swap,       \* the swap request of a shift: one row at most, it is unique
    tier,       \* drivers.tier
    poolLock,   \* who holds the FOR UPDATE lock of a pool
    task,       \* requests and jobs in flight
    driverShiftsEnabled     \* the platform's setting

shiftsVars ==
    <<hours, capacity, shift, swap, tier, poolLock, task, driverShiftsEnabled>>

\* A row that is not there yet, and one that was deleted: ids are not reused.
NoShift == [status |-> "NONE"]
Deleted == [status |-> "DELETED"]

\* self: booked by a driver, within the capacity.
ShiftRows ==
    {NoShift, Deleted} \cup
    [status : OpenStatuses \cup ClosedStatuses, driver : Couriers,
     pool : Pools \cup {NoPool}, hours : Pools, self : BOOLEAN, warned : BOOLEAN]

NoSwap == [status |-> "NONE"]
SwapRows == {NoSwap} \cup [status : SwapStatuses \ {"NONE"}, by : Couriers]

Late == [shift : Shifts, driver : Couriers, tier : Tiers]
Soon == [shift : Shifts, pending : BOOLEAN]

TaskRecords ==
    {[op |-> "idle"]}
    \cup [op : {"create"}, driver : Couriers, pool : Pools, inPool : BOOLEAN]
    \cup [op : {"book"}, driver : Couriers, pools : SUBSET Pools]
    \cup [op : {"accept"}, driver : Couriers, shift : Shifts]
    \cup [op : {"start"}, driver : Couriers, shift : Shifts]
    \cup [op : {"end", "tier"}, driver : Couriers, shift : Shifts,
          todo : SUBSET (Shifts \X Couriers), job : BOOLEAN]
    \cup [op : {"promote"}, driver : Couriers, to : Tiers,
          todo : SUBSET (Shifts \X Couriers), job : BOOLEAN]
    \cup [op : {"overdue"}, todo : SUBSET (Shifts \X Couriers)]
    \cup [op : {"destroy", "close"}, pool : Pools, kill : SUBSET Shifts, history : BOOLEAN]
    \cup [op : {"late"}, todo : SUBSET Late]
    \cup [op : {"demote"}, todo : SUBSET Late, one : Late]
    \cup [op : {"warn"}, todo : SUBSET Soon]

ShiftTablesOK ==
    /\ hours \in [Pools -> Hours]
    /\ capacity \in [Pools -> -1..MaxCapacity]
    /\ shift \in [Shifts -> ShiftRows]
    /\ swap \in [Shifts -> SwapRows]
    /\ tier \in [Couriers -> Tiers]
    /\ poolLock \in [Pools -> Calls \cup {NoCall}]
    /\ task \in [Slots -> TaskRecords]

ShiftsTypeOK == ShiftTablesOK /\ driverShiftsEnabled \in BOOLEAN

ShiftsInit ==
    /\ hours = [p \in Pools |-> "far"]
    /\ capacity = [p \in Pools |-> -1]
    /\ shift = [s \in Shifts |-> NoShift]
    /\ swap = [s \in Shifts |-> NoSwap]
    /\ tier = [d \in Couriers |-> 1]
    /\ poolLock = [p \in Pools |-> NoCall]
    /\ task = [t \in Slots |-> [op |-> "idle"]]
    /\ driverShiftsEnabled = FALSE

Exists(s) == shift[s] \notin {NoShift, Deleted}
Owns(d, s) == Exists(s) /\ shift[s].driver = d
RowsOf(p) == {s \in Shifts : Exists(s) /\ shift[s].pool = p}

\* An open shift of the driver in hours that overlap those of p.
Busy(d, p) ==
    \E s \in Shifts : /\ Owns(d, s)
                      /\ shift[s].status \in OpenStatuses
                      /\ <<shift[s].hours, p>> \in Overlap

IdleTask(t) == task[t].op = "idle"
Continue(t, r) == task' = [task EXCEPT ![t] = r]
Done(t) == Continue(t, [op |-> "idle"])

NextRow == Cardinality({s \in Shifts : shift[s] # NoShift}) + 1

NewShift(d, p, pool, self) ==
    [status |-> "SCHEDULED", driver |-> d, pool |-> pool, hours |-> p,
     self |-> self, warned |-> FALSE]

-----------------------------------------------------------------------------
(* Time *)

Passes(p) ==
    /\ hours[p] \notin {"over", LastHour}
    /\ hours' = [hours EXCEPT ![p] = CASE @ = "far" -> "soon"
                                       [] @ = "soon" -> "late"
                                       [] @ = "late" -> "over"]
    /\ UNCHANGED <<capacity, shift, swap, tier, poolLock, task, driverShiftsEnabled>>

-----------------------------------------------------------------------------
(* Pools and bookings *)

\* An admin switches the shifts of drivers on or off.  Bookings, the swap board,
\* the warning and the late check look at the setting; assignments by an admin,
\* starts, ends and the check for overdue shifts do not.
UpdateSettings ==
    /\ driverShiftsEnabled' = ~driverShiftsEnabled
    /\ UNCHANGED <<hours, capacity, shift, swap, tier, poolLock, task>>

GenerateShiftPool(p) ==
    /\ capacity[p] = -1
    /\ hours[p] = "far"
    /\ \E n \in 1..MaxCapacity : capacity' = [capacity EXCEPT ![p] = n]
    /\ UNCHANGED <<hours, shift, swap, tier, poolLock, task, driverShiftsEnabled>>

\* By an admin: whether the driver has a row of this pool, not the capacity and
\* not other shifts.
AdminAssignShift(t, d, p) ==
    /\ IdleTask(t)
    /\ capacity[p] # -1
    /\ ~\E s \in RowsOf(p) : shift[s].driver = d
    /\ Continue(t, [op |-> "create", driver |-> d, pool |-> p, inPool |-> TRUE])
    /\ UNCHANGED <<hours, capacity, shift, swap, tier, poolLock, driverShiftsEnabled>>

\* A shift without a pool, by the driver or for the driver by an admin.
CreateShift(t, d, p) ==
    /\ IdleTask(t)
    /\ ~Busy(d, p)
    /\ Continue(t, [op |-> "create", driver |-> d, pool |-> p, inPool |-> FALSE])
    /\ UNCHANGED <<hours, capacity, shift, swap, tier, poolLock, driverShiftsEnabled>>

\* A row that refers to a pool needs the pool, and its share of the pool's row
\* lock: it waits for a booking in progress.
CommitCreate(t) ==
    /\ task[t].op = "create"
    /\ task[t].inPool => poolLock[task[t].pool] = NoCall /\ capacity[task[t].pool] # -1
    /\ NextRow \in Shifts
    /\ LET p == task[t].pool IN
          shift' = [shift EXCEPT ![NextRow] =
              NewShift(task[t].driver, p, IF task[t].inPool THEN p ELSE NoPool, FALSE)]
    /\ Done(t)
    /\ UNCHANGED <<hours, capacity, swap, tier, poolLock, driverShiftsEnabled>>

\* The pool is gone, or the limit on rows of this model is reached.
CreateFails(t) ==
    /\ task[t].op = "create"
    /\ Done(t)
    /\ UNCHANGED <<hours, capacity, shift, swap, tier, poolLock, driverShiftsEnabled>>

\* Mistake: the pools are read without FOR UPDATE.
LockableAlways(p) == capacity[p] # -1

Lockable(p) == capacity[p] # -1 /\ poolLock[p] = NoCall

\* bookOvertimeShift books one pool, bookWeeklyShifts a week: lock, count, look
\* for overlapping shifts.
BookShifts(t, d, P) ==
    /\ IdleTask(t)
    /\ driverShiftsEnabled
    /\ \A p \in P : /\ Lockable(p)
                    /\ Cardinality(RowsOf(p)) < capacity[p]
                    /\ ~Busy(d, p)
    /\ poolLock' = [p \in Pools |-> IF p \in P THEN t ELSE poolLock[p]]
    /\ Continue(t, [op |-> "book", driver |-> d, pools |-> P])
    /\ UNCHANGED <<hours, capacity, shift, swap, tier, driverShiftsEnabled>>

Unlocked(t) == [p \in Pools |-> IF poolLock[p] = t THEN NoCall ELSE poolLock[p]]

CommitBooking(t) ==
    /\ task[t].op = "book"
    /\ LET P == task[t].pools
           new == NextRow..(NextRow + Cardinality(P) - 1) IN
          /\ new \subseteq Shifts
          /\ \E pool \in [new -> P] :
                /\ \A p \in P : \E s \in new : pool[s] = p
                /\ shift' = [s \in Shifts |->
                      IF s \in new THEN NewShift(task[t].driver, pool[s], pool[s], TRUE)
                      ELSE shift[s]]
    /\ poolLock' = Unlocked(t)
    /\ Done(t)
    /\ UNCHANGED <<hours, capacity, swap, tier, driverShiftsEnabled>>

\* The transaction is rolled back, by a lost connection or a deadlock.
BookingFails(t) ==
    /\ task[t].op = "book"
    /\ poolLock' = Unlocked(t)
    /\ Done(t)
    /\ UNCHANGED <<hours, capacity, shift, swap, tier, driverShiftsEnabled>>

-----------------------------------------------------------------------------
(* terminateShiftPool *)

TerminateShiftPool(t, p) ==
    /\ IdleTask(t)
    /\ capacity[p] # -1
    /\ LET open == {s \in RowsOf(p) : shift[s].status \in OpenStatuses} IN
          Continue(t, [op |-> IF open = {} THEN "close" ELSE "destroy", pool |-> p,
                       kill |-> open, history |-> open # RowsOf(p)])
    /\ UNCHANGED <<hours, capacity, shift, swap, tier, poolLock, driverShiftsEnabled>>

\* By id: a shift that was ended or missed since the list was read goes too.
DestroyShifts(t) ==
    /\ task[t].op = "destroy"
    /\ shift' = [s \in Shifts |-> IF s \in task[t].kill /\ Exists(s) THEN Deleted ELSE shift[s]]
    /\ swap' = [s \in Shifts |-> IF s \in task[t].kill THEN NoSwap ELSE swap[s]]
    /\ Continue(t, [task[t] EXCEPT !.op = "close"])
    /\ UNCHANGED <<hours, capacity, tier, poolLock, driverShiftsEnabled>>

\* A pool with history is disabled, another is deleted: shifts it has got in the
\* meantime lose their pool.
ClosePool(t) ==
    /\ task[t].op = "close"
    /\ LET p == task[t].pool IN
          /\ poolLock[p] = NoCall
          /\ capacity[p] # -1
          /\ IF task[t].history
             THEN /\ capacity' = [capacity EXCEPT ![p] = 0]
                  /\ UNCHANGED shift
             ELSE /\ capacity' = [capacity EXCEPT ![p] = -1]
                  /\ shift' = [s \in Shifts |->
                        IF s \in RowsOf(p) THEN [shift[s] EXCEPT !.pool = NoPool]
                        ELSE shift[s]]
    /\ Done(t)
    /\ UNCHANGED <<hours, swap, tier, poolLock, driverShiftsEnabled>>

\* Another request has deleted the pool.
CloseFails(t) ==
    /\ task[t].op = "close"
    /\ capacity[task[t].pool] = -1
    /\ Done(t)
    /\ UNCHANGED <<hours, capacity, shift, swap, tier, poolLock, driverShiftsEnabled>>

-----------------------------------------------------------------------------
(* The swap board *)

\* A second request for the same shift, in whatever state the first one is,
\* is refused by the unique key.
OfferSwap(d, s) ==
    /\ driverShiftsEnabled
    /\ Owns(d, s)
    /\ shift[s].status = "SCHEDULED"
    /\ hours[shift[s].hours] = "far"
    /\ swap[s] = NoSwap
    /\ swap' = [swap EXCEPT ![s] = [status |-> "PENDING", by |-> d]]
    /\ UNCHANGED <<hours, capacity, shift, tier, poolLock, task, driverShiftsEnabled>>

\* Mistake: a request that was accepted before is accepted again, which gives the
\* shift to whoever comes last, the driver who offered it included.
AcceptableAgain(d, s) ==
    /\ swap[s].status \in {"PENDING", "ACCEPTED"}
    /\ ~Busy(d, shift[s].hours)

Acceptable(d, s) ==
    /\ swap[s].status = "PENDING"
    /\ swap[s].by # d
    /\ ~Busy(d, shift[s].hours)

AcceptSwap(t, d, s) ==
    /\ IdleTask(t)
    /\ driverShiftsEnabled
    /\ Acceptable(d, s)
    /\ Continue(t, [op |-> "accept", driver |-> d, shift |-> s])
    /\ UNCHANGED <<hours, capacity, shift, swap, tier, poolLock, driverShiftsEnabled>>

\* Both updates are by id: neither the request nor the shift is looked at again.
CommitSwap(t) ==
    /\ task[t].op = "accept"
    /\ LET s == task[t].shift IN
          IF swap[s] # NoSwap
          THEN /\ swap' = [swap EXCEPT ![s].status = "ACCEPTED"]
               /\ shift' = [shift EXCEPT ![s].driver = task[t].driver]
          ELSE UNCHANGED <<swap, shift>>
    /\ Done(t)
    /\ UNCHANGED <<hours, capacity, tier, poolLock, driverShiftsEnabled>>

-----------------------------------------------------------------------------
(* Start and end of a shift *)

StartShift(t, d, s) ==
    /\ IdleTask(t)
    /\ Owns(d, s)
    /\ shift[s].status = "SCHEDULED"
    /\ ~\E x \in Shifts : Owns(d, x) /\ shift[x].status = "ACTIVE"
    /\ Continue(t, [op |-> "start", driver |-> d, shift |-> s])
    /\ UNCHANGED <<hours, capacity, shift, swap, tier, poolLock, driverShiftsEnabled>>

\* Mistake: the update is by id alone.
StartableById(t) == Exists(task[t].shift)

Startable(t) ==
    /\ Owns(task[t].driver, task[t].shift)
    /\ shift[task[t].shift].status = "SCHEDULED"

CommitStart(t) ==
    /\ task[t].op = "start"
    /\ IF Startable(t)
       THEN shift' = [shift EXCEPT ![task[t].shift].status = "ACTIVE"]
       ELSE UNCHANGED shift
    /\ Done(t)
    /\ UNCHANGED <<hours, capacity, swap, tier, poolLock, driverShiftsEnabled>>

\* Not while the driver's status is ON_DELIVERY, which is of DriverAccount.
EndShift(t, d, s) ==
    /\ IdleTask(t)
    /\ Owns(d, s)
    /\ shift[s].status = "ACTIVE"
    /\ Continue(t, [op |-> "end", driver |-> d, shift |-> s, todo |-> {}, job |-> FALSE])
    /\ UNCHANGED <<hours, capacity, shift, swap, tier, poolLock, driverShiftsEnabled>>

\* An execution that belongs to the job goes on with the job's list.
Resume(t) ==
    IF task[t].job THEN Continue(t, [op |-> "overdue", todo |-> task[t].todo])
    ELSE Done(t)

CommitEnd(t) ==
    /\ task[t].op = "end"
    /\ IF shift[task[t].shift].status = "ACTIVE"
       THEN /\ shift' = [shift EXCEPT ![task[t].shift].status = "COMPLETED"]
            /\ Continue(t, [task[t] EXCEPT !.op = "tier"])
       ELSE Resume(t) /\ UNCHANGED shift
    /\ UNCHANGED <<hours, capacity, swap, tier, poolLock, driverShiftsEnabled>>

\* A shift without rejected or expired dispatches promotes its driver.
ReadTier(t) ==
    /\ task[t].op = "tier"
    /\ \/ Resume(t)
       \/ /\ tier[task[t].driver] < TopTier
          /\ Continue(t, [op |-> "promote", driver |-> task[t].driver,
                          to |-> tier[task[t].driver] + 1,
                          todo |-> task[t].todo, job |-> task[t].job])
    /\ UNCHANGED <<hours, capacity, shift, swap, tier, poolLock, driverShiftsEnabled>>

PromoteTier(t) ==
    /\ task[t].op = "promote"
    /\ tier' = [tier EXCEPT ![task[t].driver] = task[t].to]
    /\ Resume(t)
    /\ UNCHANGED <<hours, capacity, shift, swap, poolLock, driverShiftsEnabled>>

-----------------------------------------------------------------------------
(* The jobs *)

\* handleDriverShiftsChecker: shifts that are ACTIVE although their hours are
\* over.  That the drivers of the list are OFFLINE in the end, whatever they were
\* doing, is ForceOffline of DriverAccount.
OverdueShifts ==
    {s \in Shifts : shift[s].status = "ACTIVE" /\ hours[shift[s].hours] = "over"}

DriverShiftsChecker(t) ==
    /\ IdleTask(t)
    /\ OverdueShifts # {}
    /\ Continue(t, [op |-> "overdue",
                    todo |-> {<<s, shift[s].driver>> : s \in OverdueShifts}])
    /\ UNCHANGED <<hours, capacity, shift, swap, tier, poolLock, driverShiftsEnabled>>

\* Mistake: only shifts that (still) belong to a pool are found.
EndableInPool(x) == Owns(x[2], x[1]) /\ shift[x[1]].status = "ACTIVE" /\ shift[x[1]].pool # NoPool

Endable(x) == Owns(x[2], x[1]) /\ shift[x[1]].status = "ACTIVE"

EndShiftBySystem(t) ==
    /\ task[t].op = "overdue"
    /\ \E x \in task[t].todo :
          IF Endable(x)
          THEN Continue(t, [op |-> "end", driver |-> x[2], shift |-> x[1],
                            todo |-> task[t].todo \ {x}, job |-> TRUE])
          ELSE Continue(t, [task[t] EXCEPT !.todo = @ \ {x}])
    /\ UNCHANGED <<hours, capacity, shift, swap, tier, poolLock, driverShiftsEnabled>>

\* handle5MinLateCheck
LateShifts ==
    {s \in Shifts : shift[s].status = "SCHEDULED" /\ hours[shift[s].hours] \in {"late", "over"}}

LateCheck(t) ==
    /\ IdleTask(t)
    /\ driverShiftsEnabled
    /\ LateShifts # {}
    /\ Continue(t, [op |-> "late",
                    todo |-> {[shift |-> s, driver |-> shift[s].driver,
                               tier |-> tier[shift[s].driver]] : s \in LateShifts}])
    /\ UNCHANGED <<hours, capacity, shift, swap, tier, poolLock, driverShiftsEnabled>>

Demotable(x) == x.tier > 1

\* Mistake: a shift on the swap board is not found.
FoundUnlessOffered(x) == Exists(x.shift) /\ swap[x.shift].status # "PENDING"

Found(x) == Exists(x.shift)

\* By id: the shift may have been started since the list was read.  A row that
\* is gone makes the update throw, which ends the job.
MarkMissed(t) ==
    /\ task[t].op = "late"
    /\ \E x \in task[t].todo :
          IF Found(x)
          THEN /\ shift' = [shift EXCEPT ![x.shift].status = "MISSED"]
               /\ IF Demotable(x)
                  THEN Continue(t, [op |-> "demote", todo |-> task[t].todo \ {x}, one |-> x])
                  ELSE Continue(t, [task[t] EXCEPT !.todo = @ \ {x}])
          ELSE Done(t) /\ UNCHANGED shift
    /\ UNCHANGED <<hours, capacity, swap, tier, poolLock, driverShiftsEnabled>>

DemoteTier(t) ==
    /\ task[t].op = "demote"
    /\ tier' = [tier EXCEPT ![task[t].one.driver] = task[t].one.tier - 1]
    /\ Continue(t, [op |-> "late", todo |-> task[t].todo])
    /\ UNCHANGED <<hours, capacity, shift, swap, poolLock, driverShiftsEnabled>>

\* handle30MinShiftWarning
UpcomingShifts ==
    {s \in Shifts : /\ shift[s].status = "SCHEDULED"
                    /\ ~shift[s].warned
                    /\ hours[shift[s].hours] # "far"}

ShiftWarning(t) ==
    /\ IdleTask(t)
    /\ driverShiftsEnabled
    /\ UpcomingShifts # {}
    /\ Continue(t, [op |-> "warn",
                    todo |-> {[shift |-> s, pending |-> swap[s].status = "PENDING"]
                                : s \in UpcomingShifts}])
    /\ UNCHANGED <<hours, capacity, shift, swap, tier, poolLock, driverShiftsEnabled>>

CancelPendingSwap(t) ==
    /\ task[t].op = "warn"
    /\ \E x \in task[t].todo :
          /\ x.pending
          /\ IF swap[x.shift] # NoSwap
             THEN /\ swap' = [swap EXCEPT ![x.shift].status = "CANCELLED"]
                  /\ Continue(t, [task[t] EXCEPT !.todo =
                                    (@ \ {x}) \cup {[x EXCEPT !.pending = FALSE]}])
             ELSE Done(t) /\ UNCHANGED swap
    /\ UNCHANGED <<hours, capacity, shift, tier, poolLock, driverShiftsEnabled>>

MarkWarned(t) ==
    /\ task[t].op = "warn"
    /\ \E x \in task[t].todo :
          /\ ~x.pending
          /\ IF Exists(x.shift)
             THEN /\ shift' = [shift EXCEPT ![x.shift].warned = TRUE]
                  /\ Continue(t, [task[t] EXCEPT !.todo = @ \ {x}])
             ELSE Done(t) /\ UNCHANGED shift
    /\ UNCHANGED <<hours, capacity, swap, tier, poolLock, driverShiftsEnabled>>

JobEnds(t) ==
    /\ task[t].op \in {"overdue", "late", "warn"}
    /\ task[t].todo = {}
    /\ Done(t)
    /\ UNCHANGED <<hours, capacity, shift, swap, tier, poolLock, driverShiftsEnabled>>

-----------------------------------------------------------------------------

RequestNext ==
    \/ UpdateSettings
    \/ \E p \in Pools : Passes(p) \/ GenerateShiftPool(p)
    \/ \E d \in Couriers, s \in Shifts : OfferSwap(d, s)
    \/ \E t \in Calls :
          \/ \E p \in Pools : TerminateShiftPool(t, p)
          \/ \E d \in Couriers, p \in Pools : AdminAssignShift(t, d, p) \/ CreateShift(t, d, p)
          \/ \E d \in Couriers, P \in Weeks \cup {{p} : p \in Pools} : BookShifts(t, d, P)
          \/ \E d \in Couriers, s \in Shifts :
                AcceptSwap(t, d, s) \/ StartShift(t, d, s) \/ EndShift(t, d, s)
          \/ CommitCreate(t) \/ CreateFails(t) \/ CommitBooking(t) \/ BookingFails(t)
          \/ DestroyShifts(t) \/ ClosePool(t) \/ CloseFails(t)
          \/ CommitSwap(t) \/ CommitStart(t)

EndNext(t) == CommitEnd(t) \/ ReadTier(t) \/ PromoteTier(t)

JobStep(t) ==
    \/ EndNext(t) \/ EndShiftBySystem(t)
    \/ MarkMissed(t) \/ DemoteTier(t) \/ CancelPendingSwap(t) \/ MarkWarned(t) \/ JobEnds(t)

JobNext(t) == DriverShiftsChecker(t) \/ LateCheck(t) \/ ShiftWarning(t) \/ JobStep(t)

ShiftsNext ==
    \/ RequestNext
    \/ \E t \in Calls : EndNext(t)
    \/ \E t \in Workers : JobNext(t)

ShiftsSpec == ShiftsInit /\ [][ShiftsNext]_shiftsVars

\* A queue hands its jobs out in order, so that no kind of job waits for ever
\* for the others; a worker goes on with what it has begun.
ShiftsFairness ==
    \A t \in Workers :
        /\ SF_shiftsVars(DriverShiftsChecker(t))
        /\ SF_shiftsVars(LateCheck(t))
        /\ WF_shiftsVars(JobStep(t))

ShiftsFairSpec == ShiftsSpec /\ ShiftsFairness

-----------------------------------------------------------------------------
(* Properties *)

\* Drivers never book a pool beyond its capacity, whatever other bookings, admin
\* assignments and terminations run at the same time (bookWeeklyShifts,
\* bookOvertimeShift).
BookingsWithinCapacity ==
    [][\A p \in Pools :
          (\E s \in Shifts : /\ ~Exists(s) /\ Exists(s)'
                             /\ shift'[s].self /\ shift'[s].pool = p)
             => Cardinality(RowsOf(p)') <= capacity[p]]_shiftsVars

\* A shift that was completed or missed is not started, ended or scheduled again,
\* though start, end and the two jobs work from what they read before; the late
\* check may still call a shift missed that was completed meanwhile.
ClosedStaysClosed ==
    [][\A s \in Shifts :
          (Exists(s) /\ shift[s].status \in ClosedStatuses /\ Exists(s)')
             => shift'[s].status \in {shift[s].status, "MISSED"}]_shiftsVars

\* A shift changes hands by its swap request only, and to somebody else than the
\* driver who offered it; of two drivers who accept at once both are told that
\* they have it, and the later one does (acceptSwap).
HandsChangeBySwap ==
    [][\A s \in Shifts :
          (Exists(s) /\ Exists(s)' /\ shift'[s].driver # shift[s].driver)
             => swap'[s].status = "ACCEPTED" /\ shift'[s].driver # swap'[s].by]_shiftsVars

\* A shift whose hours are over does not stay ACTIVE: the periodic job ends it
\* whatever else happens to its row (handleDriverShiftsChecker).
OverdueEnds ==
    \A s \in Shifts : (s \in OverdueShifts) ~> (s \notin OverdueShifts)

\* Nor does a shift whose driver did not come stay SCHEDULED, although a job dies
\* where it meets a row that is gone, unless an admin has switched shifts off: the
\* late check then does nothing (handle5MinLateCheck).
LateResolved ==
    \A s \in Shifts :
        (s \in LateShifts) ~> (s \notin LateShifts \/ ~driverShiftsEnabled)
=============================================================================
