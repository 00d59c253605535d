-------------------------------- MODULE Dispatch --------------------------------
(***************************************************************************)
(* The search for a driver of one order: DISPATCH and DISPATCH_EXPIRE jobs *)
(* of the dispatch queue, the answers of drivers, and the keys they share  *)
(* in Redis.                                                               *)
(*                                                                         *)
(* A broadcast is a key otlobegy:dispatch:<id> with the drivers asked, an  *)
(* expiry job, and a set of those who rejected.  A job that found drivers  *)
(* ends; the search goes on through the expiry job, through the last       *)
(* rejection, or through the monitor of stuck orders.  Each handler is a   *)
(* task that takes one step per read or write of shared state, so tasks    *)
(* of the same broadcast interleave.                                       *)
(***************************************************************************)
EXTENDS Naturals, FiniteSets

CONSTANTS
    Drivers, NoDriver,
    Broadcasts, NoBroadcast,    \* dispatch ids; a bound on broadcasts sent
    Tasks,                      \* jobs and requests that exist at once
    MaxAttempts,                \* driverSearchMaxAttempts
    MaxOverrides,               \* bound on item edits and admin assignments
    MaxCrashes                  \* bound on tasks and keys lost

ASSUME DispatchAssumption ==
    /\ NoDriver \notin Drivers
    /\ NoBroadcast \notin Broadcasts
    /\ MaxAttempts \in Nat /\ MaxOverrides \in Nat /\ MaxCrashes \in Nat

VARIABLES
    status,     \* orders.status
    driver,     \* orders.driverId
    accepted,   \* ACCEPTED rows of order_dispatches: <<broadcast, driver>>
    info,       \* the value of otlobegy:dispatch:<id> once written
    live,       \* broadcasts whose key exists
    expired,    \* broadcasts whose expiresAt has passed
    active,     \* otlobegy:order-dispatch-active
    rejected,   \* otlobegy:dispatch:<id>:rejected
    expireJobs, \* broadcasts whose expiry job is queued
    task,       \* queued DISPATCH jobs and running handlers
    announced,  \* notify:order_status:<id>:ACCEPTED
    overrides,
    crashes

order == <<status, driver, accepted>>
redis == <<info, live, expired, active, rejected>>
vars == <<order, redis, expireJobs, task, announced, overrides, crashes>>

\* "DRIVER_ASSIGNED" stands also for PENDING_CUSTOMER_APPROVAL and
\* PENDING_PAYMENT, "PREPARING" also for READY_FOR_PICKUP.
OrderStatus ==
    {"PENDING", "ACCEPTED", "CHANGES_REQUESTED", "LOOKING_FOR_DRIVER",
     "PREPARING", "DRIVER_ASSIGNED", "CANCELLED"}
Dispatchable == {"ACCEPTED", "LOOKING_FOR_DRIVER"}

Free == [op |-> "none", pc |-> "free", id |-> NoBroadcast, driver |-> NoDriver,
         attempt |-> 1, exclude |-> {}]

DispatchJob(attempt, exclude) ==
    [Free EXCEPT !.op = "dispatch", !.pc = "waiting", !.attempt = attempt,
                 !.exclude = exclude]

CancelActive == [Free EXCEPT !.op = "cancel", !.pc = "cancelRead"]

Init ==
    /\ status = "PENDING"
    /\ driver = NoDriver
    /\ accepted = {}
    /\ info = [b \in Broadcasts |-> [asked |-> {}, attempt |-> 1, exclude |-> {}]]
    /\ live = {}
    /\ expired = {}
    /\ active = NoBroadcast
    /\ rejected = [b \in Broadcasts |-> {}]
    /\ expireJobs = {}
    /\ task = [t \in Tasks |-> Free]
    /\ announced = FALSE
    /\ overrides = 0
    /\ crashes = 0

-----------------------------------------------------------------------------
(* Steps shared by the handlers *)

Become(t, new) == task' = [task EXCEPT ![t] = new]
Goto(t, pc) == task' = [task EXCEPT ![t].pc = pc]
End(t) == Become(t, Free)
At(t, op, pc) == task[t].op = op /\ task[t].pc = pc

\* A new job or event handler.
Spawn(new) == \E t \in Tasks : task[t].pc = "free" /\ Become(t, new)

\* Move on while such a handler runs beside.
Fork(t, pc, new) ==
    \E u \in Tasks \ {t} :
        /\ task[u].pc = "free"
        /\ task' = [task EXCEPT ![t].pc = pc, ![u] = new]

DelDispatch(b) ==
    /\ live' = live \ {b}
    /\ active' = NoBroadcast
    /\ rejected' = [rejected EXCEPT ![b] = {}]
    /\ UNCHANGED <<info, expired>>

\* Mistake: the driver is not looked up among those asked.
AnswerableAnyDriver(b, d) ==
    /\ b \in live \ expired
    /\ d \notin rejected[b]

\* The same driver may answer a broadcast as long as this holds.
Answerable(b, d) ==
    /\ b \in live \ expired
    /\ d \in info[b].asked
    /\ d \notin rejected[b]

-----------------------------------------------------------------------------
(* The order's side: other requests that start or end the search *)

\* A listener adds the first DISPATCH job, or fails before.
FirstJob ==
    \/ Spawn(DispatchJob(1, {})) /\ UNCHANGED crashes
    \/ /\ crashes < MaxCrashes
       /\ crashes' = crashes + 1
       /\ UNCHANGED task

\* The listener of ACCEPTED first takes a key for four hours: a second such
\* event adds no job, even if the first listener failed in between.
AnnounceAccepted ==
    /\ announced' = TRUE
    /\ IF announced THEN UNCHANGED <<task, crashes>> ELSE FirstJob

VendorAccepts ==
    /\ status = "PENDING"
    /\ status' = "ACCEPTED"
    /\ AnnounceAccepted
    /\ UNCHANGED <<driver, accepted, redis, expireJobs, overrides>>

\* A custom order has no vendor: it is placed as searched for, and the
\* listener of ORDER_CREATED adds the job.
PlaceCustomOrder ==
    /\ status = "PENDING"
    /\ status' = "LOOKING_FOR_DRIVER"
    /\ FirstJob
    /\ UNCHANGED <<driver, accepted, redis, expireJobs, announced, overrides>>

\* The edit checks the status and later writes without comparing, so it may
\* land on whatever the order has become.
EditOrderItems ==
    /\ status \in {"PENDING", "ACCEPTED"}
    /\ overrides < MaxOverrides
    /\ overrides' = overrides + 1
    /\ Spawn([Free EXCEPT !.op = "edit", !.pc = "override"])
    /\ UNCHANGED <<order, redis, expireJobs, announced, crashes>>

CommitEdit(t) ==
    /\ At(t, "edit", "override")
    /\ status' = "CHANGES_REQUESTED"
    /\ End(t)
    /\ UNCHANGED <<driver, accepted, redis, expireJobs, announced, overrides, crashes>>

\* The customer agrees to the edit; no search for an order with a driver.
AcceptOrderChanges ==
    /\ status = "CHANGES_REQUESTED"
    /\ IF driver = NoDriver
       THEN status' = "ACCEPTED" /\ AnnounceAccepted
       ELSE status' = "DRIVER_ASSIGNED" /\ UNCHANGED <<task, announced, crashes>>
    /\ UNCHANGED <<driver, accepted, redis, expireJobs, overrides>>

\* A vendor can prepare an order whose driver is still being searched.
VendorPrepares ==
    /\ status \in Dispatchable \cup {"DRIVER_ASSIGNED"}
    /\ status' = "PREPARING"
    /\ UNCHANGED <<driver, accepted, redis, expireJobs, task, overrides, announced, crashes>>

\* So does the admin assignment, which then cancels the active broadcast.
AdminForceAssignDriver(d) ==
    /\ status \in Dispatchable \cup {"PREPARING"}
    /\ overrides < MaxOverrides
    /\ overrides' = overrides + 1
    /\ Spawn([Free EXCEPT !.op = "assign", !.pc = "override", !.driver = d])
    /\ UNCHANGED <<order, redis, expireJobs, announced, crashes>>

AssignDriver(t) ==
    /\ At(t, "assign", "override")
    /\ status' = "DRIVER_ASSIGNED"
    /\ driver' = task[t].driver
    /\ Become(t, CancelActive)
    /\ UNCHANGED <<accepted, redis, expireJobs, announced, overrides, crashes>>

CancelOrder ==
    /\ status # "CANCELLED"
    /\ status' = "CANCELLED"
    /\ Spawn(CancelActive)
    /\ UNCHANGED <<driver, accepted, redis, expireJobs, announced, overrides, crashes>>

\* Mistake: accepted orders that never reached the search are forgotten.
StuckLookingOnly == {"LOOKING_FOR_DRIVER"}

Stuck == Dispatchable

\* Every two minutes, for orders that stayed in the search too long.
StuckOrderMonitor ==
    /\ status \in Stuck
    /\ \A t \in Tasks : ~At(t, "dispatch", "waiting")
    /\ Spawn(DispatchJob(1, {}))
    /\ UNCHANGED <<order, redis, expireJobs, announced, overrides, crashes>>

-----------------------------------------------------------------------------
(* A DISPATCH job *)

\* Read the status; move an accepted order into the search.
HandleDispatch(t) ==
    /\ At(t, "dispatch", "waiting")
    /\ IF status \notin Dispatchable
       THEN End(t) /\ UNCHANGED status
       ELSE /\ Goto(t, IF task[t].attempt > MaxAttempts THEN "exhausted" ELSE "attempt")
            /\ status' = "LOOKING_FOR_DRIVER"
    /\ UNCHANGED <<driver, accepted, redis, expireJobs, announced, overrides, crashes>>

NextAttempt(t) ==
    Become(t, DispatchJob(task[t].attempt + 1, task[t].exclude))

\* cancelOrder, which takes whatever status the order has by now.
Exhausted(t) ==
    /\ At(t, "dispatch", "exhausted")
    /\ IF status = "CANCELLED" THEN End(t) /\ UNCHANGED status
       ELSE status' = "CANCELLED" /\ Become(t, CancelActive)
    /\ UNCHANGED <<driver, accepted, redis, expireJobs, announced, overrides, crashes>>

\* Nobody is asked: the order left the search or no driver is near.
NobodyToAsk(t) ==
    /\ At(t, "dispatch", "attempt")
    /\ NextAttempt(t)
    /\ UNCHANGED <<order, redis, expireJobs, announced, overrides, crashes>>

\* Some online drivers outside the exclude list; the driver field is not
\* used, the chosen ones travel in exclude until the broadcast is written.
SelectDrivers(t) ==
    /\ At(t, "dispatch", "attempt")
    /\ status = "LOOKING_FOR_DRIVER"
    /\ \E S \in SUBSET (Drivers \ task[t].exclude), b \in Broadcasts :
          /\ S # {}
          /\ info[b].asked = {}
          /\ info' = [info EXCEPT ![b] = [asked |-> S, attempt |-> task[t].attempt,
                                          exclude |-> task[t].exclude \cup S]]
          /\ Become(t, [task[t] EXCEPT !.pc = "send", !.id = b])
    /\ UNCHANGED <<order, live, expired, active, rejected, expireJobs, announced, overrides, crashes>>

\* The keys and the expiry job; the order is not looked at again.
SendBroadcast(t) ==
    /\ At(t, "dispatch", "send")
    /\ live' = live \cup {task[t].id}
    /\ active' = task[t].id
    /\ expireJobs' = expireJobs \cup {task[t].id}
    /\ End(t)
    /\ UNCHANGED <<order, info, expired, rejected, announced, overrides, crashes>>

\* expiresAt passes.
Timeout(b) ==
    /\ b \in live \ expired
    /\ expired' = expired \cup {b}
    /\ UNCHANGED <<order, info, live, active, rejected, expireJobs, task, announced, overrides, crashes>>

-----------------------------------------------------------------------------
(* A DISPATCH_EXPIRE job *)

StartExpiry(b) ==
    /\ b \in expireJobs \cap expired
    /\ expireJobs' = expireJobs \ {b}
    /\ Spawn([Free EXCEPT !.op = "expire", !.pc = "expire", !.id = b])
    /\ UNCHANGED <<order, redis, announced, overrides, crashes>>

ReadExpired(t) ==
    /\ At(t, "expire", "expire")
    /\ IF task[t].id \in live THEN Goto(t, "expireClean") ELSE End(t)
    /\ UNCHANGED <<order, redis, expireJobs, announced, overrides, crashes>>

CleanExpired(t) ==
    /\ At(t, "expire", "expireClean")
    /\ DelDispatch(task[t].id)
    /\ Goto(t, "requeue")
    /\ UNCHANGED <<order, expireJobs, announced, overrides, crashes>>

Requeue(t) ==
    LET b == info[task[t].id]
    IN  Become(t, DispatchJob(b.attempt + 1, b.exclude))

RequeueExpired(t) ==
    /\ At(t, "expire", "requeue")
    /\ Requeue(t)
    /\ UNCHANGED <<order, redis, expireJobs, announced, overrides, crashes>>

-----------------------------------------------------------------------------
(* A driver accepts: respondToDispatch, handleAcceptance and its listeners *)

VerifyPendingDispatch(b, d, op) ==
    /\ Answerable(b, d)
    /\ Spawn([Free EXCEPT !.op = op, !.pc = "verified", !.id = b, !.driver = d])
    /\ UNCHANGED <<order, redis, expireJobs, announced, overrides, crashes>>

\* A key gone, a time passed or an order that is no longer searched end
\* handleAcceptance without an error; a rejection of one's own throws.
HandleAcceptance(t) ==
    LET b == task[t].id
    IN  /\ At(t, "accept", "verified")
        /\ IF b \in live \ expired /\ task[t].driver \in rejected[b] THEN End(t)
           ELSE Goto(t, IF b \in live \ expired /\ status = "LOOKING_FOR_DRIVER"
                        THEN "assign" ELSE "answer")
        /\ UNCHANGED <<order, redis, expireJobs, announced, overrides, crashes>>

\* Mistake: updateMany without the status in its where clause.
StillLookingUnchecked == status # "CANCELLED"

StillLooking == status = "LOOKING_FOR_DRIVER"

\* The transaction: the ACCEPTED row and the guarded update, or neither.
AssignWinner(t) ==
    /\ At(t, "accept", "assign")
    /\ IF StillLooking
       THEN /\ accepted' = accepted \cup {<<task[t].id, task[t].driver>>}
            /\ status' = "DRIVER_ASSIGNED"
            /\ driver' = task[t].driver
            /\ Goto(t, "cleanup")
       ELSE End(t) /\ UNCHANGED order
    /\ UNCHANGED <<redis, expireJobs, announced, overrides, crashes>>

\* Without customer approval the event of the new status also starts a
\* listener that cancels the order's active broadcast.
CleanUpAccepted(t) ==
    /\ At(t, "accept", "cleanup")
    /\ DelDispatch(task[t].id)
    /\ Goto(t, "answer") \/ Fork(t, "answer", CancelActive)
    /\ UNCHANGED <<order, expireJobs, announced, overrides, crashes>>

\* ORDER_DISPATCH_RESPONDED with ACCEPTED: the listener removes the expiry job.
Answer(t) ==
    /\ At(t, "accept", "answer")
    /\ expireJobs' = expireJobs \ {task[t].id}
    /\ End(t)
    /\ UNCHANGED <<order, redis, announced, overrides, crashes>>

-----------------------------------------------------------------------------
(* A driver rejects *)

\* SADD says whether the driver is new to the set.
HandleRejection(t) ==
    LET b == task[t].id
        d == task[t].driver
    IN  /\ At(t, "reject", "verified")
        /\ IF Answerable(b, d)
           THEN rejected' = [rejected EXCEPT ![b] = @ \cup {d}] /\ Goto(t, "count")
           ELSE End(t) /\ UNCHANGED rejected
        /\ UNCHANGED <<order, info, live, expired, active, expireJobs, announced, overrides, crashes>>

CountRejections(t) ==
    LET b == task[t].id
    IN  /\ At(t, "reject", "count")
        /\ IF Cardinality(rejected[b]) >= Cardinality(info[b].asked)
           THEN Goto(t, "rejectClean") ELSE End(t)
        /\ UNCHANGED <<order, redis, expireJobs, announced, overrides, crashes>>

CleanRejected(t) ==
    /\ At(t, "reject", "rejectClean")
    /\ DelDispatch(task[t].id)
    /\ Goto(t, "requeue")
    /\ UNCHANGED <<order, expireJobs, announced, overrides, crashes>>

\* With the expiry job at hand, waiting or among the thirty last completed,
\* the chain goes on from its data.  Without it the chain starts over with
\* the rejected set, which has just been deleted.  Removing a job that is
\* running throws.
RequeueRejected(t) ==
    /\ At(t, "reject", "requeue")
    /\ IF \E u \in Tasks : task[u].op = "expire" /\ task[u].id = task[t].id
       THEN End(t) /\ UNCHANGED expireJobs
       ELSE IF task[t].id \in expireJobs
       THEN /\ expireJobs' = expireJobs \ {task[t].id}
            /\ Requeue(t)
       ELSE /\ \/ Requeue(t)
               \/ Become(t, DispatchJob(1, rejected[task[t].id]))
            /\ UNCHANGED expireJobs
    /\ UNCHANGED <<order, redis, announced, overrides, crashes>>

-----------------------------------------------------------------------------
(* cancelActiveDispatch *)

CancelRead(t) ==
    /\ task[t].pc = "cancelRead"
    /\ IF active \in live
       THEN Become(t, [task[t] EXCEPT !.pc = "cancelClean", !.id = active])
       ELSE End(t)
    /\ UNCHANGED <<order, redis, expireJobs, announced, overrides, crashes>>

CancelClean(t) ==
    /\ task[t].pc = "cancelClean"
    /\ DelDispatch(task[t].id)
    /\ End(t)
    /\ UNCHANGED <<order, expireJobs, announced, overrides, crashes>>

-----------------------------------------------------------------------------
(* Losses *)

\* A process dies or a call throws.  Jobs are retried from their start;
\* what a request or an event handler still had to do is lost.
Crash(t) ==
    /\ task[t].pc \notin {"free", "waiting"}
    /\ crashes < MaxCrashes
    /\ crashes' = crashes + 1
    /\ IF task[t].op = "dispatch"
       THEN Become(t, DispatchJob(task[t].attempt, task[t].exclude)) /\ UNCHANGED expireJobs
       ELSE /\ End(t)
            /\ expireJobs' = IF task[t].op = "expire" THEN expireJobs \cup {task[t].id}
                             ELSE expireJobs
    /\ UNCHANGED <<order, redis, announced, overrides>>

\* The key outlives expiresAt by five minutes only.
KeyTtl(b) ==
    /\ b \in live \cap expired
    /\ crashes < MaxCrashes
    /\ crashes' = crashes + 1
    /\ live' = live \ {b}
    /\ active' = IF active = b THEN NoBroadcast ELSE active
    /\ UNCHANGED <<order, info, expired, rejected, expireJobs, task, announced, overrides>>

-----------------------------------------------------------------------------
Run(t) ==
    \/ HandleDispatch(t) \/ Exhausted(t) \/ NobodyToAsk(t) \/ SelectDrivers(t)
    \/ SendBroadcast(t)
    \/ ReadExpired(t) \/ CleanExpired(t) \/ RequeueExpired(t)
    \/ HandleAcceptance(t) \/ AssignWinner(t) \/ CleanUpAccepted(t) \/ Answer(t)
    \/ HandleRejection(t) \/ CountRejections(t) \/ CleanRejected(t) \/ RequeueRejected(t)
    \/ CancelRead(t) \/ CancelClean(t)
    \/ CommitEdit(t) \/ AssignDriver(t)

Others ==
    \/ VendorAccepts \/ PlaceCustomOrder \/ EditOrderItems \/ AcceptOrderChanges \/ VendorPrepares
    \/ CancelOrder
    \/ \E d \in Drivers : AdminForceAssignDriver(d)
    \/ \E b \in Broadcasts, d \in Drivers, op \in {"accept", "reject"} :
          VerifyPendingDispatch(b, d, op)

Next ==
    \/ Others
    \/ StuckOrderMonitor
    \/ \E t \in Tasks : Run(t) \/ Crash(t)
    \/ \E b \in Broadcasts : Timeout(b) \/ StartExpiry(b) \/ KeyTtl(b)

Spec == Init /\ [][Next]_vars

\* The workers take up what is queued, delays pass, and the monitor's
\* schedule repeats.  Nobody else, vendor, admin or driver, need ever act.
FairSpec ==
    /\ Spec
    /\ \A t \in Tasks : WF_vars(Run(t))
    /\ \A b \in Broadcasts : WF_vars(Timeout(b)) /\ WF_vars(StartExpiry(b))
    /\ WF_vars(StuckOrderMonitor)

-----------------------------------------------------------------------------
(* Properties *)

Op == {"none", "dispatch", "expire", "accept", "reject", "cancel", "edit", "assign"}
Pc == {"free", "waiting", "exhausted", "attempt", "send", "expire", "expireClean",
       "requeue", "verified", "assign", "cleanup", "answer", "count",
       "rejectClean", "cancelRead", "cancelClean", "override"}

Task ==
    [op : Op, pc : Pc, id : Broadcasts \cup {NoBroadcast},
     driver : Drivers \cup {NoDriver}, attempt : Nat, exclude : SUBSET Drivers]

\* Every variable has its range, the driver of an order that reached
\* DRIVER_ASSIGNED is known, and whoever answers a broadcast was asked in it.
TypeOK ==
    /\ status \in OrderStatus
    /\ driver \in Drivers \cup {NoDriver}
    /\ status = "DRIVER_ASSIGNED" => driver # NoDriver
    /\ accepted \subseteq Broadcasts \X Drivers
    /\ info \in [Broadcasts -> [asked : SUBSET Drivers, attempt : Nat,
                                exclude : SUBSET Drivers]]
    /\ live \subseteq Broadcasts /\ expired \subseteq Broadcasts
    /\ active \in Broadcasts \cup {NoBroadcast}
    /\ rejected \in [Broadcasts -> SUBSET Drivers]
    /\ expireJobs \subseteq Broadcasts
    /\ task \in [Tasks -> Task]
    /\ \A t \in Tasks :
          /\ \/ task[t].op \in {"expire", "accept", "reject"}
             \/ task[t].pc \in {"send", "verified", "assign", "cancelClean"}
             => task[t].id \in Broadcasts
          /\ task[t].pc \in {"verified", "assign"} =>
                task[t].driver \in info[task[t].id].asked
          /\ task[t].op = "assign" => task[t].driver \in Drivers
    /\ announced \in BOOLEAN
    /\ overrides \in Nat /\ crashes \in Nat

\* However the rounds, duplicate chains, answers and losses interleave, one
\* ACCEPTED row at most is written for an order, and never one for an order
\* that is still, or again, being offered around.
SingleWinner ==
    /\ \A x, y \in accepted : x = y
    /\ accepted # {} => driver # NoDriver /\ status \notin Dispatchable

\* The keys and jobs implement the search: an order is won while searched,
\* once, by a driver it was offered to; no step revives a search after that.
Search ==
    INSTANCE DriverSearch WITH
        searching <- status \in Dispatchable,
        asked <- UNION {info[b].asked : b \in Broadcasts},
        winners <- {x[2] : x \in accepted}
ImplementsSearch == Search!Spec

\* A search ends although jobs are lost and the order's second ACCEPTED
\* event is swallowed: attempts run out, or the monitor starts a new chain.
SearchEnds == status \in Dispatchable ~> status \notin Dispatchable

\* orders-state.service.ts: "Emit purely for analytical tracking after
\* successful assignment".  A driver whose request reaches this point with
\* ACCEPTED has been assigned.
AcceptedMeansAssigned ==
    \A t \in Tasks : At(t, "accept", "answer") => <<task[t].id, task[t].driver>> \in accepted

=============================================================================
