---------------------------- MODULE OrderLifecycle ----------------------------
(***************************************************************************)
(* One order row and the driver rows it touches, as the request handlers   *)
(* and background jobs of src/src/features/orders change them.             *)
(*                                                                         *)
(* Every handler first READS the order (findById), checks its guards on    *)
(* that copy, and only later WRITES.  Handlers run concurrently, so a step *)
(* of this module is one database statement or transaction, and what a     *)
(* handler read is kept in its record until it writes.  Most writes are a  *)
(* compare-and-set on the status read (OrdersRepository.updateStatus with  *)
(* expectedOldStatus); the admin assignment, the item edit and the second  *)
(* write of a placement are not.                                           *)
(***************************************************************************)
EXTENDS Naturals, FiniteSets

CONSTANTS
    Drivers,        \* driver rows
    NoDriver,       \* the null of orders.driverId
    Handlers,       \* handler executions that can be in flight at once
    MaxOverrides    \* bound on item edits and admin assignments started

ASSUME OrderAssumption ==
    /\ NoDriver \notin Drivers
    /\ IsFiniteSet(Handlers)
    /\ MaxOverrides \in Nat

VARIABLES
    order,          \* the row of table orders
    driverStatus,   \* drivers.status
    handler,        \* what each execution has read and is about to write
    refunds,        \* REFUNDED rows written for the order
    cancellations,  \* times the order became CANCELLED
    overrides       \* item edits and admin assignments started so far

vars == <<order, driverStatus, handler, refunds, cancellations, overrides>>

OrderStatus ==
    {"PENDING", "CHANGES_REQUESTED", "ACCEPTED", "PREPARING",
     "LOOKING_FOR_DRIVER", "PENDING_CUSTOMER_APPROVAL", "DRIVER_ASSIGNED",
     "PENDING_PAYMENT", "READY_FOR_PICKUP", "PICKED_UP", "DELIVERED",
     "CANCELLED"}

\* To these handlers OFFLINE, BUSY and ON_BREAK are what ONLINE is: a driver
\* who is neither suspended nor marked as delivering.
DriverStatus == {"ONLINE", "ON_DELIVERY", "SUSPENDED"}

VendorAllowed(s) ==
    {t \in OrderStatus :
        \/ s = "PENDING" /\ t = "ACCEPTED"
        \/ /\ s \in {"ACCEPTED", "LOOKING_FOR_DRIVER", "DRIVER_ASSIGNED",
                     "PENDING_PAYMENT"}
           /\ t \in {"PREPARING", "READY_FOR_PICKUP"}
        \/ s = "PREPARING" /\ t = "READY_FOR_PICKUP"
        \/ s = "READY_FOR_PICKUP" /\ t = "PICKED_UP"
        \/ s = "PENDING_CUSTOMER_APPROVAL" /\ t = "PREPARING"}

DriverAllowed(s) ==
    {t \in OrderStatus :
        \/ /\ s = "DRIVER_ASSIGNED"
           /\ t \in {"PENDING_PAYMENT", "READY_FOR_PICKUP", "PICKED_UP"}
        \/ s = "PENDING_PAYMENT" /\ t \in {"READY_FOR_PICKUP", "PICKED_UP"}
        \/ s = "READY_FOR_PICKUP" /\ t = "PICKED_UP"
        \/ s = "PICKED_UP" /\ t \in {"DELIVERED", "PENDING_PAYMENT"}}

NonCancellable == {"DELIVERED", "CANCELLED", "PICKED_UP"}
Assignable == {"ACCEPTED", "PREPARING", "READY_FOR_PICKUP", "LOOKING_FOR_DRIVER"}
Editable == {"PENDING", "ACCEPTED"}

\* Where an order goes once it has a driver and needs no further approval.
WithDriver(o) ==
    IF o.method = "MOBILE_WALLET" THEN "PENDING_PAYMENT" ELSE "DRIVER_ASSIGNED"

Idle == [pc |-> "idle", op |-> "none", status |-> "PENDING",
         driver |-> NoDriver, who |-> NoDriver, to |-> "PENDING"]

\* A freshly created row: a total of zero makes it paid; a custom and a direct
\* order get a second, separate status write.  (An upfront amount would make
\* it wait for payment, but every placement sets that amount to zero.)
Init ==
    /\ order \in
        [status : {"PENDING"}, driver : {NoDriver},
         payment : {"PENDING", "PAID"}, method : {"CASH_ON_DELIVERY", "MOBILE_WALLET"},
         coinsUsed : BOOLEAN, placing : {"done", "custom", "direct"}]
    /\ order.placing = "direct" => ~order.coinsUsed
    /\ driverStatus \in [Drivers -> DriverStatus \ {"ON_DELIVERY"}]
    /\ handler = [h \in Handlers |-> Idle]
    /\ refunds = 0
    /\ cancellations = 0
    /\ overrides = 0

-----------------------------------------------------------------------------
(* Steps shared by the handlers *)

\* The handler has read the order and passed its guards.
Start(h, pc, op, who, to) ==
    /\ handler[h].pc = "idle"
    /\ handler' = [handler EXCEPT ![h] =
          [pc |-> pc, op |-> op, status |-> order.status,
           driver |-> order.driver, who |-> who, to |-> to]]

Begin(h, op, who, to) ==
    /\ Start(h, "commit", op, who, to)
    /\ UNCHANGED <<order, driverStatus, refunds, cancellations, overrides>>

Committing(h, op) == handler[h].pc = "commit" /\ handler[h].op = op

Goto(h, pc) ==
    handler' = [handler EXCEPT ![h] =
                    IF pc = "idle" THEN Idle ELSE [@ EXCEPT !.pc = pc]]

\* Mistake: updateStatus without expectedOldStatus.
UnmovedUnchecked(h) == handler[h].pc = "commit"

\* The guard of the compare-and-set: the row still has the status read.
Unmoved(h) == order.status = handler[h].status

\* updateStatus with expectedOldStatus; "pay" is the payment status written
\* in the same statement.
UpdateStatus(h, pay) ==
    /\ Unmoved(h)
    /\ order' = [order EXCEPT !.status = handler[h].to, !.payment = pay]

CountCancelled ==
    cancellations' = IF order.status # "CANCELLED" /\ order'.status = "CANCELLED"
                     THEN cancellations + 1 ELSE cancellations

\* The compare-and-set matches no row: CONCURRENT_STATE_CHANGE is thrown.
Conflict(h) ==
    /\ handler[h].pc = "commit"
    /\ handler[h].op \notin {"edit", "assign", "markPaid", "deny"}
    /\ ~Unmoved(h)
    /\ Goto(h, "idle")
    /\ UNCHANGED <<order, driverStatus, refunds, cancellations, overrides>>

\* The handler that has the driver to release in its copy of the order.
FreeDriver(h) ==
    /\ handler[h].pc = "free"
    /\ driverStatus' = [driverStatus EXCEPT ![handler[h].driver] = "ONLINE"]
    /\ Goto(h, "idle")
    /\ UNCHANGED <<order, refunds, cancellations, overrides>>

\* The process dies: what it had not written yet is never written.
Crash(h) ==
    /\ handler[h].pc # "idle"
    /\ Goto(h, "idle")
    /\ UNCHANGED <<order, driverStatus, refunds, cancellations, overrides>>

-----------------------------------------------------------------------------
(* Placement: the second write of a custom and of a direct order *)

PlaceCustomOrder ==
    /\ order.placing = "custom"
    /\ order' = [order EXCEPT !.status = "LOOKING_FOR_DRIVER", !.placing = "done"]
    /\ UNCHANGED <<driverStatus, handler, refunds, cancellations, overrides>>

AdminPlaceDirectOrder ==
    /\ order.placing = "direct"
    /\ order' = [order EXCEPT !.status = "CHANGES_REQUESTED", !.placing = "done"]
    /\ UNCHANGED <<driverStatus, handler, refunds, cancellations, overrides>>

-----------------------------------------------------------------------------
(* Vendor and driver move the order along their tables *)

VendorUpdateStatus(h) ==
    \E to \in VendorAllowed(order.status) : Begin(h, "transition", NoDriver, to)

DriverUpdateStatus(h, d) ==
    /\ order.driver = d
    /\ \E to \in DriverAllowed(order.status) : Begin(h, "transition", d, to)

ApplyStatusTransition(h) ==
    /\ Committing(h, "transition")
    /\ UpdateStatus(h, order.payment)
    /\ Goto(h, IF handler[h].driver # NoDriver /\ handler[h].to = "DELIVERED"
               THEN "free" ELSE "idle")
    /\ UNCHANGED <<driverStatus, refunds, cancellations, overrides>>

-----------------------------------------------------------------------------
(* The search for a driver *)

\* A DISPATCH job moves an accepted order into the search.
HandleDispatch(h) ==
    /\ order.status = "ACCEPTED"
    /\ Begin(h, "search", NoDriver, "LOOKING_FOR_DRIVER")

StartSearch(h) ==
    /\ Committing(h, "search")
    /\ UpdateStatus(h, order.payment)
    /\ Goto(h, "idle")
    /\ UNCHANGED <<driverStatus, refunds, cancellations, overrides>>

\* A driver accepts a broadcast; "approval" is the platform setting
\* requireCustomerApproval at the time it is read.
HandleAcceptance(h, d) ==
    /\ order.status = "LOOKING_FOR_DRIVER"
    /\ \E approval \in BOOLEAN :
          Begin(h, "accept", d, IF approval THEN "PENDING_CUSTOMER_APPROVAL"
                                ELSE WithDriver(order))

AssignWinner(h) ==
    /\ Committing(h, "accept")
    /\ Unmoved(h)
    /\ order' = [order EXCEPT !.status = handler[h].to, !.driver = handler[h].who]
    /\ driverStatus' = [driverStatus EXCEPT ![handler[h].who] = "ON_DELIVERY"]
    /\ Goto(h, "idle")
    /\ UNCHANGED <<refunds, cancellations, overrides>>

\* An admin picks the driver.  A previous driver is freed by a write of its
\* own; the assignment itself looks neither at the status it overwrites nor
\* at the driver's current status.
AdminForceAssignDriver(h, d) ==
    /\ order.status \in Assignable
    /\ driverStatus[d] # "SUSPENDED"
    /\ overrides < MaxOverrides
    /\ overrides' = overrides + 1
    /\ Start(h, IF order.driver \notin {NoDriver, d} THEN "release" ELSE "commit",
             "assign", d, WithDriver(order))
    /\ UNCHANGED <<order, driverStatus, refunds, cancellations>>

ReleasePrevious(h) ==
    /\ handler[h].pc = "release"
    /\ driverStatus' = [driverStatus EXCEPT ![handler[h].driver] = "ONLINE"]
    /\ Goto(h, "commit")
    /\ UNCHANGED <<order, refunds, cancellations, overrides>>

AssignDriver(h) ==
    /\ Committing(h, "assign")
    /\ order' = [order EXCEPT !.status = handler[h].to, !.driver = handler[h].who]
    /\ driverStatus' = [d \in Drivers |->
          IF d = handler[h].who THEN "ON_DELIVERY"
          ELSE IF d = order.driver THEN "ONLINE"
          ELSE driverStatus[d]]
    /\ Goto(h, "idle")
    /\ UNCHANGED <<refunds, cancellations, overrides>>

-----------------------------------------------------------------------------
(* Customer approval and mobile-wallet payment *)

ApproveOrderFee(h) ==
    /\ order.status = "PENDING_CUSTOMER_APPROVAL"
    /\ Begin(h, "approve", NoDriver, WithDriver(order))

CommitApproval(h) ==
    /\ Committing(h, "approve")
    /\ UpdateStatus(h, order.payment)
    /\ driverStatus' = [d \in Drivers |->
          IF d = handler[h].driver THEN "ON_DELIVERY" ELSE driverStatus[d]]
    /\ Goto(h, "idle")
    /\ UNCHANGED <<refunds, cancellations, overrides>>

CustomerMarkPaid(h) ==
    /\ order.method = "MOBILE_WALLET"
    /\ order.status = "PENDING_PAYMENT"
    /\ Begin(h, "markPaid", NoDriver, "PENDING_PAYMENT")

\* Mistake: the payment is written whatever the status has become.
WritePaymentUnguarded(h, op, pay) ==
    /\ Committing(h, op)
    /\ order' = [order EXCEPT !.payment = pay]
    /\ Goto(h, "idle")
    /\ UNCHANGED <<driverStatus, refunds, cancellations, overrides>>

\* Both writes of the payment status alone are guarded by the status: they
\* match no row, and fail, once the order has left PENDING_PAYMENT.
WritePayment(h, op, pay) ==
    /\ Committing(h, op)
    /\ order' = IF order.status = "PENDING_PAYMENT"
                THEN [order EXCEPT !.payment = pay] ELSE order
    /\ Goto(h, "idle")
    /\ UNCHANGED <<driverStatus, refunds, cancellations, overrides>>

CommitMarkPaid(h) == WritePayment(h, "markPaid", "PAID")

DriverConfirmPayment(h, d) ==
    /\ order.driver = d
    /\ order.status = "PENDING_PAYMENT"
    /\ \/ Begin(h, "confirm", d, "DRIVER_ASSIGNED")
       \/ Begin(h, "deny", d, "PENDING_PAYMENT")

CommitConfirm(h) ==
    /\ Committing(h, "confirm")
    /\ UpdateStatus(h, "COMPLETED")
    /\ Goto(h, "idle")
    /\ UNCHANGED <<driverStatus, refunds, cancellations, overrides>>

CommitDeny(h) == WritePayment(h, "deny", "PENDING")

-----------------------------------------------------------------------------
(* The vendor edits the items; the customer accepts or rejects the change *)

EditOrderItems(h) ==
    /\ order.status \in Editable
    /\ overrides < MaxOverrides
    /\ overrides' = overrides + 1
    /\ Start(h, "commit", "edit", NoDriver, "CHANGES_REQUESTED")
    /\ UNCHANGED <<order, driverStatus, refunds, cancellations>>

\* tx.order.update: no guard on the status it overwrites.
CommitEdit(h) ==
    /\ Committing(h, "edit")
    /\ order' = [order EXCEPT !.status = "CHANGES_REQUESTED"]
    /\ Goto(h, "idle")
    /\ UNCHANGED <<driverStatus, refunds, cancellations, overrides>>

\* Mistake: the order goes on to its driver without looking for one.
AcceptChangesAnyDriver(h) ==
    /\ order.status = "CHANGES_REQUESTED"
    /\ Begin(h, "acceptChanges", NoDriver, WithDriver(order))

AcceptOrderChanges(h) ==
    /\ order.status = "CHANGES_REQUESTED"
    /\ Begin(h, "acceptChanges", NoDriver,
             IF order.driver # NoDriver THEN WithDriver(order) ELSE "ACCEPTED")

RejectOrderChanges(h) ==
    /\ order.status = "CHANGES_REQUESTED"
    /\ Begin(h, "rejectChanges", NoDriver, "CANCELLED")

\* Neither answer does more to the database than the status update: a
\* rejection returns no coins and frees no driver.
AnswerChanges(h) ==
    /\ Committing(h, "acceptChanges") \/ Committing(h, "rejectChanges")
    /\ UpdateStatus(h, order.payment)
    /\ CountCancelled
    /\ Goto(h, "idle")
    /\ UNCHANGED <<driverStatus, refunds, overrides>>

-----------------------------------------------------------------------------
(* Cancellation *)

\* Jobs that cancel look at the status on their own first; cancelOrder then
\* reads the order again and accepts any cancellable status.
SystemCancel(h, op, waiting) ==
    /\ order.status = waiting
    /\ Start(h, "reread", op, NoDriver, "CANCELLED")
    /\ UNCHANGED <<order, driverStatus, refunds, cancellations, overrides>>

AutoCancelPending(h) == SystemCancel(h, "autoCancel", "PENDING")
CancelStuckPayment(h) == SystemCancel(h, "stuckPayment", "PENDING_PAYMENT")
CancelUnapproved(h) == SystemCancel(h, "unapproved", "PENDING_CUSTOMER_APPROVAL")
CancelExhausted(h) == SystemCancel(h, "exhausted", "LOOKING_FOR_DRIVER")

CancelOps == {"cancel", "autoCancel", "stuckPayment", "unapproved", "exhausted"}

\* A user, a vendor member or an admin cancels.
CancelOrder(h) ==
    /\ order.status \notin NonCancellable
    /\ Begin(h, "cancel", NoDriver, "CANCELLED")

RereadForCancel(h) ==
    /\ handler[h].pc = "reread"
    /\ handler' = [handler EXCEPT ![h] =
          IF order.status \in NonCancellable THEN Idle
          ELSE [@ EXCEPT !.pc = "commit", !.status = order.status,
                         !.driver = order.driver]]
    /\ UNCHANGED <<order, driverStatus, refunds, cancellations, overrides>>

\* Mistake: a driver is freed also when the order has none.
AfterRefundAlwaysFree(h) == IF handler[h].pc = "idle" THEN "idle" ELSE "free"

AfterRefund(h) == IF handler[h].driver # NoDriver THEN "free" ELSE "idle"

CommitCancel(h) ==
    /\ handler[h].pc = "commit" /\ handler[h].op \in CancelOps
    /\ UpdateStatus(h, order.payment)
    /\ CountCancelled
    /\ Goto(h, IF order.coinsUsed THEN "refund" ELSE AfterRefund(h))
    /\ UNCHANGED <<driverStatus, refunds, overrides>>

RefundCoins(h) ==
    /\ handler[h].pc = "refund"
    /\ refunds' = refunds + 1
    /\ Goto(h, AfterRefund(h))
    /\ UNCHANGED <<order, driverStatus, cancellations, overrides>>

-----------------------------------------------------------------------------
Read(h) ==
    \/ VendorUpdateStatus(h)
    \/ \E d \in Drivers : DriverUpdateStatus(h, d)
    \/ HandleDispatch(h)
    \/ \E d \in Drivers : HandleAcceptance(h, d)
    \/ \E d \in Drivers : AdminForceAssignDriver(h, d)
    \/ ApproveOrderFee(h)
    \/ CustomerMarkPaid(h)
    \/ \E d \in Drivers : DriverConfirmPayment(h, d)
    \/ EditOrderItems(h)
    \/ AcceptOrderChanges(h)
    \/ RejectOrderChanges(h)
    \/ CancelOrder(h)
    \/ AutoCancelPending(h)
    \/ CancelStuckPayment(h)
    \/ CancelUnapproved(h)
    \/ CancelExhausted(h)

Write(h) ==
    \/ ApplyStatusTransition(h)
    \/ StartSearch(h)
    \/ AssignWinner(h)
    \/ ReleasePrevious(h)
    \/ AssignDriver(h)
    \/ CommitApproval(h)
    \/ CommitMarkPaid(h)
    \/ CommitConfirm(h)
    \/ CommitDeny(h)
    \/ CommitEdit(h)
    \/ AnswerChanges(h)
    \/ RereadForCancel(h)
    \/ CommitCancel(h)
    \/ RefundCoins(h)
    \/ FreeDriver(h)
    \/ Conflict(h)

\* A step of the system while no process dies.
Work ==
    \/ PlaceCustomOrder
    \/ AdminPlaceDirectOrder
    \/ \E h \in Handlers : Read(h) \/ Write(h)

Next == Work \/ \E h \in Handlers : Crash(h)

Spec == Init /\ [][Next]_vars

CrashFreeSpec == Init /\ [][Work]_vars

-----------------------------------------------------------------------------
(* Properties *)

OrderRow ==
    [status : OrderStatus, driver : Drivers \cup {NoDriver},
     payment : {"PENDING", "PAID", "COMPLETED"},
     method : {"CASH_ON_DELIVERY", "MOBILE_WALLET"},
     coinsUsed : BOOLEAN, placing : {"done", "custom", "direct"}]

Ops ==
    {"none", "transition", "search", "accept", "assign", "approve", "markPaid",
     "confirm", "deny", "edit", "acceptChanges", "rejectChanges"} \cup CancelOps

HandlerState ==
    [pc : {"idle", "reread", "release", "commit", "refund", "free"}, op : Ops,
     status : OrderStatus, driver : Drivers \cup {NoDriver},
     who : Drivers \cup {NoDriver}, to : OrderStatus]

\* Every variable stays in its range, and a handler that is about to free a
\* driver has one in its copy of the order.
TypeOK ==
    /\ order \in OrderRow
    /\ driverStatus \in [Drivers -> DriverStatus]
    /\ handler \in [Handlers -> HandlerState]
    /\ \A h \in Handlers :
          /\ handler[h].pc \in {"release", "free"} => handler[h].driver \in Drivers
          /\ handler[h].op \in {"accept", "assign"} => handler[h].who \in Drivers
    /\ refunds \in Nat
    /\ cancellations \in Nat
    /\ overrides \in 0..MaxOverrides

Handover == {"PENDING_CUSTOMER_APPROVAL", "DRIVER_ASSIGNED", "DELIVERED"}

\* An order waiting for the customer's approval, assigned or delivered has a
\* driver, whatever handlers were in flight: settlement of a delivered order
\* without one gives up for good (OrdersProcessor.handleSettle).
DriverBeforeHandover == order.status \in Handover => order.driver \in Drivers

Refunding == {h \in Handlers : handler[h].pc = "refund"}

\* Coins go back at most once per time the order really became CANCELLED,
\* also when several users and jobs cancel it at the same moment.
RefundsWithinCancellations == refunds <= cancellations

\* Moves of the order's status the code names: the two tables, the search,
\* the acceptance, the answers of the customer and the cancellation.
Move(s, t) ==
    \/ t \in VendorAllowed(s) \cup DriverAllowed(s)
    \/ s \notin NonCancellable /\ t = "CANCELLED"
    \/ s = "ACCEPTED" /\ t = "LOOKING_FOR_DRIVER"
    \/ s = "LOOKING_FOR_DRIVER" /\ t = "PENDING_CUSTOMER_APPROVAL"
    \/ /\ s \in {"LOOKING_FOR_DRIVER", "PENDING_CUSTOMER_APPROVAL",
                 "CHANGES_REQUESTED"}
       /\ t \in {"PENDING_PAYMENT", "DRIVER_ASSIGNED"}
    \/ s = "PENDING_PAYMENT" /\ t = "DRIVER_ASSIGNED"
    \/ s = "CHANGES_REQUESTED" /\ t = "ACCEPTED"

Overriding ==
    \/ order.placing # order'.placing
    \/ \E h \in Handlers :
          handler[h].op \in {"edit", "assign"} /\ handler'[h].pc = "idle"

\* However late a handler writes, the status moves only along the named
\* moves from the status the row has THEN, not the one the handler saw; in
\* particular CANCELLED and DELIVERED are left only by the writes that carry
\* no guard: item edits, admin assignments and the end of a placement.
StatusMovesAlongTables ==
    [][order.status # order'.status =>
          Move(order.status, order'.status) \/ Overriding]_vars

\* A payment the driver confirmed is taken back only while the order waits
\* for payment again: a late "I paid" of the customer, or a late denial, that
\* was read before the confirmation does not overwrite it.
ConfirmedPaymentStands ==
    [][order.payment = "COMPLETED" /\ order'.payment # "COMPLETED"
          => order.status = "PENDING_PAYMENT"]_vars

\* Only the driver the order is assigned to delivers it.
\* (driverUpdateStatus refuses others with NOT_ASSIGNED_TO_ORDER.)
DeliveredByItsDriver ==
    [][\A h \in Handlers :
          order.status # "DELIVERED" /\ order'.status = "DELIVERED"
             /\ handler[h] # handler'[h]
          => handler[h].who = order.driver]_vars

\* A job that cancels with "No drivers accepted the order after maximum
\* attempts" cancels an order without a driver, and one that cancels with
\* "Customer did not approve the final fee in time" an order not approved.
TimeoutsCancelUnanswered ==
    [][\A h \in Handlers :
          order.status # "CANCELLED" /\ order'.status = "CANCELLED"
             /\ handler[h] # handler'[h]
          => /\ handler[h].op = "exhausted" => order.driver = NoDriver
             /\ handler[h].op = "unapproved" =>
                   order.status \notin {"DRIVER_ASSIGNED", "PENDING_PAYMENT"}]_vars

\* Once nothing is in flight, the coins spent on a cancelled order are back.
CancelledCoinsReturned ==
    (/\ order.status = "CANCELLED" /\ order.coinsUsed
     /\ \A h \in Handlers : handler[h].pc = "idle") => refunds > 0

=============================================================================
