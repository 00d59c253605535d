------------------------- MODULE OrderLifecycleProofs -------------------------
(***************************************************************************)
(* What OrderLifecycle guarantees for any number of drivers and of         *)
(* handlers in flight.  The inductive invariant says of every handler that *)
(* is about to write what its read established: the move it will make is a *)
(* named one from the status it saw, and a move that hands the order over  *)
(* was read when the order had a driver, which it cannot lose.             *)
(***************************************************************************)
EXTENDS OrderLifecycle, FiniteSetTheorems, TLAPS

Unguarded == {"edit", "assign", "markPaid", "deny"}

\* A handler that will compare-and-set moves along the tables from what it saw.
InFlightMoves ==
    \A h \in Handlers :
        handler[h].pc = "commit" /\ handler[h].op \notin Unguarded
            => Move(handler[h].status, handler[h].to)

\* Unless it brings the driver itself, a handler that hands the order over
\* does so to a driver the order has.
InFlightHandovers ==
    \A h \in Handlers :
        /\ handler[h].pc = "commit"
        /\ handler[h].op \notin {"accept", "assign", "edit"}
        /\ handler[h].to \in Handover
        => order.driver \in Drivers

InFlightTargets ==
    \A h \in Handlers :
        /\ handler[h].op \in CancelOps => handler[h].to = "CANCELLED"
        /\ handler[h].op = "search" => handler[h].to = "LOOKING_FOR_DRIVER"
        /\ handler[h].pc = "reread" => handler[h].op \in CancelOps
        /\ handler[h].pc = "release" => handler[h].op = "assign"

RefundsCounted == refunds + Cardinality(Refunding) <= cancellations

IInv ==
    /\ TypeOK
    /\ DriverBeforeHandover
    /\ InFlightMoves
    /\ InFlightHandovers
    /\ InFlightTargets
    /\ RefundsCounted

-----------------------------------------------------------------------------
(* The tables *)

\* What vendors and drivers can ask for, read off the two tables.
LEMMA TableTargets ==
    ASSUME NEW s \in OrderStatus
    PROVE  /\ VendorAllowed(s) \subseteq {"ACCEPTED", "PREPARING",
                                          "READY_FOR_PICKUP", "PICKED_UP"}
           /\ DriverAllowed(s) \subseteq {"PENDING_PAYMENT", "READY_FOR_PICKUP",
                                          "PICKED_UP", "DELIVERED"}
BY DEF VendorAllowed, DriverAllowed, OrderStatus

\* A named move ends in CANCELLED only from a cancellable status.
LEMMA CancelMoves ==
    ASSUME NEW s \in OrderStatus, Move(s, "CANCELLED")
    PROVE  s \notin NonCancellable
BY TableTargets DEF Move, NonCancellable, OrderStatus

-----------------------------------------------------------------------------
(* Counting the handlers that owe a refund *)

LEMMA RefundingFinite ==
    IsFiniteSet(Refunding) /\ Cardinality(Refunding) \in Nat
<1>1. IsFiniteSet(Handlers)
  BY OrderAssumption
<1>2. Refunding \subseteq Handlers
  BY DEF Refunding
<1> QED
  BY <1>1, <1>2, FS_Subset, FS_CardinalityType

LEMMA AddOne ==
    ASSUME NEW S, IsFiniteSet(S), NEW x
    PROVE  /\ IsFiniteSet(S \cup {x})
           /\ Cardinality(S \cup {x}) <= Cardinality(S) + 1
<1>1. Cardinality(S) \in Nat
  BY FS_CardinalityType
<1>2. CASE x \in S
  <2>1. S \cup {x} = S
    BY <1>2
  <2>2. Cardinality(S \cup {x}) <= Cardinality(S) + 1
    BY <1>1, <2>1, SMT
  <2>3. IsFiniteSet(S \cup {x})
    BY <2>1, Zenon
  <2> QED
    BY <2>2, <2>3
<1>3. CASE x \notin S
  <2>1. IsFiniteSet(S \cup {x}) /\ Cardinality(S \cup {x}) = Cardinality(S) + 1
    BY <1>3, FS_AddElement
  <2> QED
    BY <1>1, <2>1
<1> QED
  BY <1>2, <1>3

-----------------------------------------------------------------------------
(* One lemma for all reads, one for all writes *)

\* A read changes only the reader's record.
LEMMA ReadStep ==
    ASSUME IInv,
           NEW h \in Handlers,
           NEW pc \in {"commit", "release", "reread"},
           NEW op \in Ops,
           NEW who \in Drivers \cup {NoDriver},
           NEW to \in OrderStatus,
           Start(h, pc, op, who, to),
           UNCHANGED <<order, driverStatus, refunds, cancellations>>,
           overrides' \in 0..MaxOverrides,
           pc = "release" => order.driver \in Drivers,
           op \in {"accept", "assign"} => who \in Drivers,
           pc = "commit" /\ op \notin Unguarded => Move(order.status, to),
           /\ pc = "commit" /\ op \notin {"accept", "assign", "edit"}
           /\ to \in Handover
           => order.driver \in Drivers,
           op \in CancelOps => to = "CANCELLED",
           pc = "reread" => op \in CancelOps,
           pc = "release" => op = "assign",
           op = "search" => to = "LOOKING_FOR_DRIVER"
    PROVE  IInv'
<1> DEFINE new == [pc |-> pc, op |-> op, status |-> order.status,
                   driver |-> order.driver, who |-> who, to |-> to]
<1>1. /\ handler' = [handler EXCEPT ![h] = new]
      /\ handler[h].pc = "idle"
      /\ handler \in [Handlers -> HandlerState]
  BY DEF Start, IInv, TypeOK
<1>2. new \in HandlerState
  BY DEF IInv, TypeOK, OrderRow, HandlerState
<1>3. /\ handler' \in [Handlers -> HandlerState]
      /\ handler'[h] = new
      /\ \A g \in Handlers \ {h} : handler'[g] = handler[g]
  BY <1>1, <1>2
<1> HIDE DEF new
<1>f. /\ new.pc = pc /\ new.op = op /\ new.status = order.status
      /\ new.driver = order.driver /\ new.who = who /\ new.to = to
  BY DEF new
<1>4. TypeOK'
  BY <1>3, <1>f DEF IInv, TypeOK
<1>5. DriverBeforeHandover'
  BY DEF IInv, DriverBeforeHandover
<1>6. InFlightMoves'
  BY <1>3, <1>f DEF IInv, InFlightMoves
<1>7. InFlightHandovers'
  BY <1>3, <1>f DEF IInv, InFlightHandovers
<1>8. InFlightTargets'
  BY <1>3, <1>f DEF IInv, InFlightTargets
<1>9. Refunding' = Refunding
  BY <1>1, <1>3, <1>f DEF Refunding
<1>10. RefundsCounted'
  BY <1>9 DEF IInv, RefundsCounted
<1> QED
  BY <1>4, <1>5, <1>6, <1>7, <1>8, <1>10 DEF IInv

\* A write ends its handler or moves it on, and may not take the driver away.
LEMMA WriteStep ==
    ASSUME IInv,
           NEW h \in Handlers,
           NEW pc \in {"idle", "commit", "refund", "free"},
           Goto(h, pc),
           order' \in OrderRow,
           driverStatus' \in [Drivers -> DriverStatus],
           overrides' = overrides,
           order.driver \in Drivers => order'.driver \in Drivers,
           order'.status \in Handover => order'.driver \in Drivers,
           pc = "commit" => handler[h].op = "assign",
           pc = "free" => handler[h].driver \in Drivers,
           refunds' \in Nat,
           cancellations' \in Nat,
           RefundsCounted'
    PROVE  IInv'
<1> DEFINE new == IF pc = "idle" THEN Idle ELSE [handler[h] EXCEPT !.pc = pc]
<1>1. /\ handler' = [handler EXCEPT ![h] = new]
      /\ handler \in [Handlers -> HandlerState]
      /\ handler[h] \in HandlerState
  BY DEF Goto, IInv, TypeOK
<1>2. new \in HandlerState
  BY <1>1 DEF HandlerState, Idle, Ops, OrderStatus
<1>3. /\ handler' \in [Handlers -> HandlerState]
      /\ handler'[h] = new
      /\ \A g \in Handlers \ {h} : handler'[g] = handler[g]
  BY <1>1, <1>2
<1>f. \/ /\ pc = "idle"
         /\ new.pc = "idle" /\ new.op = "none"
      \/ /\ pc # "idle"
         /\ new.pc = pc /\ new.op = handler[h].op /\ new.who = handler[h].who
         /\ new.driver = handler[h].driver /\ new.to = handler[h].to
  BY <1>1 DEF Idle, HandlerState
<1> HIDE DEF new
<1>4. TypeOK'
  BY <1>3, <1>f DEF IInv, TypeOK
<1>5. DriverBeforeHandover'
  BY DEF DriverBeforeHandover
<1>6. InFlightMoves'
  BY <1>3, <1>f DEF IInv, InFlightMoves, Unguarded
<1>7. InFlightHandovers'
  BY <1>3, <1>f DEF IInv, InFlightHandovers
<1>8. InFlightTargets'
  BY <1>3, <1>f DEF IInv, InFlightTargets, CancelOps
<1> QED
  BY <1>4, <1>5, <1>6, <1>7, <1>8 DEF IInv

\* A handler that does not start owing a refund leaves the count right.
LEMMA NoNewRefund ==
    ASSUME IInv,
           NEW h \in Handlers,
           NEW pc \in {"idle", "commit", "free"},
           Goto(h, pc),
           refunds' = refunds,
           cancellations' = cancellations \/ CountCancelled
    PROVE  refunds' \in Nat /\ cancellations' \in Nat /\ RefundsCounted'
<1>1. refunds \in Nat /\ cancellations \in Nat
  BY DEF IInv, TypeOK
<1>2. Refunding' \subseteq Refunding
  BY DEF Refunding, Goto, Idle, IInv, TypeOK
<1>3. Cardinality(Refunding') \in Nat /\ Cardinality(Refunding') <= Cardinality(Refunding)
  BY <1>2, RefundingFinite, FS_Subset, FS_CardinalityType
<1>4. cancellations' \in Nat /\ cancellations' >= cancellations
  BY <1>1 DEF CountCancelled
<1>5. refunds + Cardinality(Refunding) <= cancellations
  BY DEF IInv, RefundsCounted
<1> HIDE DEF Refunding
<1>6. refunds' + Cardinality(Refunding') <= cancellations'
  BY <1>1, <1>3, <1>4, <1>5, RefundingFinite
<1> QED
  BY <1>1, <1>4, <1>6 DEF RefundsCounted

\* A handler that cancelled an order which was not cancelled may owe one.
LEMMA NewRefund ==
    ASSUME IInv,
           NEW h \in Handlers,
           Goto(h, "refund"),
           refunds' = refunds,
           cancellations' = cancellations + 1
    PROVE  refunds' \in Nat /\ cancellations' \in Nat /\ RefundsCounted'
<1>1. refunds \in Nat /\ cancellations \in Nat
  BY DEF IInv, TypeOK
<1>2. Refunding' \subseteq Refunding \cup {h}
  BY DEF Refunding, Goto, IInv, TypeOK
<1>3. IsFiniteSet(Refunding \cup {h})
      /\ Cardinality(Refunding \cup {h}) <= Cardinality(Refunding) + 1
  BY RefundingFinite, AddOne
<1>4. /\ Cardinality(Refunding') \in Nat
      /\ Cardinality(Refunding') <= Cardinality(Refunding \cup {h})
      /\ Cardinality(Refunding \cup {h}) \in Nat
  BY <1>2, <1>3, FS_Subset, FS_CardinalityType
<1>5. refunds + Cardinality(Refunding) <= cancellations
  BY DEF IInv, RefundsCounted
<1> HIDE DEF Refunding
<1>6. refunds' + Cardinality(Refunding') <= cancellations'
  BY <1>1, <1>3, <1>4, <1>5, RefundingFinite
<1> QED
  BY <1>1, <1>6 DEF RefundsCounted

\* Writing the refund turns a debt into a row.
LEMMA PaidRefund ==
    ASSUME IInv,
           NEW h \in Handlers,
           handler[h].pc = "refund",
           NEW pc \in {"idle", "free"},
           Goto(h, pc),
           refunds' = refunds + 1,
           cancellations' = cancellations
    PROVE  refunds' \in Nat /\ cancellations' \in Nat /\ RefundsCounted'
<1>1. refunds \in Nat /\ cancellations \in Nat
  BY DEF IInv, TypeOK
<1>2. Refunding' = Refunding \ {h} /\ h \in Refunding
  BY DEF Refunding, Goto, Idle, IInv, TypeOK
<1> HIDE DEF Refunding
<1>3. Cardinality(Refunding') = Cardinality(Refunding) - 1
  BY <1>2, RefundingFinite, FS_RemoveElement
<1>4. refunds + Cardinality(Refunding) <= cancellations
  BY DEF IInv, RefundsCounted
<1>5. refunds' + Cardinality(Refunding') <= cancellations'
  BY <1>1, <1>3, <1>4, RefundingFinite
<1> QED
  BY <1>1, <1>5 DEF RefundsCounted

-----------------------------------------------------------------------------
(* The steps *)

LEMMA InitIInv == ASSUME Init PROVE IInv
<1>1. TypeOK
  BY OrderAssumption DEF Init, TypeOK, OrderRow, OrderStatus, DriverStatus,
                         HandlerState, Idle, Ops
<1>2. DriverBeforeHandover
  BY DEF Init, DriverBeforeHandover, Handover
<1>3. InFlightMoves /\ InFlightHandovers /\ InFlightTargets
  BY DEF Init, InFlightMoves, InFlightHandovers, InFlightTargets, Idle, CancelOps
<1>4. Refunding = {}
  BY DEF Init, Refunding, Idle
<1>5. RefundsCounted
  BY <1>4, FS_EmptySet DEF Init, RefundsCounted
<1> QED
  BY <1>1, <1>2, <1>3, <1>5 DEF IInv

LEMMA ReadPreserves ==
    ASSUME IInv, NEW h \in Handlers, Read(h)
    PROVE  IInv'
<1> USE DEF Unguarded, Ops, CancelOps, OrderStatus
<1>0. /\ order \in OrderRow
      /\ order.status \in OrderStatus
      /\ order.driver \in Drivers \cup {NoDriver}
      /\ overrides \in 0..MaxOverrides
      /\ MaxOverrides \in Nat
      /\ DriverBeforeHandover
  BY OrderAssumption DEF IInv, TypeOK, OrderRow
<1>1. CASE VendorUpdateStatus(h)
  <2>1. PICK to \in VendorAllowed(order.status) : Begin(h, "transition", NoDriver, to)
    BY <1>1 DEF VendorUpdateStatus
  <2>2. to \in OrderStatus /\ to \notin Handover
    BY <1>0, TableTargets DEF VendorAllowed, Handover
  <2> QED
    BY <1>0, <2>1, <2>2, ReadStep DEF Begin, Move
<1>2. CASE \E d \in Drivers : DriverUpdateStatus(h, d)
  <2>1. PICK d \in Drivers, to \in DriverAllowed(order.status) :
            order.driver = d /\ Begin(h, "transition", d, to)
    BY <1>2 DEF DriverUpdateStatus
  <2>2. to \in OrderStatus
    BY DEF DriverAllowed
  <2> QED
    BY <1>0, <2>1, <2>2, ReadStep DEF Begin, Move
<1>3. CASE HandleDispatch(h)
  BY <1>0, <1>3, ReadStep DEF HandleDispatch, Begin, Move, Handover
<1>4. CASE \E d \in Drivers : HandleAcceptance(h, d)
  <2>1. PICK d \in Drivers, approval \in BOOLEAN :
            /\ order.status = "LOOKING_FOR_DRIVER"
            /\ Begin(h, "accept", d, IF approval THEN "PENDING_CUSTOMER_APPROVAL"
                                     ELSE WithDriver(order))
    BY <1>4 DEF HandleAcceptance
  <2> QED
    BY <1>0, <2>1, ReadStep DEF Begin, Move, WithDriver
<1>5. CASE \E d \in Drivers : AdminForceAssignDriver(h, d)
  <2>1. PICK d \in Drivers : AdminForceAssignDriver(h, d)
    BY <1>5
  <2>2. overrides' \in 0..MaxOverrides
    BY <1>0, <2>1, SMT DEF AdminForceAssignDriver
  <2>3. WithDriver(order) \in OrderStatus
    BY DEF WithDriver
  <2>4. CASE order.driver \in {NoDriver, d}
    <3>1. /\ Start(h, "commit", "assign", d, WithDriver(order))
          /\ UNCHANGED <<order, driverStatus, refunds, cancellations>>
      BY <2>1, <2>4 DEF AdminForceAssignDriver
    <3> QED
      BY <2>2, <2>3, <3>1, ReadStep
  <2>5. CASE order.driver \notin {NoDriver, d}
    <3>1. /\ Start(h, "release", "assign", d, WithDriver(order))
          /\ UNCHANGED <<order, driverStatus, refunds, cancellations>>
          /\ order.driver \in Drivers
      BY <1>0, <2>1, <2>5 DEF AdminForceAssignDriver
    <3> QED
      BY <2>2, <2>3, <3>1, ReadStep
  <2> QED
    BY <2>4, <2>5
<1>6. CASE ApproveOrderFee(h)
  BY <1>0, <1>6, ReadStep
     DEF ApproveOrderFee, Begin, Move, WithDriver, DriverBeforeHandover, Handover
<1>7. CASE CustomerMarkPaid(h)
  BY <1>0, <1>7, ReadStep DEF CustomerMarkPaid, Begin, Handover
<1>8. CASE \E d \in Drivers : DriverConfirmPayment(h, d)
  BY <1>0, <1>8, ReadStep DEF DriverConfirmPayment, Begin, Move, Handover
<1>9. CASE EditOrderItems(h)
  <2>1. /\ Start(h, "commit", "edit", NoDriver, "CHANGES_REQUESTED")
        /\ UNCHANGED <<order, driverStatus, refunds, cancellations>>
    BY <1>9 DEF EditOrderItems
  <2>2. overrides' \in 0..MaxOverrides
    BY <1>0, <1>9, SMT DEF EditOrderItems
  <2> QED
    BY <2>1, <2>2, ReadStep
<1>10. CASE AcceptOrderChanges(h)
  BY <1>0, <1>10, ReadStep DEF AcceptOrderChanges, Begin, Move, WithDriver, Handover
<1>11. CASE RejectOrderChanges(h)
  BY <1>0, <1>11, ReadStep
     DEF RejectOrderChanges, Begin, Move, NonCancellable, Handover
<1>12. CASE CancelOrder(h)
  BY <1>0, <1>12, ReadStep DEF CancelOrder, Begin, Move, Handover
<1>13. CASE \E op \in CancelOps, waiting \in OrderStatus : SystemCancel(h, op, waiting)
  <2>1. PICK op \in CancelOps :
            /\ Start(h, "reread", op, NoDriver, "CANCELLED")
            /\ UNCHANGED <<order, driverStatus, refunds, cancellations, overrides>>
    BY <1>13 DEF SystemCancel
  <2> QED
    BY <1>0, <2>1, ReadStep
<1> QED
  BY <1>1, <1>2, <1>3, <1>4, <1>5, <1>6, <1>7, <1>8, <1>9, <1>10, <1>11, <1>12, <1>13
     DEF Read, AutoCancelPending, CancelStuckPayment, CancelUnapproved, CancelExhausted

LEMMA RereadPreserves ==
    ASSUME IInv, NEW h \in Handlers, RereadForCancel(h)
    PROVE  IInv'
<1> DEFINE new == IF order.status \in NonCancellable THEN Idle
                  ELSE [handler[h] EXCEPT !.pc = "commit", !.status = order.status,
                                          !.driver = order.driver]
<1>1. /\ handler' = [handler EXCEPT ![h] = new]
      /\ handler[h].pc = "reread"
      /\ handler \in [Handlers -> HandlerState]
      /\ handler[h] \in HandlerState
      /\ order \in OrderRow
      /\ UNCHANGED <<order, driverStatus, refunds, cancellations, overrides>>
  BY DEF RereadForCancel, IInv, TypeOK
<1>2. new \in HandlerState
  BY <1>1 DEF HandlerState, OrderRow, Idle, Ops, OrderStatus
<1>3. /\ handler' \in [Handlers -> HandlerState]
      /\ handler'[h] = new
      /\ \A g \in Handlers \ {h} : handler'[g] = handler[g]
  BY <1>1, <1>2
<1>4. \/ new.pc = "idle" /\ new.op = "none"
      \/ /\ order.status \notin NonCancellable
         /\ new.pc = "commit" /\ new.op = handler[h].op /\ new.who = handler[h].who
         /\ new.status = order.status /\ new.to = handler[h].to
  BY <1>1 DEF Idle, HandlerState
<1> HIDE DEF new
<1>5. /\ handler[h].op \in CancelOps
      /\ handler[h].to = "CANCELLED"
  BY <1>1 DEF IInv, InFlightTargets
<1>6. TypeOK'
  BY <1>1, <1>3, <1>4, <1>5 DEF IInv, TypeOK, CancelOps
<1>7. DriverBeforeHandover'
  BY <1>1 DEF IInv, DriverBeforeHandover
<1>8. InFlightMoves'
  BY <1>1, <1>3, <1>4, <1>5 DEF IInv, InFlightMoves, Move
<1>9. InFlightHandovers'
  BY <1>1, <1>3, <1>4, <1>5 DEF IInv, InFlightHandovers, Handover
<1>10. InFlightTargets'
  BY <1>3, <1>4, <1>5 DEF IInv, InFlightTargets, CancelOps
<1>11. Refunding' = Refunding
  BY <1>1, <1>3, <1>4 DEF Refunding
<1>12. RefundsCounted'
  BY <1>1, <1>11 DEF IInv, RefundsCounted
<1> QED
  BY <1>6, <1>7, <1>8, <1>9, <1>10, <1>12 DEF IInv

LEMMA WritePreserves ==
    ASSUME IInv, NEW h \in Handlers, Write(h) \/ Crash(h)
    PROVE  IInv'
<1>0. /\ order \in OrderRow
      /\ driverStatus \in [Drivers -> DriverStatus]
      /\ handler \in [Handlers -> HandlerState]
      /\ handler[h] \in HandlerState
      /\ handler[h].to \in OrderStatus
      /\ handler[h].who \in Drivers \cup {NoDriver}
      /\ handler[h].driver \in Drivers \cup {NoDriver}
      /\ handler[h].pc \in {"release", "free"} => handler[h].driver \in Drivers
      /\ handler[h].op \in {"accept", "assign"} => handler[h].who \in Drivers
      /\ DriverBeforeHandover
  BY DEF IInv, TypeOK, HandlerState
<1>m. handler[h].pc = "commit" /\ handler[h].op \notin Unguarded
         => Move(handler[h].status, handler[h].to)
  BY DEF IInv, InFlightMoves
<1>d. /\ handler[h].pc = "commit"
      /\ handler[h].op \notin {"accept", "assign", "edit"}
      /\ handler[h].to \in Handover
      => order.driver \in Drivers
  BY DEF IInv, InFlightHandovers
<1>1. CASE ApplyStatusTransition(h)
  BY <1>0, <1>1, <1>d, WriteStep, NoNewRefund
     DEF ApplyStatusTransition, UpdateStatus, OrderRow, Committing
<1>2. CASE StartSearch(h)
  BY <1>0, <1>2, <1>d, WriteStep, NoNewRefund
     DEF StartSearch, UpdateStatus, OrderRow, Committing
<1>3. CASE AssignWinner(h)
  BY <1>0, <1>3, WriteStep, NoNewRefund
     DEF AssignWinner, OrderRow, Committing, DriverStatus
<1>4. CASE ReleasePrevious(h)
  BY <1>0, <1>4, WriteStep, NoNewRefund
     DEF ReleasePrevious, DriverStatus, DriverBeforeHandover, IInv, InFlightTargets
<1>5. CASE AssignDriver(h)
  BY <1>0, <1>5, WriteStep, NoNewRefund
     DEF AssignDriver, OrderRow, Committing, DriverStatus
<1>6. CASE CommitApproval(h)
  BY <1>0, <1>6, <1>d, WriteStep, NoNewRefund
     DEF CommitApproval, UpdateStatus, OrderRow, Committing, DriverStatus
<1>7. CASE CommitMarkPaid(h) \/ CommitDeny(h)
  BY <1>0, <1>7, WriteStep, NoNewRefund
     DEF CommitMarkPaid, CommitDeny, WritePayment, OrderRow, Committing,
         DriverBeforeHandover
<1>8. CASE CommitConfirm(h)
  BY <1>0, <1>8, <1>d, WriteStep, NoNewRefund
     DEF CommitConfirm, UpdateStatus, OrderRow, Committing
<1>9. CASE CommitEdit(h)
  BY <1>0, <1>9, WriteStep, NoNewRefund
     DEF CommitEdit, OrderRow, Committing, OrderStatus, Handover
<1>10. CASE AnswerChanges(h)
  BY <1>0, <1>10, <1>d, WriteStep, NoNewRefund
     DEF AnswerChanges, UpdateStatus, OrderRow, Committing
<1>11. CASE RereadForCancel(h)
  BY <1>11, RereadPreserves
<1>12. CASE CommitCancel(h)
  <2>1. handler[h].to = "CANCELLED" /\ handler[h].op \notin Unguarded
    BY <1>12 DEF CommitCancel, IInv, InFlightTargets, CancelOps, Unguarded
  <2>2. /\ order.status = handler[h].status
        /\ order' = [order EXCEPT !.status = "CANCELLED", !.payment = order.payment]
        /\ CountCancelled /\ refunds' = refunds
        /\ handler[h].pc = "commit"
        /\ Goto(h, IF order.coinsUsed THEN "refund" ELSE AfterRefund(h))
    BY <1>12, <2>1 DEF CommitCancel, UpdateStatus, Unmoved
  <2>3. order.status \notin NonCancellable
    BY <1>0, <1>m, <2>1, <2>2, CancelMoves DEF OrderRow
  <2>4. cancellations' = cancellations + 1
    BY <1>0, <2>2, <2>3 DEF CountCancelled, OrderRow, NonCancellable
  <2>5. refunds' \in Nat /\ cancellations' \in Nat /\ RefundsCounted'
    BY <2>2, <2>4, NewRefund, NoNewRefund DEF AfterRefund
  <2>6. order' \in OrderRow /\ order'.status = "CANCELLED" /\ order'.driver = order.driver
    BY <1>0, <2>2 DEF OrderRow, OrderStatus
  <2>7. driverStatus' = driverStatus /\ overrides' = overrides
    BY <1>12 DEF CommitCancel
  <2> QED
    BY <1>0, <2>2, <2>5, <2>6, <2>7, WriteStep DEF AfterRefund, Handover
<1>13. CASE RefundCoins(h)
  BY <1>0, <1>13, WriteStep, PaidRefund
     DEF RefundCoins, AfterRefund, DriverBeforeHandover
<1>14. CASE FreeDriver(h)
  BY <1>0, <1>14, WriteStep, NoNewRefund
     DEF FreeDriver, DriverStatus, DriverBeforeHandover
<1>15. CASE Conflict(h) \/ Crash(h)
  BY <1>0, <1>15, WriteStep, NoNewRefund DEF Conflict, Crash, DriverBeforeHandover
<1> QED
  BY <1>1, <1>2, <1>3, <1>4, <1>5, <1>6, <1>7, <1>8, <1>9, <1>10, <1>11, <1>12, <1>13,
     <1>14, <1>15
     DEF Write

LEMMA NextPreserves == IInv /\ [Next]_vars => IInv'
<1> SUFFICES ASSUME IInv, [Next]_vars PROVE IInv'
  OBVIOUS
<1>0. order \in OrderRow
  BY DEF IInv, TypeOK
<1>1. CASE PlaceCustomOrder \/ AdminPlaceDirectOrder
  <2>1. /\ order' \in OrderRow
        /\ order'.driver = order.driver
        /\ order'.status \notin Handover
        /\ UNCHANGED <<driverStatus, handler, refunds, cancellations, overrides>>
    BY <1>0, <1>1 DEF PlaceCustomOrder, AdminPlaceDirectOrder, OrderRow, OrderStatus, Handover
  <2> QED
    BY <2>1 DEF IInv, TypeOK, DriverBeforeHandover, InFlightMoves, InFlightHandovers,
                InFlightTargets, RefundsCounted, Refunding
<1>2. CASE \E h \in Handlers : Read(h) \/ Write(h) \/ Crash(h)
  BY <1>2, ReadPreserves, WritePreserves
<1>3. CASE UNCHANGED vars
  BY <1>3 DEF vars, IInv, TypeOK, DriverBeforeHandover, InFlightMoves,
              InFlightHandovers, InFlightTargets, RefundsCounted, Refunding
<1> QED
  BY <1>1, <1>2, <1>3 DEF Next, Work

LEMMA Invariance == Spec => []IInv
BY InitIInv, NextPreserves, PTL DEF Spec

-----------------------------------------------------------------------------
(* The theorems *)

\* Every variable of the order's model keeps its range, for any number of
\* drivers, handlers and overrides.
THEOREM TypeCorrect == Spec => []TypeOK
BY Invariance, PTL DEF IInv

\* An order that waits for approval, is assigned or is delivered has a driver,
\* however many handlers race.
THEOREM HandoverHasDriver == Spec => []DriverBeforeHandover
BY Invariance, PTL DEF IInv

\* Concurrent cancellations never return the coins more often than the order
\* became CANCELLED.
THEOREM RefundsBounded == Spec => []RefundsWithinCancellations
<1>1. IInv => RefundsWithinCancellations
  <2> SUFFICES ASSUME IInv PROVE RefundsWithinCancellations
    OBVIOUS
  <2>1. refunds \in Nat /\ cancellations \in Nat /\ refunds + Cardinality(Refunding) <= cancellations
    BY DEF IInv, TypeOK, RefundsCounted
  <2> QED
    BY <2>1, RefundingFinite DEF RefundsWithinCancellations
<1> QED
  BY <1>1, Invariance, PTL

\* The status moves only along the named moves from what the row holds at the
\* moment of the write, but for the writes that carry no guard.
THEOREM TablesRespected == Spec => StatusMovesAlongTables
<1>1. IInv /\ [Next]_vars
      => [order.status # order'.status
             => Move(order.status, order'.status) \/ Overriding]_vars
  <2> SUFFICES ASSUME IInv, Next, order.status # order'.status
               PROVE  Move(order.status, order'.status) \/ Overriding
    OBVIOUS
  <2>0. order \in OrderRow
    BY DEF IInv, TypeOK
  <2>1. CASE PlaceCustomOrder \/ AdminPlaceDirectOrder
    BY <2>0, <2>1 DEF PlaceCustomOrder, AdminPlaceDirectOrder, OrderRow, Overriding
  <2>2. ASSUME NEW h \in Handlers, Read(h) \/ Crash(h)
        PROVE  FALSE
    BY <2>2 DEF Read, Crash, Begin, VendorUpdateStatus, DriverUpdateStatus, HandleDispatch,
          HandleAcceptance, AdminForceAssignDriver, ApproveOrderFee, CustomerMarkPaid,
          DriverConfirmPayment, EditOrderItems, AcceptOrderChanges, RejectOrderChanges,
          CancelOrder, AutoCancelPending, CancelStuckPayment, CancelUnapproved,
          CancelExhausted, SystemCancel
  <2>3. ASSUME NEW h \in Handlers, Write(h)
        PROVE  Move(order.status, order'.status) \/ Overriding
    <3>1. CASE AssignDriver(h) \/ CommitEdit(h)
      <4>1. handler'[h].pc = "idle" /\ handler[h].op \in {"edit", "assign"}
        BY <3>1 DEF AssignDriver, CommitEdit, Committing, Goto, Idle, IInv, TypeOK
      <4> QED
        BY <4>1 DEF Overriding
    <3>2. CASE CommitMarkPaid(h) \/ CommitDeny(h)
      BY <2>0, <3>2 DEF CommitMarkPaid, CommitDeny, WritePayment, OrderRow
    <3>3. CASE \/ ApplyStatusTransition(h) \/ StartSearch(h) \/ AssignWinner(h)
               \/ CommitApproval(h) \/ CommitConfirm(h) \/ AnswerChanges(h)
               \/ CommitCancel(h)
      <4>1. /\ handler[h].pc = "commit" /\ handler[h].op \notin Unguarded
            /\ order.status = handler[h].status
            /\ order'.status = handler[h].to
        BY <2>0, <3>3 DEF ApplyStatusTransition, StartSearch, AssignWinner, CommitApproval,
             CommitConfirm, AnswerChanges, CommitCancel, Committing, UpdateStatus,
             Unmoved, OrderRow, Unguarded, CancelOps
      <4> QED
        BY <4>1 DEF IInv, InFlightMoves
    <3>4. CASE \/ ReleasePrevious(h) \/ RereadForCancel(h) \/ RefundCoins(h)
               \/ FreeDriver(h) \/ Conflict(h)
      BY <3>4 DEF ReleasePrevious, RereadForCancel, RefundCoins, FreeDriver, Conflict
    <3> QED
      BY <2>3, <3>1, <3>2, <3>3, <3>4 DEF Write
  <2> QED
    BY <2>1, <2>2, <2>3 DEF Next, Work
<1> QED
  BY <1>1, Invariance, PTL DEF Spec, StatusMovesAlongTables

\* No payment the driver confirmed is taken back while the order is past
\* waiting for payment, by whichever late handler.
THEOREM ConfirmationStands == Spec => ConfirmedPaymentStands
<1>1. IInv /\ [Next]_vars
      => [order.payment = "COMPLETED" /\ order'.payment # "COMPLETED"
             => order.status = "PENDING_PAYMENT"]_vars
  <2> SUFFICES ASSUME IInv, Next, order.payment = "COMPLETED",
                      order'.payment # "COMPLETED"
               PROVE  order.status = "PENDING_PAYMENT"
    OBVIOUS
  <2>0. order \in OrderRow
    BY DEF IInv, TypeOK
  <2>1. CASE PlaceCustomOrder \/ AdminPlaceDirectOrder
    BY <2>0, <2>1 DEF PlaceCustomOrder, AdminPlaceDirectOrder, OrderRow
  <2>2. ASSUME NEW h \in Handlers, Read(h) \/ Crash(h)
        PROVE  FALSE
    BY <2>2 DEF Read, Crash, Begin, VendorUpdateStatus, DriverUpdateStatus, HandleDispatch,
          HandleAcceptance, AdminForceAssignDriver, ApproveOrderFee, CustomerMarkPaid,
          DriverConfirmPayment, EditOrderItems, AcceptOrderChanges, RejectOrderChanges,
          CancelOrder, AutoCancelPending, CancelStuckPayment, CancelUnapproved,
          CancelExhausted, SystemCancel
  <2>3. ASSUME NEW h \in Handlers, Write(h)
        PROVE  order.status = "PENDING_PAYMENT"
    <3>1. CASE CommitMarkPaid(h) \/ CommitDeny(h)
      BY <3>1 DEF CommitMarkPaid, CommitDeny, WritePayment
    <3>2. CASE \/ ApplyStatusTransition(h) \/ StartSearch(h) \/ AssignWinner(h)
               \/ CommitApproval(h) \/ CommitConfirm(h) \/ AnswerChanges(h)
               \/ CommitCancel(h) \/ AssignDriver(h) \/ CommitEdit(h)
      BY <2>0, <3>2 DEF ApplyStatusTransition, StartSearch, AssignWinner, CommitApproval,
           CommitConfirm, AnswerChanges, CommitCancel, UpdateStatus, OrderRow,
           AssignDriver, CommitEdit
    <3>3. CASE \/ ReleasePrevious(h) \/ RereadForCancel(h) \/ RefundCoins(h)
               \/ FreeDriver(h) \/ Conflict(h)
      BY <3>3 DEF ReleasePrevious, RereadForCancel, RefundCoins, FreeDriver, Conflict
    <3> QED
      BY <2>3, <3>1, <3>2, <3>3 DEF Write
  <2> QED
    BY <2>1, <2>2, <2>3 DEF Next, Work
<1> QED
  BY <1>1, Invariance, PTL DEF Spec, ConfirmedPaymentStands

=============================================================================
