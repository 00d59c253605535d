------------------------------- MODULE MCFleet -------------------------------
(***************************************************************************)
(* Driver accounts and driver shifts share no variable, so that a state of *)
(* both is any pair of their states.  Each is explored on its own, while   *)
(* the other stays as it was in the beginning; the actions are listed one  *)
(* by one so that TLC tells of each how often it was taken.  The setting   *)
(* is only switched on: switching it off again, which takes steps away, is *)
(* in MCShiftJobs.                                                         *)
(***************************************************************************)
EXTENDS DriverAccount, DriverShifts, TLC

MCRequester == [r \in Requests |-> CHOOSE d \in Drivers : TRUE]
MCTopUp == [r \in Requests |-> 2]
MCSettlements == {-2, 1}
MCManual == {-1}
MCMinBalance == -3
MCOverlap == {<<p, p>> : p \in Pools}
MCShifts == 1..2
MCSymmetry == UNION {Permutations(S) : S \in {Tasks, Couriers, Calls}}

\* The component that is explored.
VARIABLE part

InAccount == part = "account" /\ UNCHANGED <<part, shiftsVars>>
InShifts == part = "shifts" /\ UNCHANGED <<part, accountVars>>

MCInit == part \in {"account", "shifts"} /\ AccountInit /\ ShiftsInit

MCAccountNext ==
    \/ \E d \in Drivers :
          \/ InAccount /\ Register(d)
          \/ InAccount /\ AdminSuspend(d)
          \/ InAccount /\ AdminUnsuspend(d)
          \/ InAccount /\ AdminUpdateDriver(d)
          \/ InAccount /\ TrackLocation(d)
          \/ InAccount /\ TakeOrder(d)
          \/ InAccount /\ DeclineOrder(d)
          \/ InAccount /\ FreeDriver(d)
          \/ InAccount /\ ForceOffline(d)
    \/ \E t \in Tasks :
          \/ \E d \in Drivers, to \in {"OFFLINE", "ONLINE", "ON_BREAK"} :
                InAccount /\ UpdateStatus(t, d, to)
          \/ \E d \in Drivers : InAccount /\ UserDisconnect(t, d)
          \/ InAccount /\ WriteStatus(t)
          \/ InAccount /\ LeavePool(t)
          \/ InAccount /\ FindNearbyDrivers(t)
          \/ InAccount /\ SweepStale(t)
          \/ InAccount /\ ReadBalance(t)
          \/ InAccount /\ LockOut(t)
          \/ InAccount /\ AbandonSettlement(t)
          \/ InAccount /\ ApproveTopUp(t)
          \/ InAccount /\ RejectTopUp(t)
          \/ InAccount /\ LateReview(t)
          \/ \E d \in Drivers, amount \in Settlements : InAccount /\ BookOrder(t, d, amount)
          \/ \E r \in Requests : InAccount /\ ReviewTopUpRequest(t, r)
    \/ \E r \in Requests : InAccount /\ SubmitTopUpRequest(r)
    \/ \E d \in Drivers, amount \in Manual : InAccount /\ ProcessDriverTransaction(d, amount)

MCShiftsNext ==
    \/ InShifts /\ ~driverShiftsEnabled /\ UpdateSettings
    \/ \E p \in Pools :
          \/ InShifts /\ Passes(p)
          \/ InShifts /\ GenerateShiftPool(p)
    \/ \E d \in Couriers, s \in Shifts : InShifts /\ OfferSwap(d, s)
    \/ \E t \in Calls :
          \/ \E p \in Pools : InShifts /\ TerminateShiftPool(t, p)
          \/ \E d \in Couriers, p \in Pools :
                \/ InShifts /\ AdminAssignShift(t, d, p)
                \/ InShifts /\ CreateShift(t, d, p)
          \/ \E d \in Couriers, P \in Weeks \cup {{p} : p \in Pools} :
                InShifts /\ BookShifts(t, d, P)
          \/ \E d \in Couriers, s \in Shifts :
                \/ InShifts /\ AcceptSwap(t, d, s)
                \/ InShifts /\ StartShift(t, d, s)
                \/ InShifts /\ EndShift(t, d, s)
          \/ InShifts /\ CommitCreate(t)
          \/ InShifts /\ CreateFails(t)
          \/ InShifts /\ CommitBooking(t)
          \/ InShifts /\ BookingFails(t)
          \/ InShifts /\ DestroyShifts(t)
          \/ InShifts /\ ClosePool(t)
          \/ InShifts /\ CloseFails(t)
          \/ InShifts /\ CommitSwap(t)
          \/ InShifts /\ CommitStart(t)
          \/ InShifts /\ CommitEnd(t)
          \/ InShifts /\ ReadTier(t)
          \/ InShifts /\ PromoteTier(t)

MCNext == MCAccountNext \/ MCShiftsNext

MCSpec == MCInit /\ [][MCNext]_<<part, accountVars, shiftsVars>>

FleetTypeOK == AccountTypeOK /\ ShiftsTypeOK

\* What no step does: offer an order to a debtor, reopen a shift that is over, give
\* it to somebody else but by a swap (findNearbyDrivers, startShift, acceptSwap).
FleetSteps == DebtorsNotOffered /\ ClosedStaysClosed /\ HandsChangeBySwap
=============================================================================
