----------------------------- MODULE MCShiftJobs -----------------------------
(***************************************************************************)
(* Two shifts of one driver, one request and one worker that runs the jobs:*)
(* nobody is there to accept a swap (AcceptSwap, CommitSwap) or to delete  *)
(* a pool that another request is deleting (CloseFails).                   *)
(***************************************************************************)
EXTENDS DriverShifts

MCOverlap == {<<p, p>> : p \in Pools}
MCShifts == 1..2

MCRequestNext ==
    \/ UpdateSettings
    \/ \E p \in Pools : Passes(p) \/ GenerateShiftPool(p)
    \/ \E d \in Couriers, s \in Shifts : OfferSwap(d, s)
    \/ \E t \in Calls :
          \/ \E p \in Pools : TerminateShiftPool(t, p)
          \/ \E d \in Couriers, p \in Pools :
                AdminAssignShift(t, d, p) \/ CreateShift(t, d, p) \/ BookShifts(t, d, {p})
          \/ \E d \in Couriers, s \in Shifts : StartShift(t, d, s) \/ EndShift(t, d, s)
          \/ CommitCreate(t) \/ CreateFails(t) \/ CommitBooking(t) \/ BookingFails(t)
          \/ DestroyShifts(t) \/ ClosePool(t) \/ CommitStart(t) \/ EndNext(t)

MCNext == MCRequestNext \/ \E t \in Workers : JobNext(t)

MCSpec == ShiftsInit /\ [][MCNext]_shiftsVars /\ ShiftsFairness
=============================================================================
