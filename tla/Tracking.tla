------------------------------ MODULE Tracking ------------------------------
(***************************************************************************)
(* What the listeners do when the status of an order changes: each change  *)
(* is handled once per status, at its own pace, and tells the live         *)
(* tracking whose positions go to the customer.  The order itself is that  *)
(* of OrderLifecycle, of which only status and driver matter here, from    *)
(* its acceptance on.                                                      *)
(***************************************************************************)
EXTENDS Integers

CONSTANTS
    Carriers,           \* drivers who may take the order
    MaxChanges          \* bound: changes of the status

ASSUME TrackingAssumption == MaxChanges \in Nat

VARIABLES
    state, courier,     \* status of the order, its driver
    changes,            \* changes so far
    handler,            \* of each change: what is left of its handling
    claimed,            \* statuses whose change was handled: notify:order_status:<order>:<status>
    tracked             \* drivers with otlobegy:driver-active-order:<driver>

trackingVars == <<state, courier, changes, handler, claimed, tracked>>

NoCourier == "NOBODY"

\* PREPARING also for READY_FOR_PICKUP, DRIVER_ASSIGNED also for PENDING_PAYMENT.
Moves == {<<"ACCEPTED", "PREPARING">>,
          <<"DRIVER_ASSIGNED", "PREPARING">>, <<"PREPARING", "PICKED_UP">>,
          <<"DRIVER_ASSIGNED", "PICKED_UP">>, <<"PICKED_UP", "DELIVERED">>,
          <<"ACCEPTED", "CANCELLED">>,
          <<"PREPARING", "CANCELLED">>, <<"DRIVER_ASSIGNED", "CANCELLED">>}
States == {m[1] : m \in Moves} \cup {m[2] : m \in Moves}

Finished == state \in {"DELIVERED", "CANCELLED"}

Handlers == {[op |-> "none"]} \cup [op : {"claim", "track"}, status : States, driver : Carriers \cup {NoCourier}]

TrackingTypeOK ==
    /\ state \in States /\ courier \in Carriers \cup {NoCourier}
    /\ changes \in 0..MaxChanges
    /\ handler \in [1..MaxChanges -> Handlers]
    /\ claimed \subseteq States
    /\ tracked \subseteq Carriers
    /\ \A e \in 1..MaxChanges : handler[e].op # "none" => e <= changes

TrackingInit ==
    /\ state = "ACCEPTED" /\ courier = NoCourier
    /\ changes = 0
    /\ handler = [e \in 1..MaxChanges |-> [op |-> "none"]]
    /\ claimed = {} /\ tracked = {}

\* ORDER_STATUS_CHANGED
Emit(s, d) ==
    /\ changes < MaxChanges
    /\ changes' = changes + 1
    /\ state' = s /\ courier' = d
    /\ handler' = [handler EXCEPT ![changes + 1] = [op |-> "claim", status |-> s, driver |-> d]]
    /\ UNCHANGED <<claimed, tracked>>

ChangeStatus(s) ==
    /\ <<state, s>> \in Moves
    /\ s = "PICKED_UP" => courier # NoCourier
    /\ Emit(s, courier)

\* A driver accepts, or is assigned in place of another.
AssignCourier(d) == state \in {"ACCEPTED", "PREPARING"} /\ Emit("DRIVER_ASSIGNED", d)

Go(e, h) == handler' = [handler EXCEPT ![e] = h]

\* SET NX: a status that came before is not handled again.
Claim(e) ==
    /\ handler[e].op = "claim"
    /\ IF handler[e].status \in claimed
       THEN Go(e, [op |-> "none"]) /\ UNCHANGED claimed
       ELSE Go(e, [handler[e] EXCEPT !.op = "track"]) /\ claimed' = claimed \cup {handler[e].status}
    /\ UNCHANGED <<state, courier, changes, tracked>>

TrackedStatuses == {"DRIVER_ASSIGNED", "PREPARING", "PICKED_UP"}

\* After the notification, the conversation and the jobs, which take their time.
Track(e) ==
    LET h == handler[e] IN
    /\ h.op = "track"
    /\ tracked' = IF h.driver = NoCourier THEN tracked
                  ELSE IF h.status \in TrackedStatuses THEN tracked \cup {h.driver}
                  ELSE IF h.status \in {"DELIVERED", "CANCELLED"} THEN tracked \ {h.driver}
                  ELSE tracked
    /\ Go(e, [op |-> "none"])
    /\ UNCHANGED <<state, courier, changes, claimed>>

\* The process ends, or one of the steps before fails.
HandlerDies(e) ==
    /\ handler[e].op # "none"
    /\ Go(e, [op |-> "none"])
    /\ UNCHANGED <<state, courier, changes, claimed, tracked>>

\* Mistake: only the key of the driver who has the order ends by itself.
ExpireCurrent(d) ==
    /\ d \in tracked /\ d = courier
    /\ tracked' = tracked \ {d}
    /\ UNCHANGED <<state, courier, changes, handler, claimed>>

\* 12 hours TTL as a fallback.
ExpireTracked(d) ==
    /\ d \in tracked
    /\ tracked' = tracked \ {d}
    /\ UNCHANGED <<state, courier, changes, handler, claimed>>

\* After four hours.
ExpireClaim(s) ==
    /\ s \in claimed
    /\ claimed' = claimed \ {s}
    /\ UNCHANGED <<state, courier, changes, handler, tracked>>

TrackingNext ==
    \/ \E s \in States : ChangeStatus(s) \/ ExpireClaim(s)
    \/ \E d \in Carriers : AssignCourier(d) \/ ExpireTracked(d)
    \/ \E e \in 1..MaxChanges : Claim(e) \/ Track(e) \/ HandlerDies(e)

TrackingSpec == TrackingInit /\ [][TrackingNext]_trackingVars

\* Handlers go on or die, and the keys of drivers have a time to live.
TrackingFairness ==
    /\ \A e \in 1..MaxChanges : WF_trackingVars(Claim(e) \/ Track(e))
    /\ \A d \in Carriers : WF_trackingVars(ExpireTracked(d))

TrackingFairSpec == TrackingSpec /\ TrackingFairness

-----------------------------------------------------------------------------
(* Properties *)

\* The positions of no driver reach the customer for good after the order is over,
\* although the handler of an earlier status may come last, a driver who was
\* replaced is never told, and a handler may die (handleOrderStatusChanged,
\* processLiveLocationUpdate).
TrackingEnds == <>[](Finished => tracked = {})
=============================================================================
