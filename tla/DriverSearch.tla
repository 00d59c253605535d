------------------------------ MODULE DriverSearch ------------------------------
(***************************************************************************)
(* What the dispatch of an order promises: drivers are asked, at most one  *)
(* of those asked wins the order while it is being searched for, and the   *)
(* search ends.  Broadcasts, jobs and Redis keys do not exist here.        *)
(***************************************************************************)
CONSTANTS Drivers

VARIABLES
    searching,      \* a driver is being looked for
    asked,          \* drivers the order was ever offered to
    winners         \* drivers that got the order by accepting an offer

vars == <<searching, asked, winners>>

Init == searching = FALSE /\ asked = {} /\ winners = {}

\* Accepted by the vendor, or accepted again after a change of its items.
Start ==
    /\ ~searching /\ winners = {}
    /\ searching' = TRUE
    /\ UNCHANGED <<asked, winners>>

Ask(S) ==
    /\ asked' = asked \cup S
    /\ UNCHANGED <<searching, winners>>

Win(d) ==
    /\ searching /\ d \in asked /\ winners = {}
    /\ searching' = FALSE
    /\ winners' = {d}
    /\ UNCHANGED asked

\* Cancelled, assigned by an admin, changed or prepared without a driver.
Stop ==
    /\ searching
    /\ searching' = FALSE
    /\ UNCHANGED <<asked, winners>>

Next ==
    \/ Start \/ Stop
    \/ \E S \in SUBSET Drivers : Ask(S)
    \/ \E d \in Drivers : Win(d)

Spec == Init /\ [][Next]_vars

=============================================================================
