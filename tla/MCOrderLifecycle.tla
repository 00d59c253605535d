--------------------------- MODULE MCOrderLifecycle ---------------------------
(* Model of OrderLifecycle for TLC: interchangeable drivers and handlers. *)
EXTENDS OrderLifecycle, TLC

Symmetry == Permutations(Drivers) \cup Permutations(Handlers)

\* Orders with something to pay, in the combinations that take part in the
\* most: coins are spent on wallet orders; one driver at most is suspended.
MCInit ==
    /\ Init
    /\ order.payment = "PENDING"
    /\ order.coinsUsed <=> order.method = "MOBILE_WALLET"
    /\ Cardinality({d \in Drivers : driverStatus[d] = "SUSPENDED"}) <= 1

MCSpec == MCInit /\ [][Next]_vars

=============================================================================
