----------------------------- MODULE MCSettlement -----------------------------
(* Model of Settlement for TLC: two orders of one driver and one vendor.   *)
EXTENDS Settlement, TLC

CONSTANTS o1, o2, d1, v1

AllDue == WalletEntries \cup {"EARNED"}
MCDriverOf == [o \in Orders |-> d1]
MCVendorOf == [o \in Orders |-> v1]

\* Everything is due for o1; o2 has neither bonus, upfront payment nor coins.
MCDue == [o \in Orders |-> IF o = o1 THEN AllDue
                           ELSE AllDue \ {"BONUS", "ADJUSTMENT", "EARNED"}]

\* Errands without vendor, bonus, upfront payment and coins.
MCDueErrand == [o \in Orders |-> {"CASH_COLLECTED", "DELIVERY_FEE"}]

\* Amounts that tell every entry apart; each order alone stays within the
\* debt limit of the model, both together do not.
MCAmount ==
    [o \in Orders |->
        [e \in WalletEntries |->
            CASE e = "CASH_COLLECTED" -> -10
              [] e = "DELIVERY_FEE" -> 3
              [] e = "BONUS" -> 1
              [] e = "ADJUSTMENT" -> 1
              [] e = "ORDER_REVENUE" -> 7
              [] e = "COMMISSION_DEDUCTION" -> -2]]

Symmetry == Permutations(Jobs)

=============================================================================
