-------------------------------- MODULE Payouts --------------------------------
(***************************************************************************)
(* What settlement promises for delivered orders: every amount due enters  *)
(* the wallet it belongs to once, in one step.  Retries, duplicate jobs,   *)
(* locks and failures do not exist at this level.                          *)
(***************************************************************************)
EXTENDS Integers

CONSTANTS
    Orders,
    Accounts,           \* wallets: of drivers and of vendors
    WalletEntries,      \* the kinds of wallet transactions
    Due,                \* Due[o]: the entries order o gives rise to
    AccountOf,          \* AccountOf[o][e]: the wallet entry e of order o goes to
    Amount              \* Amount[o][e], signed

VARIABLES delivered, paid, wallet

vars == <<delivered, paid, wallet>>

Init ==
    /\ delivered = {}
    /\ paid = {}
    /\ wallet = [a \in Accounts |-> 0]

Deliver(o) ==
    /\ o \notin delivered
    /\ delivered' = delivered \cup {o}
    /\ UNCHANGED <<paid, wallet>>

Pay(o, e) ==
    /\ o \in delivered
    /\ e \in Due[o]
    /\ <<o, e>> \notin paid
    /\ paid' = paid \cup {<<o, e>>}
    /\ wallet' = [wallet EXCEPT ![AccountOf[o][e]] = @ + Amount[o][e]]
    /\ UNCHANGED delivered

Next ==
    \E o \in Orders : Deliver(o) \/ \E e \in WalletEntries : Pay(o, e)

Spec == Init /\ [][Next]_vars

=============================================================================
