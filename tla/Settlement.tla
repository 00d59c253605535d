------------------------------ MODULE Settlement ------------------------------
(***************************************************************************)
(* The settlement of delivered orders: SETTLE jobs of the orders queue,    *)
(* StatisticsService.settleOrder and the unsettled-order monitor.          *)
(*                                                                         *)
(* A job posts one wallet transaction after the other, each in a database  *)
(* transaction of its own.  A wallet transaction locks the row of its      *)
(* account, looks for a row of the same order and type and only then       *)
(* writes; the coins of the customer are looked up and written without a   *)
(* lock.  Jobs for the same order can run at the same time (25 workers, a  *)
(* duplicate from the monitor, a stalled job taken over) and fail at any   *)
(* point, which rolls back the open transaction and retries the job from   *)
(* its start, at most three attempts in all.                               *)
(***************************************************************************)
EXTENDS Integers, FiniteSets

CONSTANTS
    Orders,
    Drivers, Vendors,   \* their rows, which hold the wallets
    DriverOf, VendorOf, \* the driver and the vendor of each order
    Due,                \* Due[o]: the conditional steps order o passes
    Amount,             \* Amount[o][e], signed
    MaxDebt,            \* maxNegativeDriverBalance
    Jobs, NoJob,        \* SETTLE jobs that can exist at once; none
    Batch,              \* orders the monitor reads in one run
    MaxFailures         \* bound on failed attempts

DriverEntries == {"CASH_COLLECTED", "DELIVERY_FEE", "BONUS", "ADJUSTMENT"}
VendorEntries == {"ORDER_REVENUE", "COMMISSION_DEDUCTION"}
WalletEntries == DriverEntries \cup VendorEntries
Accounts == Drivers \cup Vendors

ASSUME SettlementAssumption ==
    /\ Orders # {}
    /\ DriverOf \in [Orders -> Drivers]
    /\ VendorOf \in [Orders -> Vendors]
    /\ Drivers \cap Vendors = {}
    /\ Due \in [Orders -> SUBSET (WalletEntries \cup {"EARNED"})]
    /\ \A o \in Orders : {"CASH_COLLECTED", "DELIVERY_FEE"} \subseteq Due[o]
    /\ Amount \in [Orders -> [WalletEntries -> Int]]
    /\ MaxDebt \in Nat
    /\ NoJob \notin Jobs
    /\ Batch \in Nat
    /\ MaxFailures \in Nat

MaxAttempts == 3

\* Mistake: the balance is looked at before the order's own transactions.
PlanLockOutFirst ==
    <<"LockOut", "CASH_COLLECTED", "DELIVERY_FEE", "BONUS", "ADJUSTMENT",
      "EARNED", "ORDER_REVENUE", "COMMISSION_DEDUCTION">>

\* The order of the steps of settleOrder; "LockOut" is the check of the
\* driver's balance.
Plan ==
    <<"CASH_COLLECTED", "DELIVERY_FEE", "BONUS", "ADJUSTMENT", "LockOut",
      "EARNED", "ORDER_REVENUE", "COMMISSION_DEDUCTION">>

VARIABLES
    delivered,      \* orders whose status is DELIVERED
    job,            \* the SETTLE jobs
    rowLock,        \* who holds the FOR UPDATE lock on a driver or vendor row
    rows,           \* rows[o][e]: transaction rows of the order and type
    wallet,         \* drivers.walletBalance, vendors.walletBalance
    suspended,      \* drivers locked out for debt
    batch,          \* orders the monitor has read and not yet checked
    failures

vars == <<delivered, job, rowLock, rows, wallet, suspended, batch, failures>>

Free == [pc |-> "free", order |-> CHOOSE o \in Orders : TRUE, attempt |-> 1,
         pos |-> 1, exists |-> FALSE, balance |-> 0]

Waiting(o, attempt) ==
    [Free EXCEPT !.pc = "waiting", !.order = o, !.attempt = attempt]

AccountOf ==
    [o \in Orders |-> [e \in WalletEntries |->
        IF e \in DriverEntries THEN DriverOf[o] ELSE VendorOf[o]]]

Entry(j) == Plan[job[j].pos]
Account(j) == AccountOf[job[j].order][Entry(j)]

\* Mistake: the row is not locked while it is looked up.
LockFreeUnchecked(j) == Entry(j) \in WalletEntries

\* FOR UPDATE waits for the transaction that holds the row.
LockFree(j) == rowLock[Account(j)] = NoJob

Init ==
    /\ delivered = {}
    /\ job = [j \in Jobs |-> Free]
    /\ rowLock = [a \in Accounts |-> NoJob]
    /\ rows = [o \in Orders |-> [e \in WalletEntries \cup {"EARNED"} |-> 0]]
    /\ wallet = [a \in Accounts |-> 0]
    /\ suspended = {}
    /\ batch = {}
    /\ failures = 0

-----------------------------------------------------------------------------
(* Where jobs come from *)

Enqueue(o) ==
    \E j \in Jobs :
        /\ job[j].pc = "free"
        /\ job' = [job EXCEPT ![j] = Waiting(o, 1)]

\* The driver delivers the order; the listener adds the job, unless its
\* process dies after it took the idempotency key of the event.
Deliver(o) ==
    /\ o \notin delivered
    /\ delivered' = delivered \cup {o}
    /\ Enqueue(o) \/ UNCHANGED job
    /\ UNCHANGED <<rowLock, rows, wallet, suspended, batch, failures>>

\* The monitor reads some delivered orders, without saying which.
ScanDelivered ==
    /\ batch = {}
    /\ \E S \in SUBSET delivered :
          /\ S # {}
          /\ Cardinality(S) <= Batch
          /\ S = delivered \/ Cardinality(S) = Batch
          /\ batch' = S
    /\ UNCHANGED <<delivered, job, rowLock, rows, wallet, suspended, failures>>

\* Mistake: an order already settled counts as unsettled, and the reverse.
HasSettlementInverted(o) == rows[o]["DELIVERY_FEE"] = 0

HasSettlement(o) == rows[o]["DELIVERY_FEE"] > 0

\* It adds a job for those that have no DELIVERY_FEE row.
CheckSettlement(o) ==
    /\ o \in batch
    /\ batch' = batch \ {o}
    /\ IF HasSettlement(o) THEN UNCHANGED job ELSE Enqueue(o)
    /\ UNCHANGED <<delivered, rowLock, rows, wallet, suspended, failures>>

-----------------------------------------------------------------------------
(* A job at work *)

HandleSettle(j) ==
    /\ job[j].pc = "waiting"
    /\ job[j].order \in delivered
    /\ job' = [job EXCEPT ![j].pc = "ready"]
    /\ UNCHANGED <<delivered, rowLock, rows, wallet, suspended, batch, failures>>

At(j, pc) == job[j].pc = pc /\ job[j].pos \in DOMAIN Plan

Advance(j) == job' = [job EXCEPT ![j].pc = "ready", ![j].pos = @ + 1]

\* No bonus, no upfront amount, no coins, no vendor or a vendor without contract.
SkipEntry(j) ==
    /\ At(j, "ready")
    /\ Entry(j) \notin Due[job[j].order] \cup {"LockOut"}
    /\ Advance(j)
    /\ UNCHANGED <<delivered, rowLock, rows, wallet, suspended, batch, failures>>

\* Mistake: the job does not look whether the row exists.
LookupNothing(j) ==
    job' = [job EXCEPT ![j].pc = "checked", ![j].exists = FALSE]

Lookup(j) ==
    job' = [job EXCEPT ![j] =
        [@ EXCEPT !.pc = "checked", !.exists = rows[job[j].order][Entry(j)] > 0]]

\* SELECT ... FOR UPDATE, then findFirst of the same order and type.
LockAndLookup(j) ==
    /\ At(j, "ready")
    /\ Entry(j) \in WalletEntries \cap Due[job[j].order]
    /\ LockFree(j)
    /\ rowLock' = [rowLock EXCEPT ![Account(j)] = j]
    /\ Lookup(j)
    /\ UNCHANGED <<delivered, rows, wallet, suspended, batch, failures>>

AddRow(o, e) == rows' = [rows EXCEPT ![o][e] = @ + 1]

\* Update the balance and create the row, unless there is one; commit.
PostEntry(j) ==
    /\ At(j, "checked")
    /\ Entry(j) \in WalletEntries
    /\ IF job[j].exists THEN UNCHANGED <<rows, wallet>>
       ELSE /\ AddRow(job[j].order, Entry(j))
            /\ wallet' = [wallet EXCEPT ![Account(j)] =
                             @ + Amount[job[j].order][Entry(j)]]
    /\ rowLock' = [rowLock EXCEPT ![Account(j)] = NoJob]
    /\ Advance(j)
    /\ UNCHANGED <<delivered, suspended, batch, failures>>

\* The balance is read by a statement of its own ...
ReadBalance(j) ==
    /\ At(j, "ready")
    /\ Entry(j) = "LockOut"
    /\ job' = [job EXCEPT ![j].pc = "checked",
                          ![j].balance = wallet[DriverOf[job[j].order]]]
    /\ UNCHANGED <<delivered, rowLock, rows, wallet, suspended, batch, failures>>

\* ... and the driver is suspended by another, which waits for the row.
LockOut(j) ==
    /\ At(j, "checked")
    /\ Entry(j) = "LockOut"
    /\ rowLock[DriverOf[job[j].order]] = NoJob
    /\ suspended' = IF job[j].balance < -MaxDebt
                    THEN suspended \cup {DriverOf[job[j].order]} ELSE suspended
    /\ Advance(j)
    /\ UNCHANGED <<delivered, rowLock, rows, wallet, batch, failures>>

\* Coins of the customer: the same look-up without the lock.
LookupEarned(j) ==
    /\ At(j, "ready")
    /\ Entry(j) = "EARNED" /\ "EARNED" \in Due[job[j].order]
    /\ Lookup(j)
    /\ UNCHANGED <<delivered, rowLock, rows, wallet, suspended, batch, failures>>

PostEarned(j) ==
    /\ At(j, "checked")
    /\ Entry(j) = "EARNED"
    /\ IF job[j].exists THEN UNCHANGED rows
       ELSE AddRow(job[j].order, "EARNED")
    /\ Advance(j)
    /\ UNCHANGED <<delivered, rowLock, wallet, suspended, batch, failures>>

Finish(j) ==
    /\ job[j].pc = "ready" /\ job[j].pos \notin DOMAIN Plan
    /\ job' = [job EXCEPT ![j] = Free]
    /\ UNCHANGED <<delivered, rowLock, rows, wallet, suspended, batch, failures>>

\* Mistake: a failed transaction keeps its lock.
RolledBackNothing(j) == rowLock

\* The end of the job's open transaction, if any, frees the row.
RolledBack(j) == [a \in Accounts |-> IF rowLock[a] = j THEN NoJob ELSE rowLock[a]]

\* Anything throws, or the worker dies: the open transaction is rolled back.
Fail(j) ==
    /\ job[j].pc \notin {"free", "waiting"}
    /\ failures < MaxFailures
    /\ failures' = failures + 1
    /\ job' = [job EXCEPT ![j] = IF @.attempt < MaxAttempts
                                 THEN Waiting(@.order, @.attempt + 1) ELSE Free]
    /\ rowLock' = RolledBack(j)
    /\ UNCHANGED <<delivered, rows, wallet, suspended, batch>>

-----------------------------------------------------------------------------
\* What a worker does with the job it has.
Progress(j) ==
    \/ HandleSettle(j)
    \/ SkipEntry(j)
    \/ LockAndLookup(j)
    \/ PostEntry(j)
    \/ ReadBalance(j)
    \/ LockOut(j)
    \/ LookupEarned(j)
    \/ PostEarned(j)
    \/ Finish(j)

Next ==
    \/ \E o \in Orders : Deliver(o) \/ CheckSettlement(o)
    \/ ScanDelivered
    \/ \E j \in Jobs : Progress(j) \/ Fail(j)

Spec == Init /\ [][Next]_vars

\* Workers keep working, a lock is granted in turn, the monitor keeps
\* running; that failures end is what MaxFailures says.
FairSpec ==
    /\ Spec
    /\ \A j \in Jobs : WF_vars(Progress(j)) /\ SF_vars(LockAndLookup(j) \/ LockOut(j))
    /\ WF_vars(ScanDelivered)
    /\ \A o \in Orders : SF_vars(CheckSettlement(o))

-----------------------------------------------------------------------------
(* Properties *)

JobState ==
    [pc : {"free", "waiting", "ready", "checked"}, order : Orders,
     attempt : 1..MaxAttempts, pos : 1..9, exists : BOOLEAN, balance : Int]

\* Every variable stays in its range, and whoever holds the lock of a row is
\* a job between the look-up and the commit of a transaction on that row.
TypeOK ==
    /\ delivered \subseteq Orders
    /\ job \in [Jobs -> JobState]
    /\ rowLock \in [Accounts -> Jobs \cup {NoJob}]
    /\ rows \in [Orders -> [WalletEntries \cup {"EARNED"} -> Nat]]
    /\ wallet \in [Accounts -> Int]
    /\ suspended \subseteq Drivers
    /\ batch \subseteq delivered
    /\ failures \in 0..MaxFailures
    /\ \A a \in Accounts, j \in Jobs :
          rowLock[a] = j => At(j, "checked") /\ Entry(j) \in WalletEntries /\ a = Account(j)

\* However often and however concurrently an order is settled, each of its
\* wallet transactions exists at most once.
OncePerType == \A o \in Orders, e \in WalletEntries : rows[o][e] <= 1

Settled(o) == \A e \in Due[o] : rows[o][e] > 0

\* A driver in debt beyond the limit is locked out once no job is at work on his
\* orders, however their settlements interleaved and were retried, as long as no
\* job can have used up its attempts (settleOrder).
DebtLocksOut ==
    failures < MaxAttempts =>
        \A d \in Drivers :
            \/ \E j \in Jobs : job[j].pc # "free" /\ DriverOf[job[j].order] = d
            \/ wallet[d] < -MaxDebt => d \in suspended

\* The wallets see what Payouts says: each amount due once, whatever the
\* retries, duplicates and failures of the jobs.
Paid == {x \in Orders \X WalletEntries : rows[x[1]][x[2]] > 0}
Ledger == INSTANCE Payouts WITH paid <- Paid
PayoutsOnce == Ledger!Spec

\* The monitor's query takes Batch delivered orders in no stated order, settled
\* ones among them: from some time on, order o may never be one of those again.
PassedOver(o) == <>[](Cardinality(delivered) > Batch /\ o \notin batch)

\* The driver of a delivered order eventually gets the delivery fee, also
\* when the event was lost or all attempts of a job failed, unless the monitor
\* passes the order over for ever (handleUnsettledOrderMonitor, settleOrder).
DriverEventuallyPaid ==
    \A o \in Orders :
        PassedOver(o) \/ (o \in delivered ~> rows[o]["DELIVERY_FEE"] > 0)

\* A delivered order is eventually settled with the driver and the vendor.
EventuallySettled == \A o \in Orders : o \in delivered ~> Settled(o)

\* The coins an order earns are given once.
CoinsEarnedOnce == \A o \in Orders : rows[o]["EARNED"] <= 1

=============================================================================
