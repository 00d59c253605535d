--------------------------- MODULE SettlementProofs ---------------------------
(***************************************************************************)
(* For any number of orders, jobs, drivers, vendors and failures: no order *)
(* is paid twice, and the wallets change as Payouts says.  The argument is *)
(* the row lock: what a job looked up stays true until it commits, because *)
(* every other transaction on the same wallet waits.  Drivers in debt are  *)
(* locked out because whoever changed a balance is still to look at it.    *)
(***************************************************************************)
EXTENDS Settlement, TLAPS

\* Between the look-up and the commit of a wallet transaction.
InTransaction(j) == At(j, "checked") /\ Entry(j) \in WalletEntries

LookupHolds ==
    \A j \in Jobs : InTransaction(j) =>
        /\ rowLock[Account(j)] = j
        /\ Entry(j) \in Due[job[j].order]
        /\ job[j].exists <=> rows[job[j].order][Entry(j)] > 0

JobsForDelivered == \A j \in Jobs : job[j].pc # "free" => job[j].order \in delivered

IInv ==
    /\ TypeOK
    /\ LookupHolds
    /\ JobsForDelivered
    /\ OncePerType

Entries == WalletEntries \cup {"EARNED"}

-----------------------------------------------------------------------------
LEMMA PlanEntries ==
    /\ DOMAIN Plan = 1..8
    /\ \A p \in 1..8 : Plan[p] \in Entries \cup {"LockOut"}
BY DEF Plan, Entries, WalletEntries, DriverEntries, VendorEntries

LEMMA AccountsOfEntries ==
    \A o \in Orders, e \in WalletEntries : AccountOf[o][e] \in Accounts
BY SettlementAssumption DEF AccountOf, Accounts

LEMMA FreeJob == Free \in JobState /\ Free.pc = "free"
<1>1. (CHOOSE o \in Orders : TRUE) \in Orders
  BY SettlementAssumption
<1> QED
  BY <1>1 DEF Free, JobState, MaxAttempts

LEMMA WaitingJob ==
    ASSUME NEW o \in Orders, NEW n \in 1..MaxAttempts
    PROVE  /\ Waiting(o, n) \in JobState
           /\ Waiting(o, n).pc = "waiting"
           /\ Waiting(o, n).order = o
BY FreeJob DEF Waiting, Free, JobState

LEMMA InitIInv == ASSUME Init PROVE IInv
<1>1. TypeOK
  BY FreeJob, SettlementAssumption DEF Init, TypeOK, Entries
<1>2. \A j \in Jobs : job[j].pc = "free"
  BY FreeJob DEF Init
<1>3. LookupHolds /\ JobsForDelivered
  BY <1>2 DEF LookupHolds, JobsForDelivered, InTransaction, At
<1>4. OncePerType
  BY DEF Init, OncePerType
<1> QED
  BY <1>1, <1>3, <1>4 DEF IInv

\* A step after which the job is outside any transaction: a lock it held is
\* released, nobody else's is.
LEMMA OutsideStep ==
    ASSUME IInv,
           NEW j \in Jobs,
           NEW new \in JobState,
           job' = [job EXCEPT ![j] = new],
           ~(new.pc = "checked" /\ new.pos \in DOMAIN Plan /\ Plan[new.pos] \in WalletEntries),
           delivered \subseteq delivered',
           delivered' \subseteq Orders,
           rowLock' \in [Accounts -> Jobs \cup {NoJob}],
           \A a \in Accounts : rowLock'[a] =
               IF rowLock[a] = j THEN NoJob ELSE rowLock[a],
           rows' \in [Orders -> [Entries -> Nat]],
           wallet' \in [Accounts -> Int],
           suspended' \subseteq Drivers,
           batch' \subseteq delivered',
           failures' \in 0..MaxFailures,
           new.pc # "free" => new.order \in delivered',
           \A i \in Jobs \ {j} : InTransaction(i) =>
               rows'[job[i].order][Entry(i)] = rows[job[i].order][Entry(i)],
           OncePerType'
    PROVE  IInv'
<1>1. /\ job \in [Jobs -> JobState]
      /\ job' \in [Jobs -> JobState]
      /\ job'[j] = new
      /\ \A i \in Jobs \ {j} : job'[i] = job[i]
  BY DEF IInv, TypeOK
<1>2. \A i \in Jobs \ {j} : /\ InTransaction(i)' <=> InTransaction(i)
                            /\ Entry(i)' = Entry(i)
                            /\ Account(i)' = Account(i)
  BY <1>1 DEF InTransaction, At, Entry, Account
<1>3. ~InTransaction(j)'
  BY <1>1 DEF InTransaction, At, Entry
<1>4. ASSUME NEW a \in Accounts, NEW i \in Jobs, rowLock'[a] = i
      PROVE  InTransaction(i)' /\ a = Account(i)'
  <2>1. i # NoJob
    BY SettlementAssumption
  <2>2. i # j /\ rowLock[a] = i
    BY <1>4, <2>1
  <2>3. InTransaction(i) /\ a = Account(i)
    BY <2>2 DEF IInv, TypeOK, InTransaction
  <2> QED
    BY <1>2, <2>2, <2>3
<1>5. TypeOK'
  BY <1>1, <1>4 DEF IInv, TypeOK, InTransaction, Entries
<1>6. ASSUME NEW i \in Jobs, InTransaction(i)'
      PROVE  /\ rowLock'[Account(i)'] = i
             /\ Entry(i)' \in Due[job'[i].order]
             /\ job'[i].exists <=> rows'[job'[i].order][Entry(i)'] > 0
  <2>1. i # j
    BY <1>3, <1>6
  <2>2. /\ InTransaction(i) /\ job'[i] = job[i]
        /\ Entry(i)' = Entry(i) /\ Account(i)' = Account(i)
    BY <1>1, <1>2, <1>6, <2>1
  <2>3. /\ rowLock[Account(i)] = i
        /\ Entry(i) \in Due[job[i].order]
        /\ job[i].exists <=> rows[job[i].order][Entry(i)] > 0
    BY <2>2 DEF IInv, LookupHolds
  <2>4. Account(i) \in Accounts
    BY <1>1, <2>2, AccountsOfEntries DEF Account, InTransaction, JobState
  <2>5. rowLock'[Account(i)] = i
    BY <2>1, <2>3, <2>4
  <2>6. rows'[job[i].order][Entry(i)] = rows[job[i].order][Entry(i)]
    BY <2>1, <2>2
  <2> QED
    BY <2>2, <2>3, <2>5, <2>6
<1>7. LookupHolds'
  BY <1>6 DEF LookupHolds
<1>8. JobsForDelivered'
  BY <1>1 DEF IInv, JobsForDelivered
<1> QED
  BY <1>5, <1>7, <1>8 DEF IInv

\* A job outside a transaction holds no lock.
LEMMA NoLockOutside ==
    ASSUME TypeOK, NEW j \in Jobs, ~InTransaction(j)
    PROVE  \A a \in Accounts : rowLock[a] = IF rowLock[a] = j THEN NoJob ELSE rowLock[a]
BY DEF TypeOK, InTransaction

LEMMA JobFacts ==
    ASSUME IInv, NEW j \in Jobs
    PROVE  /\ job \in [Jobs -> JobState]
           /\ job[j] \in JobState
           /\ job[j].order \in Orders
           /\ DriverOf[job[j].order] \in Drivers
           /\ delivered \subseteq Orders
           /\ batch \subseteq delivered
           /\ rowLock \in [Accounts -> Jobs \cup {NoJob}]
           /\ rows \in [Orders -> [Entries -> Nat]]
           /\ wallet \in [Accounts -> Int]
           /\ suspended \subseteq Drivers
           /\ failures \in 0..MaxFailures
           /\ job[j].pc # "free" => job[j].order \in delivered
           /\ job[j].pos \in DOMAIN Plan => Entry(j) \in Entries \cup {"LockOut"}
BY SettlementAssumption, PlanEntries
   DEF IInv, TypeOK, JobsForDelivered, Entries, JobState, Entry

\* What moving on to the next step does to the job.
LEMMA AdvanceJob ==
    ASSUME IInv, NEW j \in Jobs, job[j].pos \in DOMAIN Plan, Advance(j)
    PROVE  \E new \in JobState :
               /\ job' = [job EXCEPT ![j] = new]
               /\ new.pc = "ready"
               /\ new.order = job[j].order
<1> DEFINE new == [job[j] EXCEPT !.pc = "ready", !.pos = @ + 1]
<1>1. job' = [job EXCEPT ![j] = new]
  BY JobFacts DEF Advance, JobState
<1>2. job[j].pos + 1 \in 1..9
  BY PlanEntries
<1>3. new \in JobState /\ new.pc = "ready" /\ new.order = job[j].order
  BY <1>2, JobFacts DEF JobState
<1> QED
  BY <1>1, <1>3

\* A step of one job that touches neither locks nor rows.
LEMMA LocalStep ==
    ASSUME IInv, NEW j \in Jobs, ~InTransaction(j),
           NEW new \in JobState,
           job' = [job EXCEPT ![j] = new],
           ~(new.pc = "checked" /\ new.pos \in DOMAIN Plan /\ Plan[new.pos] \in WalletEntries),
           new.pc # "free" => new.order \in delivered',
           delivered \subseteq delivered',
           delivered' \subseteq Orders,
           batch' \subseteq delivered',
           suspended' \subseteq Drivers,
           UNCHANGED <<rowLock, rows, wallet, failures>>
    PROVE  IInv'
<1>1. TypeOK /\ OncePerType
  BY DEF IInv
<1>2. OncePerType'
  BY <1>1 DEF OncePerType
<1>3. \A a \in Accounts : rowLock'[a] = IF rowLock[a] = j THEN NoJob ELSE rowLock[a]
  BY <1>1, NoLockOutside
<1> QED
  BY <1>2, <1>3, JobFacts, OutsideStep

LEMMA EnqueueStep ==
    ASSUME IInv, NEW o \in Orders, Enqueue(o),
           o \in delivered',
           delivered \subseteq delivered', delivered' \subseteq Orders,
           batch' \subseteq delivered',
           UNCHANGED <<rowLock, rows, wallet, suspended, failures>>
    PROVE  IInv'
<1>1. PICK j \in Jobs : job[j].pc = "free" /\ job' = [job EXCEPT ![j] = Waiting(o, 1)]
  BY DEF Enqueue
<1>2. /\ Waiting(o, 1) \in JobState
      /\ Waiting(o, 1).pc = "waiting"
      /\ Waiting(o, 1).order = o
  BY WaitingJob DEF MaxAttempts
<1>3. ~InTransaction(j)
  BY <1>1 DEF InTransaction, At
<1>4. suspended' \subseteq Drivers
  BY JobFacts
<1> QED
  BY <1>1, <1>2, <1>3, <1>4, LocalStep

\* Steps that leave the jobs alone.
LEMMA MonitorStep ==
    ASSUME IInv,
           delivered \subseteq delivered', delivered' \subseteq Orders,
           batch' \subseteq delivered',
           UNCHANGED <<job, rowLock, rows, wallet, suspended, failures>>
    PROVE  IInv'
<1>1. TypeOK'
  BY DEF IInv, TypeOK, At, Entry, Account
<1>2. LookupHolds'
  BY DEF IInv, LookupHolds, InTransaction, At, Entry, Account
<1>3. JobsForDelivered' /\ OncePerType'
  BY DEF IInv, JobsForDelivered, OncePerType
<1> QED
  BY <1>1, <1>2, <1>3 DEF IInv

LEMMA LockAndLookupStep ==
    ASSUME IInv, NEW j \in Jobs, LockAndLookup(j)
    PROVE  IInv'
<1> DEFINE found == rows[job[j].order][Entry(j)] > 0
           new == [job[j] EXCEPT !.pc = "checked", !.exists = found]
<1>0. /\ job \in [Jobs -> JobState] /\ job[j] \in JobState
      /\ job[j].pc = "ready" /\ job[j].pos \in DOMAIN Plan
      /\ Entry(j) \in WalletEntries
      /\ Entry(j) \in Due[job[j].order]
      /\ rowLock[Account(j)] = NoJob
      /\ rowLock' = [rowLock EXCEPT ![Account(j)] = j]
      /\ UNCHANGED <<delivered, rows, wallet, suspended, batch, failures>>
  BY JobFacts DEF LockAndLookup, At, LockFree
<1>1. job' = [job EXCEPT ![j] = new]
  BY Zenon DEF LockAndLookup, Lookup
<1>b. found \in BOOLEAN
  OBVIOUS
<1> HIDE DEF found
<1>c. /\ new \in JobState /\ new.order = job[j].order /\ new.pos = job[j].pos
      /\ new.pc = "checked" /\ new.exists = found
  BY <1>0, <1>b DEF JobState
<1> HIDE DEF new
<1>2. /\ new \in JobState /\ new.order = job[j].order /\ new.pos = job[j].pos
      /\ new.pc = "checked" /\ (new.exists <=> rows[job[j].order][Entry(j)] > 0)
  BY <1>b, <1>c, Zenon DEF found
<1>3. /\ job' \in [Jobs -> JobState]
      /\ job'[j] = new
      /\ \A i \in Jobs \ {j} : job'[i] = job[i]
  BY <1>0, <1>1, <1>2
<1>4. /\ \A i \in Jobs : Entry(i)' = Entry(i) /\ Account(i)' = Account(i)
      /\ \A i \in Jobs \ {j} : InTransaction(i)' <=> InTransaction(i)
      /\ InTransaction(j)'
  BY <1>0, <1>2, <1>3 DEF InTransaction, At, Entry, Account
<1>5. Account(j) \in Accounts
  BY <1>0, AccountsOfEntries DEF Account, JobState
<1>6. ASSUME NEW a \in Accounts, NEW i \in Jobs, rowLock'[a] = i
      PROVE  InTransaction(i)' /\ a = Account(i)'
  <2>1. CASE a = Account(j)
    <3>1. i = j
      BY <1>0, <1>5, <1>6, <2>1 DEF IInv, TypeOK
    <3> QED
      BY <1>4, <2>1, <3>1
  <2>2. CASE a # Account(j)
    <3>1. rowLock[a] = i
      BY <1>0, <1>6, <2>2 DEF IInv, TypeOK
    <3>2. InTransaction(i) /\ a = Account(i)
      BY <3>1 DEF IInv, TypeOK, InTransaction
    <3> QED
      BY <1>4, <3>2
  <2> QED
    BY <2>1, <2>2
<1>7. TypeOK'
  BY <1>0, <1>3, <1>5, <1>6 DEF IInv, TypeOK, InTransaction
<1>8. ASSUME NEW i \in Jobs, InTransaction(i)'
      PROVE  /\ rowLock'[Account(i)'] = i
             /\ Entry(i)' \in Due[job'[i].order]
             /\ job'[i].exists <=> rows'[job'[i].order][Entry(i)'] > 0
  <2>1. CASE i = j
    BY <1>0, <1>2, <1>3, <1>4, <1>5, <2>1 DEF IInv, TypeOK
  <2>2. CASE i # j
    <3>1. /\ rowLock[Account(i)] = i
          /\ Entry(i) \in Due[job[i].order]
          /\ job[i].exists <=> rows[job[i].order][Entry(i)] > 0
      BY <1>4, <1>8, <2>2 DEF IInv, LookupHolds
    <3>2. Account(i) # Account(j)
      BY <1>0, <3>1, SettlementAssumption
    <3>3. rowLock'[Account(i)] = i
      BY <1>0, <3>1, <3>2, <1>5, <1>6 DEF IInv, TypeOK
    <3> QED
      BY <1>0, <1>3, <1>4, <2>2, <3>1, <3>3
  <2> QED
    BY <2>1, <2>2
<1>9. LookupHolds'
  BY <1>8 DEF LookupHolds
<1>10. JobsForDelivered'
  BY <1>0, <1>2, <1>3 DEF IInv, JobsForDelivered
<1>11. OncePerType'
  BY <1>0 DEF IInv, OncePerType
<1> QED
  BY <1>7, <1>9, <1>10, <1>11 DEF IInv

\* Committing a wallet transaction: a row is added only when there was none.
LEMMA PostEntryFacts ==
    ASSUME IInv, NEW j \in Jobs, PostEntry(j)
    PROVE  LET o == job[j].order
               e == Entry(j)
           IN  /\ o \in delivered /\ o \in Orders
               /\ e \in WalletEntries /\ e \in Due[o]
               /\ rowLock[AccountOf[o][e]] = j
               /\ \/ /\ rows[o][e] > 0
                     /\ UNCHANGED <<rows, wallet>>
                  \/ /\ rows[o][e] = 0
                     /\ rows' = [rows EXCEPT ![o] = [@ EXCEPT ![e] = 1]]
                     /\ wallet' = [wallet EXCEPT ![AccountOf[o][e]] = @ + Amount[o][e]]
<1> DEFINE o == job[j].order
           e == Entry(j)
<1>1. /\ job[j].pc = "checked"
      /\ InTransaction(j)
      /\ e \in WalletEntries
      /\ o \in delivered /\ o \in Orders
      /\ rows \in [Orders -> [Entries -> Nat]]
      /\ job[j] \in JobState
  BY JobFacts DEF PostEntry, InTransaction, At
<1>2. /\ rowLock[AccountOf[o][e]] = j
      /\ e \in Due[o]
      /\ job[j].exists <=> rows[o][e] > 0
  BY <1>1 DEF IInv, LookupHolds, Account
<1>3. CASE job[j].exists
  <2>1. rows[o][e] > 0
    BY <1>2, <1>3
  <2>2. UNCHANGED <<rows, wallet>>
    BY <1>3 DEF PostEntry
  <2> QED
    BY <1>1, <1>2, <2>1, <2>2
<1>4. CASE ~job[j].exists
  <2>1. ~(rows[o][e] > 0)
    BY <1>2, <1>4
  <2>2. rows[o][e] \in Nat
    BY <1>1 DEF Entries
  <2>3. rows[o][e] = 0
    BY <2>1, <2>2
  <2>4. /\ rows' = [rows EXCEPT ![o][e] = @ + 1]
        /\ wallet' = [wallet EXCEPT ![AccountOf[o][e]] = @ + Amount[o][e]]
    BY <1>4 DEF PostEntry, AddRow, Account
  <2>5. rows' = [rows EXCEPT ![o] = [@ EXCEPT ![e] = 1]]
    BY <1>1, <2>3, <2>4 DEF Entries
  <2> QED
    BY <1>1, <1>2, <2>3, <2>4, <2>5
<1> QED
  BY <1>3, <1>4

LEMMA PostEntryStep ==
    ASSUME IInv, NEW j \in Jobs, PostEntry(j)
    PROVE  IInv'
<1> DEFINE o == job[j].order
           e == Entry(j)
<1>0. /\ job[j].pos \in DOMAIN Plan
      /\ Advance(j)
      /\ rowLock' = [rowLock EXCEPT ![AccountOf[o][e]] = NoJob]
      /\ UNCHANGED <<delivered, suspended, batch, failures>>
  BY DEF PostEntry, At, Account
<1>1. /\ o \in delivered /\ o \in Orders
      /\ e \in WalletEntries /\ e \in Due[o]
      /\ rowLock[AccountOf[o][e]] = j
      /\ \/ UNCHANGED <<rows, wallet>>
         \/ /\ rows[o][e] = 0
            /\ rows' = [rows EXCEPT ![o] = [@ EXCEPT ![e] = 1]]
            /\ wallet' = [wallet EXCEPT ![AccountOf[o][e]] = @ + Amount[o][e]]
  BY PostEntryFacts
<1>2. PICK new \in JobState :
          job' = [job EXCEPT ![j] = new] /\ new.pc = "ready" /\ new.order = o
  BY <1>0, AdvanceJob
<1>3. AccountOf[o][e] \in Accounts /\ Amount[o][e] \in Int /\ e \in Entries
  BY <1>1, AccountsOfEntries, SettlementAssumption DEF Entries
<1>t. /\ rows \in [Orders -> [Entries -> Nat]]
      /\ wallet \in [Accounts -> Int]
      /\ rowLock \in [Accounts -> Jobs \cup {NoJob}]
      /\ delivered \subseteq Orders /\ batch \subseteq delivered
      /\ suspended \subseteq Drivers /\ failures \in 0..MaxFailures
      /\ OncePerType /\ TypeOK
  BY JobFacts DEF IInv
<1>4. rows' \in [Orders -> [Entries -> Nat]] /\ wallet' \in [Accounts -> Int]
  <2>1. rows' \in [Orders -> [Entries -> Nat]]
    BY <1>1, <1>3, <1>t
  <2>2. wallet[AccountOf[o][e]] + Amount[o][e] \in Int
    BY <1>3, <1>t
  <2>3. wallet' \in [Accounts -> Int]
    BY <1>1, <1>3, <1>t, <2>2
  <2> QED
    BY <2>1, <2>3
<1>5. OncePerType'
  BY <1>1, <1>3, <1>t DEF OncePerType, Entries
<1>6. rowLock' \in [Accounts -> Jobs \cup {NoJob}]
  BY <1>0, <1>t
<1>7. ASSUME NEW a \in Accounts
      PROVE  rowLock'[a] = IF rowLock[a] = j THEN NoJob ELSE rowLock[a]
  <2>1. rowLock[a] = j => a = AccountOf[o][e]
    BY <1>t DEF TypeOK, Account
  <2> QED
    BY <1>0, <1>1, <1>3, <1>t, <2>1
<1>8. ASSUME NEW i \in Jobs \ {j}, InTransaction(i)
      PROVE  rows'[job[i].order][Entry(i)] = rows[job[i].order][Entry(i)]
  <2>1. rowLock[AccountOf[job[i].order][Entry(i)]] = i
    BY <1>8 DEF IInv, LookupHolds, Account
  <2>2. ~(job[i].order = o /\ Entry(i) = e)
    BY <1>1, <2>1
  <2>3. job[i].order \in Orders /\ Entry(i) \in Entries
    BY <1>8, JobFacts DEF InTransaction, Entries
  <2> QED
    BY <1>1, <1>3, <1>t, <2>2, <2>3
<1> QED
  BY <1>0, <1>1, <1>2, <1>4, <1>5, <1>6, <1>7, <1>8, <1>t, OutsideStep

LEMMA PostEarnedStep ==
    ASSUME IInv, NEW j \in Jobs, PostEarned(j)
    PROVE  IInv'
<1>0. /\ job[j].pos \in DOMAIN Plan /\ Entry(j) = "EARNED"
      /\ Advance(j)
      /\ UNCHANGED <<delivered, rowLock, wallet, suspended, batch, failures>>
      /\ rows' = rows \/ rows' = [rows EXCEPT ![job[j].order]["EARNED"] = @ + 1]
  BY DEF PostEarned, At, AddRow
<1>1. PICK new \in JobState :
          job' = [job EXCEPT ![j] = new] /\ new.pc = "ready" /\ new.order = job[j].order
  BY <1>0, AdvanceJob
<1>2. "EARNED" \notin WalletEntries /\ "EARNED" \in Entries
  BY DEF WalletEntries, DriverEntries, VendorEntries, Entries
<1>3. /\ rows' \in [Orders -> [Entries -> Nat]]
      /\ \A o \in Orders, e \in WalletEntries : rows'[o][e] = rows[o][e]
  <2>1. /\ rows \in [Orders -> [Entries -> Nat]]
        /\ job[j].order \in Orders
    BY JobFacts
  <2>2. rows[job[j].order]["EARNED"] + 1 \in Nat
    BY <1>2, <2>1
  <2>3. \A e \in WalletEntries : e \in Entries /\ e # "EARNED"
    BY <1>2 DEF Entries
  <2>4. CASE rows' = rows
    BY <2>1, <2>4
  <2>5. CASE rows' = [rows EXCEPT ![job[j].order]["EARNED"] = @ + 1]
    BY <1>2, <2>1, <2>2, <2>3, <2>5
  <2> QED
    BY <1>0, <2>4, <2>5
<1>4. OncePerType'
  BY <1>3 DEF IInv, OncePerType
<1>5. ~InTransaction(j)
  BY <1>0, <1>2 DEF InTransaction
<1>6. \A a \in Accounts : rowLock'[a] = IF rowLock[a] = j THEN NoJob ELSE rowLock[a]
  BY <1>0, <1>5, NoLockOutside DEF IInv
<1>7. ASSUME NEW i \in Jobs \ {j}, InTransaction(i)
      PROVE  rows'[job[i].order][Entry(i)] = rows[job[i].order][Entry(i)]
  BY <1>3, <1>7, JobFacts DEF InTransaction
<1>8. job[j].pc # "free"
  BY DEF PostEarned, At
<1> QED
  BY <1>0, <1>1, <1>3, <1>4, <1>6, <1>7, <1>8, JobFacts, OutsideStep

LEMMA FailStep ==
    ASSUME IInv, NEW j \in Jobs, Fail(j)
    PROVE  IInv'
<1> DEFINE new == IF job[j].attempt < MaxAttempts
                  THEN Waiting(job[j].order, job[j].attempt + 1) ELSE Free
<1>0. /\ job[j].pc # "free"
      /\ failures < MaxFailures /\ failures' = failures + 1
      /\ rowLock' = [a \in Accounts |-> IF rowLock[a] = j THEN NoJob ELSE rowLock[a]]
      /\ UNCHANGED <<delivered, rows, wallet, suspended, batch>>
      /\ job' = [job EXCEPT ![j] = new]
  BY JobFacts DEF Fail, RolledBack
<1>1. new \in JobState /\ new.pc \in {"free", "waiting"}
      /\ (new.pc # "free" => new.order = job[j].order)
  <2>1. CASE job[j].attempt < MaxAttempts
    <3>1. job[j].attempt + 1 \in 1..MaxAttempts
      BY <2>1, JobFacts DEF JobState, MaxAttempts
    <3> QED
      BY <2>1, <3>1, JobFacts, WaitingJob
  <2>2. CASE ~(job[j].attempt < MaxAttempts)
    BY <2>2, FreeJob
  <2> QED
    BY <2>1, <2>2
<1> HIDE DEF new
<1>2. failures' \in 0..MaxFailures
  BY <1>0, JobFacts, SettlementAssumption
<1>3. rowLock' \in [Accounts -> Jobs \cup {NoJob}]
  BY <1>0, JobFacts
<1>4. OncePerType'
  BY <1>0 DEF IInv, OncePerType
<1> QED
  BY <1>0, <1>1, <1>2, <1>3, <1>4, JobFacts, OutsideStep

LEMMA OtherProgress ==
    ASSUME IInv, NEW j \in Jobs,
           \/ HandleSettle(j) \/ SkipEntry(j) \/ ReadBalance(j) \/ LockOut(j)
           \/ LookupEarned(j) \/ Finish(j)
    PROVE  IInv'
<1>f. /\ job \in [Jobs -> JobState] /\ job[j] \in JobState
      /\ delivered \subseteq Orders /\ batch \subseteq delivered
      /\ suspended \subseteq Drivers
      /\ DriverOf[job[j].order] \in Drivers
      /\ wallet \in [Accounts -> Int]
      /\ job[j].pc # "free" => job[j].order \in delivered
  BY JobFacts
<1>s. "LockOut" \notin WalletEntries /\ "EARNED" \notin WalletEntries
  BY DEF WalletEntries, DriverEntries, VendorEntries
<1>1. CASE HandleSettle(j)
  <2> DEFINE new == [job[j] EXCEPT !.pc = "ready"]
  <2>1. new \in JobState /\ new.pc = "ready" /\ new.order = job[j].order
    BY <1>f DEF JobState
  <2>2. job' = [job EXCEPT ![j] = new]
    BY <1>1, <1>f DEF HandleSettle
  <2>3. ~InTransaction(j) /\ job[j].pc # "free"
    BY <1>1 DEF HandleSettle, InTransaction, At
  <2> HIDE DEF new
  <2> QED
    BY <1>1, <1>f, <2>1, <2>2, <2>3, LocalStep DEF HandleSettle
<1>2. CASE SkipEntry(j) \/ LockOut(j)
  <2>1. /\ job[j].pos \in DOMAIN Plan /\ Advance(j)
        /\ ~InTransaction(j) /\ job[j].pc # "free"
        /\ suspended' \subseteq Drivers
        /\ UNCHANGED <<delivered, rowLock, rows, wallet, batch, failures>>
    BY <1>2, <1>f, <1>s DEF SkipEntry, LockOut, InTransaction, At
  <2>2. PICK new \in JobState :
            job' = [job EXCEPT ![j] = new] /\ new.pc = "ready" /\ new.order = job[j].order
    BY <2>1, AdvanceJob
  <2> QED
    BY <1>f, <2>1, <2>2, LocalStep
<1>3. CASE ReadBalance(j)
  <2> DEFINE new == [job[j] EXCEPT !.pc = "checked",
                                   !.balance = wallet[DriverOf[job[j].order]]]
  <2>1. wallet[DriverOf[job[j].order]] \in Int
    BY <1>f DEF Accounts
  <2>2. new \in JobState /\ new.pos = job[j].pos /\ new.order = job[j].order
    BY <1>f, <2>1 DEF JobState
  <2>3. job' = [job EXCEPT ![j] = new]
    BY <1>3, <1>f DEF ReadBalance, JobState
  <2>4. Plan[job[j].pos] = "LockOut" /\ ~InTransaction(j) /\ job[j].pc # "free"
        /\ UNCHANGED <<delivered, rowLock, rows, wallet, suspended, batch, failures>>
    BY <1>3 DEF ReadBalance, InTransaction, At, Entry
  <2> HIDE DEF new
  <2> QED
    BY <1>f, <1>s, <2>2, <2>3, <2>4, LocalStep
<1>4. CASE LookupEarned(j)
  <2> DEFINE found == rows[job[j].order][Entry(j)] > 0
             new == [job[j] EXCEPT !.pc = "checked", !.exists = found]
  <2>1. job' = [job EXCEPT ![j] = new]
    BY <1>4, Zenon DEF LookupEarned, Lookup
  <2>2. found \in BOOLEAN
    OBVIOUS
  <2> HIDE DEF found
  <2>3. new \in JobState /\ new.pos = job[j].pos /\ new.order = job[j].order
    BY <1>f, <2>2 DEF JobState
  <2>4. Plan[job[j].pos] = "EARNED" /\ ~InTransaction(j) /\ job[j].pc # "free"
        /\ UNCHANGED <<delivered, rowLock, rows, wallet, suspended, batch, failures>>
    BY <1>4, <1>s DEF LookupEarned, InTransaction, At, Entry
  <2> HIDE DEF new
  <2> QED
    BY <1>f, <1>s, <2>1, <2>3, <2>4, LocalStep
<1>5. CASE Finish(j)
  <2>1. ~InTransaction(j)
        /\ job' = [job EXCEPT ![j] = Free]
        /\ UNCHANGED <<delivered, rowLock, rows, wallet, suspended, batch, failures>>
    BY <1>5 DEF Finish, InTransaction, At
  <2> QED
    BY <1>f, <2>1, FreeJob, LocalStep
<1> QED
  BY <1>1, <1>2, <1>3, <1>4, <1>5

LEMMA OrderSteps ==
    ASSUME IInv, NEW o \in Orders, Deliver(o) \/ CheckSettlement(o)
    PROVE  IInv'
<1>1. delivered \subseteq Orders /\ batch \subseteq delivered
  BY JobFacts DEF IInv, TypeOK
<1>2. CASE Deliver(o)
  <2>1. /\ Enqueue(o) \/ UNCHANGED job
        /\ delivered' = delivered \cup {o}
        /\ UNCHANGED <<rowLock, rows, wallet, suspended, batch, failures>>
    BY <1>2 DEF Deliver
  <2> QED
    BY <1>1, <2>1, EnqueueStep, MonitorStep
<1>3. CASE CheckSettlement(o)
  <2>1. /\ Enqueue(o) \/ UNCHANGED job
        /\ o \in batch /\ batch' = batch \ {o}
        /\ UNCHANGED <<delivered, rowLock, rows, wallet, suspended, failures>>
    BY <1>3 DEF CheckSettlement
  <2> QED
    BY <1>1, <2>1, EnqueueStep, MonitorStep
<1> QED
  BY <1>2, <1>3

LEMMA NextPreserves == IInv /\ [Next]_vars => IInv'
<1> SUFFICES ASSUME IInv, [Next]_vars PROVE IInv'
  OBVIOUS
<1>1. delivered \subseteq Orders /\ batch \subseteq delivered
  BY DEF IInv, TypeOK
<1>2. CASE ScanDelivered \/ UNCHANGED vars
  <2>1. /\ UNCHANGED <<delivered, job, rowLock, rows, wallet, suspended, failures>>
        /\ batch' \subseteq delivered
    BY <1>1, <1>2 DEF ScanDelivered, vars
  <2> QED
    BY <1>1, <2>1, MonitorStep
<1>3. CASE \E o \in Orders : Deliver(o) \/ CheckSettlement(o)
  BY <1>3, OrderSteps
<1>4. CASE \E j \in Jobs : Progress(j) \/ Fail(j)
  BY <1>4, LockAndLookupStep, PostEntryStep, PostEarnedStep, FailStep, OtherProgress
     DEF Progress
<1> QED
  BY <1>2, <1>3, <1>4 DEF Next

LEMMA Invariance == Spec => []IInv
BY InitIInv, NextPreserves, PTL DEF Spec

-----------------------------------------------------------------------------
(* The theorems *)

\* Every variable keeps its range, and a lock is held only by a job that is
\* inside a transaction on that row.
THEOREM TypeCorrect == Spec => []TypeOK
BY Invariance, PTL DEF IInv

\* No wallet transaction of an order is ever written twice, for any number of
\* concurrent, duplicate and failing settle jobs.
THEOREM EachTypeOnce == Spec => []OncePerType
BY Invariance, PTL DEF IInv

-----------------------------------------------------------------------------
(* Debt: whoever has changed the balance of a driver is still going to look *)
(* at it, or has looked at it when it was what it is.                      *)

BelowLimit(n) == n < -MaxDebt

\* What becomes of the job r will lock the driver out, if he is in debt.
WillLook(r) ==
    \/ r.pc = "waiting" /\ r.pos = 1
    \/ r.pc \in {"ready", "checked"} /\ r.pos \in 1..4
    \/ r.pc = "ready" /\ r.pos = 5
    \/ r.pc = "checked" /\ r.pos = 5 /\ BelowLimit(r.balance)

Looking(j, d) == DriverOf[job[j].order] = d /\ WillLook(job[j])

DebtSeen ==
    failures < MaxAttempts =>
        \A d \in Drivers : BelowLimit(wallet[d]) => d \in suspended \/ \E j \in Jobs : Looking(j, d)

\* Every attempt but the first follows a failure; a job that waits begins at the start.
AttemptsCounted ==
    \A j \in Jobs : job[j].attempt <= failures + 1 /\ (job[j].pc = "waiting" => job[j].pos = 1)

DebtInv == IInv /\ AttemptsCounted /\ DebtSeen

\* A step that makes new of job j counts the attempts, and whoever it leaves in
\* debt is locked out, or is looked at by new, or was not by j.
KeepsLooking(j, new) ==
    /\ suspended \subseteq suspended' /\ failures' \in Nat /\ failures <= failures'
    /\ new.attempt <= failures' + 1 /\ (new.pc = "waiting" => new.pos = 1)
    /\ failures' < MaxAttempts => \A d \in Drivers : BelowLimit(wallet'[d]) =>
           \/ DriverOf[new.order] = d /\ WillLook(new)
           \/ d \in suspended'
           \/ wallet'[d] = wallet[d] /\ ~Looking(j, d)

\* A step of one job, and of no balance but of a driver whose job it is.
LEMMA JobLooks ==
    ASSUME DebtInv, NEW j \in Jobs, NEW new \in JobState, job' = [job EXCEPT ![j] = new],
           KeepsLooking(j, new)
    PROVE  AttemptsCounted' /\ DebtSeen'
<1>1. /\ job' \in [Jobs -> JobState] /\ job'[j] = new
      /\ \A i \in Jobs \ {j} : job'[i] = job[i]
      /\ failures \in Nat /\ \A i \in Jobs : job[i] \in JobState
  BY SettlementAssumption DEF DebtInv, IInv, TypeOK
<1>2. AttemptsCounted'
  <2> SUFFICES ASSUME NEW i \in Jobs, i # j
               PROVE  job[i].attempt <= failures' + 1 /\ (job[i].pc = "waiting" => job[i].pos = 1)
    BY <1>1 DEF AttemptsCounted, KeepsLooking
  <2>1. PICK n \in Nat : n = job[i].attempt
    BY <1>1 DEF JobState, MaxAttempts
  <2>2. n <= failures + 1 /\ (job[i].pc = "waiting" => job[i].pos = 1)
    BY <2>1 DEF DebtInv, AttemptsCounted
  <2>3. failures \in Nat /\ failures' \in Nat /\ failures <= failures'
    BY <1>1 DEF KeepsLooking
  <2> QED
    BY <2>1, <2>2, <2>3
<1>3. ASSUME failures' < MaxAttempts, NEW d \in Drivers, BelowLimit(wallet'[d]), d \notin suspended'
      PROVE  \E i \in Jobs : Looking(i, d)'
  <2>1. CASE DriverOf[new.order] = d /\ WillLook(new)
    BY <1>1, <2>1 DEF Looking, WillLook, BelowLimit
  <2>2. CASE wallet'[d] = wallet[d] /\ ~Looking(j, d)
    <3>1. failures < MaxAttempts
      BY <1>1, <1>3 DEF MaxAttempts, KeepsLooking
    <3>2. PICK i \in Jobs : Looking(i, d)
      BY <1>3, <2>2, <3>1 DEF DebtInv, DebtSeen, BelowLimit, KeepsLooking
    <3>3. i # j
      BY <2>2, <3>2
    <3> QED
      BY <1>1, <3>2, <3>3 DEF Looking, WillLook, BelowLimit
  <2> QED
    BY <1>3, <2>1, <2>2 DEF KeepsLooking
<1>4. DebtSeen'
  BY <1>3 DEF DebtSeen, BelowLimit
<1> QED
  BY <1>2, <1>4

\* No job and no balance changes.
LEMMA JobsAside ==
    ASSUME DebtInv, UNCHANGED <<job, wallet, suspended, failures>>
    PROVE  AttemptsCounted' /\ DebtSeen'
BY DEF DebtInv, AttemptsCounted, DebtSeen, Looking, WillLook, BelowLimit

LEMMA EnqueueLooks ==
    ASSUME DebtInv, NEW o \in Orders, Enqueue(o), UNCHANGED <<wallet, suspended, failures>>
    PROVE  AttemptsCounted' /\ DebtSeen'
<1>1. PICK new \in JobState : new = Waiting(o, 1)
  BY WaitingJob DEF MaxAttempts
<1>2. PICK j \in Jobs : job[j].pc = "free" /\ job' = [job EXCEPT ![j] = new]
  BY <1>1 DEF Enqueue
<1>3. new.attempt = 1 /\ new.pos = 1
  BY <1>1 DEF Waiting, Free
<1>4. \A d \in Drivers : ~Looking(j, d)
  BY <1>2 DEF Looking, WillLook
<1>5. failures \in Nat
  BY SettlementAssumption DEF DebtInv, IInv, TypeOK
<1>6. KeepsLooking(j, new)
  BY <1>3, <1>4, <1>5 DEF KeepsLooking
<1> QED
  BY <1>2, <1>6, JobLooks

LEMMA PlanPlaces ==
    /\ \A p \in 1..8 : Plan[p] \in DriverEntries <=> p \in 1..4
    /\ \A p \in 1..8 : Plan[p] = "LockOut" <=> p = 5
    /\ DOMAIN Plan = 1..8 /\ DriverEntries \subseteq WalletEntries
    /\ \A p \in 1..8 : Plan[p] \in VendorEntries => p \in 7..8
BY DEF Plan, WalletEntries, DriverEntries, VendorEntries

\* What moving on does: to the look at the balance, or past it.
LEMMA AdvanceLooks ==
    ASSUME DebtInv, NEW j \in Jobs, job[j].pc \in {"ready", "checked"}, job[j].pos \in DOMAIN Plan,
           Advance(j), UNCHANGED failures
    PROVE  \E new \in JobState :
               /\ job' = [job EXCEPT ![j] = new]
               /\ new.pc = "ready" /\ new.order = job[j].order /\ new.attempt <= failures' + 1
               /\ WillLook(new) <=> job[j].pos \in 1..4
<1>1. job \in [Jobs -> JobState] /\ job[j] \in JobState
  BY DEF DebtInv, IInv, TypeOK
<1>2. PICK p \in 1..8 : p = job[j].pos
  BY PlanPlaces
<1> DEFINE new == [job[j] EXCEPT !.pc = "ready", !.pos = p + 1]
<1>3. job' = [job EXCEPT ![j] = new]
  BY <1>1, <1>2 DEF Advance, JobState
<1>4. p + 1 \in 1..9
  OBVIOUS
<1>5. /\ new \in JobState /\ new.pc = "ready" /\ new.order = job[j].order
      /\ new.attempt = job[j].attempt /\ new.pos = p + 1
  BY <1>1, <1>4 DEF JobState
<1> HIDE DEF new
<1>6. WillLook(new) <=> p \in 1..4
  BY <1>5 DEF WillLook
<1>7. new.attempt <= failures' + 1
  BY <1>5 DEF DebtInv, AttemptsCounted
<1> QED
  BY <1>2, <1>3, <1>5, <1>6, <1>7

LEMMA PostLooks ==
    ASSUME DebtInv, NEW j \in Jobs,
           SkipEntry(j) \/ PostEntry(j) \/ PostEarned(j) \/ LockOut(j)
    PROVE  AttemptsCounted' /\ DebtSeen'
<1>1. /\ job[j].pc \in {"ready", "checked"} /\ job[j].pos \in DOMAIN Plan /\ Advance(j)
      /\ UNCHANGED failures /\ suspended \subseteq suspended'
  BY DEF SkipEntry, PostEntry, PostEarned, LockOut, At
<1>2. /\ failures \in Nat /\ wallet \in [Accounts -> Int] /\ job[j].order \in Orders /\ IInv
      /\ job[j].pos \in 1..8 /\ Drivers \subseteq Accounts
  <2>1. IInv /\ TypeOK /\ job[j].order \in Orders
    BY JobFacts DEF DebtInv, IInv
  <2> QED
    BY <1>1, <2>1, PlanPlaces, SettlementAssumption DEF TypeOK, Accounts
<1>3. PICK new \in JobState :
         /\ job' = [job EXCEPT ![j] = new]
         /\ new.pc = "ready" /\ new.order = job[j].order /\ new.attempt <= failures' + 1
         /\ WillLook(new) <=> job[j].pos \in 1..4
  BY <1>1, AdvanceLooks
<1>4. ASSUME NEW d \in Drivers, BelowLimit(wallet'[d])
      PROVE  \/ DriverOf[new.order] = d /\ WillLook(new)
             \/ d \in suspended'
             \/ wallet'[d] = wallet[d] /\ ~Looking(j, d)
  <2>1. CASE wallet'[d] = wallet[d]
    <3>1. CASE ~Looking(j, d)
      BY <2>1, <3>1
    <3>2. CASE Looking(j, d) /\ job[j].pos \in 1..4
      BY <1>3, <3>2 DEF Looking
    <3>3. CASE Looking(j, d) /\ job[j].pos = 5
      <4>1. Entry(j) = "LockOut"
        BY <1>2, <3>3, PlanPlaces DEF Entry
      <4>2. "LockOut" \notin WalletEntries
        BY DEF WalletEntries, DriverEntries, VendorEntries
      <4>3. LockOut(j)
        BY <4>1, <4>2 DEF SkipEntry, PostEntry, PostEarned
      <4>4. BelowLimit(job[j].balance) /\ DriverOf[job[j].order] = d
        BY <3>3, <4>3 DEF Looking, WillLook, LockOut, At
      <4> QED
        BY <4>3, <4>4 DEF LockOut, BelowLimit
    <3> QED
      BY <1>1, <3>1, <3>2, <3>3 DEF Looking, WillLook
  <2>2. CASE wallet'[d] # wallet[d]
    <3>1. PostEntry(j)
      BY <2>2 DEF SkipEntry, PostEarned, LockOut
    <3>2. /\ Entry(j) \in WalletEntries
          /\ wallet' = wallet \/ wallet' = [wallet EXCEPT ![Account(j)] = @ + Amount[job[j].order][Entry(j)]]
      BY <3>1 DEF PostEntry
    <3>3. Account(j) = d
      BY <1>2, <2>2, <3>2
    <3>4. Entry(j) \in DriverEntries /\ DriverOf[job[j].order] = d
      <4>1. AccountOf[job[j].order][Entry(j)] = d
        BY <3>3 DEF Account
      <4>2. Entry(j) \notin DriverEntries => d = VendorOf[job[j].order]
        BY <1>2, <3>2, <4>1 DEF AccountOf
      <4>3. VendorOf[job[j].order] \notin Drivers
        BY <1>2, SettlementAssumption
      <4>4. Entry(j) \in DriverEntries
        BY <4>2, <4>3
      <4> QED
        BY <1>2, <3>2, <4>1, <4>4 DEF AccountOf
    <3>5. job[j].pos \in 1..4
      BY <1>2, <3>4, PlanPlaces DEF Entry
    <3> QED
      BY <1>3, <3>4, <3>5
  <2> QED
    BY <2>1, <2>2
<1>5. KeepsLooking(j, new)
  BY <1>1, <1>2, <1>3, <1>4 DEF KeepsLooking
<1> QED
  BY <1>3, <1>5, JobLooks

LEMMA WorkLooks ==
    ASSUME DebtInv, NEW j \in Jobs,
           HandleSettle(j) \/ LockAndLookup(j) \/ ReadBalance(j) \/ LookupEarned(j) \/ Finish(j)
    PROVE  AttemptsCounted' /\ DebtSeen'
<1>1. UNCHANGED <<wallet, suspended, failures>>
  BY DEF HandleSettle, LockAndLookup, ReadBalance, LookupEarned, Finish
<1>2. /\ failures \in Nat /\ wallet \in [Accounts -> Int] /\ job[j].order \in Orders /\ IInv
      /\ job \in [Jobs -> JobState] /\ job[j] \in JobState /\ Drivers \subseteq Accounts
      /\ job[j].attempt <= failures + 1 /\ (job[j].pc = "waiting" => job[j].pos = 1)
  <2>1. IInv /\ TypeOK /\ job[j].order \in Orders
    BY JobFacts DEF DebtInv, IInv
  <2> QED
    BY <2>1, SettlementAssumption DEF TypeOK, Accounts, AttemptsCounted, DebtInv
<1>3. CASE HandleSettle(j)
  <2> DEFINE new == [job[j] EXCEPT !.pc = "ready"]
  <2>1. /\ new \in JobState /\ new.pc = "ready" /\ new.order = job[j].order /\ new.pos = job[j].pos
        /\ new.attempt = job[j].attempt
    BY <1>2 DEF JobState
  <2>2. job' = [job EXCEPT ![j] = new]
    BY <1>2, <1>3 DEF HandleSettle
  <2>3. job[j].pos = 1
    BY <1>2, <1>3 DEF HandleSettle
  <2> HIDE DEF new
  <2>4. WillLook(new)
    BY <2>1, <2>3 DEF WillLook
  <2> QED
    <3>1. KeepsLooking(j, new)
      BY <1>1, <1>2, <2>1, <2>3, <2>4 DEF KeepsLooking, Looking
    <3> QED
      BY <2>1, <2>2, <3>1, JobLooks
<1>4. CASE LockAndLookup(j) \/ LookupEarned(j)
  <2> DEFINE found == rows[job[j].order][Entry(j)] > 0
             new == [job[j] EXCEPT !.pc = "checked", !.exists = found]
  <2>1. job' = [job EXCEPT ![j] = new]
    BY <1>4, Zenon DEF LockAndLookup, LookupEarned, Lookup
  <2>2. found \in BOOLEAN
    OBVIOUS
  <2> HIDE DEF found
  <2>3. /\ new \in JobState /\ new.pc = "checked" /\ new.order = job[j].order /\ new.pos = job[j].pos
        /\ new.attempt = job[j].attempt
    BY <1>2, <2>2 DEF JobState
  <2>4. job[j].pc = "ready" /\ job[j].pos \in 1..8 /\ job[j].pos # 5
    <3>1. "LockOut" \notin WalletEntries
      BY DEF WalletEntries, DriverEntries, VendorEntries
    <3> QED
      BY <1>4, <3>1, PlanPlaces DEF LockAndLookup, LookupEarned, At, Entry
  <2> HIDE DEF new
  <2>5. WillLook(job[j]) <=> WillLook(new)
    BY <2>3, <2>4 DEF WillLook
  <2> QED
    <3>1. KeepsLooking(j, new)
      BY <1>1, <1>2, <2>3, <2>5 DEF KeepsLooking, Looking
    <3> QED
      BY <2>1, <2>3, <3>1, JobLooks
<1>5. CASE ReadBalance(j)
  <2>1. DriverOf[job[j].order] \in Drivers
    BY <1>2, SettlementAssumption
  <2>2. PICK b \in Int : b = wallet[DriverOf[job[j].order]]
    BY <1>2, <2>1
  <2> DEFINE new == [job[j] EXCEPT !.pc = "checked", !.balance = b]
  <2>3. job' = [job EXCEPT ![j] = new]
    BY <1>2, <1>5, <2>2 DEF ReadBalance, JobState
  <2>4. /\ new \in JobState /\ new.pc = "checked" /\ new.order = job[j].order /\ new.pos = job[j].pos
        /\ new.attempt = job[j].attempt /\ new.balance = b
    BY <1>2 DEF JobState
  <2>5. job[j].pos = 5
    BY <1>5, PlanPlaces DEF ReadBalance, At, Entry
  <2> HIDE DEF new
  <2>6. BelowLimit(b) => WillLook(new)
    BY <2>4, <2>5 DEF WillLook
  <2> QED
    <3>1. KeepsLooking(j, new)
      BY <1>1, <1>2, <2>2, <2>4, <2>6 DEF KeepsLooking, Looking
    <3> QED
      BY <2>3, <2>4, <3>1, JobLooks
<1>6. CASE Finish(j)
  <2>1. job' = [job EXCEPT ![j] = Free] /\ job[j].pc = "ready" /\ job[j].pos \notin 1..8
    BY <1>6, PlanPlaces DEF Finish
  <2>2. PICK new \in JobState : new = Free
    BY FreeJob
  <2>3. new.attempt = 1 /\ new.pos = 1
    BY <2>2 DEF Free
  <2>4. ~WillLook(job[j])
    BY <2>1 DEF WillLook
  <2>5. KeepsLooking(j, new)
    BY <1>1, <1>2, <2>3, <2>4 DEF KeepsLooking, Looking
  <2> QED
    BY <2>1, <2>2, <2>5, JobLooks
<1> QED
  BY <1>3, <1>4, <1>5, <1>6

\* A failed attempt is repeated from the start; the last one is at least the third failure.
LEMMA FailLooks ==
    ASSUME DebtInv, NEW j \in Jobs, Fail(j)
    PROVE  AttemptsCounted' /\ DebtSeen'
<1>1. /\ failures \in Nat /\ failures' = failures + 1 /\ UNCHANGED <<wallet, suspended>>
      /\ job[j].order \in Orders /\ job[j] \in JobState
  <2>1. IInv /\ TypeOK /\ job[j].order \in Orders
    BY JobFacts DEF DebtInv, IInv
  <2> QED
    BY <2>1, SettlementAssumption DEF TypeOK, Fail
<1>2. PICK n \in 1..3 : n = job[j].attempt /\ n <= failures + 1
  BY <1>1 DEF DebtInv, AttemptsCounted, JobState, MaxAttempts
<1>3. CASE n < 3
  <2>1. PICK new \in JobState : new = Waiting(job[j].order, n + 1)
    BY <1>1, <1>3, WaitingJob DEF MaxAttempts
  <2>2. job' = [job EXCEPT ![j] = new]
    BY <1>2, <1>3, <2>1 DEF Fail, MaxAttempts
  <2>3. new.order = job[j].order /\ new.attempt = n + 1 /\ new.pos = 1 /\ new.pc = "waiting"
    BY <2>1 DEF Waiting, Free
  <2>4. WillLook(new)
    BY <2>3 DEF WillLook
  <2> QED
    <3>1. KeepsLooking(j, new)
      BY <1>1, <1>2, <2>3, <2>4 DEF KeepsLooking, Looking
    <3> QED
      BY <2>2, <3>1, JobLooks
<1>4. CASE n = 3
  <2>1. job' = [job EXCEPT ![j] = Free]
    BY <1>2, <1>4 DEF Fail, MaxAttempts
  <2>2. PICK new \in JobState : new = Free
    BY FreeJob
  <2>3. new.attempt = 1 /\ new.pos = 1
    BY <2>2 DEF Free
  <2>4. ~(failures' < MaxAttempts)
    BY <1>1, <1>2, <1>4 DEF MaxAttempts
  <2>5. KeepsLooking(j, new)
    BY <1>1, <2>3, <2>4 DEF KeepsLooking
  <2> QED
    BY <2>1, <2>2, <2>5, JobLooks
<1> QED
  BY <1>3, <1>4

LEMMA DebtStep == DebtInv /\ [Next]_vars => DebtInv'
<1> SUFFICES ASSUME DebtInv, [Next]_vars PROVE DebtInv'
  OBVIOUS
<1>1. IInv'
  BY NextPreserves DEF DebtInv
<1>2. CASE ScanDelivered \/ UNCHANGED vars
  BY <1>1, <1>2, JobsAside DEF ScanDelivered, vars, DebtInv
<1>3. ASSUME NEW o \in Orders, Deliver(o) \/ CheckSettlement(o) PROVE DebtInv'
  <2>1. UNCHANGED <<wallet, suspended, failures>> /\ (Enqueue(o) \/ UNCHANGED job)
    BY <1>3 DEF Deliver, CheckSettlement
  <2> QED
    BY <1>1, <2>1, EnqueueLooks, JobsAside DEF DebtInv
<1>4. CASE \E j \in Jobs : Progress(j) \/ Fail(j)
  BY <1>1, <1>4, PostLooks, WorkLooks, FailLooks DEF Progress, DebtInv
<1> QED
  BY <1>2, <1>3, <1>4 DEF Next

LEMMA DebtFirst == Init => DebtInv
<1> SUFFICES ASSUME Init PROVE DebtInv
  OBVIOUS
<1>1. IInv
  BY InitIInv
<1>2. AttemptsCounted
  BY DEF Init, AttemptsCounted, Free
<1>3. DebtSeen
  <2>1. ~BelowLimit(0)
    BY SettlementAssumption DEF BelowLimit
  <2>2. \A d \in Drivers : wallet[d] = 0
    BY DEF Init, Accounts
  <2> QED
    BY <2>1, <2>2 DEF DebtSeen
<1> QED
  BY <1>1, <1>2, <1>3 DEF DebtInv

\* For any number of orders, jobs and interleavings: once no job is at work on his
\* orders, a driver in debt beyond the limit is locked out, unless a job may have used
\* up its attempts (settleOrder).
THEOREM DebtorsLockedOut == Spec => []DebtLocksOut
<1>1. DebtInv => DebtLocksOut
  <2> SUFFICES ASSUME DebtInv, failures < MaxAttempts, NEW d \in Drivers, BelowLimit(wallet[d]), d \notin suspended
               PROVE  \E j \in Jobs : job[j].pc # "free" /\ DriverOf[job[j].order] = d
    BY DEF DebtLocksOut, BelowLimit
  <2>1. PICK j \in Jobs : Looking(j, d)
    BY DEF DebtInv, DebtSeen
  <2> QED
    BY <2>1 DEF Looking, WillLook
<1> QED
  BY <1>1, DebtFirst, DebtStep, PTL DEF Spec

-----------------------------------------------------------------------------
(* Refinement *)

LEMMA InitPaid == Init => Ledger!Init
<1> SUFFICES ASSUME Init PROVE Ledger!Init
  OBVIOUS
<1>1. \A o \in Orders, e \in WalletEntries : rows[o][e] = 0
  BY DEF Init
<1>2. Paid = {}
  BY <1>1 DEF Paid
<1> QED
  BY <1>2 DEF Init, Ledger!Init

\* Only PostEntry changes what is paid or a balance, and then as Pay does.
LEMMA StepPays == IInv /\ [Next]_vars => [Ledger!Next]_(Ledger!vars)
<1> SUFFICES ASSUME IInv, [Next]_vars
             PROVE  Ledger!Next \/ UNCHANGED Ledger!vars
  OBVIOUS
<1>1. ASSUME NEW j \in Jobs, PostEntry(j)
      PROVE  Ledger!Next \/ UNCHANGED Ledger!vars
  <2> DEFINE o == job[j].order
             e == Entry(j)
  <2>1. /\ o \in delivered /\ o \in Orders
        /\ e \in WalletEntries /\ e \in Due[o]
        /\ \/ /\ rows[o][e] > 0
              /\ UNCHANGED <<rows, wallet>>
           \/ /\ rows[o][e] = 0
              /\ rows' = [rows EXCEPT ![o] = [@ EXCEPT ![e] = 1]]
              /\ wallet' = [wallet EXCEPT ![AccountOf[o][e]] = @ + Amount[o][e]]
    BY <1>1, PostEntryFacts
  <2>2. delivered' = delivered
    BY <1>1 DEF PostEntry
  <2> HIDE DEF o, e
  <2>3. CASE UNCHANGED <<rows, wallet>>
    BY <2>2, <2>3 DEF Ledger!vars, Paid
  <2>4. CASE /\ rows[o][e] = 0
             /\ rows' = [rows EXCEPT ![o] = [@ EXCEPT ![e] = 1]]
             /\ wallet' = [wallet EXCEPT ![AccountOf[o][e]] = @ + Amount[o][e]]
    <3>1. <<o, e>> \notin Paid
      BY <2>4 DEF Paid
    <3>2. \A p \in Orders, f \in WalletEntries :
              rows'[p][f] = IF p = o /\ f = e THEN 1 ELSE rows[p][f]
      BY <2>1, <2>4, JobFacts DEF Entries
    <3>3. Paid' = Paid \cup {<<o, e>>}
      BY <2>1, <3>2 DEF Paid
    <3>4. Ledger!Pay(o, e)
      BY <2>1, <2>2, <2>4, <3>1, <3>3 DEF Ledger!Pay
    <3> QED
      BY <2>1, <3>4 DEF Ledger!Next
  <2> QED
    BY <2>1, <2>3, <2>4
<1>2. ASSUME NEW j \in Jobs, PostEarned(j)
      PROVE  UNCHANGED Ledger!vars
  <2>1. rows' = rows \/ rows' = [rows EXCEPT ![job[j].order]["EARNED"] = @ + 1]
    BY <1>2 DEF PostEarned, AddRow
  <2>2. "EARNED" \notin WalletEntries
    BY DEF WalletEntries, DriverEntries, VendorEntries
  <2>3. \A o \in Orders, e \in WalletEntries : rows'[o][e] = rows[o][e]
    BY <2>1, <2>2, JobFacts DEF Entries
  <2>4. Paid' = Paid
    BY <2>3 DEF Paid
  <2> QED
    BY <1>2, <2>4 DEF PostEarned, Ledger!vars
<1>3. ASSUME NEW o \in Orders, Deliver(o)
      PROVE  Ledger!Next
  <2>1. Ledger!Deliver(o)
    BY <1>3 DEF Deliver, Ledger!Deliver, Paid
  <2> QED
    BY <2>1 DEF Ledger!Next
<1>4. ASSUME UNCHANGED <<delivered, rows, wallet>>
      PROVE  UNCHANGED Ledger!vars
  BY <1>4 DEF Ledger!vars, Paid
<1>5. CASE ScanDelivered \/ (\E o \in Orders : CheckSettlement(o)) \/ UNCHANGED vars
  BY <1>4, <1>5 DEF ScanDelivered, CheckSettlement, vars
<1>6. ASSUME NEW j \in Jobs,
             \/ HandleSettle(j) \/ SkipEntry(j) \/ ReadBalance(j) \/ LockOut(j)
             \/ LookupEarned(j) \/ Finish(j) \/ LockAndLookup(j) \/ Fail(j)
      PROVE  UNCHANGED Ledger!vars
  BY <1>4, <1>6 DEF HandleSettle, SkipEntry, ReadBalance, LockOut, LookupEarned, Finish,
                    LockAndLookup, Fail
<1> QED
  BY <1>1, <1>2, <1>3, <1>5, <1>6 DEF Next, Progress

\* Settlement implements Payouts: to the wallets, every amount due enters
\* once and in one step.
THEOREM ImplementsPayouts == Spec => PayoutsOnce
BY InitPaid, StepPays, Invariance, PTL DEF Spec, PayoutsOnce, Ledger!Spec

=============================================================================
