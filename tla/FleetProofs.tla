------------------------------ MODULE FleetProofs ------------------------------
(***************************************************************************)
(* Driver accounts, for any number of drivers, top-ups, orders and jobs:   *)
(* a top-up is credited once, and no debt beyond the limit goes unnoticed. *)
(* The argument for the second: whoever makes a debt leaves somebody       *)
(* responsible for it, and what he decides on a copy of the balance only   *)
(* ever adds the mark.                                                     *)
(*                                                                         *)
(* Driver shifts, for any number of drivers, pools, shifts, requests and   *)
(* jobs: bookings stay within the capacity, since what a booking counted   *)
(* can only shrink while it holds the locks of its pools; a shift that is  *)
(* over stays over, and none changes hands but by a swap.                  *)
(***************************************************************************)
EXTENDS MCFleet, FiniteSetTheorems, TLAPS

-----------------------------------------------------------------------------
(* The account *)

\* Only drivers that have a row submit top-ups or get settled.
WorkKnown ==
    /\ \A t \in Tasks :
          /\ work[t].op \in {"readBalance", "lockOut"} => work[t].driver \in registered
          /\ work[t].op = "review" => request[work[t].req] # "NONE"
    /\ \A r \in Requests : request[r] # "NONE" => Requester[r] \in registered

AccountIInv ==
    /\ AccountTypeOK
    /\ WorkKnown
    /\ CreditedOnce
    /\ DebtorsMarked

-----------------------------------------------------------------------------
LEMMA WorkForms ==
    /\ NoWork \in WorkRecords
    /\ \A d \in Drivers :
          /\ \A to \in {"OFFLINE", "ONLINE", "ON_BREAK"} :
                [op |-> "writeStatus", driver |-> d, to |-> to] \in WorkRecords
          /\ [op |-> "leavePool", driver |-> d] \in WorkRecords
          /\ [op |-> "readBalance", driver |-> d] \in WorkRecords
          /\ \A b \in BOOLEAN : [op |-> "lockOut", driver |-> d, debt |-> b] \in WorkRecords
    /\ \A r \in Requests, b \in BOOLEAN : [op |-> "review", req |-> r, locked |-> b] \in WorkRecords
    /\ \A S \in SUBSET Drivers : [op |-> "sweep", stale |-> S] \in WorkRecords
BY DEF WorkRecords, NoWork

LEMMA WorkShape ==
    ASSUME AccountTypeOK, NEW t \in Tasks
    PROVE  /\ work[t].op \in {"writeStatus", "leavePool", "readBalance", "lockOut"} =>
                 work[t].driver \in Drivers
           /\ work[t].op = "writeStatus" => work[t].to \in {"OFFLINE", "ONLINE", "ON_BREAK"}
           /\ work[t].op = "lockOut" => work[t].debt \in BOOLEAN
           /\ work[t].op = "review" => work[t].req \in Requests /\ work[t].locked \in BOOLEAN
           /\ work[t].op = "sweep" => work[t].stale \in SUBSET Drivers
<1>1. work[t] \in WorkRecords
  BY DEF AccountTypeOK
<1> QED
  BY <1>1 DEF WorkRecords, NoWork

LEMMA AccountInitIInv == ASSUME AccountInit PROVE AccountIInv
<1>1. AccountTypeOK
  BY WorkForms DEF AccountInit, AccountTypeOK, DriverStatuses
<1>2. WorkKnown
  BY DEF AccountInit, WorkKnown, NoWork
<1>3. CreditedOnce
  BY DEF AccountInit, CreditedOnce
<1>4. DebtorsMarked
  BY AccountAssumption DEF AccountInit, DebtorsMarked, InDebt
<1> QED
  BY <1>1, <1>2, <1>3, <1>4 DEF AccountIInv

\* What a job answers for it goes on answering for, as long as it does not move.
LEMMA AssessmentGoesOn ==
    ASSUME NEW d \in Drivers,
           BeingAssessed(d),
           \A t \in Tasks :
               \/ work'[t] = work[t]
               \/ work[t].op \notin {"readBalance", "lockOut"}
               \/ work[t].driver # d
    PROVE  BeingAssessed(d)'
BY DEF BeingAssessed

\* Neither the balance nor what is known about it changes.
LEMMA DutyStep ==
    ASSUME AccountIInv,
           AccountTypeOK',
           registered \subseteq registered',
           UNCHANGED walletVars,
           \A t \in Tasks :
               \/ work'[t] = work[t]
               \/ /\ work[t].op \notin {"readBalance", "lockOut"}
                  /\ work'[t].op \notin {"readBalance", "lockOut", "review"}
    PROVE  AccountIInv'
<1>1. WorkKnown'
  BY DEF AccountIInv, WorkKnown, walletVars
<1>2. CreditedOnce'
  BY DEF AccountIInv, CreditedOnce, walletVars
<1>3. DebtorsMarked'
  BY AssessmentGoesOn DEF AccountIInv, DebtorsMarked, walletVars
<1> QED
  BY <1>1, <1>2, <1>3 DEF AccountIInv

\* Neither balance nor work changes.
LEMMA StatusStep ==
    ASSUME AccountIInv,
           registered \subseteq registered', registered' \subseteq Drivers,
           approved' \subseteq registered',
           status' \in [Drivers -> DriverStatuses],
           located' \subseteq registered',
           offered' \subseteq registered',
           UNCHANGED <<walletVars, work>>
    PROVE  AccountIInv'
<1>1. AccountTypeOK'
  BY DEF AccountIInv, AccountTypeOK, walletVars
<1> QED
  BY <1>1, DutyStep

LEMMA DriverStep ==
    ASSUME AccountIInv, NEW d \in Drivers,
           Register(d) \/ AdminSuspend(d) \/ AdminUnsuspend(d) \/ AdminUpdateDriver(d)
           \/ TrackLocation(d) \/ TakeOrder(d) \/ DeclineOrder(d) \/ FreeDriver(d) \/ ForceOffline(d)
    PROVE  AccountIInv'
<1> USE DEF AccountIInv, AccountTypeOK, dutyVars, DriverStatuses
<1>1. CASE Register(d)
  BY <1>1, StatusStep DEF Register
<1>2. CASE AdminSuspend(d) \/ AdminUnsuspend(d) \/ FreeDriver(d) \/ ForceOffline(d)
  BY <1>2, StatusStep DEF AdminSuspend, AdminUnsuspend, FreeDriver, ForceOffline, SetStatus
<1>3. CASE AdminUpdateDriver(d)
  <2>1. status' \in [Drivers -> DriverStatuses] /\ approved' \subseteq registered
    BY <1>3 DEF AdminUpdateDriver, SetStatus
  <2> QED
    BY <1>3, <2>1, StatusStep DEF AdminUpdateDriver
<1>4. CASE TrackLocation(d) \/ DeclineOrder(d)
  BY <1>4, StatusStep DEF TrackLocation, DeclineOrder
<1>5. CASE TakeOrder(d)
  BY <1>5, StatusStep DEF TakeOrder, SetStatus
<1> QED
  BY <1>1, <1>2, <1>3, <1>4, <1>5

\* A request or a sweep of the pool goes on.
LEMMA PoolStep ==
    ASSUME AccountIInv, NEW t \in Tasks, NEW w \in WorkRecords,
           work[t].op \notin {"readBalance", "lockOut"},
           w.op \notin {"readBalance", "lockOut", "review"},
           work' = [work EXCEPT ![t] = w],
           status' \in [Drivers -> DriverStatuses],
           located' \subseteq located,
           offered' \subseteq registered,
           UNCHANGED <<registered, approved, walletVars>>
    PROVE  AccountIInv'
<1>1. AccountTypeOK'
  BY DEF AccountIInv, AccountTypeOK, walletVars
<1>2. \A x \in Tasks : work'[x] = work[x] \/ (x = t /\ work'[x] = w)
  BY DEF AccountIInv, AccountTypeOK
<1> QED
  BY <1>1, <1>2, DutyStep

LEMMA UpdateStatusStep ==
    ASSUME AccountIInv, NEW t \in Tasks, NEW d \in Drivers, NEW to \in {"OFFLINE", "ONLINE", "ON_BREAK"},
           UpdateStatus(t, d, to)
    PROVE  AccountIInv'
<1>1. work[t].op = "none"
  BY DEF UpdateStatus, Idle, NoWork
<1>2. PICK w \in WorkRecords : w.op = "writeStatus" /\ work' = [work EXCEPT ![t] = w]
  BY WorkForms DEF UpdateStatus, Goes
<1> QED
  BY <1>1, <1>2, PoolStep DEF UpdateStatus, dutyVars, AccountIInv, AccountTypeOK

LEMMA WriteStatusStep ==
    ASSUME AccountIInv, NEW t \in Tasks, WriteStatus(t)
    PROVE  AccountIInv'
<1>1. work[t].driver \in Drivers /\ work[t].to \in DriverStatuses
  BY WorkShape DEF WriteStatus, AccountIInv, DriverStatuses
<1>2. status' \in [Drivers -> DriverStatuses]
  BY <1>1 DEF WriteStatus, SetStatus, AccountIInv, AccountTypeOK
<1>3. PICK w \in WorkRecords : w.op \in {"leavePool", "none"} /\ work' = [work EXCEPT ![t] = w]
  BY <1>1, WorkForms DEF WriteStatus, Goes, Ends, NoWork
<1> QED
  BY <1>2, <1>3, PoolStep DEF WriteStatus, AccountIInv, AccountTypeOK

LEMMA LeavePoolStep ==
    ASSUME AccountIInv, NEW t \in Tasks, LeavePool(t)
    PROVE  AccountIInv'
BY WorkForms, PoolStep DEF LeavePool, Ends, Goes, NoWork, dutyVars, AccountIInv, AccountTypeOK

LEMMA UserDisconnectStep ==
    ASSUME AccountIInv, NEW t \in Tasks, NEW d \in Drivers, UserDisconnect(t, d)
    PROVE  AccountIInv'
<1>1. work[t].op = "none"
  BY DEF UserDisconnect, Idle, NoWork
<1>2. PICK w \in WorkRecords : w.op = "leavePool" /\ work' = [work EXCEPT ![t] = w]
  BY WorkForms DEF UserDisconnect, Goes
<1> QED
  BY <1>1, <1>2, PoolStep DEF UserDisconnect, dutyVars, AccountIInv, AccountTypeOK

LEMMA FindNearbyDriversStep ==
    ASSUME AccountIInv, NEW t \in Tasks, FindNearbyDrivers(t)
    PROVE  AccountIInv'
<1>1. PICK near \in SUBSET located :
        /\ offered' = offered \cup {d \in near : Eligible(d)}
        /\ work' = [work EXCEPT ![t] = [op |-> "sweep", stale |-> {d \in near : ~Eligible(d)}]]
  BY DEF FindNearbyDrivers, Goes
<1>2. /\ offered' \subseteq registered
      /\ {d \in near : ~Eligible(d)} \in SUBSET Drivers
  BY <1>1 DEF AccountIInv, AccountTypeOK
<1>3. PICK w \in WorkRecords : w.op = "sweep" /\ work' = [work EXCEPT ![t] = w]
  BY <1>1, <1>2, WorkForms
<1>4. work[t].op = "none"
  BY DEF FindNearbyDrivers, Idle, NoWork
<1> QED
  BY <1>2, <1>3, <1>4, PoolStep DEF FindNearbyDrivers, dutyVars, AccountIInv, AccountTypeOK

LEMMA SweepStaleStep ==
    ASSUME AccountIInv, NEW t \in Tasks, SweepStale(t)
    PROVE  AccountIInv'
BY WorkForms, PoolStep DEF SweepStale, Ends, Goes, NoWork, dutyVars, AccountIInv, AccountTypeOK

-----------------------------------------------------------------------------
(* The wallet *)

LEMMA AddTypes ==
    ASSUME AccountTypeOK, NEW d \in Drivers, NEW amount \in Int, Add(d, amount)
    PROVE  /\ balance' \in [Drivers -> Int]
           /\ balance'[d] = balance[d] + amount
           /\ \A x \in Drivers \ {d} : balance'[x] = balance[x]
BY DEF Add, AccountTypeOK

\* One task moves, and nothing of a request with it.
LEMMA SettlementStep ==
    ASSUME AccountIInv, NEW t \in Tasks, NEW w \in WorkRecords,
           work' = [work EXCEPT ![t] = w],
           w.op \in {"readBalance", "lockOut"} => w.driver \in registered,
           w.op = "review" => request[w.req] # "NONE",
           status' \in [Drivers -> DriverStatuses],
           balance' \in [Drivers -> Int],
           unpaid' \subseteq registered,
           unassessed' \subseteq registered,
           UNCHANGED <<registered, approved, request, credits, located, offered>>,
           DebtorsMarked'
    PROVE  AccountIInv'
<1>1. AccountTypeOK'
  BY DEF AccountIInv, AccountTypeOK
<1>2. WorkKnown'
  BY DEF AccountIInv, AccountTypeOK, WorkKnown
<1>3. CreditedOnce'
  BY DEF AccountIInv, CreditedOnce
<1> QED
  BY <1>1, <1>2, <1>3 DEF AccountIInv

LEMMA BookOrderStep ==
    ASSUME AccountIInv, NEW t \in Tasks, NEW d \in Drivers, NEW amount \in Settlements,
           BookOrder(t, d, amount)
    PROVE  AccountIInv'
<1> PICK w \in WorkRecords :
       w.op = "readBalance" /\ w.driver = d /\ work' = [work EXCEPT ![t] = w]
  BY WorkForms DEF BookOrder, Goes
<1>1. /\ d \in registered
      /\ work[t].op = "none"
      /\ UNCHANGED <<dutyVars, unpaid, request, credits, located, offered, unassessed>>
  BY DEF BookOrder, Idle, NoWork
<1>2. /\ balance' \in [Drivers -> Int]
      /\ \A x \in Drivers \ {d} : balance'[x] = balance[x]
  BY AddTypes, AccountAssumption DEF BookOrder, AccountIInv
<1>3. BeingAssessed(d)'
  BY <1>1 DEF BeingAssessed, AccountIInv, AccountTypeOK
<1>4. ASSUME NEW x \in Drivers, x # d, BeingAssessed(x)
      PROVE  BeingAssessed(x)'
  BY <1>1, <1>4, AssessmentGoesOn DEF AccountIInv, AccountTypeOK
<1>5. DebtorsMarked'
  BY <1>1, <1>2, <1>3, <1>4 DEF AccountIInv, DebtorsMarked, InDebt
<1> QED
  BY <1>1, <1>2, <1>5, SettlementStep DEF AccountIInv, AccountTypeOK, dutyVars

LEMMA ReadBalanceStep ==
    ASSUME AccountIInv, NEW t \in Tasks, ReadBalance(t)
    PROVE  AccountIInv'
<1>1. work[t].driver \in Drivers /\ work[t].driver \in registered
  BY WorkShape DEF ReadBalance, AccountIInv, WorkKnown
<1> PICK d \in Drivers : d = work[t].driver
  BY <1>1
<1> PICK w \in WorkRecords :
       /\ w.op = "lockOut" /\ w.driver = d /\ (InDebt(balance[d]) => w.debt)
       /\ work' = [work EXCEPT ![t] = w]
  <2>1. CASE InDebt(balance[d])
    <3>1. InDebt(balance[d]) = TRUE
      BY <2>1
    <3>2. work' = [work EXCEPT ![t] = [op |-> "lockOut", driver |-> d, debt |-> TRUE]]
      BY <3>1 DEF ReadBalance, Goes
    <3> QED
      BY <3>2, WorkForms
  <2>2. CASE ~InDebt(balance[d])
    <3>1. InDebt(balance[d]) = FALSE
      BY <2>2 DEF InDebt
    <3>2. work' = [work EXCEPT ![t] = [op |-> "lockOut", driver |-> d, debt |-> FALSE]]
      BY <3>1 DEF ReadBalance, Goes
    <3> QED
      BY <2>2, <3>2, WorkForms
  <2> QED
    BY <2>1, <2>2
<1>2. /\ work[t].op = "readBalance"
      /\ UNCHANGED <<dutyVars, walletVars, located, offered>>
  BY DEF ReadBalance
<1>3. InDebt(balance[d]) => BeingAssessed(d)'
  BY <1>2 DEF BeingAssessed, AccountIInv, AccountTypeOK
<1>4. ASSUME NEW x \in Drivers, x # d, BeingAssessed(x)
      PROVE  BeingAssessed(x)'
  BY <1>2, <1>4, AssessmentGoesOn DEF AccountIInv, AccountTypeOK
<1>5. DebtorsMarked'
  BY <1>2, <1>3, <1>4 DEF AccountIInv, DebtorsMarked, InDebt, walletVars
<1> QED
  BY <1>1, <1>2, <1>5, SettlementStep DEF AccountIInv, AccountTypeOK, dutyVars, walletVars

LEMMA LockOutStep ==
    ASSUME AccountIInv, NEW t \in Tasks, LockOut(t)
    PROVE  AccountIInv'
<1>1. work[t].driver \in Drivers /\ work[t].driver \in registered
  BY WorkShape DEF LockOut, AccountIInv, WorkKnown
<1> PICK d \in Drivers : d = work[t].driver
  BY <1>1
<1>2. /\ NoWork \in WorkRecords /\ NoWork.op = "none"
      /\ work' = [work EXCEPT ![t] = NoWork]
      /\ work[t].op = "lockOut"
      /\ UNCHANGED <<registered, approved, balance, request, credits, located, offered, unassessed>>
  BY WorkForms DEF LockOut, Ends, Goes, NoWork
<1>3. /\ unpaid' \in {unpaid, unpaid \cup {d}}
      /\ work[t].debt => d \in unpaid'
      /\ status' \in [Drivers -> DriverStatuses]
  BY DEF LockOut, SetStatus, AccountIInv, AccountTypeOK, DriverStatuses
<1>4. ASSUME NEW x \in Drivers, BeingAssessed(x)
      PROVE  BeingAssessed(x)' \/ x \in unpaid'
  <2>1. CASE x # d \/ ~work[t].debt
    BY <1>2, <1>4, <2>1 DEF BeingAssessed, AccountIInv, AccountTypeOK
  <2> QED
    BY <1>3, <2>1
<1>5. DebtorsMarked'
  BY <1>2, <1>3, <1>4 DEF AccountIInv, DebtorsMarked, InDebt
<1> QED
  BY <1>1, <1>2, <1>3, <1>5, SettlementStep DEF AccountIInv, AccountTypeOK

LEMMA AbandonSettlementStep ==
    ASSUME AccountIInv, NEW t \in Tasks, AbandonSettlement(t)
    PROVE  AccountIInv'
<1>1. work[t].driver \in Drivers /\ work[t].driver \in registered
  BY WorkShape DEF AbandonSettlement, AccountIInv, WorkKnown
<1>2. /\ NoWork \in WorkRecords /\ NoWork.op = "none"
      /\ work' = [work EXCEPT ![t] = NoWork]
      /\ unassessed' = unassessed \cup {work[t].driver}
      /\ UNCHANGED <<dutyVars, balance, unpaid, request, credits, located, offered>>
  BY WorkForms DEF AbandonSettlement, Ends, Goes, NoWork
<1>3. ASSUME NEW x \in Drivers, x # work[t].driver, BeingAssessed(x)
      PROVE  BeingAssessed(x)'
  BY <1>2, <1>3 DEF BeingAssessed, AccountIInv, AccountTypeOK
<1>4. DebtorsMarked'
  BY <1>2, <1>3 DEF AccountIInv, DebtorsMarked, InDebt
<1> QED
  BY <1>1, <1>2, <1>4, SettlementStep DEF AccountIInv, AccountTypeOK, dutyVars

LEMMA ReviewStep ==
    ASSUME AccountIInv, NEW t \in Tasks, NEW r \in Requests, ReviewTopUpRequest(t, r)
    PROVE  AccountIInv'
<1>1. PICK w \in WorkRecords :
         w.op = "review" /\ w.req = r /\ work' = [work EXCEPT ![t] = w]
  BY WorkForms DEF ReviewTopUpRequest, Goes
<1>2. /\ work[t].op = "none"
      /\ request[r] # "NONE"
      /\ UNCHANGED <<dutyVars, walletVars, located, offered>>
  BY DEF ReviewTopUpRequest, Idle, NoWork
<1>3. ASSUME NEW x \in Drivers, BeingAssessed(x)
      PROVE  BeingAssessed(x)'
  BY <1>1, <1>2, <1>3 DEF BeingAssessed, AccountIInv, AccountTypeOK
<1>4. DebtorsMarked'
  BY <1>2, <1>3 DEF AccountIInv, DebtorsMarked, InDebt, walletVars
<1> QED
  BY <1>1, <1>2, <1>4, SettlementStep DEF AccountIInv, AccountTypeOK, dutyVars, walletVars

LEMMA ApproveTopUpStep ==
    ASSUME AccountIInv, NEW t \in Tasks, ApproveTopUp(t)
    PROVE  AccountIInv'
<1>1. work[t].op = "review" /\ work[t].req \in Requests
  BY WorkShape DEF ApproveTopUp, AccountIInv
<1> PICK r \in Requests : r = work[t].req
  BY <1>1
<1> DEFINE d == Requester[r]
<1>2. /\ d \in Drivers /\ TopUp[r] \in Int /\ MaxDebt \in Int
      /\ d \in registered
  BY <1>1, AccountAssumption DEF AccountIInv, WorkKnown
<1> HIDE DEF d
<1>3. /\ request[r] = "PENDING"
      /\ request' = [request EXCEPT ![r] = "APPROVED"]
      /\ Add(d, TopUp[r])
      /\ credits' = [credits EXCEPT ![r] = @ + 1]
      /\ unpaid' = IF InDebt(balance[d] + TopUp[r]) THEN unpaid \cup {d} ELSE unpaid \ {d}
      /\ unassessed' = unassessed \ {d}
      /\ work' = [work EXCEPT ![t] = NoWork]
      /\ UNCHANGED <<registered, approved, located, offered>>
  BY DEF ApproveTopUp, StillPending, Ends, Goes, d
<1>4. status' \in [Drivers -> DriverStatuses]
  BY <1>2 DEF ApproveTopUp, SetStatus, AccountIInv, AccountTypeOK, DriverStatuses, d
<1>5. /\ balance' \in [Drivers -> Int]
      /\ balance'[d] = balance[d] + TopUp[r]
      /\ \A x \in Drivers \ {d} : balance'[x] = balance[x]
  BY <1>2, <1>3, AddTypes DEF AccountIInv
<1>6. credits[r] = 0
  BY <1>3 DEF AccountIInv, CreditedOnce
<1>7. AccountTypeOK'
  <2>1. credits' \in [Requests -> Nat]
    BY <1>3, <1>6 DEF AccountIInv, AccountTypeOK
  <2> QED
    BY <1>2, <1>3, <1>4, <1>5, <2>1, WorkForms DEF AccountIInv, AccountTypeOK
<1>8. WorkKnown'
  BY <1>2, <1>3 DEF AccountIInv, AccountTypeOK, WorkKnown, NoWork, d
<1>9. CreditedOnce'
  BY <1>3, <1>6 DEF AccountIInv, AccountTypeOK, CreditedOnce
<1>10. DebtorsMarked'
  <2> SUFFICES ASSUME NEW x \in Drivers, InDebt(balance'[x])
               PROVE  x \in unpaid' \/ BeingAssessed(x)' \/ x \in unassessed'
    BY DEF DebtorsMarked, InDebt
  <2>1. CASE x = d
    BY <1>3, <1>5, <2>1 DEF InDebt
  <2>2. CASE x # d
    <3>1. x \in unpaid \/ BeingAssessed(x) \/ x \in unassessed
      BY <1>5, <2>2 DEF AccountIInv, DebtorsMarked
    <3>2. BeingAssessed(x) => BeingAssessed(x)'
      BY <1>1, <1>3 DEF BeingAssessed, AccountIInv, AccountTypeOK
    <3> QED
      BY <1>3, <2>2, <3>1, <3>2
  <2> QED
    BY <2>1, <2>2
<1> QED
  BY <1>7, <1>8, <1>9, <1>10 DEF AccountIInv

\* Requests change but balances do not.
LEMMA RequestStep ==
    ASSUME AccountIInv,
           work' = work \/ \E t \in Tasks : work[t].op = "review" /\ work' = [work EXCEPT ![t] = NoWork],
           NEW r \in Requests,
           Requester[r] \in registered,
           request' = request
               \/ \E s \in {"PENDING", "REJECTED"} :
                     request[r] # "APPROVED" /\ request' = [request EXCEPT ![r] = s],
           UNCHANGED <<dutyVars, balance, unpaid, credits, located, offered, unassessed>>
    PROVE  AccountIInv'
<1>1. \A x \in Tasks : work'[x] = work[x] \/ (work[x].op = "review" /\ work'[x] = NoWork)
  BY DEF AccountIInv, AccountTypeOK
<1>2. AccountTypeOK'
  BY WorkForms DEF AccountIInv, AccountTypeOK, dutyVars
<1>3. WorkKnown'
  <2>1. /\ \A q \in Requests : request[q] # "NONE" => request'[q] # "NONE"
        /\ \A q \in Requests : request'[q] # "NONE" => request[q] # "NONE" \/ q = r
    BY DEF AccountIInv, AccountTypeOK
  <2>2. ASSUME NEW x \in Tasks
        PROVE  /\ work'[x].op \in {"readBalance", "lockOut"} => work'[x].driver \in registered'
               /\ work'[x].op = "review" => request'[work'[x].req] # "NONE"
    <3>1. CASE work'[x] = work[x]
      BY <2>1, <3>1, WorkShape DEF AccountIInv, WorkKnown, dutyVars
    <3>2. CASE work'[x] = NoWork
      BY <3>2 DEF NoWork
    <3> QED
      BY <1>1, <3>1, <3>2
  <2> QED
    BY <2>1, <2>2 DEF AccountIInv, WorkKnown, dutyVars
<1>4. CreditedOnce'
  BY DEF AccountIInv, AccountTypeOK, CreditedOnce
<1>5. DebtorsMarked'
  BY <1>1, AssessmentGoesOn DEF AccountIInv, DebtorsMarked, InDebt
<1> QED
  BY <1>2, <1>3, <1>4, <1>5 DEF AccountIInv

LEMMA SubmitStep ==
    ASSUME AccountIInv, NEW r \in Requests, SubmitTopUpRequest(r)
    PROVE  AccountIInv'
BY RequestStep DEF SubmitTopUpRequest

LEMMA RejectTopUpStep ==
    ASSUME AccountIInv, NEW t \in Tasks, RejectTopUp(t)
    PROVE  AccountIInv'
<1>1. work[t].req \in Requests /\ Requester[work[t].req] \in registered
  BY WorkShape DEF RejectTopUp, AccountIInv, WorkKnown
<1> QED
  BY <1>1, RequestStep DEF RejectTopUp, StillPending, Ends, Goes

LEMMA LateReviewStep ==
    ASSUME AccountIInv, NEW t \in Tasks, LateReview(t)
    PROVE  AccountIInv'
<1>1. work[t].req \in Requests /\ Requester[work[t].req] \in registered
  BY WorkShape DEF LateReview, AccountIInv, WorkKnown
<1> QED
  BY <1>1, RequestStep DEF LateReview, Ends, Goes, walletVars

LEMMA ManualStep ==
    ASSUME AccountIInv, NEW d \in Drivers, NEW amount \in Manual, ProcessDriverTransaction(d, amount)
    PROVE  AccountIInv'
<1>1. /\ balance' \in [Drivers -> Int]
      /\ balance'[d] = balance[d] + amount
      /\ \A x \in Drivers \ {d} : balance'[x] = balance[x]
  BY AddTypes, AccountAssumption DEF ProcessDriverTransaction, AccountIInv
<1>2. /\ d \in registered
      /\ unassessed' = IF amount < 0 THEN unassessed \cup {d} ELSE unassessed
      /\ UNCHANGED <<dutyVars, unpaid, request, credits, located, offered, work>>
  BY DEF ProcessDriverTransaction
<1>3. AccountTypeOK'
  BY <1>1, <1>2 DEF AccountIInv, AccountTypeOK, dutyVars
<1>4. WorkKnown' /\ CreditedOnce'
  BY <1>2 DEF AccountIInv, WorkKnown, CreditedOnce, dutyVars
<1>5. DebtorsMarked'
  <2> SUFFICES ASSUME NEW x \in Drivers, InDebt(balance'[x]), x \notin unassessed'
               PROVE  x \in unpaid' \/ BeingAssessed(x)'
    BY DEF DebtorsMarked, InDebt
  <2>1. InDebt(balance[x])
    <3>1. amount \in Int /\ MaxDebt \in Int /\ balance[d] \in Int
      BY AccountAssumption DEF AccountIInv, AccountTypeOK
    <3> QED
      BY <1>1, <1>2, <3>1 DEF InDebt
  <2>2. x \in unpaid \/ BeingAssessed(x)
    BY <1>2, <2>1 DEF AccountIInv, DebtorsMarked
  <2> QED
    BY <1>2, <2>2, AssessmentGoesOn
<1> QED
  BY <1>3, <1>4, <1>5 DEF AccountIInv

-----------------------------------------------------------------------------
LEMMA AccountStepIInv == ASSUME AccountIInv, [AccountNext]_accountVars PROVE AccountIInv'
<1>1. CASE DutyNext
  BY <1>1, DriverStep, UpdateStatusStep, UserDisconnectStep, WriteStatusStep, LeavePoolStep,
     FindNearbyDriversStep, SweepStaleStep DEF DutyNext
<1>2. CASE WalletNext
  BY <1>2, ReadBalanceStep, LockOutStep, AbandonSettlementStep, ApproveTopUpStep,
     RejectTopUpStep, LateReviewStep, BookOrderStep, ReviewStep, SubmitStep, ManualStep
     DEF WalletNext
<1>3. CASE UNCHANGED accountVars
  BY <1>3, StatusStep DEF accountVars, walletVars, AccountIInv, AccountTypeOK
<1> QED
  BY <1>1, <1>2, <1>3 DEF AccountNext

\* Whoever is approved, marked, located or offered an order has a row.
THEOREM AccountTypeCorrect == AccountSpec => []AccountTypeOK
<1>1. AccountIInv => AccountTypeOK
  BY DEF AccountIInv
<1> QED
  BY <1>1, AccountInitIInv, AccountStepIInv, PTL DEF AccountSpec

\* However many admins review a top-up at once, it is credited once, and only if it
\* is approved (reviewTopUpRequest).
THEOREM TopUpCreditedOnce == AccountSpec => []CreditedOnce
<1>1. AccountIInv => CreditedOnce
  BY DEF AccountIInv
<1> QED
  BY <1>1, AccountInitIInv, AccountStepIInv, PTL DEF AccountSpec

\* A driver in debt is marked, or a settlement is about to mark him, or the debt is
\* of a kind that nobody assesses, for any amounts and any number of jobs
\* (settleOrder, reviewTopUpRequest, processDriverTransaction).
THEOREM DebtIsMarked == AccountSpec => []DebtorsMarked
<1>1. AccountIInv => DebtorsMarked
  BY DEF AccountIInv
<1> QED
  BY <1>1, AccountInitIInv, AccountStepIInv, PTL DEF AccountSpec
-----------------------------------------------------------------------------
(* Shifts *)

\* Rows are created in order.
RowsFilled ==
    \E n \in 0..Cardinality(Shifts) : {s \in Shifts : shift[s] # NoShift} = 1..n

\* A swap request goes with its shift.
SwapsOfRows == \A s \in Shifts : swap[s] # NoSwap => Exists(s)

\* What a booking counted stays true until it commits: it holds the locks.
BookingSound(t) ==
    task[t].op = "book" =>
        /\ IsFiniteSet(task[t].pools)
        /\ \A p \in task[t].pools : poolLock[p] = t /\ Cardinality(RowsOf(p)) < capacity[p]

\* A swap about to be accepted is still that of another driver, or gone for good.
SwapSound(t) ==
    task[t].op = "accept" =>
        \/ swap[task[t].shift] = NoSwap /\ shift[task[t].shift] = Deleted
        \/ swap[task[t].shift] # NoSwap /\ swap[task[t].shift].by # task[t].driver

KillSound(t) == task[t].op = "destroy" => \A s \in task[t].kill : shift[s] # NoShift
DemoteSound(t) == task[t].op = "demote" => task[t].one.tier > 1

TaskSound(t) == BookingSound(t) /\ SwapSound(t) /\ KillSound(t) /\ DemoteSound(t)

ShiftsIInv ==
    /\ ShiftTablesOK
    /\ RowsFilled
    /\ SwapsOfRows
    /\ \A t \in Slots : TaskSound(t)

LEMMA CountsOfRows ==
    ASSUME NEW p
    PROVE  /\ IsFiniteSet(RowsOf(p)) /\ Cardinality(RowsOf(p)) \in Nat
           /\ RowsOf(p)' \subseteq RowsOf(p) => Cardinality(RowsOf(p)') <= Cardinality(RowsOf(p))
<1>1. RowsOf(p) \subseteq Shifts /\ IsFiniteSet(Shifts)
  BY ShiftsAssumption DEF RowsOf
<1> QED
  BY <1>1, FS_Subset, FS_CardinalityType

LEMMA SlotFacts ==
    /\ NoCall \notin Slots
    /\ Calls \subseteq Slots /\ Workers \subseteq Slots
BY ShiftsAssumption DEF Slots

\* The other tasks, when one moves.
LEMMA TasksKept ==
    ASSUME ShiftsIInv, NEW t,
           \A x \in Slots : x # t => task'[x] = task[x],
           \A s \in Shifts :
              /\ shift[s] # NoShift => shift'[s] # NoShift
              /\ shift[s] = Deleted => shift'[s] = Deleted
              /\ \/ swap'[s] = swap[s]
                 \/ swap[s] = NoSwap /\ shift[s] # Deleted
                 \/ swap[s] # NoSwap /\ swap'[s] # NoSwap /\ swap'[s].by = swap[s].by
                 \/ swap'[s] = NoSwap /\ shift'[s] = Deleted,
           \A p \in Pools :
              \/ poolLock'[p] = poolLock[p] /\ capacity'[p] = capacity[p] /\ RowsOf(p)' \subseteq RowsOf(p)
              \/ poolLock[p] \in {NoCall, t}
              \/ capacity[p] = -1
    PROVE  \A x \in Slots : x # t => TaskSound(x)'
<1> SUFFICES ASSUME NEW x \in Slots, x # t PROVE TaskSound(x)'
  OBVIOUS
<1>1. task'[x] = task[x] /\ task[x] \in TaskRecords /\ TaskSound(x)
  BY DEF ShiftsIInv, ShiftTablesOK
<1>2. BookingSound(x)'
  <2> SUFFICES ASSUME task[x].op = "book"
               PROVE  /\ IsFiniteSet(task[x].pools)
                      /\ \A p \in task[x].pools :
                            poolLock'[p] = x /\ Cardinality(RowsOf(p)') < capacity'[p]
    BY <1>1 DEF BookingSound
  <2>1. task[x].pools \in SUBSET Pools
    BY <1>1 DEF TaskRecords
  <2>2. ASSUME NEW p \in task[x].pools
        PROVE  poolLock'[p] = x /\ Cardinality(RowsOf(p)') < capacity'[p]
    <3>1. p \in Pools /\ poolLock[p] = x /\ Cardinality(RowsOf(p)) < capacity[p]
      BY <1>1, <2>1 DEF TaskSound, BookingSound
    <3>2. poolLock[p] \notin {NoCall, t} /\ capacity[p] # -1
      BY <3>1, SlotFacts, CountsOfRows
    <3>3. poolLock'[p] = poolLock[p] /\ capacity'[p] = capacity[p] /\ RowsOf(p)' \subseteq RowsOf(p)
      BY <3>1, <3>2
    <3>4. /\ Cardinality(RowsOf(p)') \in Nat /\ Cardinality(RowsOf(p)) \in Nat
          /\ Cardinality(RowsOf(p)') <= Cardinality(RowsOf(p))
      <4>1. RowsOf(p)' \subseteq Shifts /\ IsFiniteSet(Shifts)
        BY ShiftsAssumption DEF RowsOf
      <4> QED
        BY <3>3, <4>1, CountsOfRows, FS_Subset, FS_CardinalityType
    <3>5. capacity[p] \in Int
      BY <3>1, ShiftsAssumption DEF ShiftsIInv, ShiftTablesOK
    <3> QED
      BY <3>1, <3>3, <3>4, <3>5
  <2> QED
    BY <1>1, <2>2 DEF TaskSound, BookingSound
<1>3. SwapSound(x)'
  <2> SUFFICES ASSUME task[x].op = "accept" PROVE SwapSound(x)'
    BY <1>1 DEF SwapSound
  <2>1. task[x].shift \in Shifts
    BY <1>1 DEF TaskRecords
  <2> QED
    BY <1>1, <2>1 DEF TaskSound, SwapSound, NoSwap
<1>4. KillSound(x)'
  <2>1. task[x].op = "destroy" => task[x].kill \in SUBSET Shifts
    BY <1>1 DEF TaskRecords
  <2> QED
    BY <1>1, <2>1 DEF TaskSound, KillSound
<1>5. DemoteSound(x)'
  BY <1>1 DEF TaskSound, DemoteSound
<1> QED
  BY <1>2, <1>3, <1>4, <1>5 DEF TaskSound

-----------------------------------------------------------------------------
LEMMA TaskForms ==
    /\ [op |-> "idle"] \in TaskRecords
    /\ \A d \in Couriers, p \in Pools, b \in BOOLEAN :
          [op |-> "create", driver |-> d, pool |-> p, inPool |-> b] \in TaskRecords
    /\ \A d \in Couriers, P \in SUBSET Pools : [op |-> "book", driver |-> d, pools |-> P] \in TaskRecords
    /\ \A d \in Couriers, s \in Shifts, o \in {"accept", "start"} :
          [op |-> o, driver |-> d, shift |-> s] \in TaskRecords
    /\ \A d \in Couriers, s \in Shifts, T \in SUBSET (Shifts \X Couriers), b \in BOOLEAN :
          [op |-> "end", driver |-> d, shift |-> s, todo |-> T, job |-> b] \in TaskRecords
    /\ \A d \in Couriers, n \in Tiers, T \in SUBSET (Shifts \X Couriers), b \in BOOLEAN :
          [op |-> "promote", driver |-> d, to |-> n, todo |-> T, job |-> b] \in TaskRecords
    /\ \A T \in SUBSET (Shifts \X Couriers) : [op |-> "overdue", todo |-> T] \in TaskRecords
    /\ \A o \in {"destroy", "close"}, p \in Pools, K \in SUBSET Shifts, b \in BOOLEAN :
          [op |-> o, pool |-> p, kill |-> K, history |-> b] \in TaskRecords
    /\ \A T \in SUBSET Late : [op |-> "late", todo |-> T] \in TaskRecords
    /\ \A T \in SUBSET Late, x \in Late : [op |-> "demote", todo |-> T, one |-> x] \in TaskRecords
    /\ \A T \in SUBSET Soon : [op |-> "warn", todo |-> T] \in TaskRecords
BY DEF TaskRecords

LEMMA TaskShape ==
    ASSUME ShiftTablesOK, NEW t \in Slots
    PROVE  /\ task[t] \in TaskRecords
           /\ task[t].op = "create" =>
                 task[t].driver \in Couriers /\ task[t].pool \in Pools /\ task[t].inPool \in BOOLEAN
           /\ task[t].op = "book" => task[t].driver \in Couriers /\ task[t].pools \in SUBSET Pools
           /\ task[t].op \in {"accept", "start"} =>
                 task[t].driver \in Couriers /\ task[t].shift \in Shifts
           /\ task[t].op \in {"end", "tier"} =>
                 /\ task[t].driver \in Couriers /\ task[t].shift \in Shifts
                 /\ task[t].todo \in SUBSET (Shifts \X Couriers) /\ task[t].job \in BOOLEAN
           /\ task[t].op = "promote" =>
                 /\ task[t].driver \in Couriers /\ task[t].to \in Tiers
                 /\ task[t].todo \in SUBSET (Shifts \X Couriers) /\ task[t].job \in BOOLEAN
           /\ task[t].op = "overdue" => task[t].todo \in SUBSET (Shifts \X Couriers)
           /\ task[t].op \in {"destroy", "close"} =>
                 /\ task[t].pool \in Pools /\ task[t].kill \in SUBSET Shifts
                 /\ task[t].history \in BOOLEAN
           /\ task[t].op = "late" => task[t].todo \in SUBSET Late
           /\ task[t].op = "demote" => task[t].todo \in SUBSET Late /\ task[t].one \in Late
           /\ task[t].op = "warn" => task[t].todo \in SUBSET Soon
<1>1. task[t] \in TaskRecords
  BY DEF ShiftTablesOK
<1> QED
  BY <1>1 DEF TaskRecords

LEMMA RowForms ==
    /\ NoShift \in ShiftRows /\ Deleted \in ShiftRows /\ NoShift # Deleted
    /\ \A d \in Couriers, p \in Pools, q \in Pools \cup {NoPool}, b \in BOOLEAN :
          /\ NewShift(d, p, q, b) \in ShiftRows \ {NoShift, Deleted}
          /\ NewShift(d, p, q, b).pool = q /\ NewShift(d, p, q, b).self = b
    /\ \A r \in ShiftRows \ {NoShift, Deleted} :
          /\ r.status \in OpenStatuses \cup ClosedStatuses /\ r.driver \in Couriers
          /\ r.pool \in Pools \cup {NoPool} /\ r.hours \in Pools
          /\ \A v \in OpenStatuses \cup ClosedStatuses :
                /\ [r EXCEPT !.status = v] \in ShiftRows \ {NoShift, Deleted}
                /\ [r EXCEPT !.status = v].pool = r.pool
                /\ [r EXCEPT !.status = v].driver = r.driver
                /\ [r EXCEPT !.status = v].status = v
          /\ \A d \in Couriers :
                /\ [r EXCEPT !.driver = d] \in ShiftRows \ {NoShift, Deleted}
                /\ [r EXCEPT !.driver = d].pool = r.pool
                /\ [r EXCEPT !.driver = d].driver = d
                /\ [r EXCEPT !.driver = d].status = r.status
          /\ /\ [r EXCEPT !.pool = NoPool] \in ShiftRows \ {NoShift, Deleted}
             /\ [r EXCEPT !.pool = NoPool].pool = NoPool
             /\ [r EXCEPT !.pool = NoPool].driver = r.driver
             /\ [r EXCEPT !.pool = NoPool].status = r.status
          /\ /\ [r EXCEPT !.warned = TRUE] \in ShiftRows \ {NoShift, Deleted}
             /\ [r EXCEPT !.warned = TRUE].pool = r.pool
             /\ [r EXCEPT !.warned = TRUE].driver = r.driver
             /\ [r EXCEPT !.warned = TRUE].status = r.status
<1>1. \A r \in ShiftRows \ {NoShift, Deleted} :
         r \in [status : OpenStatuses \cup ClosedStatuses, driver : Couriers,
                pool : Pools \cup {NoPool}, hours : Pools, self : BOOLEAN, warned : BOOLEAN]
  BY DEF ShiftRows
<1>2. \A r \in [status : OpenStatuses \cup ClosedStatuses, driver : Couriers,
                pool : Pools \cup {NoPool}, hours : Pools, self : BOOLEAN, warned : BOOLEAN] :
         r \in ShiftRows \ {NoShift, Deleted}
  BY DEF ShiftRows, NoShift, Deleted, OpenStatuses, ClosedStatuses
<1>3. NoShift \in ShiftRows /\ Deleted \in ShiftRows /\ NoShift # Deleted
  BY DEF ShiftRows, NoShift, Deleted
<1>4. ASSUME NEW d \in Couriers, NEW p \in Pools, NEW q \in Pools \cup {NoPool}, NEW b \in BOOLEAN
      PROVE  /\ NewShift(d, p, q, b) \in ShiftRows \ {NoShift, Deleted}
             /\ NewShift(d, p, q, b).pool = q /\ NewShift(d, p, q, b).self = b
  BY <1>2 DEF NewShift, OpenStatuses
<1>5. ASSUME NEW r \in ShiftRows \ {NoShift, Deleted}, NEW v \in OpenStatuses \cup ClosedStatuses
      PROVE  /\ [r EXCEPT !.status = v] \in ShiftRows \ {NoShift, Deleted}
             /\ [r EXCEPT !.status = v].pool = r.pool
             /\ [r EXCEPT !.status = v].driver = r.driver
             /\ [r EXCEPT !.status = v].status = v
  BY <1>1, <1>2
<1>6. ASSUME NEW r \in ShiftRows \ {NoShift, Deleted}, NEW d \in Couriers
      PROVE  /\ [r EXCEPT !.driver = d] \in ShiftRows \ {NoShift, Deleted}
             /\ [r EXCEPT !.driver = d].pool = r.pool
             /\ [r EXCEPT !.driver = d].driver = d
             /\ [r EXCEPT !.driver = d].status = r.status
  BY <1>1, <1>2
<1>7. ASSUME NEW r \in ShiftRows \ {NoShift, Deleted}
      PROVE  /\ [r EXCEPT !.pool = NoPool] \in ShiftRows \ {NoShift, Deleted}
             /\ [r EXCEPT !.pool = NoPool].pool = NoPool
             /\ [r EXCEPT !.pool = NoPool].driver = r.driver
             /\ [r EXCEPT !.pool = NoPool].status = r.status
  BY <1>1, <1>2
<1>8. ASSUME NEW r \in ShiftRows \ {NoShift, Deleted}
      PROVE  /\ [r EXCEPT !.warned = TRUE] \in ShiftRows \ {NoShift, Deleted}
             /\ [r EXCEPT !.warned = TRUE].pool = r.pool
             /\ [r EXCEPT !.warned = TRUE].driver = r.driver
             /\ [r EXCEPT !.warned = TRUE].status = r.status
  BY <1>1, <1>2
<1> QED
  BY <1>1, <1>3, <1>4, <1>5, <1>6, <1>7, <1>8

LEMMA PlainTask ==
    ASSUME NEW t, task'[t].op \notin {"book", "accept", "destroy", "demote"}
    PROVE  TaskSound(t)'
BY DEF TaskSound, BookingSound, SwapSound, KillSound, DemoteSound

\* Only a task, the time or a tier changes.
LEMMA TaskStep ==
    ASSUME ShiftsIInv, NEW t \in Slots, NEW r \in TaskRecords, Continue(t, r),
           tier' \in [Couriers -> Tiers],
           UNCHANGED <<hours, capacity, shift, swap, poolLock>>,
           TaskSound(t)'
    PROVE  ShiftsIInv'
<1>1. ShiftTablesOK' /\ RowsFilled' /\ SwapsOfRows'
  BY DEF ShiftsIInv, ShiftTablesOK, Continue, RowsFilled, SwapsOfRows, Exists
<1>2. \A x \in Slots : x # t => task'[x] = task[x]
  BY DEF ShiftsIInv, ShiftTablesOK, Continue
<1>3. \A p \in Pools : RowsOf(p)' \subseteq RowsOf(p)
  BY DEF RowsOf, Exists
<1>4. \A x \in Slots : x # t => TaskSound(x)'
  BY <1>2, <1>3, TasksKept
<1> QED
  BY <1>1, <1>4 DEF ShiftsIInv

LEMMA PlainStep ==
    ASSUME ShiftsIInv, NEW t \in Slots, NEW r \in TaskRecords, Continue(t, r),
           r.op \notin {"book", "accept", "destroy", "demote"},
           tier' \in [Couriers -> Tiers],
           UNCHANGED <<hours, capacity, shift, swap, poolLock>>
    PROVE  ShiftsIInv'
<1>1. task'[t] = r
  BY DEF ShiftsIInv, ShiftTablesOK, Continue
<1> QED
  BY <1>1, PlainTask, TaskStep

\* A row is rewritten: its status, its driver or its mark.
LEMMA RowStep ==
    ASSUME ShiftsIInv, NEW t \in Slots, NEW r \in TaskRecords, Continue(t, r),
           NEW s \in Shifts, Exists(s),
           NEW row \in ShiftRows \ {NoShift, Deleted}, row.pool = shift[s].pool,
           shift' = [shift EXCEPT ![s] = row],
           swap' \in [Shifts -> SwapRows],
           \A x \in Shifts :
              \/ swap'[x] = swap[x]
              \/ swap[x] # NoSwap /\ swap'[x] # NoSwap /\ swap'[x].by = swap[x].by,
           UNCHANGED <<hours, capacity, tier, poolLock>>,
           TaskSound(t)'
    PROVE  ShiftsIInv'
<1>1. ShiftTablesOK'
  BY DEF ShiftsIInv, ShiftTablesOK, Continue
<1>2. \A x \in Shifts : /\ x # s => shift'[x] = shift[x]
                        /\ shift'[s] = row
                        /\ shift[s] \notin {NoShift, Deleted}
  BY DEF ShiftsIInv, ShiftTablesOK, Exists
<1>3. RowsFilled'
  <2>1. {x \in Shifts : shift'[x] # NoShift} = {x \in Shifts : shift[x] # NoShift}
    BY <1>2
  <2> QED
    BY <2>1 DEF ShiftsIInv, RowsFilled
<1>4. \A x \in Shifts : Exists(x)' <=> Exists(x)
  BY <1>2 DEF Exists
<1>5. SwapsOfRows'
  BY <1>4 DEF ShiftsIInv, SwapsOfRows
<1>6. \A p \in Pools : RowsOf(p)' \subseteq RowsOf(p)
  BY <1>2, <1>4 DEF RowsOf
<1>7. \A x \in Slots : x # t => task'[x] = task[x]
  BY DEF ShiftsIInv, ShiftTablesOK, Continue
<1>8. \A x \in Slots : x # t => TaskSound(x)'
  BY <1>2, <1>6, <1>7, TasksKept
<1> QED
  BY <1>1, <1>3, <1>5, <1>8 DEF ShiftsIInv

-----------------------------------------------------------------------------
LEMMA AssignStep ==
    ASSUME ShiftsIInv, NEW t \in Calls, NEW d \in Couriers, NEW p \in Pools,
           AdminAssignShift(t, d, p) \/ CreateShift(t, d, p)
    PROVE  ShiftsIInv'
<1>1. t \in Slots /\ tier \in [Couriers -> Tiers]
  BY SlotFacts DEF ShiftsIInv, ShiftTablesOK
<1>2. CASE AdminAssignShift(t, d, p)
  BY <1>1, <1>2, TaskForms, PlainStep DEF AdminAssignShift
<1>3. CASE CreateShift(t, d, p)
  BY <1>1, <1>3, TaskForms, PlainStep DEF CreateShift
<1> QED
  BY <1>2, <1>3

LEMMA StartEndStep ==
    ASSUME ShiftsIInv, NEW t \in Calls, NEW d \in Couriers, NEW s \in Shifts,
           StartShift(t, d, s) \/ EndShift(t, d, s)
    PROVE  ShiftsIInv'
<1>1. t \in Slots /\ tier \in [Couriers -> Tiers] /\ {} \in SUBSET (Shifts \X Couriers)
  BY SlotFacts DEF ShiftsIInv, ShiftTablesOK
<1>4. CASE StartShift(t, d, s)
  BY <1>1, <1>4, TaskForms, PlainStep DEF StartShift
<1>5. CASE EndShift(t, d, s)
  BY <1>1, <1>5, TaskForms, PlainStep DEF EndShift
<1> QED
  BY <1>4, <1>5

LEMMA FailureStep ==
    ASSUME ShiftsIInv, NEW t \in Slots,
           CreateFails(t) \/ CloseFails(t) \/ JobEnds(t)
    PROVE  ShiftsIInv'
<1>1. tier \in [Couriers -> Tiers]
  BY DEF ShiftsIInv, ShiftTablesOK
<1> QED
  BY <1>1, TaskForms, PlainStep DEF CreateFails, CloseFails, JobEnds, Done

\* The rest of an execution: on with the job's list, or nothing.
LEMMA ResumeForm ==
    ASSUME ShiftTablesOK, NEW t \in Slots, task[t].op \in {"end", "tier", "promote"}, Resume(t)
    PROVE  \E r \in TaskRecords : r.op \in {"idle", "overdue"} /\ Continue(t, r)
BY TaskShape, TaskForms DEF Resume, Done

LEMMA EndStep ==
    ASSUME ShiftsIInv, NEW t \in Slots, EndNext(t)
    PROVE  ShiftsIInv'
<1>0. ShiftTablesOK /\ tier \in [Couriers -> Tiers]
  BY DEF ShiftsIInv, ShiftTablesOK
<1>1. CASE CommitEnd(t)
  <2>1. CASE shift[task[t].shift].status # "ACTIVE"
    <3>1. Resume(t) /\ UNCHANGED <<hours, capacity, shift, swap, tier, poolLock>>
      BY <1>1, <2>1 DEF CommitEnd
    <3> QED
      BY <1>0, <1>1, <3>1, ResumeForm, PlainStep DEF CommitEnd
  <2>2. CASE shift[task[t].shift].status = "ACTIVE"
    <3> DEFINE s == task[t].shift
               row == [shift[s] EXCEPT !.status = "COMPLETED"]
               r == [task[t] EXCEPT !.op = "tier"]
    <3>1. task[t].op = "end" /\ s \in Shifts /\ task[t] \in TaskRecords
      BY <1>0, <1>1, TaskShape DEF CommitEnd
    <3>2. r \in TaskRecords /\ r.op = "tier"
      BY <3>1 DEF TaskRecords
    <3>3. Exists(s) /\ shift[s] \in ShiftRows \ {NoShift, Deleted}
      BY <2>2, <3>1 DEF Exists, NoShift, Deleted, ShiftsIInv, ShiftTablesOK
    <3>4. row \in ShiftRows \ {NoShift, Deleted} /\ row.pool = shift[s].pool
      <4>1. "COMPLETED" \in OpenStatuses \cup ClosedStatuses
        BY DEF ClosedStatuses
      <4> QED
        BY <3>3, <4>1, RowForms
    <3>5. shift' = [shift EXCEPT ![s] = row]
      BY <1>1, <2>2 DEF CommitEnd
    <3>6. Continue(t, r) /\ UNCHANGED <<hours, capacity, swap, tier, poolLock>>
      BY <1>1, <2>2 DEF CommitEnd
    <3>7. TaskSound(t)'
      <4>1. task'[t] = r
        BY <3>6, <1>0 DEF Continue, ShiftTablesOK
      <4> QED
        BY <4>1, <3>2, PlainTask
    <3> HIDE DEF row, r, s
    <3>8. swap' \in [Shifts -> SwapRows]
      BY <1>0, <3>6 DEF ShiftTablesOK
    <3> QED
      BY <3>1, <3>2, <3>3, <3>4, <3>5, <3>6, <3>7, <3>8, RowStep
  <2> QED
    BY <2>1, <2>2
<1>2. CASE ReadTier(t)
  <2>1. CASE Resume(t)
    BY <1>0, <1>2, <2>1, ResumeForm, PlainStep DEF ReadTier
  <2>2. CASE ~Resume(t)
    <3> DEFINE r == [op |-> "promote", driver |-> task[t].driver,
                     to |-> tier[task[t].driver] + 1,
                     todo |-> task[t].todo, job |-> task[t].job]
    <3>1. task[t].op = "tier" /\ tier[task[t].driver] < TopTier /\ Continue(t, r)
      BY <1>2, <2>2 DEF ReadTier
    <3>2. tier[task[t].driver] + 1 \in Tiers
      BY <1>0, <3>1, TaskShape, ShiftsAssumption DEF Tiers
    <3>3. r \in TaskRecords
      BY <1>0, <3>1, <3>2, TaskShape, TaskForms
    <3> QED
      BY <1>0, <1>2, <3>1, <3>3, PlainStep DEF ReadTier
  <2> QED
    BY <2>1, <2>2
<1>3. CASE PromoteTier(t)
  <2>1. tier' \in [Couriers -> Tiers]
    BY <1>0, <1>3, TaskShape DEF PromoteTier
  <2> QED
    BY <1>0, <1>3, <2>1, ResumeForm, PlainStep DEF PromoteTier
<1> QED
  BY <1>1, <1>2, <1>3 DEF EndNext

LEMMA CommitStartStep ==
    ASSUME ShiftsIInv, NEW t \in Calls, CommitStart(t)
    PROVE  ShiftsIInv'
<1>0. ShiftTablesOK /\ t \in Slots /\ tier \in [Couriers -> Tiers]
  BY SlotFacts DEF ShiftsIInv, ShiftTablesOK
<1>1. CASE ~Startable(t)
  BY <1>0, <1>1, TaskForms, PlainStep DEF CommitStart, Done
<1>2. CASE Startable(t)
  <2> DEFINE s == task[t].shift
             row == [shift[s] EXCEPT !.status = "ACTIVE"]
  <2>1. s \in Shifts /\ Exists(s) /\ shift[s] \in ShiftRows \ {NoShift, Deleted}
    BY <1>0, <1>2, TaskShape DEF CommitStart, Startable, Owns, Exists, ShiftTablesOK
  <2>2. row \in ShiftRows \ {NoShift, Deleted} /\ row.pool = shift[s].pool
    <3>1. "ACTIVE" \in OpenStatuses \cup ClosedStatuses
      BY DEF OpenStatuses
    <3> QED
      BY <2>1, <3>1, RowForms
  <2>3. /\ shift' = [shift EXCEPT ![s] = row] /\ Continue(t, [op |-> "idle"])
        /\ UNCHANGED <<hours, capacity, swap, tier, poolLock>>
    BY <1>2 DEF CommitStart, Done
  <2>4. TaskSound(t)'
    <3>1. task'[t] = [op |-> "idle"]
      BY <1>0, <2>3 DEF Continue, ShiftTablesOK
    <3> QED
      BY <3>1, PlainTask
  <2>5. swap' \in [Shifts -> SwapRows]
    BY <1>0, <2>3 DEF ShiftTablesOK
  <2> HIDE DEF row, s
  <2> QED
    BY <1>0, <2>1, <2>2, <2>3, <2>4, <2>5, TaskForms, RowStep
<1> QED
  BY <1>1, <1>2

LEMMA SwapForms ==
    /\ NoSwap \in SwapRows
    /\ \A d \in Couriers : /\ [status |-> "PENDING", by |-> d] \in SwapRows \ {NoSwap}
    /\ \A w \in SwapRows \ {NoSwap}, v \in {"ACCEPTED", "CANCELLED"} :
          /\ [w EXCEPT !.status = v] \in SwapRows \ {NoSwap}
          /\ [w EXCEPT !.status = v].by = w.by
          /\ [w EXCEPT !.status = v].status = v
BY DEF SwapRows, NoSwap, SwapStatuses

LEMMA CommitSwapStep ==
    ASSUME ShiftsIInv, NEW t \in Calls, CommitSwap(t)
    PROVE  ShiftsIInv'
<1> DEFINE s == task[t].shift
           row == [shift[s] EXCEPT !.driver = task[t].driver]
           new == [swap[s] EXCEPT !.status = "ACCEPTED"]
<1>0. /\ ShiftTablesOK /\ t \in Slots /\ tier \in [Couriers -> Tiers]
      /\ task[t].op = "accept" /\ s \in Shifts /\ task[t].driver \in Couriers
  BY SlotFacts, TaskShape DEF ShiftsIInv, ShiftTablesOK, CommitSwap
<1>1. CASE swap[s] = NoSwap
  BY <1>0, <1>1, TaskForms, PlainStep DEF CommitSwap, Done
<1>2. CASE swap[s] # NoSwap
  <2>1. Exists(s) /\ shift[s] \in ShiftRows \ {NoShift, Deleted} /\ swap[s] \in SwapRows \ {NoSwap}
    BY <1>0, <1>2 DEF ShiftsIInv, SwapsOfRows, Exists, ShiftTablesOK
  <2>2. row \in ShiftRows \ {NoShift, Deleted} /\ row.pool = shift[s].pool
    BY <1>0, <2>1, RowForms
  <2>3. /\ shift' = [shift EXCEPT ![s] = row] /\ Continue(t, [op |-> "idle"])
        /\ UNCHANGED <<hours, capacity, tier, poolLock>>
    BY <1>2 DEF CommitSwap, Done
  <2>4. TaskSound(t)'
    <3>1. task'[t] = [op |-> "idle"]
      BY <1>0, <2>3 DEF Continue, ShiftTablesOK
    <3> QED
      BY <3>1, PlainTask
  <2>5. new \in SwapRows \ {NoSwap} /\ new.by = swap[s].by
    BY <2>1, SwapForms
  <2>6. swap' = [swap EXCEPT ![s] = new]
    BY <1>2 DEF CommitSwap
  <2> HIDE DEF row, s, new
  <2>7. /\ swap' \in [Shifts -> SwapRows]
        /\ \A x \in Shifts : \/ swap'[x] = swap[x]
                             \/ swap[x] # NoSwap /\ swap'[x] # NoSwap /\ swap'[x].by = swap[x].by
    BY <1>0, <2>1, <2>5, <2>6 DEF ShiftTablesOK
  <2> QED
    BY <1>0, <2>1, <2>2, <2>3, <2>4, <2>7, TaskForms, RowStep
<1> QED
  BY <1>1, <1>2

\* A swap request to be accepted, or a pool to be terminated.
LEMMA AcceptSwapStep ==
    ASSUME ShiftsIInv, NEW t \in Calls, NEW d \in Couriers, NEW s \in Shifts, AcceptSwap(t, d, s)
    PROVE  ShiftsIInv'
<1> DEFINE r == [op |-> "accept", driver |-> d, shift |-> s]
<1>0. ShiftTablesOK /\ t \in Slots /\ tier \in [Couriers -> Tiers] /\ r \in TaskRecords
  BY SlotFacts, TaskForms DEF ShiftsIInv, ShiftTablesOK
<1>1. /\ Continue(t, r) /\ UNCHANGED <<hours, capacity, shift, swap, tier, poolLock>>
      /\ swap[s].status = "PENDING" /\ swap[s].by # d
  BY DEF AcceptSwap, Acceptable
<1>2. task'[t] = r
  BY <1>0, <1>1 DEF Continue, ShiftTablesOK
<1>3. TaskSound(t)'
  BY <1>1, <1>2 DEF TaskSound, BookingSound, SwapSound, KillSound, DemoteSound, NoSwap
<1> QED
  BY <1>0, <1>1, <1>3, TaskStep

LEMMA TerminateStep ==
    ASSUME ShiftsIInv, NEW t \in Calls, NEW p \in Pools, TerminateShiftPool(t, p)
    PROVE  ShiftsIInv'
<1> DEFINE open == {s \in RowsOf(p) : shift[s].status \in OpenStatuses}
           r == [op |-> IF open = {} THEN "close" ELSE "destroy", pool |-> p,
                 kill |-> open, history |-> open # RowsOf(p)]
<1>1. open \in SUBSET Shifts /\ \A s \in open : shift[s] # NoShift
  BY DEF RowsOf, Exists
<1>2. /\ Continue(t, r) /\ UNCHANGED <<hours, capacity, shift, swap, tier, poolLock>>
  BY DEF TerminateShiftPool
<1> HIDE DEF open
<1>0. ShiftTablesOK /\ t \in Slots /\ tier \in [Couriers -> Tiers] /\ r \in TaskRecords
  BY <1>1, SlotFacts, TaskForms DEF ShiftsIInv, ShiftTablesOK
<1>3. task'[t] = r
  BY <1>0, <1>2 DEF Continue, ShiftTablesOK
<1>4. TaskSound(t)'
  BY <1>1, <1>2, <1>3 DEF TaskSound, BookingSound, SwapSound, KillSound, DemoteSound
<1> HIDE DEF r
<1> QED
  BY <1>0, <1>2, <1>4, TaskStep

\* Neither a row nor a task changes.
LEMMA QuietStep ==
    ASSUME ShiftsIInv, ShiftTablesOK',
           \A p \in Pools : capacity'[p] = capacity[p] \/ capacity[p] = -1,
           \A s \in Shifts : swap'[s] = swap[s] \/ (swap[s] = NoSwap /\ Exists(s)),
           UNCHANGED <<shift, poolLock, task>>
    PROVE  ShiftsIInv'
<1>1. RowsFilled' /\ SwapsOfRows'
  BY DEF ShiftsIInv, RowsFilled, SwapsOfRows, Exists
<1>2. \A p \in Pools : RowsOf(p)' \subseteq RowsOf(p)
  BY DEF RowsOf, Exists
<1>3. \A x \in Slots : x # NoCall => TaskSound(x)'
  BY <1>2, TasksKept DEF Exists
<1> QED
  BY <1>1, <1>3, SlotFacts DEF ShiftsIInv

LEMMA HoursStep ==
    ASSUME ShiftsIInv, NEW p \in Pools, Passes(p) \/ GenerateShiftPool(p)
    PROVE  ShiftsIInv'
<1>1. CASE Passes(p)
  <2>1. ShiftTablesOK'
    BY <1>1 DEF Passes, ShiftsIInv, ShiftTablesOK, Hours
  <2> QED
    BY <1>1, <2>1, QuietStep DEF Passes
<1>2. CASE GenerateShiftPool(p)
  <2>1. PICK n \in 1..MaxCapacity : capacity' = [capacity EXCEPT ![p] = n]
    BY <1>2 DEF GenerateShiftPool
  <2>2. n \in -1..MaxCapacity
    BY ShiftsAssumption
  <2>3. ShiftTablesOK'
    BY <1>2, <2>1, <2>2 DEF GenerateShiftPool, ShiftsIInv, ShiftTablesOK
  <2>4. \A q \in Pools : capacity'[q] = capacity[q] \/ capacity[q] = -1
    BY <1>2, <2>1 DEF GenerateShiftPool, ShiftsIInv, ShiftTablesOK
  <2> QED
    BY <1>2, <2>3, <2>4, QuietStep DEF GenerateShiftPool
<1> QED
  BY <1>1, <1>2

LEMMA OfferSwapStep ==
    ASSUME ShiftsIInv, NEW d \in Couriers, NEW s \in Shifts, OfferSwap(d, s)
    PROVE  ShiftsIInv'
<1>1. ShiftTablesOK'
  BY SwapForms DEF OfferSwap, ShiftsIInv, ShiftTablesOK
<1>2. \A x \in Shifts : swap'[x] = swap[x] \/ (swap[x] = NoSwap /\ Exists(x))
  BY DEF OfferSwap, Owns, ShiftsIInv, ShiftTablesOK
<1> QED
  BY <1>1, <1>2, QuietStep DEF OfferSwap

-----------------------------------------------------------------------------
(* Rows that are created: the next one, or as many as a booking has pools *)

LEMMA NextRowIsFree ==
    ASSUME ShiftsIInv
    PROVE  /\ NextRow \in Nat \ {0}
           /\ {s \in Shifts : shift[s] # NoShift} = 1..(NextRow - 1)
           /\ \A s \in Shifts : s \in Nat
           /\ \A s \in Shifts : s >= NextRow => shift[s] = NoShift
<1>1. PICK n \in 0..Cardinality(Shifts) : {s \in Shifts : shift[s] # NoShift} = 1..n
  BY DEF ShiftsIInv, RowsFilled
<1>2. Cardinality(Shifts) \in Nat
  BY ShiftsAssumption, FS_CardinalityType
<1>3. NextRow = n + 1
  <2>1. n \in Nat /\ Cardinality(1..n) = n
    BY <1>2, FS_Interval
  <2> QED
    BY <1>1, <2>1 DEF NextRow
<1> HIDE DEF NextRow
<1>4. \A s \in Shifts : s \in Nat
  BY <1>2, ShiftsAssumption
<1> QED
  BY <1>1, <1>2, <1>3, <1>4

LEMMA CreateCommitStep ==
    ASSUME ShiftsIInv, NEW t \in Calls, CommitCreate(t)
    PROVE  ShiftsIInv'
<1> DEFINE s == NextRow
           p == task[t].pool
           q == IF task[t].inPool THEN p ELSE NoPool
           row == NewShift(task[t].driver, p, q, FALSE)
<1>0. ShiftTablesOK /\ t \in Slots /\ task[t].op = "create" /\ s \in Shifts
  BY SlotFacts DEF ShiftsIInv, CommitCreate
<1>1. /\ p \in Pools /\ q \in Pools \cup {NoPool} /\ task[t].driver \in Couriers
      /\ q \in Pools => poolLock[q] = NoCall
  BY <1>0, TaskShape, ShiftsAssumption DEF CommitCreate
<1>2. row \in ShiftRows \ {NoShift, Deleted} /\ row.pool = q
  BY <1>1 DEF NewShift, ShiftRows, OpenStatuses, NoShift, Deleted
<1>3. shift' = [shift EXCEPT ![s] = row]
  BY DEF CommitCreate
<1>4. task' = [task EXCEPT ![t] = [op |-> "idle"]] /\ UNCHANGED <<hours, capacity, swap, tier, poolLock>>
  BY DEF CommitCreate, Done, Continue
<1>5. shift[s] = NoShift /\ s \in Nat \ {0}
  BY <1>0, NextRowIsFree
<1>6. {x \in Shifts : shift[x] # NoShift} = 1..(s - 1)
  BY NextRowIsFree
<1> HIDE DEF s, p, q, row
<1>7. ShiftTablesOK'
  BY <1>0, <1>2, <1>3, <1>4, TaskForms DEF ShiftTablesOK
<1>8. shift'[s] = row /\ \A x \in Shifts : x # s => shift'[x] = shift[x]
  BY <1>0, <1>3 DEF ShiftTablesOK
<1>9. RowsFilled'
  <2>1. {x \in Shifts : shift'[x] # NoShift} = (1..(s - 1)) \cup {s}
    BY <1>0, <1>2, <1>6, <1>8
  <2>2. (1..(s - 1)) \cup {s} = 1..s
    BY <1>5
  <2>3. s \in 0..Cardinality(Shifts)
    BY <1>0, <1>5, ShiftsAssumption, FS_CardinalityType
  <2> QED
    BY <2>1, <2>2, <2>3 DEF RowsFilled
<1>10. SwapsOfRows'
  BY <1>2, <1>4, <1>8 DEF ShiftsIInv, SwapsOfRows, Exists
<1>11. \A x \in Slots : x # t => task'[x] = task[x]
  BY <1>0, <1>4 DEF ShiftTablesOK
<1>12. \A x \in Pools : RowsOf(x)' \subseteq RowsOf(x) \/ poolLock[x] = NoCall
  BY <1>1, <1>2, <1>8 DEF RowsOf, Exists
<1>13. \A x \in Slots : x # t => TaskSound(x)'
  <2>1. \A x \in Shifts : /\ shift[x] # NoShift => shift'[x] # NoShift
                          /\ shift[x] = Deleted => shift'[x] = Deleted
    BY <1>2, <1>5, <1>8 DEF NoShift, Deleted
  <2> QED
    BY <1>4, <1>11, <1>12, <2>1, TasksKept
<1>14. TaskSound(t)'
  BY <1>0, <1>4, PlainTask DEF ShiftTablesOK
<1> QED
  BY <1>7, <1>9, <1>10, <1>13, <1>14 DEF ShiftsIInv

\* A booking locks its pools.
LEMMA BookShiftsStep ==
    ASSUME ShiftsIInv, NEW t \in Calls, NEW d \in Couriers, NEW P \in Weeks \cup {{p} : p \in Pools},
           BookShifts(t, d, P)
    PROVE  ShiftsIInv'
<1> DEFINE r == [op |-> "book", driver |-> d, pools |-> P]
<1>1. P \in SUBSET Pools /\ IsFiniteSet(P)
  <2>1. CASE P \in Weeks
    BY <2>1, ShiftsAssumption
  <2>2. CASE P \in {{p} : p \in Pools}
    <3>1. PICK p \in Pools : P = {p}
      BY <2>2
    <3> QED
      BY <3>1, FS_Singleton
  <2> QED
    BY <2>1, <2>2
<1>0. ShiftTablesOK /\ t \in Slots /\ r \in TaskRecords
  BY <1>1, SlotFacts, TaskForms DEF ShiftsIInv
<1>2. /\ task' = [task EXCEPT ![t] = r] /\ UNCHANGED <<hours, capacity, shift, swap, tier>>
      /\ poolLock' = [p \in Pools |-> IF p \in P THEN t ELSE poolLock[p]]
  BY DEF BookShifts, Continue
<1>3. \A p \in P : capacity[p] # -1 /\ poolLock[p] = NoCall /\ Cardinality(RowsOf(p)) < capacity[p]
  BY DEF BookShifts, Lockable
<1>4. ShiftTablesOK' /\ RowsFilled' /\ SwapsOfRows'
  BY <1>0, <1>2 DEF ShiftsIInv, ShiftTablesOK, RowsFilled, SwapsOfRows, Exists
<1>5. \A p \in Pools : RowsOf(p)' = RowsOf(p)
  BY <1>2 DEF RowsOf, Exists
<1>6. task'[t] = r /\ \A x \in Slots : x # t => task'[x] = task[x]
  BY <1>0, <1>2 DEF ShiftTablesOK
<1>7. \A x \in Slots : x # t => TaskSound(x)'
  BY <1>2, <1>3, <1>5, <1>6, TasksKept
<1>8. TaskSound(t)'
  BY <1>1, <1>2, <1>3, <1>5, <1>6 DEF TaskSound, BookingSound, SwapSound, KillSound, DemoteSound
<1> QED
  BY <1>4, <1>7, <1>8 DEF ShiftsIInv

\* The rows a booking creates: as many as it has pools, one for each.
LEMMA OneRowEach ==
    ASSUME NEW new, IsFiniteSet(new), NEW P, Cardinality(new) = Cardinality(P),
           NEW f \in [new -> P], \A p \in P : \E s \in new : f[s] = p
    PROVE  \A p \in P : \E s \in new : f[s] = p /\ \A x \in new : f[x] = p => x = s
<1>1. f \in Surjection(new, P)
  BY DEF Surjection
<1>2. f \in Injection(new, P)
  BY <1>1, FS_Surjection
<1>3. \A x, y \in new : f[x] = f[y] => x = y
  BY <1>2 DEF Injection, IsInjective
<1> QED
  BY <1>3

LEMMA BookingCommitted ==
    ASSUME ShiftsIInv, NEW t \in Calls, CommitBooking(t)
    PROVE  /\ task[t].pools \in SUBSET Pools /\ IsFiniteSet(task[t].pools)
           /\ \E n \in Nat :
                 LET new == NextRow..(NextRow + n - 1) IN
                 /\ new \subseteq Shifts
                 /\ \A s \in new : shift[s] = NoShift
                 /\ \A s \in new : /\ shift'[s] \in ShiftRows \ {NoShift, Deleted}
                                   /\ shift'[s].pool \in task[t].pools /\ shift'[s].self
                 /\ \A s \in Shifts \ new : shift'[s] = shift[s]
                 /\ \A p \in task[t].pools :
                       \E s \in new : shift'[s].pool = p /\ \A x \in new : shift'[x].pool = p => x = s
                 /\ DOMAIN shift' = Shifts /\ shift' = [s \in Shifts |-> shift'[s]]
<1> DEFINE P == task[t].pools
           n == Cardinality(P)
           new == NextRow..(NextRow + n - 1)
<1>1. t \in Slots /\ task[t].op = "book" /\ task[t].driver \in Couriers /\ P \in SUBSET Pools /\ IsFiniteSet(P)
  BY SlotFacts, TaskShape DEF ShiftsIInv, TaskSound, BookingSound, CommitBooking
<1>2. n \in Nat
  BY <1>1, FS_CardinalityType
<1>3. /\ new \subseteq Shifts
      /\ \E pool \in [new -> P] :
            /\ \A p \in P : \E s \in new : pool[s] = p
            /\ shift' = [s \in Shifts |->
                  IF s \in new THEN NewShift(task[t].driver, pool[s], pool[s], TRUE) ELSE shift[s]]
  BY DEF CommitBooking
<1>4. PICK pool \in [new -> P] :
            /\ \A p \in P : \E s \in new : pool[s] = p
            /\ shift' = [s \in Shifts |->
                  IF s \in new THEN NewShift(task[t].driver, pool[s], pool[s], TRUE) ELSE shift[s]]
  BY <1>3
<1>5. NextRow \in Nat /\ \A s \in new : s >= NextRow
  BY <1>2, NextRowIsFree
<1>6. \A p \in P : \E s \in new : pool[s] = p /\ \A x \in new : pool[x] = p => x = s
  <2>1. IsFiniteSet(new) /\ Cardinality(new) = n
    <3> HIDE DEF n, NextRow
    <3>1. /\ NextRow \in Int /\ NextRow + n - 1 \in Int
          /\ (IF NextRow > NextRow + n - 1 THEN 0 ELSE (NextRow + n - 1) - NextRow + 1) = n
      BY <1>2, <1>5
    <3> QED
      BY <3>1, FS_Interval
  <2> HIDE DEF new, P, NextRow
  <2> QED
    BY <1>4, <2>1, OneRowEach
<1>7. \A s \in new : shift[s] = NoShift
  BY <1>3, <1>5, NextRowIsFree
<1> HIDE DEF new, P, NextRow
<1>8. \A s \in new : /\ shift'[s] \in ShiftRows \ {NoShift, Deleted}
                     /\ shift'[s].pool = pool[s] /\ pool[s] \in P /\ shift'[s].self
  <2> SUFFICES ASSUME NEW s \in new
               PROVE  /\ shift'[s] \in ShiftRows \ {NoShift, Deleted}
                      /\ shift'[s].pool = pool[s] /\ pool[s] \in P /\ shift'[s].self
    OBVIOUS
  <2>1. pool[s] \in P /\ pool[s] \in Pools /\ shift'[s] = NewShift(task[t].driver, pool[s], pool[s], TRUE)
    BY <1>1, <1>3, <1>4
  <2> QED
    BY <1>1, <2>1 DEF NewShift, ShiftRows, OpenStatuses, NoShift, Deleted
<1>9. \A s \in Shifts \ new : shift'[s] = shift[s]
  BY <1>4
<1>10. DOMAIN shift' = Shifts /\ shift' = [s \in Shifts |-> shift'[s]]
  BY <1>4
<1>11. \A p \in P : \E s \in new : shift'[s].pool = p /\ \A x \in new : shift'[x].pool = p => x = s
  BY <1>6, <1>8
<1>12. /\ new \subseteq Shifts
       /\ \A s \in new : shift[s] = NoShift
       /\ \A s \in new : /\ shift'[s] \in ShiftRows \ {NoShift, Deleted}
                         /\ shift'[s].pool \in P /\ shift'[s].self
       /\ \A s \in Shifts \ new : shift'[s] = shift[s]
       /\ \A p \in P : \E s \in new : shift'[s].pool = p /\ \A x \in new : shift'[x].pool = p => x = s
       /\ DOMAIN shift' = Shifts /\ shift' = [s \in Shifts |-> shift'[s]]
  BY <1>3, <1>7, <1>8, <1>9, <1>10, <1>11
<1> QED
  BY <1>1, <1>2, <1>12 DEF new, P

LEMMA BookingCommitStep ==
    ASSUME ShiftsIInv, NEW t \in Calls, CommitBooking(t)
    PROVE  ShiftsIInv'
<1>0. ShiftTablesOK /\ t \in Slots /\ NextRow \in Nat \ {0}
  BY SlotFacts, NextRowIsFree DEF ShiftsIInv
<1>1. PICK n \in Nat :
                 LET new == NextRow..(NextRow + n - 1) IN
                 /\ new \subseteq Shifts
                 /\ \A s \in new : shift[s] = NoShift
                 /\ \A s \in new : /\ shift'[s] \in ShiftRows \ {NoShift, Deleted}
                                   /\ shift'[s].pool \in task[t].pools /\ shift'[s].self
                 /\ \A s \in Shifts \ new : shift'[s] = shift[s]
                 /\ \A p \in task[t].pools :
                       \E s \in new : shift'[s].pool = p /\ \A x \in new : shift'[x].pool = p => x = s
                 /\ DOMAIN shift' = Shifts /\ shift' = [s \in Shifts |-> shift'[s]]
  BY BookingCommitted
<1>2. /\ task' = [task EXCEPT ![t] = [op |-> "idle"]] /\ UNCHANGED <<hours, capacity, swap, tier>>
      /\ poolLock' = Unlocked(t)
  BY DEF CommitBooking, Done, Continue
<1>3. {x \in Shifts : shift[x] # NoShift} = 1..(NextRow - 1)
  BY NextRowIsFree
<1> DEFINE m == NextRow
           new == m..(m + n - 1)
<1> HIDE DEF m
<1>4. /\ new \subseteq Shifts
      /\ \A s \in new : shift[s] = NoShift
      /\ \A s \in new : shift'[s] \in ShiftRows \ {NoShift, Deleted} /\ shift'[s].pool \in task[t].pools
      /\ \A s \in Shifts \ new : shift'[s] = shift[s]
      /\ shift' = [s \in Shifts |-> shift'[s]]
  BY <1>1 DEF m
<1>5. m \in Nat \ {0} /\ {x \in Shifts : shift[x] # NoShift} = 1..(m - 1)
  BY <1>0, <1>3 DEF m
<1>6. RowsFilled'
  <2>1. {x \in Shifts : shift'[x] # NoShift} = (1..(m - 1)) \cup new
    <3> HIDE DEF new
    <3> QED
      BY <1>4, <1>5
  <2>2. (1..(m - 1)) \cup new = 1..(m + n - 1)
    BY <1>5
  <2>3. m + n - 1 \in 0..Cardinality(Shifts)
    <3>1. Cardinality(Shifts) \in Nat /\ Shifts = 1..Cardinality(Shifts)
      BY ShiftsAssumption, FS_CardinalityType
    <3>2. CASE n = 0
      <4>1. CASE m = 1
        BY <3>1, <3>2, <4>1
      <4>2. CASE m > 1
        <5>1. m - 1 \in Shifts
          BY <1>5, <4>2
        <5> QED
          BY <1>5, <3>1, <3>2, <5>1
      <4> QED
        BY <1>5, <4>1, <4>2
    <3>3. CASE n > 0
      <4>1. m + n - 1 \in new
        BY <1>5, <3>3
      <4> QED
        BY <1>4, <1>5, <3>1, <3>3, <4>1
    <3> QED
      BY <3>2, <3>3
  <2> QED
    BY <2>1, <2>2, <2>3 DEF RowsFilled
<1> HIDE DEF new
<1>7. ShiftTablesOK'
  <2>1. shift' \in [Shifts -> ShiftRows]
    BY <1>0, <1>4 DEF ShiftTablesOK
  <2>2. poolLock' \in [Pools -> Calls \cup {NoCall}]
    BY <1>0, <1>2 DEF ShiftTablesOK, Unlocked
  <2> QED
    BY <1>0, <1>2, <2>1, <2>2, TaskForms DEF ShiftTablesOK
<1>8. SwapsOfRows'
  BY <1>2, <1>4 DEF ShiftsIInv, SwapsOfRows, Exists
<1>9. \A x \in Slots : x # t => task'[x] = task[x]
  BY <1>0, <1>2 DEF ShiftTablesOK
<1>10. ASSUME NEW p \in Pools
       PROVE  \/ poolLock'[p] = poolLock[p] /\ capacity'[p] = capacity[p] /\ RowsOf(p)' \subseteq RowsOf(p)
              \/ poolLock[p] \in {NoCall, t}
  <2>1. CASE poolLock[p] # t
    <3>1. p \notin task[t].pools
      BY <1>0, <2>1 DEF ShiftsIInv, TaskSound, BookingSound, CommitBooking
    <3>2. RowsOf(p)' \subseteq RowsOf(p)
      BY <1>4, <3>1 DEF RowsOf, Exists
    <3> QED
      BY <1>2, <2>1, <3>2 DEF Unlocked
  <2> QED
    BY <2>1
<1>11. \A x \in Shifts : /\ shift[x] # NoShift => shift'[x] # NoShift
                         /\ shift[x] = Deleted => shift'[x] = Deleted
  BY <1>4 DEF NoShift, Deleted
<1>12. \A x \in Slots : x # t => TaskSound(x)'
  BY <1>2, <1>9, <1>10, <1>11, TasksKept
<1>13. TaskSound(t)'
  BY <1>0, <1>2, PlainTask DEF ShiftTablesOK
<1> QED
  BY <1>6, <1>7, <1>8, <1>12, <1>13 DEF ShiftsIInv

LEMMA BookingFailsStep ==
    ASSUME ShiftsIInv, NEW t \in Calls, BookingFails(t)
    PROVE  ShiftsIInv'
<1>0. ShiftTablesOK /\ t \in Slots
  BY SlotFacts DEF ShiftsIInv
<1>1. /\ task' = [task EXCEPT ![t] = [op |-> "idle"]] /\ UNCHANGED <<hours, capacity, shift, swap, tier>>
      /\ poolLock' = Unlocked(t)
  BY DEF BookingFails, Done, Continue
<1>2. ShiftTablesOK' /\ RowsFilled' /\ SwapsOfRows'
  BY <1>0, <1>1, TaskForms DEF ShiftsIInv, ShiftTablesOK, Unlocked, RowsFilled, SwapsOfRows, Exists
<1>3. \A x \in Slots : x # t => task'[x] = task[x]
  BY <1>0, <1>1 DEF ShiftTablesOK
<1>4. \A p \in Pools : RowsOf(p)' \subseteq RowsOf(p) /\ (poolLock'[p] = poolLock[p] \/ poolLock[p] = t)
  BY <1>1 DEF RowsOf, Exists, Unlocked
<1>5. \A x \in Slots : x # t => TaskSound(x)'
  BY <1>1, <1>3, <1>4, TasksKept
<1>6. TaskSound(t)'
  BY <1>0, <1>1, PlainTask DEF ShiftTablesOK
<1> QED
  BY <1>2, <1>5, <1>6 DEF ShiftsIInv

-----------------------------------------------------------------------------
(* The end of a pool *)

LEMMA DestroyStep ==
    ASSUME ShiftsIInv, NEW t \in Calls, DestroyShifts(t)
    PROVE  ShiftsIInv'
<1> DEFINE K == task[t].kill
           r == [task[t] EXCEPT !.op = "close"]
<1>0. ShiftTablesOK /\ t \in Slots /\ task[t].op = "destroy" /\ K \in SUBSET Shifts /\ task[t] \in TaskRecords
  BY SlotFacts, TaskShape DEF ShiftsIInv, DestroyShifts
<1>1. r \in TaskRecords /\ r.op = "close"
  BY <1>0 DEF TaskRecords
<1>2. /\ shift' = [s \in Shifts |-> IF s \in K /\ Exists(s) THEN Deleted ELSE shift[s]]
      /\ swap' = [s \in Shifts |-> IF s \in K THEN NoSwap ELSE swap[s]]
      /\ task' = [task EXCEPT ![t] = r]
      /\ UNCHANGED <<hours, capacity, tier, poolLock>>
  BY DEF DestroyShifts, Continue
<1>3. \A s \in K : shift[s] # NoShift
  BY <1>0 DEF ShiftsIInv, TaskSound, KillSound
<1> HIDE DEF K, r
<1>4. \A s \in Shifts : /\ s \in K => shift'[s] = Deleted /\ swap'[s] = NoSwap /\ shift[s] # NoShift
                        /\ s \notin K => shift'[s] = shift[s] /\ swap'[s] = swap[s]
  BY <1>2, <1>3 DEF Exists
<1>5. ShiftTablesOK'
  BY <1>0, <1>1, <1>2, RowForms, SwapForms DEF ShiftTablesOK
<1>6. RowsFilled'
  <2>1. {x \in Shifts : shift'[x] # NoShift} = {x \in Shifts : shift[x] # NoShift}
    BY <1>4, RowForms
  <2> QED
    BY <2>1 DEF ShiftsIInv, RowsFilled
<1>7. SwapsOfRows'
  BY <1>4 DEF ShiftsIInv, SwapsOfRows, Exists
<1>8. \A x \in Slots : x # t => task'[x] = task[x]
  BY <1>0, <1>2 DEF ShiftTablesOK
<1>9. \A p \in Pools : RowsOf(p)' \subseteq RowsOf(p)
  BY <1>4 DEF RowsOf, Exists
<1>10. \A x \in Shifts : /\ shift[x] # NoShift => shift'[x] # NoShift
                         /\ shift[x] = Deleted => shift'[x] = Deleted
                         /\ swap'[x] = swap[x] \/ (swap'[x] = NoSwap /\ shift'[x] = Deleted)
  BY <1>4 DEF NoShift, Deleted
<1>11. \A x \in Slots : x # t => TaskSound(x)'
  BY <1>2, <1>8, <1>9, <1>10, TasksKept
<1>12. TaskSound(t)'
  BY <1>0, <1>1, <1>2, PlainTask DEF ShiftTablesOK
<1> QED
  BY <1>5, <1>6, <1>7, <1>11, <1>12 DEF ShiftsIInv

LEMMA ClosePoolStep ==
    ASSUME ShiftsIInv, NEW t \in Calls, ClosePool(t)
    PROVE  ShiftsIInv'
<1> DEFINE p == task[t].pool
<1>0. ShiftTablesOK /\ t \in Slots /\ p \in Pools
  BY SlotFacts, TaskShape DEF ShiftsIInv, ClosePool
<1>1. /\ poolLock[p] = NoCall
      /\ task' = [task EXCEPT ![t] = [op |-> "idle"]]
      /\ UNCHANGED <<hours, swap, tier, poolLock>>
      /\ \E n \in {0, -1} : capacity' = [capacity EXCEPT ![p] = n]
      /\ \/ UNCHANGED shift
         \/ shift' = [s \in Shifts |-> IF s \in RowsOf(p) THEN [shift[s] EXCEPT !.pool = NoPool]
                                       ELSE shift[s]]
  BY DEF ClosePool, Done, Continue
<1> HIDE DEF p
<1>2. ASSUME NEW s \in Shifts
      PROVE  \/ shift'[s] = shift[s]
             \/ /\ shift[s] \in ShiftRows \ {NoShift, Deleted}
                /\ shift'[s] \in ShiftRows \ {NoShift, Deleted}
                /\ shift'[s].pool = NoPool
  <2>1. CASE UNCHANGED shift \/ s \notin RowsOf(p)
    BY <1>1, <2>1
  <2>2. CASE shift'[s] = [shift[s] EXCEPT !.pool = NoPool] /\ s \in RowsOf(p)
    <3>1. shift[s] \in ShiftRows \ {NoShift, Deleted}
      BY <1>0, <2>2 DEF RowsOf, Exists, ShiftTablesOK
    <3>2. /\ [shift[s] EXCEPT !.pool = NoPool] \in ShiftRows \ {NoShift, Deleted}
          /\ [shift[s] EXCEPT !.pool = NoPool].pool = NoPool
      BY <3>1, RowForms
    <3> QED
      BY <2>2, <3>1, <3>2
  <2> QED
    BY <1>1, <2>1, <2>2
<1>3. shift' \in [Shifts -> ShiftRows]
  <2>1. \A s \in Shifts : shift'[s] \in ShiftRows
    BY <1>0, <1>2 DEF ShiftTablesOK
  <2>2. shift' = [s \in Shifts |-> shift'[s]]
    BY <1>0, <1>1 DEF ShiftTablesOK
  <2> QED
    BY <2>1, <2>2
<1>4. ShiftTablesOK'
  <2>1. capacity' \in [Pools -> -1..MaxCapacity]
    BY <1>0, <1>1, ShiftsAssumption DEF ShiftTablesOK
  <2> QED
    BY <1>0, <1>1, <1>3, <2>1, TaskForms DEF ShiftTablesOK
<1>5. RowsFilled'
  <2>1. {x \in Shifts : shift'[x] # NoShift} = {x \in Shifts : shift[x] # NoShift}
    BY <1>2
  <2> QED
    BY <2>1 DEF ShiftsIInv, RowsFilled
<1>6. SwapsOfRows'
  BY <1>1, <1>2 DEF ShiftsIInv, SwapsOfRows, Exists
<1>7. \A x \in Slots : x # t => task'[x] = task[x]
  BY <1>0, <1>1 DEF ShiftTablesOK
<1>8. \A q \in Pools : /\ RowsOf(q)' \subseteq RowsOf(q)
                       /\ q # p => capacity'[q] = capacity[q]
  BY <1>0, <1>1, <1>2, ShiftsAssumption DEF RowsOf, Exists, ShiftTablesOK
<1>9. \A x \in Shifts : /\ shift[x] # NoShift => shift'[x] # NoShift
                        /\ shift[x] = Deleted => shift'[x] = Deleted
  BY <1>2
<1>10. \A x \in Slots : x # t => TaskSound(x)'
  BY <1>1, <1>7, <1>8, <1>9, TasksKept
<1>11. TaskSound(t)'
  BY <1>0, <1>1, PlainTask DEF ShiftTablesOK
<1> QED
  BY <1>4, <1>5, <1>6, <1>10, <1>11 DEF ShiftsIInv

-----------------------------------------------------------------------------
(* The jobs *)

LEMMA RowFacts ==
    ASSUME ShiftTablesOK, NEW s \in Shifts
    PROVE  /\ Exists(s) => shift[s] \in ShiftRows \ {NoShift, Deleted} /\ shift[s].driver \in Couriers
           /\ shift[s].status \in OpenStatuses => Exists(s)
<1>1. Exists(s) => shift[s] \in ShiftRows \ {NoShift, Deleted}
  BY DEF Exists, ShiftTablesOK
<1>2. shift[s].status \in OpenStatuses => Exists(s)
  BY DEF Exists, NoShift, Deleted, OpenStatuses
<1> QED
  BY <1>1, <1>2, RowForms

LEMMA JobStartStep ==
    ASSUME ShiftsIInv, NEW t \in Workers,
           DriverShiftsChecker(t) \/ LateCheck(t) \/ ShiftWarning(t)
    PROVE  ShiftsIInv'
<1>0. ShiftTablesOK /\ t \in Slots /\ tier \in [Couriers -> Tiers]
  BY SlotFacts DEF ShiftsIInv, ShiftTablesOK
<1>1. CASE DriverShiftsChecker(t)
  <2> DEFINE T == {<<s, shift[s].driver>> : s \in OverdueShifts}
  <2>1. T \in SUBSET (Shifts \X Couriers)
    BY <1>0, RowFacts DEF OverdueShifts, OpenStatuses
  <2>2. Continue(t, [op |-> "overdue", todo |-> T])
        /\ UNCHANGED <<hours, capacity, shift, swap, tier, poolLock>>
    BY <1>1 DEF DriverShiftsChecker
  <2> HIDE DEF T
  <2> QED
    BY <1>0, <2>1, <2>2, TaskForms, PlainStep
<1>2. CASE LateCheck(t)
  <2> DEFINE T == {[shift |-> s, driver |-> shift[s].driver, tier |-> tier[shift[s].driver]]
                      : s \in LateShifts}
  <2>1. T \in SUBSET Late
    BY <1>0, RowFacts DEF LateShifts, OpenStatuses, Late
  <2>2. Continue(t, [op |-> "late", todo |-> T])
        /\ UNCHANGED <<hours, capacity, shift, swap, tier, poolLock>>
    BY <1>2 DEF LateCheck
  <2> HIDE DEF T
  <2> QED
    BY <1>0, <2>1, <2>2, TaskForms, PlainStep
<1>3. CASE ShiftWarning(t)
  <2> DEFINE T == {[shift |-> s, pending |-> swap[s].status = "PENDING"] : s \in UpcomingShifts}
  <2>1. T \in SUBSET Soon
    <3> SUFFICES ASSUME NEW s \in UpcomingShifts
                 PROVE  [shift |-> s, pending |-> swap[s].status = "PENDING"] \in Soon
      OBVIOUS
    <3>1. s \in Shifts /\ (swap[s].status = "PENDING") \in BOOLEAN
      BY DEF UpcomingShifts
    <3> QED
      BY <3>1 DEF Soon
  <2>2. Continue(t, [op |-> "warn", todo |-> T])
        /\ UNCHANGED <<hours, capacity, shift, swap, tier, poolLock>>
    BY <1>3 DEF ShiftWarning
  <2> HIDE DEF T
  <2> QED
    BY <1>0, <2>1, <2>2, TaskForms, PlainStep
<1> QED
  BY <1>1, <1>2, <1>3

LEMMA EndBySystemStep ==
    ASSUME ShiftsIInv, NEW t \in Workers, EndShiftBySystem(t)
    PROVE  ShiftsIInv'
<1>0. ShiftTablesOK /\ t \in Slots /\ tier \in [Couriers -> Tiers]
      /\ task[t].op = "overdue" /\ task[t].todo \in SUBSET (Shifts \X Couriers)
  BY SlotFacts, TaskShape DEF ShiftsIInv, ShiftTablesOK, EndShiftBySystem
<1>1. UNCHANGED <<hours, capacity, shift, swap, tier, poolLock>>
  BY DEF EndShiftBySystem
<1>2. PICK x \in task[t].todo :
          IF Endable(x)
          THEN Continue(t, [op |-> "end", driver |-> x[2], shift |-> x[1],
                            todo |-> task[t].todo \ {x}, job |-> TRUE])
          ELSE Continue(t, [task[t] EXCEPT !.todo = @ \ {x}])
  BY DEF EndShiftBySystem
<1>3. x[1] \in Shifts /\ x[2] \in Couriers /\ task[t].todo \ {x} \in SUBSET (Shifts \X Couriers)
  BY <1>0
<1>4. CASE Endable(x)
  <2>1. [op |-> "end", driver |-> x[2], shift |-> x[1], todo |-> task[t].todo \ {x}, job |-> TRUE]
           \in TaskRecords
    BY <1>3, TaskForms
  <2> QED
    BY <1>0, <1>1, <1>2, <1>4, <2>1, PlainStep
<1>5. CASE ~Endable(x)
  <2>1. [task[t] EXCEPT !.todo = @ \ {x}] \in TaskRecords
        /\ [task[t] EXCEPT !.todo = @ \ {x}].op = "overdue"
    <3>1. task[t] \in TaskRecords
      BY <1>0, TaskShape
    <3>2. task[t] = [op |-> "overdue", todo |-> task[t].todo]
      BY <1>0, <3>1 DEF TaskRecords
    <3>3. [task[t] EXCEPT !.todo = @ \ {x}] = [op |-> "overdue", todo |-> task[t].todo \ {x}]
      BY <3>2
    <3> QED
      BY <1>3, <3>3, TaskForms
  <2> QED
    BY <1>0, <1>1, <1>2, <1>5, <2>1, PlainStep
<1> QED
  BY <1>4, <1>5

LEMMA MarkMissedStep ==
    ASSUME ShiftsIInv, NEW t \in Workers, MarkMissed(t)
    PROVE  ShiftsIInv'
<1>0. ShiftTablesOK /\ t \in Slots /\ tier \in [Couriers -> Tiers] /\ swap \in [Shifts -> SwapRows]
      /\ task[t].op = "late" /\ task[t].todo \in SUBSET Late /\ task[t] \in TaskRecords
  BY SlotFacts, TaskShape DEF ShiftsIInv, ShiftTablesOK, MarkMissed
<1>1. UNCHANGED <<hours, capacity, swap, tier, poolLock>>
  BY DEF MarkMissed
<1>2. PICK x \in task[t].todo :
          IF Found(x)
          THEN /\ shift' = [shift EXCEPT ![x.shift].status = "MISSED"]
               /\ IF Demotable(x)
                  THEN Continue(t, [op |-> "demote", todo |-> task[t].todo \ {x}, one |-> x])
                  ELSE Continue(t, [task[t] EXCEPT !.todo = @ \ {x}])
          ELSE Done(t) /\ UNCHANGED shift
  BY DEF MarkMissed
<1>3. x \in Late /\ x.shift \in Shifts /\ task[t].todo \ {x} \in SUBSET Late
  BY <1>0 DEF Late
<1>4. CASE ~Found(x)
  BY <1>0, <1>1, <1>2, <1>4, TaskForms, PlainStep DEF Done
<1>5. CASE Found(x)
  <2> DEFINE row == [shift[x.shift] EXCEPT !.status = "MISSED"]
             r == IF Demotable(x) THEN [op |-> "demote", todo |-> task[t].todo \ {x}, one |-> x]
                  ELSE [task[t] EXCEPT !.todo = @ \ {x}]
  <2>1. Exists(x.shift) /\ shift[x.shift] \in ShiftRows \ {NoShift, Deleted}
    BY <1>0, <1>3, <1>5, RowFacts DEF Found
  <2>2. row \in ShiftRows \ {NoShift, Deleted} /\ row.pool = shift[x.shift].pool
    <3>1. "MISSED" \in OpenStatuses \cup ClosedStatuses
      BY DEF ClosedStatuses
    <3> QED
      BY <2>1, <3>1, RowForms
  <2>3. shift' = [shift EXCEPT ![x.shift] = row] /\ Continue(t, r)
    BY <1>2, <1>5
  <2>4. r \in TaskRecords /\ (r.op = "late" \/ (r.op = "demote" /\ r.one.tier > 1))
    <3>1. CASE Demotable(x)
      BY <1>3, <3>1, TaskForms DEF Demotable
    <3>2. CASE ~Demotable(x)
      BY <1>0, <1>3, <3>2 DEF TaskRecords
    <3> QED
      BY <3>1, <3>2
  <2> HIDE DEF row, r
  <2>5. task'[t] = r
    BY <1>0, <2>3 DEF Continue, ShiftTablesOK
  <2>6. TaskSound(t)'
    BY <2>4, <2>5 DEF TaskSound, BookingSound, SwapSound, KillSound, DemoteSound
  <2> QED
    BY <1>0, <1>1, <1>3, <2>1, <2>2, <2>3, <2>4, <2>6, RowStep
<1> QED
  BY <1>4, <1>5

LEMMA DemoteStep ==
    ASSUME ShiftsIInv, NEW t \in Workers, DemoteTier(t)
    PROVE  ShiftsIInv'
<1>0. ShiftTablesOK /\ t \in Slots
      /\ task[t].op = "demote" /\ task[t].todo \in SUBSET Late /\ task[t].one \in Late
      /\ task[t].one.tier > 1
  BY SlotFacts, TaskShape DEF ShiftsIInv, ShiftTablesOK, TaskSound, DemoteSound, DemoteTier
<1>1. task[t].one.tier - 1 \in Tiers /\ task[t].one.driver \in Couriers
  BY <1>0, ShiftsAssumption DEF Late, Tiers
<1>2. tier' \in [Couriers -> Tiers]
  BY <1>0, <1>1 DEF DemoteTier, ShiftTablesOK
<1> QED
  BY <1>0, <1>2, TaskForms, PlainStep DEF DemoteTier

LEMMA CancelSwapStep ==
    ASSUME ShiftsIInv, NEW t \in Workers, CancelPendingSwap(t)
    PROVE  ShiftsIInv'
<1>0. ShiftTablesOK /\ t \in Slots /\ tier \in [Couriers -> Tiers]
      /\ task[t].op = "warn" /\ task[t].todo \in SUBSET Soon /\ task[t] \in TaskRecords
  BY SlotFacts, TaskShape DEF ShiftsIInv, ShiftTablesOK, CancelPendingSwap
<1>1. UNCHANGED <<hours, capacity, shift, tier, poolLock>>
  BY DEF CancelPendingSwap
<1>2. PICK x \in task[t].todo :
          IF swap[x.shift] # NoSwap
          THEN /\ swap' = [swap EXCEPT ![x.shift].status = "CANCELLED"]
               /\ Continue(t, [task[t] EXCEPT !.todo =
                                 (@ \ {x}) \cup {[x EXCEPT !.pending = FALSE]}])
          ELSE Done(t) /\ UNCHANGED swap
  BY DEF CancelPendingSwap
<1>3. x \in Soon /\ x.shift \in Shifts
  BY <1>0 DEF Soon
<1>4. CASE swap[x.shift] = NoSwap
  BY <1>0, <1>1, <1>2, <1>4, TaskForms, PlainStep DEF Done
<1>5. CASE swap[x.shift] # NoSwap
  <2> DEFINE new == [swap[x.shift] EXCEPT !.status = "CANCELLED"]
             T == (task[t].todo \ {x}) \cup {[x EXCEPT !.pending = FALSE]}
             r == [task[t] EXCEPT !.todo = T]
  <2>1. swap[x.shift] \in SwapRows \ {NoSwap}
    BY <1>0, <1>3, <1>5 DEF ShiftTablesOK
  <2>2. new \in SwapRows \ {NoSwap} /\ new.by = swap[x.shift].by
    BY <2>1, SwapForms
  <2>3. T \in SUBSET Soon
    BY <1>0, <1>3 DEF Soon
  <2>4. swap' = [swap EXCEPT ![x.shift] = new] /\ task' = [task EXCEPT ![t] = r]
    BY <1>2, <1>5 DEF Continue
  <2> HIDE DEF T
  <2>5. r \in TaskRecords /\ r.op = "warn"
    BY <1>0, <2>3 DEF TaskRecords
  <2> HIDE DEF new, r
  <2>6. /\ swap' \in [Shifts -> SwapRows]
        /\ \A s \in Shifts : \/ swap'[s] = swap[s]
                             \/ swap[s] # NoSwap /\ swap'[s] # NoSwap /\ swap'[s].by = swap[s].by
    BY <1>0, <1>3, <2>1, <2>2, <2>4 DEF ShiftTablesOK
  <2>7. task'[t] = r /\ \A y \in Slots : y # t => task'[y] = task[y]
    BY <1>0, <2>4 DEF ShiftTablesOK
  <2>8. ShiftTablesOK' /\ RowsFilled' /\ SwapsOfRows'
    <3>1. ShiftTablesOK'
      BY <1>0, <1>1, <2>4, <2>5, <2>6 DEF ShiftTablesOK
    <3>2. RowsFilled'
      BY <1>1 DEF ShiftsIInv, RowsFilled
    <3>3. SwapsOfRows'
      BY <1>1, <2>6 DEF ShiftsIInv, SwapsOfRows, Exists
    <3> QED
      BY <3>1, <3>2, <3>3
  <2>9. \A p \in Pools : RowsOf(p)' \subseteq RowsOf(p)
    BY <1>1 DEF RowsOf, Exists
  <2>10. \A y \in Slots : y # t => TaskSound(y)'
    BY <1>1, <2>6, <2>7, <2>9, TasksKept
  <2>11. TaskSound(t)'
    BY <2>5, <2>7, PlainTask
  <2> QED
    BY <2>8, <2>10, <2>11 DEF ShiftsIInv
<1> QED
  BY <1>4, <1>5

LEMMA MarkWarnedStep ==
    ASSUME ShiftsIInv, NEW t \in Workers, MarkWarned(t)
    PROVE  ShiftsIInv'
<1>0. ShiftTablesOK /\ t \in Slots /\ tier \in [Couriers -> Tiers] /\ swap \in [Shifts -> SwapRows]
      /\ task[t].op = "warn" /\ task[t].todo \in SUBSET Soon /\ task[t] \in TaskRecords
  BY SlotFacts, TaskShape DEF ShiftsIInv, ShiftTablesOK, MarkWarned
<1>1. UNCHANGED <<hours, capacity, swap, tier, poolLock>>
  BY DEF MarkWarned
<1>2. PICK x \in task[t].todo :
          IF Exists(x.shift)
          THEN /\ shift' = [shift EXCEPT ![x.shift].warned = TRUE]
               /\ Continue(t, [task[t] EXCEPT !.todo = @ \ {x}])
          ELSE Done(t) /\ UNCHANGED shift
  BY DEF MarkWarned
<1>3. x.shift \in Shifts /\ task[t].todo \ {x} \in SUBSET Soon
  BY <1>0 DEF Soon
<1>4. CASE ~Exists(x.shift)
  BY <1>0, <1>1, <1>2, <1>4, TaskForms, PlainStep DEF Done
<1>5. CASE Exists(x.shift)
  <2> DEFINE row == [shift[x.shift] EXCEPT !.warned = TRUE]
             r == [task[t] EXCEPT !.todo = @ \ {x}]
  <2>1. shift[x.shift] \in ShiftRows \ {NoShift, Deleted}
    BY <1>0, <1>3, <1>5, RowFacts
  <2>2. row \in ShiftRows \ {NoShift, Deleted} /\ row.pool = shift[x.shift].pool
    BY <2>1, RowForms
  <2>3. shift' = [shift EXCEPT ![x.shift] = row] /\ Continue(t, r)
    BY <1>2, <1>5
  <2>4. r \in TaskRecords /\ r.op = "warn"
    BY <1>0, <1>3 DEF TaskRecords
  <2> HIDE DEF row, r
  <2>5. TaskSound(t)'
    <3>1. task'[t] = r
      BY <1>0, <2>3 DEF Continue, ShiftTablesOK
    <3> QED
      BY <2>4, <3>1, PlainTask
  <2> QED
    BY <1>0, <1>1, <1>3, <1>5, <2>1, <2>2, <2>3, <2>4, <2>5, RowStep
<1> QED
  BY <1>4, <1>5

-----------------------------------------------------------------------------
LEMMA ShiftsInitIInv == ASSUME ShiftsInit PROVE ShiftsIInv
<1>1. ShiftTablesOK
  <2>1. 1 \in Tiers /\ -1 \in -1..MaxCapacity
    BY ShiftsAssumption DEF Tiers
  <2> QED
    BY <2>1, TaskForms, RowForms, SwapForms DEF ShiftsInit, ShiftTablesOK, Hours
<1>2. RowsFilled
  <2>1. {s \in Shifts : shift[s] # NoShift} = 1..0
    BY DEF ShiftsInit
  <2>2. 0 \in 0..Cardinality(Shifts)
    BY ShiftsAssumption, FS_CardinalityType
  <2> QED
    BY <2>1, <2>2 DEF RowsFilled
<1>3. SwapsOfRows
  BY DEF ShiftsInit, SwapsOfRows
<1>4. \A t \in Slots : TaskSound(t)
  BY DEF ShiftsInit, TaskSound, BookingSound, SwapSound, KillSound, DemoteSound
<1> QED
  BY <1>1, <1>2, <1>3, <1>4 DEF ShiftsIInv

\* Steps of requests, one by one.
LEMMA CallStep ==
    ASSUME ShiftsIInv, NEW t \in Calls,
           \/ \E p \in Pools : TerminateShiftPool(t, p)
           \/ \E d \in Couriers, p \in Pools : AdminAssignShift(t, d, p) \/ CreateShift(t, d, p)
           \/ \E d \in Couriers, P \in Weeks \cup {{p} : p \in Pools} : BookShifts(t, d, P)
           \/ \E d \in Couriers, s \in Shifts :
                 AcceptSwap(t, d, s) \/ StartShift(t, d, s) \/ EndShift(t, d, s)
           \/ CommitCreate(t) \/ CreateFails(t) \/ CommitBooking(t) \/ BookingFails(t)
           \/ DestroyShifts(t) \/ ClosePool(t) \/ CloseFails(t)
           \/ CommitSwap(t) \/ CommitStart(t)
    PROVE  ShiftsIInv'
<1>1. CASE \E p \in Pools : TerminateShiftPool(t, p)
  BY <1>1, TerminateStep
<1>2. CASE \E d \in Couriers, p \in Pools : AdminAssignShift(t, d, p) \/ CreateShift(t, d, p)
  BY <1>2, AssignStep
<1>3. CASE \E d \in Couriers, P \in Weeks \cup {{p} : p \in Pools} : BookShifts(t, d, P)
  BY <1>3, BookShiftsStep
<1>4. CASE \E d \in Couriers, s \in Shifts :
              AcceptSwap(t, d, s) \/ StartShift(t, d, s) \/ EndShift(t, d, s)
  BY <1>4, AcceptSwapStep, StartEndStep
<1>5. CASE CreateFails(t) \/ CloseFails(t)
  BY <1>5, FailureStep, SlotFacts
<1>6. CASE CommitCreate(t) \/ CommitBooking(t) \/ BookingFails(t)
  BY <1>6, CreateCommitStep, BookingCommitStep, BookingFailsStep
<1>7. CASE DestroyShifts(t) \/ ClosePool(t) \/ CommitSwap(t) \/ CommitStart(t)
  BY <1>7, DestroyStep, ClosePoolStep, CommitSwapStep, CommitStartStep
<1> QED
  BY <1>1, <1>2, <1>3, <1>4, <1>5, <1>6, <1>7

LEMMA JobStepIInv ==
    ASSUME ShiftsIInv, NEW t \in Workers, JobNext(t)
    PROVE  ShiftsIInv'
<1>1. CASE DriverShiftsChecker(t) \/ LateCheck(t) \/ ShiftWarning(t)
  BY <1>1, JobStartStep
<1>2. CASE EndNext(t) \/ JobEnds(t)
  BY <1>2, EndStep, FailureStep, SlotFacts
<1>3. CASE EndShiftBySystem(t) \/ MarkMissed(t) \/ DemoteTier(t)
  BY <1>3, EndBySystemStep, MarkMissedStep, DemoteStep
<1>4. CASE CancelPendingSwap(t) \/ MarkWarned(t)
  BY <1>4, CancelSwapStep, MarkWarnedStep
<1> QED
  BY <1>1, <1>2, <1>3, <1>4 DEF JobNext, JobStep

LEMMA ShiftsStepIInv == ASSUME ShiftsIInv, [ShiftsNext]_shiftsVars PROVE ShiftsIInv'
<1>1. CASE RequestNext
  <2>1. CASE UpdateSettings
    <3>1. ShiftTablesOK'
      BY <2>1 DEF UpdateSettings, ShiftsIInv, ShiftTablesOK
    <3> QED
      BY <2>1, <3>1, QuietStep DEF UpdateSettings
  <2> QED
    BY <1>1, <2>1, HoursStep, OfferSwapStep, CallStep DEF RequestNext
<1>2. CASE \E t \in Calls : EndNext(t)
  BY <1>2, EndStep, SlotFacts
<1>3. CASE \E t \in Workers : JobNext(t)
  BY <1>3, JobStepIInv
<1>4. CASE UNCHANGED shiftsVars
  <2>1. ShiftTablesOK'
    BY <1>4 DEF ShiftsIInv, ShiftTablesOK, shiftsVars
  <2> QED
    BY <1>4, <2>1, QuietStep DEF shiftsVars
<1> QED
  BY <1>1, <1>2, <1>3, <1>4 DEF ShiftsNext

-----------------------------------------------------------------------------
(* What no step does *)

\* Steps that leave every shift, or all but its mark.
BookedWithin(p) ==
    (\E s \in Shifts : /\ ~Exists(s) /\ Exists(s)' /\ shift'[s].self /\ shift'[s].pool = p)
        => Cardinality(RowsOf(p)') <= capacity[p]
ClosedStays(s) ==
    (Exists(s) /\ shift[s].status \in ClosedStatuses /\ Exists(s)')
        => shift'[s].status \in {shift[s].status, "MISSED"}
HandsStay(s) ==
    (Exists(s) /\ Exists(s)' /\ shift'[s].driver # shift[s].driver)
        => swap'[s].status = "ACCEPTED" /\ shift'[s].driver # swap'[s].by

ShiftsStepOK ==
    /\ \A p \in Pools : BookedWithin(p)
    /\ \A s \in Shifts : ClosedStays(s) /\ HandsStay(s)

LEMMA SameRowsOK ==
    ASSUME UNCHANGED shift
    PROVE  ShiftsStepOK
BY DEF ShiftsStepOK, BookedWithin, ClosedStays, HandsStay, Exists

\* No row comes into being.
LEMMA RewrittenRowsOK ==
    ASSUME \A s \in Shifts : Exists(s)' => Exists(s) /\ ClosedStays(s) /\ HandsStay(s)
    PROVE  ShiftsStepOK
BY DEF ShiftsStepOK, BookedWithin, ClosedStays, HandsStay

\* One row changes, and not its driver.
LEMMA OneRowOK ==
    ASSUME ShiftTablesOK, NEW s \in Shifts, Exists(s), NEW row,
           shift' = [shift EXCEPT ![s] = row],
           row.driver = shift[s].driver,
           row.status \in {shift[s].status, "MISSED"} \/ shift[s].status \in OpenStatuses
    PROVE  ShiftsStepOK
<1>1. shift'[s] = row /\ \A x \in Shifts : x # s => shift'[x] = shift[x]
  BY DEF ShiftTablesOK
<1>2. \A x \in Shifts : Exists(x)' => Exists(x) /\ ClosedStays(x) /\ HandsStay(x)
  BY <1>1 DEF Exists, ClosedStays, HandsStay, OpenStatuses, ClosedStatuses
<1> QED
  BY <1>2, RewrittenRowsOK

LEMMA EndRowsOK ==
    ASSUME ShiftsIInv, NEW t \in Slots, EndNext(t)
    PROVE  ShiftsStepOK
<1>0. ShiftTablesOK
  BY DEF ShiftsIInv
<1>1. CASE CommitEnd(t) /\ shift[task[t].shift].status = "ACTIVE"
  <2> DEFINE s == task[t].shift
             row == [shift[s] EXCEPT !.status = "COMPLETED"]
  <2>1. s \in Shifts
    BY <1>0, <1>1, TaskShape DEF CommitEnd
  <2>2. shift[s].status \in OpenStatuses
    BY <1>1 DEF OpenStatuses
  <2>3. Exists(s)
    BY <1>0, <2>1, <2>2, RowFacts
  <2>4. shift' = [shift EXCEPT ![s] = row] /\ row.driver = shift[s].driver
    BY <1>1 DEF CommitEnd
  <2> HIDE DEF s, row
  <2> QED
    BY <1>0, <2>1, <2>2, <2>3, <2>4, OneRowOK
<1>2. CASE UNCHANGED shift
  BY <1>2, SameRowsOK
<1> QED
  BY <1>1, <1>2 DEF EndNext, CommitEnd, ReadTier, PromoteTier

LEMMA StartRowsOK ==
    ASSUME ShiftsIInv, NEW t \in Calls, CommitStart(t)
    PROVE  ShiftsStepOK
<1>0. ShiftTablesOK /\ t \in Slots
  BY SlotFacts DEF ShiftsIInv
<1>1. CASE Startable(t)
  <2> DEFINE s == task[t].shift
             row == [shift[s] EXCEPT !.status = "ACTIVE"]
  <2>1. s \in Shifts
    BY <1>0, TaskShape DEF CommitStart
  <2>2. shift[s].status \in OpenStatuses
    BY <1>1 DEF OpenStatuses, Startable
  <2>3. Exists(s)
    BY <1>0, <2>1, <2>2, RowFacts
  <2>4. shift' = [shift EXCEPT ![s] = row] /\ row.driver = shift[s].driver
    BY <1>1 DEF CommitStart
  <2> HIDE DEF s, row
  <2> QED
    BY <1>0, <2>1, <2>2, <2>3, <2>4, OneRowOK
<1>2. CASE ~Startable(t)
  BY <1>2, SameRowsOK DEF CommitStart
<1> QED
  BY <1>1, <1>2

LEMMA JobRowsOK ==
    ASSUME ShiftsIInv, NEW t \in Workers, JobNext(t)
    PROVE  ShiftsStepOK
<1>0. ShiftTablesOK /\ t \in Slots
  BY SlotFacts DEF ShiftsIInv
<1>1. CASE UNCHANGED shift
  BY <1>1, SameRowsOK
<1>2. CASE EndNext(t)
  BY <1>0, <1>2, EndRowsOK
<1>3. CASE MarkMissed(t)
  <2>1. PICK x \in task[t].todo :
           \/ Exists(x.shift) /\ shift' = [shift EXCEPT ![x.shift].status = "MISSED"]
           \/ UNCHANGED shift
    BY <1>3 DEF MarkMissed, Found
  <2>2. x.shift \in Shifts
    BY <1>0, <1>3, TaskShape DEF MarkMissed, Late
  <2>3. CASE Exists(x.shift) /\ shift' = [shift EXCEPT ![x.shift].status = "MISSED"]
    <3> DEFINE row == [shift[x.shift] EXCEPT !.status = "MISSED"]
    <3>1. shift[x.shift] \in ShiftRows \ {NoShift, Deleted}
      BY <1>0, <2>2, <2>3, RowFacts
    <3>2. row.driver = shift[x.shift].driver /\ row.status = "MISSED"
      <4>1. "MISSED" \in OpenStatuses \cup ClosedStatuses
        BY DEF ClosedStatuses
      <4> QED
        BY <3>1, <4>1, RowForms
    <3>3. shift' = [shift EXCEPT ![x.shift] = row]
      BY <2>3
    <3> HIDE DEF row
    <3> QED
      BY <1>0, <2>2, <2>3, <3>2, <3>3, OneRowOK
  <2> QED
    BY <1>1, <2>1, <2>3
<1>4. CASE MarkWarned(t)
  <2>1. PICK x \in task[t].todo :
           \/ Exists(x.shift) /\ shift' = [shift EXCEPT ![x.shift].warned = TRUE]
           \/ UNCHANGED shift
    BY <1>4 DEF MarkWarned
  <2>2. x.shift \in Shifts
    BY <1>0, <1>4, TaskShape DEF MarkWarned, Soon
  <2>3. CASE Exists(x.shift) /\ shift' = [shift EXCEPT ![x.shift].warned = TRUE]
    <3> DEFINE row == [shift[x.shift] EXCEPT !.warned = TRUE]
    <3>1. shift[x.shift] \in ShiftRows \ {NoShift, Deleted}
      BY <1>0, <2>2, <2>3, RowFacts
    <3>2. row.driver = shift[x.shift].driver /\ row.status = shift[x.shift].status
      BY <3>1, RowForms
    <3>3. shift' = [shift EXCEPT ![x.shift] = row]
      BY <2>3
    <3> HIDE DEF row
    <3> QED
      BY <1>0, <2>2, <2>3, <3>2, <3>3, OneRowOK
  <2> QED
    BY <1>1, <2>1, <2>3
<1> QED
  BY <1>1, <1>2, <1>3, <1>4 DEF JobNext, JobStep, DriverShiftsChecker, LateCheck, ShiftWarning,
     EndShiftBySystem, DemoteTier, CancelPendingSwap, JobEnds

LEMMA SwapRowsOK ==
    ASSUME ShiftsIInv, NEW t \in Calls, CommitSwap(t)
    PROVE  ShiftsStepOK
<1> DEFINE s == task[t].shift
           d == task[t].driver
<1>0. /\ ShiftTablesOK /\ t \in Slots /\ task[t].op = "accept" /\ s \in Shifts
  BY SlotFacts, TaskShape DEF ShiftsIInv, CommitSwap
<1>1. CASE swap[s] = NoSwap
  BY <1>1, SameRowsOK DEF CommitSwap
<1>2. CASE swap[s] # NoSwap
  <2>1. Exists(s) /\ shift[s] \in ShiftRows \ {NoShift, Deleted} /\ swap[s].by # d
    BY <1>0, <1>2, RowFacts DEF ShiftsIInv, SwapsOfRows, TaskSound, SwapSound, NoSwap
  <2>2. swap[s] \in SwapRows \ {NoSwap}
    BY <1>0, <1>2 DEF ShiftTablesOK
  <2>3. /\ shift' = [shift EXCEPT ![s] = [shift[s] EXCEPT !.driver = d]]
        /\ swap' = [swap EXCEPT ![s] = [swap[s] EXCEPT !.status = "ACCEPTED"]]
    BY <1>2 DEF CommitSwap
  <2>4. /\ [swap[s] EXCEPT !.status = "ACCEPTED"].by = swap[s].by
        /\ [swap[s] EXCEPT !.status = "ACCEPTED"].status = "ACCEPTED"
    BY <2>2, SwapForms
  <2>5. /\ [shift[s] EXCEPT !.driver = d].driver = d
        /\ [shift[s] EXCEPT !.driver = d].status = shift[s].status
    BY <2>1 DEF ShiftRows
  <2> HIDE DEF s, d
  <2>6. /\ swap'[s].by = swap[s].by /\ swap'[s].status = "ACCEPTED"
        /\ shift'[s].driver = d /\ shift'[s].status = shift[s].status
        /\ \A x \in Shifts : x # s => shift'[x] = shift[x]
    BY <1>0, <2>3, <2>4, <2>5 DEF ShiftTablesOK
  <2>7. \A x \in Shifts : Exists(x)' => Exists(x) /\ ClosedStays(x) /\ HandsStay(x)
    BY <2>1, <2>6 DEF Exists, ClosedStays, HandsStay
  <2> QED
    BY <2>7, RewrittenRowsOK
<1> QED
  BY <1>1, <1>2

LEMMA CreateRowsOK ==
    ASSUME ShiftsIInv, NEW t \in Calls, CommitCreate(t)
    PROVE  ShiftsStepOK
<1> DEFINE s == NextRow
           p == task[t].pool
           q == IF task[t].inPool THEN p ELSE NoPool
           row == NewShift(task[t].driver, p, q, FALSE)
<1>1. ShiftTablesOK /\ s \in Shifts /\ shift[s] = NoShift
  BY NextRowIsFree DEF ShiftsIInv, CommitCreate
<1>2. shift' = [shift EXCEPT ![s] = row]
  BY DEF CommitCreate
<1>3. ~row.self
  BY DEF NewShift
<1> HIDE DEF s, row
<1>4. shift'[s] = row /\ \A x \in Shifts : x # s => shift'[x] = shift[x]
  BY <1>1, <1>2 DEF ShiftTablesOK
<1>5. \A x \in Shifts : /\ ~Exists(x) /\ Exists(x)' => ~shift'[x].self
                        /\ Exists(x) => shift'[x] = shift[x]
  BY <1>1, <1>3, <1>4 DEF Exists
<1> QED
  BY <1>5 DEF ShiftsStepOK, BookedWithin, ClosedStays, HandsStay

LEMMA BookingRowsOK ==
    ASSUME ShiftsIInv, NEW t \in Calls, CommitBooking(t)
    PROVE  ShiftsStepOK
<1>1. ShiftTablesOK /\ t \in Slots /\ task[t].op = "book" /\ task[t].pools \in SUBSET Pools
  BY SlotFacts, BookingCommitted DEF ShiftsIInv, CommitBooking
<1>2. PICK n \in Nat :
                 LET new == NextRow..(NextRow + n - 1) IN
                 /\ new \subseteq Shifts
                 /\ \A s \in new : shift[s] = NoShift
                 /\ \A s \in new : /\ shift'[s] \in ShiftRows \ {NoShift, Deleted}
                                   /\ shift'[s].pool \in task[t].pools /\ shift'[s].self
                 /\ \A s \in Shifts \ new : shift'[s] = shift[s]
                 /\ \A p \in task[t].pools :
                       \E s \in new : shift'[s].pool = p /\ \A x \in new : shift'[x].pool = p => x = s
                 /\ DOMAIN shift' = Shifts /\ shift' = [s \in Shifts |-> shift'[s]]
  BY BookingCommitted
<1> DEFINE new == NextRow..(NextRow + n - 1)
<1> HIDE DEF new
<1>3. /\ new \subseteq Shifts
      /\ \A s \in new : shift[s] = NoShift
      /\ \A s \in new : /\ shift'[s] \in ShiftRows \ {NoShift, Deleted}
                        /\ shift'[s].pool \in task[t].pools
      /\ \A s \in Shifts \ new : shift'[s] = shift[s]
      /\ \A p \in task[t].pools :
            \E s \in new : shift'[s].pool = p /\ \A x \in new : shift'[x].pool = p => x = s
  BY <1>2 DEF new
<1>4. \A s \in Shifts : ClosedStays(s) /\ HandsStay(s)
  BY <1>3 DEF ClosedStays, HandsStay, Exists
<1>5. ASSUME NEW p \in Pools, NEW s \in Shifts, ~Exists(s), Exists(s)', shift'[s].pool = p
      PROVE  Cardinality(RowsOf(p)') <= capacity[p]
  <2>1. s \in new /\ p \in task[t].pools
    BY <1>3, <1>5 DEF Exists
  <2>2. PICK z \in new : shift'[z].pool = p /\ \A x \in new : shift'[x].pool = p => x = z
    BY <1>3, <2>1
  <2>3. RowsOf(p)' = RowsOf(p) \cup {z}
    BY <1>3, <2>2 DEF RowsOf, Exists
  <2>4. Cardinality(RowsOf(p)) < capacity[p] /\ capacity[p] \in Int
    BY <1>1, <2>1, ShiftsAssumption DEF ShiftsIInv, TaskSound, BookingSound, ShiftTablesOK
  <2>5. /\ IsFiniteSet(RowsOf(p)) /\ Cardinality(RowsOf(p)) \in Nat
    BY CountsOfRows
  <2>6. Cardinality(RowsOf(p) \cup {z}) =
           IF z \in RowsOf(p) THEN Cardinality(RowsOf(p)) ELSE Cardinality(RowsOf(p)) + 1
    BY <2>5, FS_AddElement
  <2> HIDE DEF new
  <2>7. Cardinality(RowsOf(p) \cup {z}) <= capacity[p]
    BY <2>4, <2>5, <2>6
  <2> QED
    BY <2>3, <2>7
<1> QED
  BY <1>4, <1>5 DEF ShiftsStepOK, BookedWithin

LEMMA RemovalRowsOK ==
    ASSUME ShiftsIInv, NEW t \in Calls, DestroyShifts(t) \/ ClosePool(t)
    PROVE  ShiftsStepOK
<1>0. ShiftTablesOK
  BY DEF ShiftsIInv
<1>1. CASE DestroyShifts(t)
  <2>1. \A s \in Shifts : shift'[s] = Deleted \/ shift'[s] = shift[s]
    BY <1>1 DEF DestroyShifts
  <2>2. \A s \in Shifts : Exists(s)' => Exists(s) /\ ClosedStays(s) /\ HandsStay(s)
    BY <2>1 DEF Exists, ClosedStays, HandsStay
  <2> QED
    BY <2>2, RewrittenRowsOK
<1>2. CASE ClosePool(t)
  <2>1. ASSUME NEW s \in Shifts
        PROVE  \/ shift'[s] = shift[s]
               \/ /\ Exists(s) /\ shift'[s].driver = shift[s].driver
                  /\ shift'[s].status = shift[s].status
    <3>1. \/ shift'[s] = shift[s]
          \/ Exists(s) /\ shift'[s] = [shift[s] EXCEPT !.pool = NoPool]
      BY <1>2 DEF ClosePool, RowsOf
    <3>2. Exists(s) => shift[s] \in ShiftRows \ {NoShift, Deleted}
      BY <1>0, RowFacts
    <3> QED
      BY <3>1, <3>2, RowForms
  <2>2. \A s \in Shifts : Exists(s)' => Exists(s) /\ ClosedStays(s) /\ HandsStay(s)
    BY <2>1 DEF Exists, ClosedStays, HandsStay
  <2> QED
    BY <2>2, RewrittenRowsOK
<1> QED
  BY <1>1, <1>2

LEMMA ShiftsStepsOK == ASSUME ShiftsIInv, [ShiftsNext]_shiftsVars PROVE ShiftsStepOK
<1>1. CASE UNCHANGED shift
  BY <1>1, SameRowsOK
<1>2. CASE \E t \in Slots : EndNext(t)
  BY <1>2, EndRowsOK
<1>3. CASE \E t \in Workers : JobNext(t)
  BY <1>3, JobRowsOK
<1>4. CASE \E t \in Calls :
              \/ CommitCreate(t) \/ CommitBooking(t) \/ CommitSwap(t) \/ CommitStart(t)
              \/ DestroyShifts(t) \/ ClosePool(t)
  BY <1>4, CreateRowsOK, BookingRowsOK, SwapRowsOK, StartRowsOK, RemovalRowsOK
<1>5. CASE RequestNext
  BY <1>1, <1>4, <1>5 DEF RequestNext, UpdateSettings, Passes, GenerateShiftPool, OfferSwap, TerminateShiftPool,
     AdminAssignShift, CreateShift, BookShifts, AcceptSwap, StartShift, EndShift, CreateFails,
     BookingFails, CloseFails
<1> QED
  BY <1>1, <1>2, <1>3, <1>5, SlotFacts DEF ShiftsNext, shiftsVars

LEMMA SettingTyped ==
    ASSUME driverShiftsEnabled \in BOOLEAN, [ShiftsNext]_shiftsVars
    PROVE  driverShiftsEnabled' \in BOOLEAN
<1>1. CASE RequestNext
  <2>1. CASE UpdateSettings
    BY <2>1 DEF UpdateSettings
  <2>2. CASE \E t \in Calls : \/ CommitCreate(t) \/ CreateFails(t) \/ CommitBooking(t)
                             \/ BookingFails(t) \/ DestroyShifts(t) \/ ClosePool(t)
                             \/ CloseFails(t) \/ CommitSwap(t) \/ CommitStart(t)
    BY <2>2 DEF CommitCreate, CreateFails, CommitBooking, BookingFails, DestroyShifts, ClosePool,
       CloseFails, CommitSwap, CommitStart
  <2> QED
    BY <1>1, <2>1, <2>2 DEF RequestNext, Passes, GenerateShiftPool, OfferSwap, TerminateShiftPool,
       AdminAssignShift, CreateShift, BookShifts, AcceptSwap, StartShift, EndShift
<1>2. CASE \E t \in Slots : EndNext(t)
  BY <1>2 DEF EndNext, CommitEnd, ReadTier, PromoteTier
<1>3. CASE \E t \in Workers : JobNext(t)
  <2>1. PICK t \in Workers : JobNext(t)
    BY <1>3
  <2>2. CASE EndNext(t)
    BY <1>2, <2>2, SlotFacts
  <2>3. CASE ~EndNext(t)
    BY <2>1, <2>3 DEF JobNext, JobStep, DriverShiftsChecker, LateCheck, ShiftWarning,
       EndShiftBySystem, MarkMissed, DemoteTier, CancelPendingSwap, MarkWarned, JobEnds
  <2> QED
    BY <2>2, <2>3
<1> QED
  BY <1>1, <1>2, <1>3, SlotFacts DEF ShiftsNext, shiftsVars

ShiftsInv == ShiftsIInv /\ driverShiftsEnabled \in BOOLEAN

LEMMA ShiftsInitInv == ASSUME ShiftsInit PROVE ShiftsInv
BY ShiftsInitIInv DEF ShiftsInv, ShiftsInit

LEMMA ShiftsStepInv == ASSUME ShiftsInv, [ShiftsNext]_shiftsVars PROVE ShiftsInv'
BY ShiftsStepIInv, SettingTyped DEF ShiftsInv

\* Rows, swaps and tasks have their forms; a demotion never leaves the tiers.
THEOREM ShiftsTypeCorrect == ShiftsSpec => []ShiftsTypeOK
<1>1. ShiftsInv => ShiftsTypeOK
  BY DEF ShiftsInv, ShiftsIInv, ShiftsTypeOK
<1> QED
  BY <1>1, ShiftsInitInv, ShiftsStepInv, PTL DEF ShiftsSpec

\* No booking of a driver goes beyond the capacity of its pool, for any pools,
\* weeks and number of requests at a time (bookWeeklyShifts, bookOvertimeShift).
THEOREM CapacityHolds == ShiftsSpec => BookingsWithinCapacity
<1>1. ASSUME ShiftsIInv, [ShiftsNext]_shiftsVars
      PROVE  [\A p \in Pools :
                 (\E s \in Shifts : /\ ~Exists(s) /\ Exists(s)'
                                    /\ shift'[s].self /\ shift'[s].pool = p)
                    => Cardinality(RowsOf(p)') <= capacity[p]]_shiftsVars
  BY <1>1, ShiftsStepsOK DEF ShiftsStepOK, BookedWithin
<1> QED
  BY <1>1, ShiftsInitIInv, ShiftsStepIInv, PTL DEF ShiftsSpec, BookingsWithinCapacity

\* A shift that is over is not reopened by a request or a job that read it before
\* (startShift, endShift, handle5MinLateCheck).
THEOREM ClosedShiftsStay == ShiftsSpec => ClosedStaysClosed
<1>1. ASSUME ShiftsIInv, [ShiftsNext]_shiftsVars
      PROVE  [\A s \in Shifts :
                 (Exists(s) /\ shift[s].status \in ClosedStatuses /\ Exists(s)')
                    => shift'[s].status \in {shift[s].status, "MISSED"}]_shiftsVars
  BY <1>1, ShiftsStepsOK DEF ShiftsStepOK, ClosedStays
<1> QED
  BY <1>1, ShiftsInitIInv, ShiftsStepIInv, PTL DEF ShiftsSpec, ClosedStaysClosed

\* A shift goes to another driver by its swap request only, never back to the one
\* who offered it (acceptSwap).
THEOREM HandsBySwap == ShiftsSpec => HandsChangeBySwap
<1>1. ASSUME ShiftsIInv, [ShiftsNext]_shiftsVars
      PROVE  [\A s \in Shifts :
                 (Exists(s) /\ Exists(s)' /\ shift'[s].driver # shift[s].driver)
                    => swap'[s].status = "ACCEPTED" /\ shift'[s].driver # swap'[s].by]_shiftsVars
  BY <1>1, ShiftsStepsOK DEF ShiftsStepOK, HandsStay
<1> QED
  BY <1>1, ShiftsInitIInv, ShiftsStepIInv, PTL DEF ShiftsSpec, HandsChangeBySwap

-----------------------------------------------------------------------------
(* Both, one at a time *)

\* A debtor is offered no order by any step of the account.
LEMMA OffersToNoDebtor ==
    ASSUME AccountIInv, [AccountNext]_accountVars, NEW d \in Drivers, d \in offered' \ offered
    PROVE  ~InDebt(balance[d]) \/ BeingAssessed(d) \/ d \in unassessed
<1>1. CASE \E t \in Tasks : FindNearbyDrivers(t)
  <2>1. Eligible(d)
    BY <1>1 DEF FindNearbyDrivers
  <2> QED
    BY <2>1 DEF Eligible, AccountIInv, DebtorsMarked
<1>2. CASE offered' \subseteq offered
  BY <1>2
<1>3. CASE DutyNext
  BY <1>1, <1>2, <1>3 DEF DutyNext, Register, AdminSuspend, AdminUnsuspend, AdminUpdateDriver,
     TrackLocation, TakeOrder, DeclineOrder, FreeDriver, ForceOffline, UpdateStatus,
     UserDisconnect, WriteStatus, LeavePool, SweepStale
<1>4. CASE WalletNext
  BY <1>2, <1>4 DEF WalletNext, ReadBalance, LockOut, AbandonSettlement, ApproveTopUp,
     RejectTopUp, LateReview, BookOrder, ReviewTopUpRequest, SubmitTopUpRequest,
     ProcessDriverTransaction
<1>5. CASE UNCHANGED accountVars
  BY <1>2, <1>5 DEF accountVars
<1> QED
  BY <1>3, <1>4, <1>5 DEF AccountNext

LEMMA OnePartMoves ==
    ASSUME [MCNext]_<<part, accountVars, shiftsVars>>
    PROVE  /\ [AccountNext]_accountVars
           /\ [ShiftsNext]_shiftsVars
<1>1. CASE MCAccountNext
  <2>1. AccountNext /\ UNCHANGED shiftsVars
    BY <1>1 DEF MCAccountNext, InAccount, AccountNext, DutyNext, WalletNext
  <2> QED
    BY <2>1
<1>2. CASE MCShiftsNext
  <2>1. ShiftsNext /\ UNCHANGED accountVars
    BY <1>2 DEF MCShiftsNext, InShifts, ShiftsNext, RequestNext, EndNext
  <2> QED
    BY <2>1
<1>3. CASE UNCHANGED <<part, accountVars, shiftsVars>>
  BY <1>3
<1> QED
  BY <1>1, <1>2, <1>3 DEF MCNext

FleetIInv == AccountIInv /\ ShiftsInv

LEMMA FleetInit == ASSUME MCInit PROVE FleetIInv
BY AccountInitIInv, ShiftsInitInv DEF MCInit, FleetIInv

LEMMA FleetStep == ASSUME FleetIInv, [MCNext]_<<part, accountVars, shiftsVars>> PROVE FleetIInv'
BY OnePartMoves, AccountStepIInv, ShiftsStepInv DEF FleetIInv

\* Rows of drivers, of shifts and of the swap board have their forms.
THEOREM FleetTypesCorrect == MCSpec => []FleetTypeOK
<1>1. FleetIInv => FleetTypeOK
  BY DEF FleetIInv, AccountIInv, ShiftsInv, ShiftsIInv, ShiftsTypeOK, FleetTypeOK
<1> QED
  BY <1>1, FleetInit, FleetStep, PTL DEF MCSpec

\* What no step does, to drivers or to shifts: an order is offered to no debtor, a
\* shift that is over is not reopened, and none changes hands but by a swap.
THEOREM FleetStepsHold == MCSpec => FleetSteps
<1>1. ASSUME FleetIInv, [MCNext]_<<part, accountVars, shiftsVars>>
      PROVE  [\A d \in Drivers :
                 d \in offered' \ offered =>
                     ~InDebt(balance[d]) \/ BeingAssessed(d) \/ d \in unassessed]_accountVars
  BY <1>1, OnePartMoves, OffersToNoDebtor DEF FleetIInv
<1>2. ASSUME FleetIInv, [MCNext]_<<part, accountVars, shiftsVars>>
      PROVE  [\A s \in Shifts :
                 (Exists(s) /\ shift[s].status \in ClosedStatuses /\ Exists(s)')
                    => shift'[s].status \in {shift[s].status, "MISSED"}]_shiftsVars
  BY <1>2, OnePartMoves, ShiftsStepsOK DEF FleetIInv, ShiftsInv, ShiftsStepOK, ClosedStays
<1>3. ASSUME FleetIInv, [MCNext]_<<part, accountVars, shiftsVars>>
      PROVE  [\A s \in Shifts :
                 (Exists(s) /\ Exists(s)' /\ shift'[s].driver # shift[s].driver)
                    => swap'[s].status = "ACCEPTED" /\ shift'[s].driver # swap'[s].by]_shiftsVars
  BY <1>3, OnePartMoves, ShiftsStepsOK DEF FleetIInv, ShiftsInv, ShiftsStepOK, HandsStay
<1> QED
  BY <1>1, <1>2, <1>3, FleetInit, FleetStep, PTL
     DEF MCSpec, FleetSteps, DebtorsNotOffered, ClosedStaysClosed, HandsChangeBySwap
=============================================================================
