---------------------------- MODULE DriverAccount ----------------------------
(***************************************************************************)
(* The row of a driver: status, wallet balance, the mark of unpaid         *)
(* commission, and the pool of live locations dispatch selects from.       *)
(*                                                                         *)
(* The row has many writers that know nothing of each other: the driver's  *)
(* own toggle, admins, dispatch, the release after an order, the job that  *)
(* ends shifts, settlement and the review of top-ups.  Several decide on a *)
(* copy; the ones that do are split here between their read and their      *)
(* write.  Wallet changes are transactions that update the row first, so   *)
(* that what they read of the balance afterwards holds until they commit.  *)
(***************************************************************************)
EXTENDS Integers, FiniteSets

CONSTANTS
    Drivers,
    Requests,           \* top-up requests that can ever be submitted
    Requester,          \* the driver of a request
    TopUp,              \* the amount of a request
    Settlements,        \* net effects of an order on its driver's wallet
    Manual,             \* amounts of manual transactions
    MaxDebt,            \* maxNegativeDriverBalance
    MinBalance, MaxBalance, \* bounds on the balances reached
    Tasks               \* requests and jobs in flight at the same time

ASSUME AccountAssumption ==
    /\ Requester \in [Requests -> Drivers]
    /\ TopUp \in [Requests -> Nat \ {0}]
    /\ Settlements \subseteq Int /\ Manual \subseteq Int
    /\ MaxDebt \in Nat
    /\ MinBalance \in Int /\ MaxBalance \in Int
    /\ MinBalance <= 0 /\ 0 <= MaxBalance

\* BUSY, which only admins write, is not told apart from ON_DELIVERY.
DriverStatuses == {"OFFLINE", "ONLINE", "ON_BREAK", "ON_DELIVERY", "SUSPENDED"}

VARIABLES
    registered,         \* drivers that have a row
    approved,           \* drivers.isApproved
    status,             \* drivers.status
    balance,            \* drivers.walletBalance
    unpaid,             \* drivers.hasUnpaidCommission
    request,            \* walletTopUpRequests.status, NONE before submission
    credits,            \* wallet transactions that refer to a request
    located,            \* the Redis geo index of live locations
    offered,            \* drivers selected for an order and not yet decided
    unassessed,         \* debits after which nobody looked at the balance
    work                \* what is in flight

accountVars == <<registered, approved, status, balance, unpaid, request, credits,
                 located, offered, unassessed, work>>
walletVars == <<balance, unpaid, request, credits, unassessed>>
dutyVars == <<registered, approved, status>>

NoWork == [op |-> "none"]

WorkRecords ==
    {NoWork}
    \cup [op : {"writeStatus"}, driver : Drivers, to : {"OFFLINE", "ONLINE", "ON_BREAK"}]
    \cup [op : {"leavePool"}, driver : Drivers]
    \cup [op : {"review"}, req : Requests, locked : BOOLEAN]
    \cup [op : {"readBalance"}, driver : Drivers]
    \cup [op : {"lockOut"}, driver : Drivers, debt : BOOLEAN]
    \cup [op : {"sweep"}, stale : SUBSET Drivers]

AccountTypeOK ==
    /\ registered \subseteq Drivers
    /\ approved \subseteq registered
    /\ status \in [Drivers -> DriverStatuses]
    /\ balance \in [Drivers -> Int]
    /\ unpaid \subseteq registered
    /\ request \in [Requests -> {"NONE", "PENDING", "APPROVED", "REJECTED"}]
    /\ credits \in [Requests -> Nat]
    /\ located \subseteq registered
    /\ offered \subseteq registered
    /\ unassessed \subseteq registered
    /\ work \in [Tasks -> WorkRecords]

AccountInit ==
    /\ registered = {}
    /\ approved = {}
    /\ status = [d \in Drivers |-> "OFFLINE"]
    /\ balance = [d \in Drivers |-> 0]
    /\ unpaid = {}
    /\ request = [r \in Requests |-> "NONE"]
    /\ credits = [r \in Requests |-> 0]
    /\ located = {}
    /\ offered = {}
    /\ unassessed = {}
    /\ work = [t \in Tasks |-> NoWork]

Idle(t) == work[t] = NoWork
Goes(t, w) == work' = [work EXCEPT ![t] = w]
Ends(t) == Goes(t, NoWork)
SetStatus(d, s) == status' = [status EXCEPT ![d] = s]

Add(d, amount) ==
    /\ balance[d] + amount \in MinBalance..MaxBalance
    /\ balance' = [balance EXCEPT ![d] = @ + amount]

-----------------------------------------------------------------------------
(* Registration, the driver's own status, admins *)

Register(d) ==
    /\ d \notin registered
    /\ registered' = registered \cup {d}
    /\ UNCHANGED <<approved, status, walletVars, located, offered, work>>

\* The status checked is the one read here; the update compares nothing.
UpdateStatus(t, d, to) ==
    /\ Idle(t)
    /\ d \in registered \cap approved
    /\ status[d] # "SUSPENDED"
    /\ ~(status[d] = "ON_DELIVERY" /\ to = "OFFLINE")
    /\ Goes(t, [op |-> "writeStatus", driver |-> d, to |-> to])
    /\ UNCHANGED <<dutyVars, walletVars, located, offered>>

WriteStatus(t) ==
    /\ work[t].op = "writeStatus"
    /\ SetStatus(work[t].driver, work[t].to)
    /\ IF work[t].to = "OFFLINE"
       THEN Goes(t, [op |-> "leavePool", driver |-> work[t].driver])
       ELSE Ends(t)
    /\ UNCHANGED <<registered, approved, walletVars, located, offered>>

LeavePool(t) ==
    /\ work[t].op = "leavePool"
    /\ located' = located \ {work[t].driver}
    /\ Ends(t)
    /\ UNCHANGED <<dutyVars, walletVars, offered>>

AdminSuspend(d) ==
    /\ d \in registered
    /\ SetStatus(d, "SUSPENDED")
    /\ UNCHANGED <<registered, approved, walletVars, located, offered, work>>

AdminUnsuspend(d) ==
    /\ d \in registered
    /\ SetStatus(d, "OFFLINE")
    /\ UNCHANGED <<registered, approved, walletVars, located, offered, work>>

\* adminUpdateDriver, and the second write of adminCreateDriver: any status and
\* approval, the old ones included.
AdminUpdateDriver(d) ==
    /\ d \in registered
    /\ \E s \in DriverStatuses : SetStatus(d, s)
    /\ approved' \in {approved \cup {d}, approved \ {d}}
    /\ UNCHANGED <<registered, walletVars, located, offered, work>>

-----------------------------------------------------------------------------
(* Live locations *)

\* Mistake: positions of users that are no drivers are taken.
TrackAnyLocation(d) ==
    /\ located' = located \cup {d}
    /\ UNCHANGED <<dutyVars, walletVars, offered, work>>

\* Whoever sends a position is in the index, whatever the status.
TrackLocation(d) ==
    /\ d \in registered
    /\ located' = located \cup {d}
    /\ UNCHANGED <<dutyVars, walletVars, offered, work>>

UserDisconnect(t, d) ==
    /\ Idle(t)
    /\ d \in registered
    /\ status[d] \notin {"ONLINE", "ON_DELIVERY"}
    /\ Goes(t, [op |-> "leavePool", driver |-> d])
    /\ UNCHANGED <<dutyVars, walletVars, located, offered>>

\* Mistake: only the status is looked at.
EligibleByStatus(d) == d \in registered /\ status[d] = "ONLINE"

Eligible(d) == d \in registered /\ status[d] = "ONLINE" /\ d \notin unpaid

\* The selection reads the index and then the rows; drivers found in the first
\* and not eligible by the second are removed from the index, later.
FindNearbyDrivers(t) ==
    /\ Idle(t)
    /\ \E near \in SUBSET located :
          /\ near # {}
          /\ offered' = offered \cup {d \in near : Eligible(d)}
          /\ Goes(t, [op |-> "sweep", stale |-> {d \in near : ~Eligible(d)}])
    /\ UNCHANGED <<dutyVars, walletVars, located>>

SweepStale(t) ==
    /\ work[t].op = "sweep"
    /\ located' = located \ work[t].stale
    /\ Ends(t)
    /\ UNCHANGED <<dutyVars, walletVars, offered>>

-----------------------------------------------------------------------------
(* Orders *)

\* A driver takes an order offered, or an admin or a customer's approval gives
\* the order to one who need not have been asked.
TakeOrder(d) ==
    /\ d \in registered
    /\ SetStatus(d, "ON_DELIVERY")
    /\ offered' = offered \ {d}
    /\ UNCHANGED <<registered, approved, walletVars, located, work>>

DeclineOrder(d) ==
    /\ d \in offered
    /\ offered' = offered \ {d}
    /\ UNCHANGED <<dutyVars, walletVars, located, work>>

\* Delivered, cancelled or given to another: the driver is ONLINE again,
\* whatever the status has become.  Orders are not counted here: a driver may
\* have any number of them.
FreeDriver(d) ==
    /\ d \in registered
    /\ SetStatus(d, "ONLINE")
    /\ UNCHANGED <<registered, approved, walletVars, located, offered, work>>

\* The job that ends overdue shifts.
ForceOffline(d) ==
    /\ d \in registered
    /\ SetStatus(d, "OFFLINE")
    /\ UNCHANGED <<registered, approved, walletVars, located, offered, work>>

-----------------------------------------------------------------------------
(* Settlement of a delivered order, as far as the driver's row goes *)

BookOrder(t, d, amount) ==
    /\ Idle(t)
    /\ d \in registered
    /\ Add(d, amount)
    /\ Goes(t, [op |-> "readBalance", driver |-> d])
    /\ UNCHANGED <<dutyVars, unpaid, request, credits, located, offered, unassessed>>

InDebt(b) == b < -MaxDebt

ReadBalance(t) ==
    /\ work[t].op = "readBalance"
    /\ Goes(t, [op |-> "lockOut", driver |-> work[t].driver,
                debt |-> InDebt(balance[work[t].driver])])
    /\ UNCHANGED <<dutyVars, walletVars, located, offered>>

\* Mistake: the mark is taken from a driver who is not in debt (any more).
LockOutResetting(t) ==
    /\ work[t].op = "lockOut"
    /\ LET d == work[t].driver IN
          IF work[t].debt
          THEN unpaid' = unpaid \cup {d} /\ SetStatus(d, "SUSPENDED")
          ELSE unpaid' = unpaid \ {d} /\ UNCHANGED status
    /\ Ends(t)
    /\ UNCHANGED <<registered, approved, balance, request, credits, located, offered,
                   unassessed>>

LockOut(t) ==
    /\ work[t].op = "lockOut"
    /\ IF work[t].debt
       THEN /\ unpaid' = unpaid \cup {work[t].driver}
            /\ SetStatus(work[t].driver, "SUSPENDED")
       ELSE UNCHANGED <<unpaid, status>>
    /\ Ends(t)
    /\ UNCHANGED <<registered, approved, balance, request, credits, located, offered,
                   unassessed>>

\* All attempts of the job fail after the entries were booked.
AbandonSettlement(t) ==
    /\ work[t].op \in {"readBalance", "lockOut"}
    /\ unassessed' = unassessed \cup {work[t].driver}
    /\ Ends(t)
    /\ UNCHANGED <<dutyVars, balance, unpaid, request, credits, located, offered>>

-----------------------------------------------------------------------------
(* Top-ups and manual transactions *)

SubmitTopUpRequest(r) ==
    /\ Requester[r] \in registered
    /\ request[r] = "NONE"
    /\ request' = [request EXCEPT ![r] = "PENDING"]
    /\ UNCHANGED <<dutyVars, balance, unpaid, credits, located, offered, unassessed, work>>

\* The request is read together with its driver: whether the driver is locked
\* for debt is decided on that copy.
ReviewTopUpRequest(t, r) ==
    /\ Idle(t)
    /\ request[r] = "PENDING"
    /\ Goes(t, [op |-> "review", req |-> r,
                locked |-> /\ status[Requester[r]] = "SUSPENDED"
                           /\ Requester[r] \in unpaid])
    /\ UNCHANGED <<dutyVars, walletVars, located, offered>>

\* Mistake: the update is by the id of the request alone.
StillPendingUnchecked(r) == request[r] # "NONE"

StillPending(r) == request[r] = "PENDING"

ApproveTopUp(t) ==
    /\ work[t].op = "review"
    /\ LET r == work[t].req
           d == Requester[r]
           still == InDebt(balance[d] + TopUp[r]) IN
          /\ StillPending(r)
          /\ request' = [request EXCEPT ![r] = "APPROVED"]
          /\ Add(d, TopUp[r])
          /\ credits' = [credits EXCEPT ![r] = @ + 1]
          /\ unpaid' = IF still THEN unpaid \cup {d} ELSE unpaid \ {d}
          /\ IF ~still /\ work[t].locked THEN SetStatus(d, "OFFLINE") ELSE UNCHANGED status
          /\ unassessed' = unassessed \ {d}
    /\ Ends(t)
    /\ UNCHANGED <<registered, approved, located, offered>>

RejectTopUp(t) ==
    /\ work[t].op = "review"
    /\ StillPending(work[t].req)
    /\ request' = [request EXCEPT ![work[t].req] = "REJECTED"]
    /\ Ends(t)
    /\ UNCHANGED <<dutyVars, balance, unpaid, credits, located, offered, unassessed>>

\* REQUEST_ALREADY_PROCESSED rolls the transaction back.
LateReview(t) ==
    /\ work[t].op = "review"
    /\ ~StillPending(work[t].req)
    /\ Ends(t)
    /\ UNCHANGED <<dutyVars, walletVars, located, offered>>

\* No look at the debt that results.
ProcessDriverTransaction(d, amount) ==
    /\ d \in registered
    /\ Add(d, amount)
    /\ unassessed' = IF amount < 0 THEN unassessed \cup {d} ELSE unassessed
    /\ UNCHANGED <<dutyVars, unpaid, request, credits, located, offered, work>>

-----------------------------------------------------------------------------

DutyNext ==
    \/ \E d \in Drivers :
          \/ Register(d) \/ AdminSuspend(d) \/ AdminUnsuspend(d) \/ AdminUpdateDriver(d)
          \/ TrackLocation(d) \/ TakeOrder(d) \/ DeclineOrder(d)
          \/ FreeDriver(d) \/ ForceOffline(d)
          \/ \E t \in Tasks, to \in {"OFFLINE", "ONLINE", "ON_BREAK"} : UpdateStatus(t, d, to)
          \/ \E t \in Tasks : UserDisconnect(t, d)
    \/ \E t \in Tasks :
          WriteStatus(t) \/ LeavePool(t) \/ FindNearbyDrivers(t) \/ SweepStale(t)

WalletNext ==
    \/ \E t \in Tasks :
          \/ ReadBalance(t) \/ LockOut(t) \/ AbandonSettlement(t)
          \/ ApproveTopUp(t) \/ RejectTopUp(t) \/ LateReview(t)
          \/ \E d \in Drivers, amount \in Settlements : BookOrder(t, d, amount)
          \/ \E r \in Requests : ReviewTopUpRequest(t, r)
    \/ \E r \in Requests : SubmitTopUpRequest(r)
    \/ \E d \in Drivers, amount \in Manual : ProcessDriverTransaction(d, amount)

AccountNext == DutyNext \/ WalletNext

AccountSpec == AccountInit /\ [][AccountNext]_accountVars

-----------------------------------------------------------------------------
(* Properties *)

\* A top-up is credited once, and only if it was approved, though two admins
\* may review it at the same time (reviewTopUpRequest).
CreditedOnce ==
    \A r \in Requests : credits[r] = IF request[r] = "APPROVED" THEN 1 ELSE 0

\* The drivers a settlement job is still going to look at.
BeingAssessed(d) ==
    \E t \in Tasks :
        \/ work[t].op = "readBalance" /\ work[t].driver = d
        \/ work[t].op = "lockOut" /\ work[t].driver = d /\ work[t].debt

\* A driver who owes more than the platform allows carries the mark that keeps
\* dispatch from selecting him, unless a settlement is about to set it or the
\* debt came from a change that nobody assesses; top-ups, settlements of
\* several orders and their copies of the balance run at the same time
\* (settleOrder, reviewTopUpRequest).
DebtorsMarked ==
    \A d \in Drivers :
        InDebt(balance[d]) => d \in unpaid \/ BeingAssessed(d) \/ d \in unassessed

\* Dispatch offers no order to such a driver (findNearbyDrivers).
DebtorsNotOffered ==
    [][\A d \in Drivers :
          d \in offered' \ offered =>
              ~InDebt(balance[d]) \/ BeingAssessed(d) \/ d \in unassessed]_accountVars
=============================================================================
