# Otlobegy backend: a TLA+ model

Otlobegy is a food and parcel delivery platform: a NestJS process (several of
them in production) over PostgreSQL (Prisma), Redis (keys, geo index, cache,
pub/sub) and BullMQ queues. Nothing in it runs alone: HTTP handlers, queue
workers, repeatable "monitor" jobs, in-process event listeners and socket
messages all read and write the same rows, mostly *read, check, then write*
with no lock in between. That is what this project models. Paths below are
relative to the root of the repository; modules are in this directory.

- [Inventory](#inventory) — the system's parts
- [Modules](#modules) — what is modelled, and how it corresponds to the code
- [Runs](#runs) — what TLC checks, with which bounds
- [Fairness](#fairness)
- [Mutants](#mutants) — what the properties can tell
- [Proofs](#proofs)
- [Where the code and its promises part](#where-the-code-and-its-promises-part)
- [Not modelled](#not-modelled)
- [Plan](#plan)

To check: `tlc -config MCDispatch.cfg MCDispatch` (and likewise for every cfg,
see the table of runs); to prove: `tlapm DispatchProofs.tla`.

## Inventory

For every component: its state, its operations, whom it talks to, what is hard
in it, and what makes it correct. `src/src/features` is abbreviated to `f`.

### Orders and their delivery

**Order lifecycle** (`f/orders/orders-state.service.ts`,
`orders-payment.service.ts`, `orders.repository.ts`). State: `orders.status`,
`driverId`, `paymentStatus`, `paymentMethod`, the customer's coin rows, and
`drivers.status` of the drivers the order is given to or taken from.
Operations: the vendor's and the driver's moves along two transition tables,
acceptance of a broadcast, admin assignment, fee approval, the wallet payment
handshake (customer "I paid", driver confirms or denies), cancellation with
refund and driver release. Called by HTTP handlers, by jobs and by dispatch.
Hard: every handler works from a copy; most writes compare the status with the
copy, three do not; cancellation is three transactions. Correct when: the
status moves only along the tables however late a write is, an order is handed
over only with a driver, coins go back at most once per cancellation, a
confirmed payment is not taken back. Module: `OrderLifecycle`.

**Order background jobs** (`f/orders/orders.processor.ts`). The auto-cancel, the
payment and approval timeouts, the stuck-order monitor, the settle job and its
monitor, retention clean-ups. Hard: jobs run beside the requests they race (a
timeout against a late answer), at least once, and are retried. Correct when: a
timeout acts only on an order that still waits. In `OrderLifecycle`,
`Settlement`, `Sessions`, `Checkout`.

**Cart and checkout** (`f/cart/*`, `f/orders/orders-checkout.service.ts`). State:
the lines of a cart with their options, the stock, the customer's coins, the
order rows with prices. Operations: add, change and remove a line, check the
cart, place an order, edit its items. Hard: a limit on active orders that counts
and then creates; coins read before the transaction that takes them; the last
line removed by one request while another adds one; options the vendor removes
while they are being chosen; coins that are returned in a later transaction than
the cancellation; an edit that is written by id after the order has ended.
Correct when: coins are taken once and returned at most once per cancellation, a
discount is what its coins are worth, the limit is passed by the requests in
flight at most, a line that was checked has options of its own product only.
Modules: `Checkout`, `Choices`.

**Dispatch** (`f/dispatch/*`, `src/src/common/listeners/dispatch.listener.ts`,
`order.listener.ts`). State: DISPATCH and DISPATCH_EXPIRE jobs; Redis keys
`dispatch:<id>`, `dispatch:<id>:rejected`, `order-dispatch-active:<order>`;
`order_dispatches` rows. Operations: select drivers and broadcast, expire,
accept, reject, give up, cancel, restart by monitor. Hard: five kinds of
handlers share the keys with no lock, and each of three may queue the next
round, so an order can have several chains at once. Correct when: one driver
wins at most, one who was asked, only while the order is searched for; and a
search ends. Modules: `Dispatch`, `DriverSearch`.

**Settlement and wallets of a delivered order** (`f/statistics/statistics.service.ts`,
`statistics.repository.ts`, `orders.processor.ts`). State: wallet transaction
rows and balances of drivers and vendors, coin rows, lock-out of drivers in
debt. Operations: `settleOrder`, up to eight transactions; its job with three
attempts; the monitor of unsettled orders. Hard: at-least-once jobs, duplicates
at work at the same time, failures between transactions. Correct when: each
amount is booked once and eventually, and a driver in debt is locked out.
Modules: `Settlement`, `Payouts`; the debt check among all other writers of the
driver in `DriverAccount`; what the driver's share is in `Fees`.

**Order event listener** (`src/src/common/listeners/order.listener.ts`). Turns
events into jobs, conversations, tracking keys and counters, guarded by a Redis
key that is taken before the work is done: a listener that fails after it loses
the event for good. In `Dispatch`, `Settlement`, `Tracking`, `Conversations`,
`Reports`, each for what it does there.

### Drivers

**Driver availability** (`f/drivers/*`). `drivers.status` (ONLINE, OFFLINE, BUSY,
ON_BREAK, ON_DELIVERY, SUSPENDED), the pool of live locations. Written by
acceptance, release, lock-out, admin, the driver and the job that ends shifts,
none of which compares what it overwrites. Correct when: no debtor is offered an
order. **Wallet top-ups and manual transactions** (`f/wallet/*`): requests
PENDING → APPROVED or REJECTED, the balance, the mark of unpaid commission; a
review decides about the mark on a copy of the driver read before its
transaction. Correct when: a request credits once, and a debtor carries the
mark. Module of both: `DriverAccount`.

**Driver shifts** (`f/driver-shifts/*`). Pools with capacity, weekly and overtime
bookings, admin assignments, swaps, start and end, tiers, and three jobs: the
warning of thirty minutes, the late check of five, the end of overdue shifts.
Bookings lock their pools; all else reads and writes by id. Correct when: a pool
is not overbooked by drivers, a shift that is over stays over, a shift changes
hands by its swap only, what is overdue ends. Module: `DriverShifts`.

### Vendors

**Vendors, branches, opening hours** (`f/vendors/*`). The vendor's row, its
cached pages, a job that opens and closes it by its schedule from rows it read
before; branches and the zones they lie in. Correct when: the status follows the
hours and nothing but the hours undoes what was set by hand, pages of a deleted
vendor disappear, a branch lies in the zone it names. Modules: `Storefront`,
`Places`.

**Products, menus and verticals** (`f/vendors/products/*`,
`f/vendors/menu/*`, `f/vendors/verticals/*`). Business types with their vendors, categories in an order,
products with variants and option groups. Correct when: removing a business type
destroys no living vendor, a removed product is not listed again. Modules:
`Catalog`, `Choices`. **Uploaded pictures** (`src/src/infrastructure/storage/*` and
the services that upload): a file is stored, the row refers to it, the old file
is removed. Correct when: what a row refers to is there. Module: `Pictures`.

**Vendor members** (`f/vendors/members/*`, `f/users/users.service.ts`).
Roles, and their end when an account is deleted or edited by an admin. Correct
when: the last owner does not leave. Module: `Ownership`.

### People

**Authentication and sessions** (`f/auth/*`, `f/users/*`). Registration, log-in,
social log-in, rotation of refresh tokens, log-out, bans, deletions, password
changes. Correct when: a revocation ends every session there is, and what comes
later was under way. **One-time passwords** (`f/otp/*`): two Redis keys, the
code and the count of attempts, each with its own expiry. Correct when: a code
is compared a bounded number of times, and accepted while it is there. Modules:
`Sessions`, `OneTimeCodes`.

**Users and customers** (`f/users/*`, `f/customers/*`). Addresses with a default,
favourites. Correct when: the defaults do not pile up, each tap counts. Module:
`Addresses`; the accounts themselves are of `Sessions` and `Ownership`.

**Support tickets** (`f/tickets/*`). Status, assignee, and a conversation; a
watchdog moves stale tickets on. Correct when: no ticket is stuck in a status,
the assignee is in the conversation. Module: `Tickets`.

**Chat** (`f/chat/*`, `src/src/common/listeners/chat.listener.ts`). Messages,
read marks, paging back by a cursor; conversations that racing listeners and
requests look for and create. Correct when: paging misses nothing, the driver of
an order is in its conversation once it is there. Modules: `Chat`, `Conversations`.

**Notifications, devices and inbox** (`f/notifications/*`,
`f/devices/*`, `f/inbox/*`, `src/src/infrastructure/push/*`). The inbox, tokens of
devices, and a queue that sends in batches and retries. Correct when: a device
that answered is not sent to again. Module: `Notices`.

### The platform

**Platform settings** (`f/platform-settings/*`): one row, and a cached copy nearly
every service reads. Correct when: old copies do not stay, and fees computed
with different versions still add up. Modules: `Settings`, `Fees`. **Zones and
location** (`f/zones/*`, `src/src/infrastructure/location/*`): zones in `Places`,
the pool of live locations in `DriverAccount`, selection in `Dispatch`.
**Statistics roll-ups and retention** (`f/statistics/*`): counters by day and by
longer period, raised by upserts that are not repeated, removed when old. Correct
when: a longer period agrees with its days. Module: `Reports`. **Lists** of every
service, page by page: `Listings`. **Reviews** and **audit logs** are only lists
here. **Promotions and offers**, **queues, Redis and sockets**, **mail and SMS**
have no model: see [Not modelled](#not-modelled).

## Modules

A module per component, with the state, `…Init`, one action for each step of
each handler, `…Next`, `…Spec` and the properties. A handler that reads, decides
and then writes is two or more actions with a record of what it read in between;
a transaction, or a single SQL statement or Redis command, is one.

| module | what it is | proofs |
|---|---|---|
| `OrderLifecycle` | one order, its drivers and the handlers in flight on it | `OrderLifecycleProofs` |
| `Payouts` | abstract: every amount due is booked once | |
| `Settlement` | settle jobs, row locks, retries, the monitor; implements `Payouts` | `SettlementProofs` |
| `DriverSearch` | abstract: a search asks, one driver wins or it stops | |
| `Dispatch` | broadcasts, jobs, Redis keys, answers; implements `DriverSearch` | `DispatchProofs` |
| `DriverAccount` | status, balance, mark of debt and live location of drivers, with all their writers | `FleetProofs` |
| `DriverShifts` | pools, bookings, swaps, start and end, the jobs | `FleetProofs` |
| `Sessions` | accounts of one address, their sessions and what ends them | `AccessProofs` |
| `OneTimeCodes` | a code and its count of attempts, command by command | `AccessProofs` |
| `Ownership` | members of vendors, deletions and edits of users | `AccessProofs` |
| `Tickets` | tickets, who is in their conversations, the watchdog | `AccessProofs` |
| `Storefront` | a vendor, its hours, its cached pages | `AccessProofs` |
| `Settings` | the row of settings and its copy | `AccessProofs` |
| `Tracking` | the keys by which a driver's position reaches the customer | `AccessProofs` |
| `Checkout` | cart, coins, limit of active orders, prices | `ShopProofs` |
| `Choices` | options offered and options chosen | `ShopProofs` |
| `Pictures` | files and the rows that refer to them | `ShopProofs` |
| `Fees` | the delivery fee at checkout, acceptance and settlement | `ShopProofs` |
| `Catalog` | business types, vendors, categories, products, variants | `ShopProofs` |
| `Places` | zones and branches | `ShopProofs` |
| `Addresses` | default address and favourites | `ShopProofs` |
| `Chat` | messages and paging through them | `OfficeProofs` |
| `Conversations` | which conversations are opened, and who is in them | `OfficeProofs` |
| `Listings` | lists read by page number while rows move | `OfficeProofs` |
| `Reports` | counters by day and by longer period | `OfficeProofs` |
| `Notices` | inbox, devices, the push queue | `OfficeProofs` |
| `Sums` | lemmas: a sum over a finite set as the size of a set | itself |
| `MC…` | for TLC: instances, symmetry, and the composition of components | |

Components that share no variable are explored side by side in one MC module:
`part` (`upkeep` in `MCUpkeep`) says which of them moves, while the others stay as in the beginning. A
state of several independent components is any tuple of their states, so that
nothing is lost by this, and the run is a sum instead of a product. Components
that *do* share state are composed within a module: the driver's row with
settlement, top-ups and selection (`DriverAccount`), the cart with its orders and
the customer's coins (`Checkout`), a fee with three versions of the settings
(`Fees`), dispatch with the order's status (`Dispatch`).

### OrderLifecycle

`order` is the row of table orders (`coinsUsed`: coins were spent on it;
`placing`: the second write of a placement is still to come). `handler[h]` is
one execution of a handler: where it is (`pc`), what it does (`op`), the status
and driver it read, the driver it acts for (`who`) and the status it is about
to write (`to`). Each handler of the code is two or more actions:

| code | reads | writes |
|---|---|---|
| `vendorUpdateStatus`, `driverUpdateStatus` | `VendorUpdateStatus`, `DriverUpdateStatus` | `ApplyStatusTransition`, `FreeDriver` |
| `handleDispatch` | `HandleDispatch` | `StartSearch` |
| `handleAcceptance` | `HandleAcceptance` | `AssignWinner` |
| `adminForceAssignDriver` | `AdminForceAssignDriver` | `ReleasePrevious`, `AssignDriver` |
| `approveOrderFee` | `ApproveOrderFee` | `CommitApproval` |
| `customerMarkPaid`, `driverConfirmPayment` | same names | `CommitMarkPaid`, `CommitConfirm`, `CommitDeny` |
| `editOrderItems` | `EditOrderItems` | `CommitEdit` |
| `acceptOrderChanges`, `rejectOrderChanges` | same names | `AnswerChanges` |
| `cancelOrder` | `CancelOrder` | `CommitCancel`, `RefundCoins`, `FreeDriver` |
| jobs that cancel | `AutoCancelPending` ... `CancelExhausted`, then `RereadForCancel` | as `cancelOrder` |
| `updateStatus` that matches no row | | `Conflict` |
| the process dies | | `Crash` |

### Settlement and Payouts

A SETTLE job walks over `Plan`, the steps of `settleOrder` in their order. A
wallet step takes the row lock and looks for a row of the same order and type
(`LockAndLookup`), then writes and commits (`PostEntry`). The lock-out reads
the balance by one statement (`ReadBalance`) and suspends by another
(`LockOut`). The customer's coins take no lock (`LookupEarned`, `PostEarned`).
`Fail` rolls back the open transaction and retries the whole job, three
attempts in all. Jobs come from the listener, unless it dies (`Deliver`), and
from the monitor (`ScanDelivered`, `CheckSettlement`), which reads a bounded
batch first and filters afterwards. `Payouts` has no jobs: an amount that is
due is paid, once. The refinement maps `paid` to the pairs of order and type
that have a row.

### Dispatch and DriverSearch

`info`, `live`, `expired`, `active` and `rejected` are the Redis keys;
`expireJobs` the delayed expiry jobs; `announced` the key that the listener of
ACCEPTED takes before it adds the first job. `task` holds queued DISPATCH jobs
and running handlers of all kinds, with one action per read or write of shared
state: `HandleDispatch` – `SelectDrivers` – `SendBroadcast`; `StartExpiry` –
`ReadExpired` – `CleanExpired` – `RequeueExpired`; `VerifyPendingDispatch` –
`HandleAcceptance` – `AssignWinner` – `CleanUpAccepted` – `Answer`;
`HandleRejection` – `CountRejections` – `CleanRejected` – `RequeueRejected`;
`CancelRead` – `CancelClean`; and the two requests whose write compares nothing
and may land late, `EditOrderItems` – `CommitEdit` and
`AdminForceAssignDriver` – `AssignDriver`. The remaining requests that touch
the order (`VendorAccepts`, `VendorPrepares`, `CancelOrder`,
`AcceptOrderChanges`, `PlaceCustomOrder`) compare the status they read when
they write, and are one step here; their races are the subject of
`OrderLifecycle`. The statuses are those a search tells apart.

`DriverSearch` knows only whether a driver is searched for, who was ever asked
and who won. The refinement maps `searching` to the two dispatchable statuses,
`asked` to the drivers of all broadcasts and `winners` to the ACCEPTED rows.
Its `Start` requires that nobody has won: an order that was won is never
searched for again, although edits, cancellations and assignments can land on
it late.

### DriverAccount and DriverShifts

`status`, `balance`, `unpaid`, `located` and `offered` are the driver's columns,
whether the pool of live locations has him, and whom dispatch has selected; `work[t]` is
a request or job in flight. Duty: `UpdateStatus` – `WriteStatus` – `LeavePool`
(the driver's own toggle; a socket that closes, `UserDisconnect`, goes the same
way), admins (`AdminSuspend`, `AdminUnsuspend`, `AdminUpdateDriver`), dispatch
(`FindNearbyDrivers` – `SweepStale`, `TakeOrder`, `DeclineOrder`), release
(`FreeDriver`) and the end of a shift (`ForceOffline`). Wallet: a settlement
`BookOrder` – `ReadBalance` – `LockOut`, a review `ReviewTopUpRequest` –
`ApproveTopUp` / `RejectTopUp` (`LateReview` when another admin was first), and
`ProcessDriverTransaction`. A wallet transaction updates the row first and so
holds its lock; what it reads of the balance after that is true until it
commits. `unassessed` records the drivers after whose debit nobody looked at the balance (a
settlement that broke off, a manual transaction): such a debtor is not marked.

In `DriverShifts`, bookings lock their pools (`BookShifts` – `CommitBooking`),
`TerminateShiftPool` – `DestroyShifts` – `ClosePool` does too; `AcceptSwap` –
`CommitSwap`, `StartShift` – `CommitStart`, `EndShift` – `CommitEnd` –
`ReadTier` – `PromoteTier` and `CreateShift` – `CommitCreate` read and then write
by id. Jobs (`DriverShiftsChecker`, `LateCheck`, `ShiftWarning`) keep the list
they read at their start and work it off (`EndShiftBySystem`; `MarkMissed`,
`DemoteTier`; `CancelPendingSwap`, `MarkWarned`); one row that is gone ends the
whole job (`JobEnds`). Time is the phase of each pool's hours (`Passes`).
`driverShiftsEnabled` is the platform's setting, off in the beginning as in the
schema, and switched by `UpdateSettings`: bookings, the swap board, the warning
and the late check look at it; an admin's assignment, start, end and the check for
overdue shifts do not. So nobody marks a shift that was assigned and missed while
shifts are switched off, which `LateResolved` excepts.

### Sessions, OneTimeCodes, Ownership, Tickets

`Sessions` follows the accounts of one address. Every way in ends with
`CreateSession`, long after the account was read (`Login`, `SocialLogin` –
`LinkAccount`, `Register` – `PurgeUnverified` – `CreateUser`); `RefreshTokens` –
`Rotate` deletes a session and creates the next. Revocations (`RevokeAll`,
`ChangePassword`, `ResetPassword` – `EndSessions`, `AdminBan`, `DeleteAccount`,
`AdminUpdate`) end the sessions there are; `late` marks what requests overtaken by
one create afterwards, `old` what a revocation left in place. `deleteAccount`
keeps the row of a provider's identity, so that a social log-in still gets into a
deleted account; the property says so.

`OneTimeCodes` is `generateOtp` (`RequestCode` – `DeleteOtp` – `SetOtp` –
`ResetAttempts`) and `validateOtp` / `peekOtp` (`ValidateOtp` counts the attempt –
`CompareOtp` – `AcceptOtp` – `ClearAttempts`), one Redis command each. The code
may expire at any time (`ExpireOtp`); the count of attempts, which is begun after
the code was set and lasts as long, only after it (`ExpireAttempts`). Left out are a
`otpExpirySeconds` that is made shorter between the two, and an older count that runs
out, or is left behind by a crash, between `SetOtp` and `ResetAttempts`.

`Ownership` has the transactions on members that lock the vendor (`AddMember`,
`UpdateRole`, `RemoveMember`) as single steps, and the two that lock one vendor
after the other (`AdminRemove` or `AdminUpdateUser`, `CountOwners` for each
vendor, then `EraseAccount` or `ReplaceMemberships`; `RollBack`). `slipped` holds
the vendors a transaction took an owner from who had become one after it
had read his memberships. `erased` are the deleted accounts. Their rows stay, and
they count as owners: of two owners who delete their accounts one after the
other, the second is let go although nobody else is alive. So `VendorKeepsOwner`
is about rows; about living owners (`LivingOwners`), `LastOwnerStays` says that the
last one leaves only where a deleted account is counted for him.

`Tickets` has what people do as single steps, and one pass of `handleSlaWatchdog`
as a sequence (`ReadOpen` – `StartProgress` – `AnnounceProgress` –
`ReadInProgress` – `Escalate` – `AnnounceEscalation` – `CloseWaiting` –
`CloseResolved`). An announcement writes a message whose sender is `'system'`,
which no user has (`f/chat/messages.service.ts:214`), so that the pass ends
there: `Announce` goes on only if nothing was moved.

### Storefront, Settings, Tracking

Each is a row, copies of it in Redis, and nothing that orders the write of the
one with the removal of the other. `Storefront`: `Update`, `UpdateStatus`,
`UploadLogo`, `Remove`, then `ForgetPage` for both keys; readers `ReadVendor` –
`FillPage`; `ExpirePage`. The job is `ReadSchedule` – `WriteSchedule`, which
compares nothing; `overtaken` marks a change by hand in between. `Settings`:
`GetSettings` – `SeedDefaults` – `ReadSeeded` – `StoreCopy`, `UpdateSettings` –
`ForgetCopy`, `ExpireCopy`. `Tracking`: events of an order's changes are handled
in any order (`Claim` – `Track`, `HandlerDies`) and set or delete the key of a
driver; keys expire. `DELIVERED` deletes unconditionally, which may be the key of
the driver's next order.

### Checkout, Choices, Fees, Catalog, Pictures, Places, Addresses

`Checkout`: `AddItem`, `UpdateItem`, `RemoveItem` – `CountRemaining` – `DeleteCart`,
`ClearCart`; `ValidateForCheckout` – `CheckLimit` – `CreateOrder` (a transaction
that compares the coins and decrements the stock) – `OnOrderCreated`. Of an order
afterwards: `CancelOrder`, which compares the status, and `RefundCoins`, a
transaction of its own that may never come (`RequestFails`); `Deliver`;
`CheckEdit` – `CommitEdit`, which prices anew without discount and with the tax
rate as it is, and writes by the order's id, whatever has become of it since
(`revived` counts the orders that had ended); `AnswerChanges`, where a rejection
cancels and returns nothing. Two details of the code that the model has: an
existing line is recognised by its options alone, whatever the variant, and the
decrement of the stock is not guarded.

`Choices`: the vendor offers and removes groups and options, the customer checks
(`CheckPick`) and writes (`WritePick`) a line, changes it unchecked
(`UpdatePick`), or takes an offer that names no product, whose options nobody
checks (`AddOffered`). `Fees`: the fee is priced at checkout (`PriceOrder`), again at
acceptance (`PriceAcceptance`, with the defaults of
`f/dispatch/dispatch.service.ts:431`) or set by an admin (`AssignAtPrice`), and
divided (`ShareFee`), with `UpdateRates` at any point. Numbers are whole
kilometres and pounds, with the caps, the zero tests and the rounding of the code.

`Catalog`: checks of uniqueness and existence by `CheckCreate`, `CheckUpdate`,
`CheckRemove`, `FindProduct` and `FindEnd`, and their later writes;
`RemoveVertical` – `DestroyDeleted` – `DeleteVertical`; `Reorder` is a
transaction. `Pictures`: `Upload` – `StoreFile` – `WriteSlot` – `Discard`, or for
slots in `Early`, where the old file goes first, `DiscardFirst` before; each may
fail. `Places`: `ResolveValidZone` looks for the smallest zone around a spot;
`CreateBranch` – `InsertBranch`, `UpdateBranch` – `ResolvePlace` – `MoveBranch` –
`WriteBranch` (position and zone are two statements). The location read from
the row comes as longitude and latitude and is resolved as latitude and
longitude, hence `Mirror`. `unsure` holds the branches of edits that crossed,
broke off, or were made on such a reading. `Addresses`: `MakeDefault`,
`CreateDefault` clear what their snapshot shows and `CommitInsert`,
`CommitUpdate` commit; `ToggleFavourite` – `WriteFavourite`.

### Chat, Conversations, Listings, Reports, Notices

`Chat`: a message has the time at which its transaction wrote it
(`WriteMessage`), and is seen when that commits (`CommitMessage`); `StartPaging`
and `ReadPage` page back by the cursor's time. `Conversations`: `FindOrCreate` is
the look-up of every kind, `WriteConversation` the later creation. The listener
of an acceptance takes its key, looks for the order's conversation and creates it
(`AcceptOrder` – `HandleAccepted` – `WriteConversation`), and then queues the search
(`QueueDispatch`); it may die at any point (`ListenerDies`), and then nobody does its
work again, while the monitor queues the search of any order that stays ACCEPTED
(`RequeueStuck`). A driver takes the order (`TakeTrip`, `ForceAssign`) and joins
(`HandleAssigned` – `WriteParticipant`; `AssignedDies`); `met` is what he found: a
conversation, one that was being created, or neither. `Listings`: offsets
into rows in descending order, with one `List` record for each list of the code:
whether rows leave it, whether they move. `Reports`: `RecordCancellation`,
`RecordDispatchSent`, `RecordResponse` start upserts, one per subject and period
(`Upsert`, `UpsertFails`); `StatisticsCleanup`. `Notices`: `DispatchPush` takes
the tokens, `StartSending` – `SendBatch` (or `BatchFails`) – `FinishSending`,
with `GiveUp` for failed batches and retries after `WorkerDies`. A call that
fails may have sent a part of its batch: nobody had an answer, and a retry sends
to all of it again, which is why the property speaks of devices that answered.

## Runs

| run | cfg | result | what it shows |
|---|---|---|---|
| `order_lifecycle` | `MCOrderLifecycle` | pass | type invariant; `DriverBeforeHandover`, `RefundsWithinCancellations`, `StatusMovesAlongTables`, `ConfirmedPaymentStands` |
| `settlement` | `MCSettlement` | pass | `OncePerType`; `DebtLocksOut`; `PayoutsOnce`: refinement of `Payouts` |
| `settlement_liveness` | `SettlementLiveness` | pass | `DriverEventuallyPaid`: although events are lost and jobs give up, unless the monitor's batch passes the order over for ever |
| `dispatch` | `MCDispatch` | pass | `SingleWinner`; `ImplementsSearch`: refinement of `DriverSearch` |
| `dispatch_liveness` | `DispatchLiveness` | pass | `SearchEnds` |
| `fleet` | `MCFleet` | pass | `CreditedOnce`, `DebtorsMarked`, `BookingsWithinCapacity`; `FleetSteps`: no debtor is offered an order, a shift that is over stays so, a shift changes hands by its swap |
| `shift_jobs` | `MCShiftJobs` | pass | `OverdueEnds`, `LateResolved`: what is overdue or missed is dealt with in the end, though jobs die; what is missed, unless shifts are switched off |
| `access` | `MCAccess` | pass | `RevokedSessionsEnd`; `CodesHold`: comparisons and acceptances of a code are bounded; `MembersKept`: the last owner, living or not, does not leave a vendor, ticket conversations keep their assignee |
| `upkeep` | `MCUpkeep` | pass | `ScheduleKept`: the status follows the hours and only them; `CachesCatchUp`: pages, settings and tracking keys agree with the rows in the end; `StaleTicketsMove` |
| `shop` | `MCShop` | pass | `PlacedRight`: coins taken and returned, discounts, the limit, the options of a line; `PictureThere`; `StoresKept`: vendors, products, zones of branches, defaults, favourites; `DeliveryPaysForItself` |
| `office` | `MCOffice` | pass | `PagesComplete`: paging by cursor and by number; `DriverIsIn`; `PeriodsAgree`; `AnsweredNotResent` |
| `order_timeout_race` | `OrderTimeoutRace` | violation | a timeout cancels an order that was answered meanwhile, see below |

Every passing run also has a type invariant (`TypeOK`, or `FleetTypeOK` and so on
for the components of a composition) except the two liveness runs and
`shift_jobs`, whose safety is the subject of another run. Some properties are
conjunctions with one name, so that a composition states what it promises in one
line; the conjuncts are defined, with their own comments, in the modules they are about.

### Bounds

All bounds are CONSTANTS, or sets of ids; a cfg names each of them. The recurring
argument is that a race of this code is between two requests, each of which
reads and then writes: two requests, two rows they may both want, and a third
party (a job, an expiry, a death) that is free to act at any time.

*OrderLifecycle*: two handlers in flight and two drivers (the second is there to
be replaced by), one override (item edit or admin assignment), any crash. The
handlers themselves are unbounded: an execution that ended is replaced by a new
one, so that histories are arbitrarily long. `MCInit` keeps the placements that
take part in the most: something is to be paid, coins are spent on the orders
that also wait for a payment, one driver at most is suspended; the proofs need
no such choice. 1.8 million states.

*Settlement*: two orders of one driver and one vendor, so that they compete for
both rows; two jobs; two failed attempts. One order has every step, the other
only the necessary ones; settled alone, an order leaves the driver within
`MaxDebt` = 8, both together beyond it (`MCAmount`). Two failures are one less than a
job needs to give up, so that `DebtLocksOut` is asked of every state; the proof has no such
bound. The liveness run has two orders, of which the monitor reads one at a time
(`Batch` = 1), so that each can be passed over, and three failures: enough for all
attempts of a job to fail, so that only the monitor can help.

*Dispatch*: two drivers, two tasks, two broadcasts, one attempt, one override:
two chains can broadcast at once, both drivers can accept, in one broadcast or
in two, while an edit or an assignment is in flight. No crashes: in a safety
run they remove behaviour only from the end of a handler, and the proof covers
them. The liveness run has one broadcast, two attempts and one loss (of a
handler, of the first job or of a key). `Broadcasts` bounds the number of
broadcasts ever sent. Without that bound `SearchEnds` would not hold of this
code: when the last two rejections of a broadcast race, the second one may find
no expiry job, read the rejected set that the first has already deleted, and
start a new chain at attempt 1 with nobody excluded, again and again. The run
shows that the search ends if this happens finitely often.

*Fleet*: one driver with every writer of his row, two requests or jobs in flight,
one top-up of 2, settlements of -2 and 1, manual transactions of -1, a debt limit
of 1 and balances from -3 to 1: the limit is passed by one settlement, and
come back over by the top-up or by another settlement. Two other drivers, two
requests and one pool of capacity 1 with two shifts: the smallest in which a
booking can be one too many. Debit beyond -3 is not taken. *Shift jobs*: one
driver, one request beside one worker, two shifts, because the hazard is a list
of two rows whose first is removed while the job works on it; with nobody to
accept a swap, its acceptance is left to the fleet. Tiers 0 to 2. Here shifts are
switched on and off at any time; the fleet only switches them on.

*Access*: two accounts of one address, two sessions, two threads (a request that
is overtaken and the one that overtakes it); two codes, two attempts each, three
requests: enough for the count to be cleared by one while two others compare.
One vendor with two members and two removals at once, so that each may see
the other as the owner who stays. Two tickets, two agents.

*Upkeep*: one day of two minutes with one opening hour (all that `IsOpen` tells
apart is inside and outside; days and hours across midnight are left to the
definition), one editor and one reader; two tickets, the second one's being
that an announcement about the first ends the pass; two askers and one
admin of the settings with three versions; two drivers and four changes of status.

*Shop*: two requests in each part. One ware with two lines, three orders with a limit of
one active order, 5 coins of value 3 (so that a discount does not divide evenly), and edits until
one order was edited (`MaxEdited` = 1): a second would add another order that comes back; one category,
product and variant; two bearers of options, product and variant, with two groups and
two options; two slots of pictures, of either order, and three files; three distances, and
settings of {0, 1, 2} with percentages below 0, inside and above 100; two zones, two spots
that are each other's mirror, one branch; three addresses.

*Office*: three messages with a page of one and two times: pages end between
messages of the same millisecond and of different ones. Two conversations, one
person of each role, whose helper opens direct conversations and joins by sending, but
opens none about the order (for that the customer and the vendor are enough). Five rows with a page of two. One party and two reporters
over four days and weeks of two days, retention of one day: an event can begin in
one week and end in the next, and rows grow old. Two users, three tokens in
batches of two, two attempts: one batch may fail and the other not.

`CHECK_DEADLOCK FALSE` is set in every run: an order that was delivered or
cancelled, with nothing queued, is a legitimate end, and so is any component
whose bounded ids are used up.

## Fairness

*Settlement.* `WF` of `Progress(j)`: a BullMQ worker goes on with the job it
has. `SF` of taking a row lock: PostgreSQL queues waiters, so that one who
waits again and again is served. `WF` of `ScanDelivered`: the monitor is a
repeatable job. `SF` of `CheckSettlement(o)`: an order that is in a batch
again and again is checked; an order that is in none from some time on is
`PassedOver`, which `DriverEventuallyPaid` excepts. `Fail` has no fairness and is bounded by
`MaxFailures`: failures end. Nothing forces a driver to deliver.

*Dispatch.* `WF` of a task's next step, of the passing of `expiresAt`, of a due
expiry job and of the repeatable monitor. None of vendor, customer, admin or
driver need ever act; in particular no driver need ever answer.

*Shift jobs.* `WF` of a worker's next step, `SF` of starting each kind of job: they
are repeatable jobs of one queue, which hands them out in order, so that
none waits for ever for the others. Drivers and admins need do nothing.

*Upkeep.* `WF` of the schedule job and of `Watchdog`, which are repeatable; of the
expiry of pages (five minutes) and of the copy of the settings (an hour);
of readers that have read a row and are about to store it, as an HTTP
request goes on or dies; of the handlers of status events and of the twelve hours
of a tracking key. Clearing a page or a copy after a write has *no* fairness: the
process may die before it. `ScheduleFollowed` and `StaleTicketsMove` are
stated with the exception that the code needs: a row that is changed by hand for
ever, or tickets that grow stale for ever, can keep a pass from getting
to what it does last.

*OrderLifecycle* and the remaining modules make no liveness claim: nothing in the
code finishes an order that its people do not move.

## Mutants

`PROJECT.json` lists one mutant for each property of each passing run: an
operator, commented `Mistake:` in its module, that a plausible bug would make of
a definition, and with which the property fails. Where a property is a
conjunction, the other conjuncts have their mistakes in the modules too, each
of which makes the property fail in the same way:

| property | listed | further mistakes |
|---|---|---|
| `FleetSteps` | `AcceptableAgain` | `EligibleByStatus` (offers to a debtor), `StartableById` (starts what is over) |
| `CodesHold` | `CompareOtpClearing` | `AcceptOtpKeeping` (the code stays) |
| `MembersKept` | `LetGoLast` | `OwnerRequiredBefore`, `UnlockedAlways` (no lock), `TransferKeeping` (the new assignee is not added) |
| `ScheduleKept` | `ReadScheduleClosing` | `FollowedAlways` (vendors without a schedule too) |
| `CachesCatchUp` | `ExpirePageById` | `ExpireNever` (settings), `ExpireCurrent` (tracking) |
| `PlacedRight` | `CancellableAsRead` | `CoinsUsedFloor`, `MayOrderUnlimited`, `ValidOptionsUnderProduct` |
| `StoresKept` | `CheckUpdateOfAny` | `DestroyAll`, `ResolveRequested`, `ClearedNone` |
| `PagesComplete` | `OldestFirst` | `SkipOneMore` |

## Proofs

All theorems hold for any values of the constants that satisfy the assumptions
named in the module: any number of handlers, drivers, jobs, orders, tasks,
broadcasts, sessions, failures.

| theorem | module | establishes |
|---|---|---|
| `TypeCorrect` | `OrderLifecycleProofs`, `SettlementProofs`, `DispatchProofs`, `AccessProofs` | the type invariant |
| `HandoverHasDriver` | `OrderLifecycleProofs` | `[]DriverBeforeHandover` |
| `RefundsBounded` | `OrderLifecycleProofs` | `[]RefundsWithinCancellations` |
| `TablesRespected` | `OrderLifecycleProofs` | `StatusMovesAlongTables` |
| `ConfirmationStands` | `OrderLifecycleProofs` | `ConfirmedPaymentStands` |
| `EachTypeOnce` | `SettlementProofs` | `[]OncePerType` |
| `DebtorsLockedOut` | `SettlementProofs` | `[]DebtLocksOut` |
| `ImplementsPayouts` | `SettlementProofs` | `PayoutsOnce`, refinement |
| `OneWinner` | `DispatchProofs` | `[]SingleWinner` |
| `DispatchImplementsSearch` | `DispatchProofs` | `ImplementsSearch`, refinement |
| `AccountTypeCorrect`, `ShiftsTypeCorrect` | `FleetProofs` | the type invariants |
| `TopUpCreditedOnce` | `FleetProofs` | `[]CreditedOnce` |
| `DebtIsMarked` | `FleetProofs` | `[]DebtorsMarked` |
| `CapacityHolds` | `FleetProofs` | `BookingsWithinCapacity` |
| `ClosedShiftsStay`, `HandsBySwap` | `FleetProofs` | `ClosedStaysClosed`, `HandsChangeBySwap`: parts of `FleetSteps` |
| `FleetTypesCorrect`, `FleetStepsHold` | `FleetProofs` | `[]FleetTypeOK`, `FleetSteps` of `MCFleet` |
| `RevocationHolds` | `AccessProofs` | `[]RevokedSessionsEnd` |
| `CodesHoldOut` | `AccessProofs` | `[]GuessesBounded`, `[]AcceptedWhileThere`: together `CodesHold` |
| `OwnersStay` | `AccessProofs` | `[]VendorKeepsOwner` and `LastOwnerStays`, a part of `MembersKept` |
| `AssigneesTakePart` | `AccessProofs` | `[]AssigneeParticipates`, the other part |
| `AccessTyped`, `CodesSafe`, `MembersSafe` | `AccessProofs` | `[]AccessTypeOK`, `[]CodesHold`, `MembersKept` of `MCAccess`, from the three above |
| `HistoryIsCovered` | `OfficeProofs` | `[]PagesCoverHistory`, a part of `PagesComplete` |
| `FewRowsMissed` | `OfficeProofs` | `[]RowsMissedFew`, the other part |
| `DriverTakesPart` | `OfficeProofs` | `[]DriverIsIn` |
| `PeriodsCountTheirDays` | `OfficeProofs` | `[]PeriodsAgree` |
| `AnsweredOnce` | `OfficeProofs` | `AnsweredNotResent` |
| `OfficeTypesCorrect`, `PagesAreComplete` | `OfficeProofs` | `[]OfficeTypeOK`, `[]PagesComplete` of `MCOffice` |
| `PicturesStay` | `ShopProofs` | `[]PictureThere` |
| `DeliveriesPayForThemselves` | `ShopProofs` | `[]DeliveryPaysForItself` |
| `OptionsFit` | `ShopProofs` | `[]ChosenOptionsFit`, a part of `PlacedRight` |
| `CoinsAndLimitKept` | `ShopProofs` | `[]CoinsAccounted`, `[]CoinsWorthDiscount`, `[]ActiveOrdersBounded`: the rest of it |
| `BranchesStayPlaced` | `ShopProofs` | `[]PlacedInZone`, a part of `StoresKept` |
| `DefaultsAndToggles` | `ShopProofs` | `[]DefaultsBounded`, `[]TogglesCount`, a part of `StoresKept` |
| `ShopTyped`, `OrdersPlacedRight`, `StoresAreKept` | `ShopProofs` | `[]ShopTypeOK`, `[]PlacedRight`, `StoresKept` of `MCShop` |
| `HandWinsOverHours` | `AccessProofs` | `StatusByHandStays`, the half of `ScheduleKept` about steps |
| `UpkeepTyped`, `HandWins` | `AccessProofs` | `[]UpkeepTypeOK`, `StatusByHandStays` of `MCUpkeep` |

**OrderLifecycle.** `DriverBeforeHandover` is not inductive: a handler about to
write DRIVER_ASSIGNED may have read an order without a driver. The invariant
`IInv` adds what handlers in flight know: `InFlightMoves` (the move a handler
is about to make is one of the tables, from the status it read),
`InFlightHandovers` (while one is about to hand the order over without
bringing a driver, the order has one) and `InFlightTargets` (which op writes
which status); the driver of an order is replaced, never reset. The compare-and-set
carries what was read over to the moment of writing. For the refunds,
`RefundsCounted` says `refunds + (handlers that owe a refund) <= cancellations`;
it is why `Handlers` is assumed finite.

**Settlement.** `LookupHolds`: a job that has looked up a row under the lock
still sees the truth, because whoever could add the row needs the same lock;
`OncePerType` and the refinement follow, with `JobsForDelivered`. For
`DebtLocksOut` it does not matter what is booked in which order: whoever has
changed the balance of a driver has the look at it still before him (`WillLook`),
and one that fails starts over from the beginning, so that somebody is looking at every
driver in debt until he is locked out (`DebtSeen`). What breaks this is a job that
gives up between a booking and the look; `AttemptsCounted` says that this takes
`MaxAttempts` failures, which is the condition of the property. A job that is
past the look, or that has read the balance before another booking, does no harm: the one that
booked is still to look.

**Dispatch.** What a step can do to the order is one of four things
(`OrderStep`): nothing, `Leaves`, `Enters` or `Wins`. `SingleWinner` already
says that an order with an ACCEPTED row has a driver and is not being searched;
`Settled` adds that it is not a new order. An agreed edit goes on to look for a
driver only if the order has none, which closes the induction.

**DriverAccount.** `DebtorsMarked` needs only `WorkKnown` beside the types: what is
in flight is about drivers that have a row. The argument is that whoever makes
a debt leaves somebody responsible for it (`BeingAssessed`, or `unassessed`), that
a copy of the balance can only be too pessimistic about a driver whose later
debts others answer for, and that no decision on a copy takes the mark away but
a review, which reads the balance under the row's lock.

**DriverShifts.** `BookingSound`: what a booking counted in its pools stays below
the capacity until it commits, because whoever adds a row, or takes the
capacity down, needs the locks the booking holds; everybody else only removes rows
or closes them. `SwapSound`: a swap that is about to be accepted is still the
one of another driver, or it is gone together with its shift, for rows
are numbered and never reused (`RowsFilled`). The two step properties follow from
the guards of the writes and these.

**Sessions.** `RequestsLate`: a request that was let in and has not yet written is
late, if its account was banned or deleted since; the session it creates inherits
that. `NewAccountsClean`: an account that is not there yet is neither banned nor
linked, so that its first session need not be late.

**OneTimeCodes.** `Budget`: the guesses made, the comparisons under way, what the
count still allows and `MaxOtpAttempts` for every request that is about to
clear the count together never exceed what all requests have. A clearing spends
one of these and gives the count its full allowance; a request that compares
is not about to clear, so a new code (which starts with the clearing of its own
request still to come) fits. Acceptances of the present code are bounded by the
requests about to remove it.

**Ownership.** `LocksHold`: a request that has locked the rows of a vendor and is
about to take its user from it leaves another owner there (`Leaves`), as nobody
else can change rows that are locked; only what was read before the lock
(`slipped`) is excepted. For `LastOwnerStays`, the other owner either lives, or is an
account that was deleted before and is counted.

**Tickets.** `GoodRows`: every handler makes of a row in which the assignee takes part
another such row, and a ticket that is being created adds both at once.

**Chat.** `PagingSound`: while somebody pages, every message that was there when he
began and that he has not got is either gone, or older than his cursor, or of
a millisecond of which he got another (`Ahead`). Messages that appear meanwhile
were not there; `CommitsSound` (two senders never commit the same row, and only
what nobody saw) keeps the others as they were. A page is the newest ones below
the cursor, so what is skipped has the time of its last one.

**Conversations.** `TripSound`: a listener that is through has left a conversation, so
that a driver who takes the order then finds it, or somebody closed it.
`RiderSound`: a driver who found one is in it, or his join is under way, or somebody
closed one; for one who found neither a conversation nor one on the way, whatever
is created about the order later is created with him, as he is the order's driver by
then (`LaterSound`).

**Listings.** `ReaderSound` counts: of the rows that stayed, those within the first
`Skip(page)` places that were not seen are no more than the rows that left from before
them. A row that comes pushes others back, which loses nothing; one that leaves
pulls one row at most over the boundary. The proof is about positions in
sequences without repetition (`Distinct`, `Behind`).

**Reports.** `CountsAgree`: for each counter and period, the sum of its days and of the
reports whose daily row is still to come, and the row of the period with its
own reports to come, differ by the upserts that failed and no more; the second
direction only as long as no day was cleaned up. An event belongs to the day it
began on, wherever midnight falls.

**Sums.** Sums over sets are folds, which are defined with `CHOOSE` and by
recursion on sets, and there is no rule of induction the provers can use for them.
`SmallestSubset` replaces it: of the sets for which a statement fails there is one of which no
proper subset fails (`WFMin`). With it, `SumIsSize` identifies a sum of natural numbers
with the number of pairs `<<x, k>>`, `k < f[x]`; from there on, the library's facts
about cardinalities do (`SumSplit`, `SumSame`, `SumChanges`).

**Notices.** `AnsweredSound`: the tokens that were answered in this attempt are of the
batches before (`Below` counts a token's place in the list), and none were
if all batches failed, which is when the attempt is repeated.

The parts that `MCAccess` explores one at a time share no variable, so a step of
the whole is a step of one part (`OnePartMoves`) and the four invariants hold
together; so it is in `MCFleet`, `MCOffice`, `MCShop` and `MCUpkeep`.

**Pictures.** `FreshPictures` and `OldPictures`: files are numbered as they are
stored, no two uploads have the same one, and what an upload is about to
discard is shown by no row, except where the old file goes first.
**Fees.** `FeeCharged`: the total contains the fee the order has, whatever
acceptance makes of it; the rest is arithmetic of the caps and of the rounding.
**Choices.** `OptionsGrouped` and `BuyersFit`: a group goes with its options, and
an option that was checked is still of the same group or gone, since it never
moves to another.
**Checkout.** An order takes its coins, and gets its number, in one step, so the
coins are accounted for by a sum over orders that gets one more (`OrdersInARow`), and
a return adds the coins of one order to the other side of it. The returns of an
order and those still to come (`Returning`) are as many as its cancellations at most:
a cancellation needs an open order, and one that has ended is open again only by an
edit that counts as `revived`. For
the limit, `FewActive` counts the requests that have passed the check together with
the active orders: with `n` requests there are never more than the limit, less
one, and `n`. `SumBounded` keeps the prices of a basket above zero.
**Catalogue.** `ProductsFound`: whoever is about to write to a product has found its
row, which is marked and never erased. The rest of `StoresKept` is in the
guards of the writes.
**Places.** `PlanSound` says what an edit that was alone on its branch since it
began still knows of it, `BranchSound` that a branch lies in its zone unless the
second statement of an edit is still to come. What overtaken edits wrote is `unsure`.
**Addresses.** `MadeBy`: to each default address belongs a request of its own that
made it and has not cleared it since; so there are no more of them than requests.

**Storefront.** `PassKnows`: a pass of the job that nobody overtook still knows that the
schedule is in force, since whoever ends that is a change by hand. **Settings.** Whoever is about
to store a copy, or to read again, has found a row, so no copy comes before it.

**Model-checked only.** Liveness (`SearchEnds`, `DriverEventuallyPaid`,
`OverdueEnds`, `LateResolved`, `CachesCatchUp`, `StaleTicketsMove`,
`ScheduleFollowed`, the half of `ScheduleKept` about what must happen), which the
proof system does not reach. Every invariant
and every property of steps that a run checks is proved.

## Where the code and its promises part

One run checks a promise of the repository that does not hold.

| run | property | what happens |
|---|---|---|
| `order_timeout_race` | `TimeoutsCancelUnanswered` | a job cancels because nobody took the order, after somebody took it: `cancelOrder` reads again and accepts nearly any status |

Five more properties end with a counterexample each; no run lists them, they show
the hazards for which no property holds. The first two are checked with
`OrderTimeoutRace.cfg` and its constants, after changing what is checked: to
`SPECIFICATION CrashFreeSpec` with `INVARIANT CancelledCoinsReturned`, and to
`PROPERTY DeliveredByItsDriver`. The others have a cfg of their own.

| cfg (module) | property | what happens |
|---|---|---|
| `OrderTimeoutRace` (`MCOrderLifecycle`) | `CancelledCoinsReturned` | rejecting an item edit cancels the order and keeps the customer's coins |
| `OrderTimeoutRace` (`MCOrderLifecycle`) | `DeliveredByItsDriver` | a replaced driver's late request moves the new driver's order: the update compares the status only |
| `SettlementVendorUnpaid` (`MCSettlement`) | `EventuallySettled` | all attempts fail after the driver's fee: the monitor looks for that fee only, the vendor is never paid |
| `SettlementCoins` (`MCSettlement`) | `CoinsEarnedOnce` | the look-up before the coins takes no lock, two jobs give them twice |
| `DispatchSilentAccept` (`MCDispatch`) | `AcceptedMeansAssigned` | an acceptance that came too late is reported as accepted, and removes the expiry job that would have asked the next driver |

Behaviour met while modelling, which the models have and the properties state
as exceptions:

- `ScheduleKept`, `VendorKeepsOwner`, `PlacedInZone`, `RevokedSessionsEnd`: what a
  request that overtakes another leaves behind, see the modules above. In
  `StoresKept` an update that a removal overtakes and the crossing statements of two
  edits of a branch are such exceptions, so that going wrong *there* would not
  be noticed; its `TogglesCount` is close to what `WriteFavourite` does.
- `DriverEventuallyPaid`: the monitor takes a hundred delivered orders in no stated
  order and removes the settled ones afterwards (`f/orders/orders.processor.ts:446`),
  so that settled ones may keep an unsettled one out of every batch (`PassedOver`).
- `LateResolved`: with `driverShiftsEnabled` off, nobody looks for missed shifts,
  while admins still assign shifts.
- `LastOwnerStays`: an owner's row of a deleted account counts.
- `CoinsAccounted`: a rejected change of an order, and a process that dies after a
  cancellation, return no coins; an edit that lands on a cancelled order brings it back,
  and its coins are returned once more when it is cancelled again.
- `DriverIsIn`: the listener may die after its key and before the conversation, while
  the monitor goes on with the order: the driver finds none, and is in whichever is
  opened later, but not in one that is being opened as he takes the order, nor
  in both of two that were opened side by side.
- `AnsweredNotResent`: a device that was sent to in a call that then failed.
- `PagesCoverHistory`: messages of the millisecond at which a page ends, if the
  page did not get them all.
- A branch whose edit names a zone and no position is compared with the
  mirror of its position.
- An edit of an order's items adds the tax rate as a factor, not as a percentage
  (`f/orders/orders-checkout.service.ts:590` beside lines 122 and 726), and drops
  the discount.
- The late check ends with the first row that is gone; shifts behind it wait for
  the next pass. The watchdog of tickets ends with its first announcement.
- A commission may be outside 0 to 100 (`@IsInt` only); outside, the delivery need not pay for itself.
- A cart's line can be given options of another product by an edit, which checks
  nothing, and so can the line of an offer in a chat that names no product.

## Not modelled

Parts that are left out, and why:

- **Promotions and offers**: banners and texts, which checkout does not read.
- **Reviews**, but for their lists: `submitReview` stores `customer.id` in a column
  that refers to `customers.userId`, so that no review can be written.
- **Queues, Redis, sockets, mail, SMS, push service, object storage**: external.
  The models assume atomic commands on one Redis key, statement atomicity and row
  locks in SQL, at-least-once jobs, and that a call may fail.
- **`rebuildCartFromOrder`** (`f/cart/cart.service.ts:642`): reads `orderItems` of
  an order that was loaded with `items`, and throws before it writes.
- **Archived conversations**: their clean-up looks for a status that nothing sets.
- **Jobs `UPDATE_*` of the statistics queue**: nothing queues them. **Revenue
  counters**: incremented by each attempt of a settle job; no other code reads
  them back to decide anything.
- **Retention of orders** and the retention of wallet transactions together: what
  is kept for how long is configuration; where transactions are kept for a shorter
  time, an order is settled again.
- **Platform wallets, vendors' receipts**: single increments.
- **Search, ranking, maps and geometry**: choices of a set of rows or spots.
- **DTO validation and guards of roles**: what they let through is the input of the
  actions; ownership of a row is checked before the first read and has no state.
  (That the driver is the assigned one *is* modelled: it is state.)
- **Bootstrap, modules, filters, interceptors, logging, i18n, health**: no state.

What the models leave out of what they do model:

- Names, texts, locales, images' contents; amounts but where a property is about
  them (`Settlement`: sign and size against the debt limit; `Checkout`, `Fees`: whole).
- Notifications, sockets, audit rows and statistics that are written but not
  read back by a modelled component. This includes the REJECTED, EXPIRED and
  CANCELLED rows of `order_dispatches` and the per-driver sets of pending
  dispatches: they feed the driver's screen, while every decision uses the keys
  that are modelled.
- Clock values. `expiresAt`, delays and cut-offs may pass at any moment; a
  timeout that is modelled may be early, never missing. The four-hour expiry of
  the listener's key is not modelled in `Dispatch`: within the life of a search
  it stands.
- In `OrderLifecycle` the statuses OFFLINE, BUSY and ON_BREAK of a driver are
  one with ONLINE, which no handler modelled there tells apart.
- In `Dispatch`, DRIVER_ASSIGNED stands also for PENDING_CUSTOMER_APPROVAL and
  PENDING_PAYMENT, and PREPARING for READY_FOR_PICKUP: none of them is searched.
  `RequeueRejected` may find a completed expiry job or not, where the queue
  keeps the last thirty.
- A zone's own base fee, the second order of a driver, tiers' bonuses but as a
  set of numbers.

## Plan

Left to do, in the order of what it would add:

1. `OrderLifecycle` as the abstraction of the one order in `Dispatch` and in
   `Settlement`, so that a whole delivery is one specification.
2. The retention of orders composed with `Settlement`, and the statistics of a
   settle job that is retried.
