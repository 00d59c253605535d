----------------------------- MODULE Storefront -----------------------------
(***************************************************************************)
(* A vendor, the two cached pages that show it (by id and by slug), and    *)
(* the job that opens and closes it by its working hours.  Nothing orders  *)
(* a write of the row, the removal of the pages, and the pages that        *)
(* readers of the old row are about to put there.                          *)
(***************************************************************************)
EXTENDS Integers, FiniteSets

CONSTANTS
    Days, Minutes,      \* of the clock: 0..n each
    Schedules,          \* workingHours: what is known of each day of the week
    Staff,              \* requests that change the vendor
    Readers             \* requests that read a page

\* A day has no entry, is closed, or has an opening and a closing time.
DayHours == {[is |-> "ABSENT"], [is |-> "CLOSED"]}
    \cup [is : {"HOURS"}, open : Minutes, close : Minutes]

ASSUME StorefrontAssumption ==
    /\ IsFiniteSet(Days) /\ Days = 0..(Cardinality(Days) - 1) /\ Days # {}
    /\ IsFiniteSet(Minutes) /\ Minutes = 0..(Cardinality(Minutes) - 1) /\ Minutes # {}
    /\ Schedules \subseteq [Days -> DayHours]

VARIABLES
    vendor,     \* the row
    clock,      \* Cairo time
    page,       \* vendor_details_<id>, vendor_slug_details_<slug>
    staff,      \* requests that change the vendor
    reader,     \* requests that read a page
    pass        \* a pass of the schedule job

storefrontVars == <<vendor, clock, page, staff, reader, pass>>

VendorStatus == {"OPEN", "CLOSED", "PAUSED", "SUSPENDED"}
Keys == {"id", "slug"}

VendorRows == [status : VendorStatus, scheduled : BOOLEAN, hours : Schedules,
               deleted : BOOLEAN]

\* Of a page, the status that it shows.
NoPage == "NONE"

\* overtaken: the vendor was changed by hand since the pass read it.
SchedulePasses == {[op |-> "idle"]} \cup [op : {"write"}, to : {"OPEN", "CLOSED"}, overtaken : BOOLEAN]

StorefrontTypeOK ==
    /\ vendor \in VendorRows
    /\ clock \in Days \X Minutes
    /\ page \in [Keys -> VendorStatus \cup {NoPage}]
    /\ staff \in [Staff -> SUBSET Keys]
    /\ reader \in [Readers -> {[op |-> "idle"]} \cup [op : {"fill"}, key : Keys, shows : VendorStatus]]
    /\ pass \in SchedulePasses

StorefrontInit ==
    /\ vendor \in [status : {"CLOSED"}, scheduled : BOOLEAN, hours : Schedules,
                   deleted : {FALSE}]
    /\ clock = <<0, 0>>
    /\ page = [k \in Keys |-> NoPage]
    /\ staff = [w \in Staff |-> {}]
    /\ reader = [r \in Readers |-> [op |-> "idle"]]
    /\ pass = [op |-> "idle"]

-----------------------------------------------------------------------------
(* Working hours *)

\* checkIfCurrentlyOpen: the entry of today alone.
IsOpen(h, day, minute) ==
    \/ h[day].is = "ABSENT"
    \/ /\ h[day].is = "HOURS"
       /\ IF h[day].close < h[day].open
          THEN minute >= h[day].open \/ minute <= h[day].close
          ELSE minute >= h[day].open /\ minute <= h[day].close

OpenNow == IsOpen(vendor.hours, clock[1], clock[2])

\* Mistake: whether the schedule is in force is not asked.
FollowedAlways == ~vendor.deleted /\ vendor.status \in {"OPEN", "CLOSED"}

\* The job looks at it.
Followed == vendor.scheduled /\ ~vendor.deleted /\ vendor.status \in {"OPEN", "CLOSED"}

\* Mistake: the week has no end.
TickOn ==
    /\ clock' = IF clock[2] + 1 \in Minutes THEN <<clock[1], clock[2] + 1>>
                ELSE <<clock[1] + 1, 0>>
    /\ UNCHANGED <<vendor, page, staff, reader, pass>>

Tick ==
    /\ clock' = IF clock[2] + 1 \in Minutes THEN <<clock[1], clock[2] + 1>>
                ELSE <<(clock[1] + 1) % Cardinality(Days), 0>>
    /\ UNCHANGED <<vendor, page, staff, reader, pass>>

\* Mistake: a vendor that is closed is left closed.
ReadScheduleClosing ==
    /\ pass.op = "idle"
    /\ Followed
    /\ ~OpenNow /\ vendor.status = "OPEN"
    /\ pass' = [op |-> "write", to |-> "CLOSED", overtaken |-> FALSE]
    /\ UNCHANGED <<vendor, clock, page, staff, reader>>

ReadSchedule ==
    /\ pass.op = "idle"
    /\ Followed
    /\ OpenNow # (vendor.status = "OPEN")
    /\ pass' = [op |-> "write", to |-> IF OpenNow THEN "OPEN" ELSE "CLOSED", overtaken |-> FALSE]
    /\ UNCHANGED <<vendor, clock, page, staff, reader>>

\* By id; the pages stay.
WriteSchedule ==
    /\ pass.op = "write"
    /\ vendor' = [vendor EXCEPT !.status = pass.to]
    /\ pass' = [op |-> "idle"]
    /\ UNCHANGED <<clock, page, staff, reader>>

PassOvertaken == IF pass.op = "write" THEN [pass EXCEPT !.overtaken = TRUE] ELSE pass

-----------------------------------------------------------------------------
(* Changes by hand *)

\* The row, then the pages K.
Change(w, row, K) ==
    /\ staff[w] = {}
    /\ ~vendor.deleted
    /\ vendor' = row
    /\ staff' = [staff EXCEPT ![w] = K]
    /\ pass' = PassOvertaken
    /\ UNCHANGED <<clock, page, reader>>

\* New hours put the schedule in force, unless the request says otherwise.
Update(w, h, scheduled) ==
    Change(w, [vendor EXCEPT !.hours = h, !.scheduled = scheduled], Keys)

UpdateStatus(w, s) == Change(w, [vendor EXCEPT !.status = s, !.scheduled = FALSE], Keys)

\* uploadLogo, uploadCover: the page by slug stays.
UploadLogo(w) == Change(w, vendor, {"id"})

Remove(w) == Change(w, [vendor EXCEPT !.deleted = TRUE], {})

ForgetPage(w, k) ==
    /\ k \in staff[w]
    /\ k = "slug" => "id" \notin staff[w]
    /\ page' = [page EXCEPT ![k] = NoPage]
    /\ staff' = [staff EXCEPT ![w] = @ \ {k}]
    /\ UNCHANGED <<vendor, clock, reader, pass>>

-----------------------------------------------------------------------------
(* Pages *)

\* mapVendorForApp
Shown == IF vendor.status = "OPEN" /\ ~OpenNow THEN "CLOSED" ELSE vendor.status

\* findOne, findBySlug when the page is not there; else it is what they answer.
ReadVendor(r, k) ==
    /\ reader[r].op = "idle"
    /\ page[k] = NoPage
    /\ ~vendor.deleted
    /\ reader' = [reader EXCEPT ![r] = [op |-> "fill", key |-> k, shows |-> Shown]]
    /\ UNCHANGED <<vendor, clock, page, staff, pass>>

FillPage(r) ==
    /\ reader[r].op = "fill"
    /\ page' = [page EXCEPT ![reader[r].key] = reader[r].shows]
    /\ reader' = [reader EXCEPT ![r] = [op |-> "idle"]]
    /\ UNCHANGED <<vendor, clock, staff, pass>>

\* Mistake: a page by slug has no time to live.
ExpirePageById(k) ==
    /\ k = "id" /\ page[k] # NoPage
    /\ page' = [page EXCEPT ![k] = NoPage]
    /\ UNCHANGED <<vendor, clock, staff, reader, pass>>

ExpirePage(k) ==
    /\ page[k] # NoPage
    /\ page' = [page EXCEPT ![k] = NoPage]
    /\ UNCHANGED <<vendor, clock, staff, reader, pass>>

StorefrontNext ==
    \/ Tick \/ ReadSchedule \/ WriteSchedule
    \/ \E w \in Staff :
          \/ \E h \in Schedules, b \in BOOLEAN : Update(w, h, b)
          \/ \E s \in VendorStatus : UpdateStatus(w, s)
          \/ UploadLogo(w) \/ Remove(w)
          \/ \E k \in Keys : ForgetPage(w, k)
    \/ \E r \in Readers : FillPage(r) \/ \E k \in Keys : ReadVendor(r, k)
    \/ \E k \in Keys : ExpirePage(k)

StorefrontSpec == StorefrontInit /\ [][StorefrontNext]_storefrontVars

\* The job is repeated every five minutes, pages live for five minutes, and a
\* request that has read its row goes on.
StorefrontFairness ==
    /\ WF_storefrontVars(ReadSchedule) /\ WF_storefrontVars(WriteSchedule)
    /\ \A k \in Keys : WF_storefrontVars(ExpirePage(k))
    /\ \A r \in Readers : WF_storefrontVars(FillPage(r))

StorefrontFairSpec == StorefrontSpec /\ StorefrontFairness

-----------------------------------------------------------------------------
(* Properties *)

\* What the job decided from hours in force is written over a change by hand
\* only if that came between its read and its write; the status of a vendor
\* that was set before stays (updateStatus, handleVendorWorkingHours).
StatusByHandStays ==
    [][pass.op = "write" /\ pass'.op = "idle" /\ ~pass.overtaken
        => vendor.scheduled /\ ~vendor.deleted]_storefrontVars

\* A vendor in the care of the job gets the status its hours ask for, unless the
\* hour passes or someone changes it first (handleVendorWorkingHours).
ScheduleFollowed ==
    \A b \in BOOLEAN :
        (Followed /\ OpenNow = b) ~> (~(Followed /\ OpenNow = b) \/ b = (vendor.status = "OPEN"))

\* The pages of a deleted vendor disappear for good, although nothing removes
\* them and readers are still about to store them (remove, findOne, findBySlug).
DeletedDisappears == []<>~vendor.deleted \/ <>[](\A k \in Keys : page[k] = NoPage)
=============================================================================
