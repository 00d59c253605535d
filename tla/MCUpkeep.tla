------------------------------- MODULE MCUpkeep ------------------------------
(***************************************************************************)
(* Opening hours and support tickets, which periodic jobs look after, the  *)
(* copy of the settings and the keys of live tracking, which expire, share *)
(* no variable.  Each is explored on its own, while the others stay as in  *)
(* the beginning, and is treated fairly while it is.  Who takes part in    *)
(* the conversations of tickets is the subject of MCAccess.                *)
(***************************************************************************)
EXTENDS Storefront, Tickets, Settings, Tracking

UpkeepTicketIds == 1..2
MCDays == 0..0
MCMinutes == 0..1
MCSchedules == {[d \in Days |-> [is |-> "HOURS", open |-> 1, close |-> 1]]}

\* The component that is explored.
VARIABLE upkeep

upkeepVars == <<upkeep, storefrontVars, ticketsVars, settingsVars, trackingVars>>

OfStorefront == upkeep = "vendors" /\ UNCHANGED <<upkeep, ticketsVars, settingsVars, trackingVars>>
OfTickets == upkeep = "tickets" /\ UNCHANGED <<upkeep, storefrontVars, settingsVars, trackingVars>>
OfSettings == upkeep = "settings" /\ UNCHANGED <<upkeep, storefrontVars, ticketsVars, trackingVars>>
OfTracking == upkeep = "tracking" /\ UNCHANGED <<upkeep, storefrontVars, ticketsVars, settingsVars>>

UpkeepInit ==
    /\ upkeep \in {"vendors", "tickets", "settings", "tracking"}
    /\ StorefrontInit /\ TicketsInit /\ SettingsInit /\ TrackingInit
    /\ upkeep # "vendors" => ~vendor.scheduled

StorefrontMoves ==
    \/ OfStorefront /\ Tick
    \/ OfStorefront /\ ReadSchedule
    \/ OfStorefront /\ WriteSchedule
    \/ \E w \in Staff :
          \/ \E h \in Schedules, b \in BOOLEAN : OfStorefront /\ Update(w, h, b)
          \/ \E s \in VendorStatus : OfStorefront /\ UpdateStatus(w, s)
          \/ OfStorefront /\ UploadLogo(w)
          \/ OfStorefront /\ Remove(w)
          \/ \E k \in Keys : OfStorefront /\ ForgetPage(w, k)
    \/ \E r \in Readers :
          \/ OfStorefront /\ FillPage(r)
          \/ \E k \in Keys : OfStorefront /\ ReadVendor(r, k)
    \/ \E k \in Keys : OfStorefront /\ ExpirePage(k)

WatchedTicketsMove ==
    \/ OfTickets /\ CreateTicket
    \/ OfTickets /\ CommitTicket
    \/ \E k \in TicketIds :
          \/ OfTickets /\ CloseByAuthor(k)
          \/ OfTickets /\ RemoveTicket(k)
          \/ OfTickets /\ CloseConversation(k)
          \/ OfTickets /\ GrowStale(k)
          \/ \E s \in TicketStatus : OfTickets /\ UpdateTicket(k, s)
    \/ OfTickets /\ ReadOpen
    \/ OfTickets /\ StartProgress
    \/ OfTickets /\ AnnounceProgress
    \/ OfTickets /\ ReadInProgress
    \/ OfTickets /\ Escalate
    \/ OfTickets /\ AnnounceEscalation
    \/ OfTickets /\ CloseWaiting
    \/ OfTickets /\ CloseResolved

SettingsMove ==
    \/ \E r \in Consumers :
          \/ OfSettings /\ GetSettings(r)
          \/ OfSettings /\ SeedDefaults(r)
          \/ OfSettings /\ ReadSeeded(r)
          \/ OfSettings /\ StoreCopy(r)
    \/ \E a \in Admins :
          \/ OfSettings /\ UpdateSettings(a)
          \/ OfSettings /\ ForgetCopy(a)
    \/ OfSettings /\ ExpireCopy

TrackingMoves ==
    \/ \E s \in States :
          \/ OfTracking /\ ChangeStatus(s)
          \/ OfTracking /\ ExpireClaim(s)
    \/ \E d \in Carriers :
          \/ OfTracking /\ AssignCourier(d)
          \/ OfTracking /\ ExpireTracked(d)
    \/ \E e \in 1..MaxChanges :
          \/ OfTracking /\ Claim(e)
          \/ OfTracking /\ Track(e)
          \/ OfTracking /\ HandlerDies(e)

UpkeepNext == StorefrontMoves \/ WatchedTicketsMove \/ SettingsMove \/ TrackingMoves

\* The fairness of each module, of the part explored.
UpkeepFairness ==
    /\ WF_upkeepVars(OfStorefront /\ ReadSchedule) /\ WF_upkeepVars(OfStorefront /\ WriteSchedule)
    /\ \A k \in Keys : WF_upkeepVars(OfStorefront /\ ExpirePage(k))
    /\ \A r \in Readers : WF_upkeepVars(OfStorefront /\ FillPage(r))
    /\ WF_upkeepVars(OfTickets /\ Watchdog)
    /\ WF_upkeepVars(OfSettings /\ ExpireCopy)
    /\ \A r \in Consumers : WF_upkeepVars(OfSettings /\ (SeedDefaults(r) \/ ReadSeeded(r) \/ StoreCopy(r)))
    /\ \A e \in 1..MaxChanges : WF_upkeepVars(OfTracking /\ (Claim(e) \/ Track(e)))
    /\ \A d \in Carriers : WF_upkeepVars(OfTracking /\ ExpireTracked(d))

UpkeepSpec == UpkeepInit /\ [][UpkeepNext]_upkeepVars /\ UpkeepFairness

UpkeepTypeOK == StorefrontTypeOK /\ TicketsTypeOK /\ SettingsTypeOK /\ TrackingTypeOK

\* The job opens and closes by the hours, and only then (handleVendorWorkingHours).
ScheduleKept == ScheduleFollowed /\ StatusByHandStays

\* What is kept in Redis beside the tables agrees with them in the end.
CachesCatchUp == DeletedDisappears /\ SettingsSettle /\ TrackingEnds
=============================================================================
