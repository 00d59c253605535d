------------------------------ MODULE MCAccess ------------------------------
(***************************************************************************)
(* Sessions, one-time codes, the memberships of vendors and those of the   *)
(* conversations about tickets share no variable: each is explored on its  *)
(* own, while the others stay as in the beginning.                         *)
(***************************************************************************)
EXTENDS Sessions, OneTimeCodes, Ownership, Tickets, TLC

MCAccounts == 1..2
MCSids == 1..2
MCCodes == 1..2
MCTicketIds == 1..2
MCSymmetry == UNION {Permutations(S) : S \in {Threads, Askers, Members, Removals, Agents}}

\* The component that is explored.
VARIABLE part

InSessions == part = "sessions" /\ UNCHANGED <<part, codesVars, ownershipVars, ticketsVars>>
InCodes == part = "codes" /\ UNCHANGED <<part, sessionsVars, ownershipVars, ticketsVars>>
InVendors == part = "vendors" /\ UNCHANGED <<part, sessionsVars, codesVars, ticketsVars>>
InTickets == part = "tickets" /\ UNCHANGED <<part, sessionsVars, codesVars, ownershipVars>>

MCInit ==
    /\ part \in {"sessions", "codes", "vendors", "tickets"}
    /\ SessionsInit /\ CodesInit /\ OwnershipInit /\ TicketsInit

MCSessionsNext ==
    \/ \E t \in Threads :
          \/ InSessions /\ Register(t)
          \/ InSessions /\ PurgeUnverified(t)
          \/ InSessions /\ CreateUser(t)
          \/ InSessions /\ SocialLogin(t)
          \/ InSessions /\ LinkAccount(t)
          \/ InSessions /\ CreateSession(t)
          \/ InSessions /\ Rotate(t)
          \/ InSessions /\ EndSessions(t)
          \/ \E a \in Accounts : InSessions /\ Login(t, a)
          \/ \E a \in Accounts : InSessions /\ ResetPassword(t, a)
          \/ \E s \in Sids : InSessions /\ RefreshTokens(t, s)
    \/ \E s \in Sids : InSessions /\ Logout(s)
    \/ \E s \in Sids : InSessions /\ ChangePassword(s)
    \/ \E S \in SUBSET Sids : InSessions /\ CleanUpSessions(S)
    \/ \E a \in Accounts :
          \/ InSessions /\ AdminBan(a)
          \/ InSessions /\ AdminUnban(a)
          \/ InSessions /\ DeleteAccount(a)
          \/ InSessions /\ AdminUpdate(a)
          \/ InSessions /\ RevokeAll(a)
          \/ InSessions /\ VerifyContact(a)

MCCodesNext ==
    \/ \E t \in Askers :
          \/ InCodes /\ RequestCode(t)
          \/ InCodes /\ DeleteOtp(t)
          \/ InCodes /\ SetOtp(t)
          \/ InCodes /\ ResetAttempts(t)
          \/ InCodes /\ CompareOtp(t)
          \/ InCodes /\ AcceptOtp(t)
          \/ InCodes /\ ClearAttempts(t)
          \/ \E c \in 1..codes, peek \in BOOLEAN : InCodes /\ ValidateOtp(t, c, peek)
    \/ InCodes /\ ExpireOtp
    \/ InCodes /\ ExpireAttempts

MCVendorsNext ==
    \/ \E u \in Members, v \in Vendors :
          \/ InVendors /\ RemoveMember(u, v)
          \/ \E r \in VendorMemberRole : InVendors /\ AddMember(u, v, r)
          \/ \E r \in VendorMemberRole : InVendors /\ UpdateRole(u, v, r)
    \/ \E t \in Removals :
          \/ \E u \in Members : InVendors /\ AdminRemove(t, u)
          \/ \E u \in Members, v \in Vendors \cup {"none"}, r \in VendorMemberRole :
                InVendors /\ AdminUpdateUser(t, u, v, r)
          \/ \E v \in Vendors : InVendors /\ CountOwners(t, v)
          \/ InVendors /\ EraseAccount(t)
          \/ InVendors /\ ReplaceMemberships(t)
          \/ InVendors /\ RollBack(t)

\* What the watchdog does to statuses is the subject of MCUpkeep.
MCTicketsNext ==
    \/ InTickets /\ CreateTicket
    \/ InTickets /\ CommitTicket
    \/ \E k \in TicketIds :
          \/ InTickets /\ CloseByAuthor(k)
          \/ InTickets /\ RemoveTicket(k)
          \/ InTickets /\ CloseConversation(k)
          \/ \E s \in TicketStatus : InTickets /\ UpdateTicket(k, s)
          \/ \E u \in Agents :
                \/ InTickets /\ Assign(k, u)
                \/ InTickets /\ Transfer(k, u)
                \/ InTickets /\ SendMessage(k, u)

MCNext == MCSessionsNext \/ MCCodesNext \/ MCVendorsNext \/ MCTicketsNext

MCSpec == MCInit /\ [][MCNext]_<<part, sessionsVars, codesVars, ownershipVars, ticketsVars>>

AccessTypeOK == SessionsTypeOK /\ CodesTypeOK /\ OwnershipTypeOK /\ TicketsTypeOK

\* Of one-time codes: how often one is compared, and taken for right (validateOtp).
CodesHold == GuessesBounded /\ AcceptedWhileThere

\* Nobody is left out by those who come and go: an owner stays at a vendor unless a
\* deleted account is counted for one, and the conversation of a ticket has the
\* assignee (adminUpdate, deleteAccount; update of tickets.service).
MembersKept == [](VendorKeepsOwner /\ AssigneeParticipates) /\ LastOwnerStays
=============================================================================
