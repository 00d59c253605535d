------------------------------ MODULE Tickets ------------------------------
(***************************************************************************)
(* The support tickets of one author, each with the conversation that was  *)
(* opened for it, and the job that moves tickets on when nobody does.      *)
(*                                                                         *)
(* The job announces what it does in a message from a sender "system".     *)
(* No user has this id, which the messages table refers to: where the      *)
(* conversation is open, the write of the message fails, and the pass of   *)
(* the job ends there.                                                     *)
(***************************************************************************)
EXTENDS Integers, FiniteSets

CONSTANTS
    TicketIds,      \* tickets that can ever be created, in this order
    Agents,         \* super admins whose part in the conversations is followed
    MaxCreates      \* requests of the author in flight at the same time

ASSUME TicketsAssumption ==
    /\ IsFiniteSet(TicketIds) /\ TicketIds = 1..Cardinality(TicketIds)
    /\ MaxCreates \in Nat

TicketStatus == {"OPEN", "IN_PROGRESS", "ESCALATED", "WAITING_ON_USER", "RESOLVED", "CLOSED"}
Over == {"RESOLVED", "CLOSED"}

VARIABLES
    ticket,         \* supportTicket rows with their conversations
    creating,       \* requests to create that found no active ticket
    watchdog        \* the pass of the job

ticketsVars == <<ticket, creating, watchdog>>

\* stale: lastStatusUpdateAt is longer ago than the job allows in this status.
\* talk: the conversation is open; members: those of its participants in Agents.
TicketRows == [status : TicketStatus, stale : BOOLEAN, assignee : SUBSET Agents,
               talk : BOOLEAN, members : SUBSET Agents]

NoTicket == [status |-> "NONE"]
GoneTicket == [status |-> "GONE"]

TicketsTypeOK ==
    /\ ticket \in [TicketIds -> TicketRows \cup {NoTicket, GoneTicket}]
    /\ \A k \in TicketIds : ticket[k].status \in TicketStatus => Cardinality(ticket[k].assignee) <= 1
    /\ creating \in 0..MaxCreates
    /\ watchdog \in [op : {"idle", "escalate?", "waiting", "resolved"}]
          \cup [op : {"start", "escalate", "started", "escalated"}, ids : SUBSET TicketIds]

TicketsInit ==
    /\ ticket = [k \in TicketIds |-> NoTicket]
    /\ creating = 0
    /\ watchdog = [op |-> "idle"]

There(k) == ticket[k].status \in TicketStatus

-----------------------------------------------------------------------------
(* The author and the staff *)

CreateTicket ==
    /\ creating < MaxCreates \* bound
    /\ \A k \in TicketIds : There(k) => ticket[k].status \in Over
    /\ creating' = creating + 1
    /\ UNCHANGED <<ticket, watchdog>>

\* The assignee depends on the category: somebody of the staff, or nobody here.
CommitTicket ==
    /\ creating > 0
    /\ \E k \in TicketIds, A \in {{}} \cup {{u} : u \in Agents} :
          /\ ticket[k] = NoTicket
          /\ \A j \in 1..(k - 1) : ticket[j] # NoTicket
          /\ ticket' = [ticket EXCEPT ![k] =
                [status |-> "OPEN", stale |-> FALSE, assignee |-> A, talk |-> TRUE, members |-> A]]
    /\ creating' = creating - 1
    /\ UNCHANGED watchdog

\* RESOLVED and CLOSED close the conversation; no status opens it again.
WithStatus(row, s) ==
    [row EXCEPT !.status = s, !.stale = FALSE, !.talk = @ /\ s \notin Over]

CloseByAuthor(k) ==
    /\ There(k)
    /\ ticket' = [ticket EXCEPT ![k] = WithStatus(@, "CLOSED")]
    /\ UNCHANGED <<creating, watchdog>>

UpdateTicket(k, s) ==
    /\ There(k)
    /\ ticket' = [ticket EXCEPT ![k] = WithStatus(@, s)]
    /\ UNCHANGED <<creating, watchdog>>

Assign(k, u) ==
    /\ There(k)
    /\ ticket' = [ticket EXCEPT ![k].assignee = {u}, ![k].members = @ \cup {u}]
    /\ UNCHANGED <<creating, watchdog>>

\* Mistake: the one who transfers leaves, the assignee stays.
TransferKeeping(k, u) ==
    /\ There(k)
    /\ ticket' = [ticket EXCEPT ![k].members = @ \ {u}]
    /\ UNCHANGED <<creating, watchdog>>

\* To another category: the one who does it leaves the conversation.
Transfer(k, u) ==
    /\ There(k)
    /\ ticket' = [ticket EXCEPT ![k].assignee = {}, ![k].members = @ \ {u}]
    /\ UNCHANGED <<creating, watchdog>>

\* The conversation stays.
RemoveTicket(k) ==
    /\ There(k)
    /\ ticket' = [ticket EXCEPT ![k] = GoneTicket]
    /\ UNCHANGED <<creating, watchdog>>

\* closeConversation, which knows nothing of the ticket, and send, which makes
\* a super admin who writes a participant.
CloseConversation(k) ==
    /\ There(k) /\ ticket[k].talk
    /\ ticket' = [ticket EXCEPT ![k].talk = FALSE]
    /\ UNCHANGED <<creating, watchdog>>

SendMessage(k, u) ==
    /\ There(k) /\ ticket[k].talk
    /\ ticket' = [ticket EXCEPT ![k].members = @ \cup {u}]
    /\ UNCHANGED <<creating, watchdog>>

-----------------------------------------------------------------------------
(* handleSlaWatchdog *)

\* Two minutes OPEN, fifteen IN_PROGRESS, two days WAITING_ON_USER, one RESOLVED.
GrowStale(k) ==
    /\ There(k)
    /\ ticket[k].status \in TicketStatus \ {"ESCALATED", "CLOSED"}
    /\ ~ticket[k].stale
    /\ ticket' = [ticket EXCEPT ![k].stale = TRUE]
    /\ UNCHANGED <<creating, watchdog>>

Stale(k, s) == ticket[k].status = s /\ ticket[k].stale

\* Mistake: tickets whose conversation is closed are not found.
StaleInTalk(s) == {k \in TicketIds : Stale(k, s) /\ ticket[k].talk}

StaleRows(s) == {k \in TicketIds : Stale(k, s)}

Move(ids, s) ==
    ticket' = [k \in TicketIds |->
        IF k \in ids /\ There(k) THEN [ticket[k] EXCEPT !.status = s, !.stale = FALSE]
        ELSE ticket[k]]

ReadOpen ==
    /\ watchdog.op = "idle"
    /\ watchdog' = IF StaleRows("OPEN") = {} THEN [op |-> "escalate?"]
                   ELSE [op |-> "start", ids |-> StaleRows("OPEN")]
    /\ UNCHANGED <<ticket, creating>>

\* By id, whatever the status has become.
StartProgress ==
    /\ watchdog.op = "start"
    /\ Move(watchdog.ids, "IN_PROGRESS")
    /\ watchdog' = [watchdog EXCEPT !.op = "started"]
    /\ UNCHANGED creating

\* sendSystemMessage: nothing where the conversation is not open, else a failure.
\* The conversation of a ticket that has been removed meanwhile may be open still.
Announce(before, after) ==
    /\ watchdog.op = before
    /\ \/ /\ \E k \in watchdog.ids : There(k) => ticket[k].talk
          /\ watchdog' = [op |-> "idle"]
       \/ /\ \A k \in watchdog.ids : There(k) => ~ticket[k].talk
          /\ watchdog' = [op |-> after]
    /\ UNCHANGED <<ticket, creating>>

AnnounceProgress == Announce("started", "escalate?")

ReadInProgress ==
    /\ watchdog.op = "escalate?"
    /\ watchdog' = IF StaleRows("IN_PROGRESS") = {} THEN [op |-> "waiting"]
                   ELSE [op |-> "escalate", ids |-> StaleRows("IN_PROGRESS")]
    /\ UNCHANGED <<ticket, creating>>

Escalate ==
    /\ watchdog.op = "escalate"
    /\ Move(watchdog.ids, "ESCALATED")
    /\ watchdog' = [watchdog EXCEPT !.op = "escalated"]
    /\ UNCHANGED creating

AnnounceEscalation == Announce("escalated", "waiting")

\* The conversation stays open.
CloseWaiting ==
    /\ watchdog.op = "waiting"
    /\ Move(StaleRows("WAITING_ON_USER"), "CLOSED")
    /\ watchdog' = [op |-> "resolved"]
    /\ UNCHANGED creating

CloseResolved ==
    /\ watchdog.op = "resolved"
    /\ Move(StaleRows("RESOLVED"), "CLOSED")
    /\ watchdog' = [op |-> "idle"]
    /\ UNCHANGED creating

Watchdog ==
    \/ ReadOpen \/ StartProgress \/ AnnounceProgress
    \/ ReadInProgress \/ Escalate \/ AnnounceEscalation
    \/ CloseWaiting \/ CloseResolved

-----------------------------------------------------------------------------

PeopleNext ==
    \/ CreateTicket \/ CommitTicket
    \/ \E k \in TicketIds :
          \/ CloseByAuthor(k) \/ RemoveTicket(k) \/ CloseConversation(k) \/ GrowStale(k)
          \/ \E s \in TicketStatus : UpdateTicket(k, s)
          \/ \E u \in Agents : Assign(k, u) \/ Transfer(k, u) \/ SendMessage(k, u)

TicketsNext == PeopleNext \/ Watchdog

TicketsSpec == TicketsInit /\ [][TicketsNext]_ticketsVars

\* The job is repeated every five minutes and a pass goes on to its end.
TicketsFairness == WF_ticketsVars(Watchdog)

TicketsFairSpec == TicketsSpec /\ TicketsFairness

-----------------------------------------------------------------------------
(* Properties *)

\* Whoever a ticket is assigned to takes part in its conversation, whatever
\* transfers and assignments of the staff come after each other (create, update).
AssigneeParticipates ==
    \A k \in TicketIds : There(k) => ticket[k].assignee \subseteq ticket[k].members

Quiet(S) == \A s \in S : StaleRows(s) = {}

\* No ticket is left in a status it has been in for too long.  A pass dies where
\* it announces something, so that what it does last is sure to be done only
\* if tickets do not grow stale all the time (handleSlaWatchdog).
StaleTicketsMove ==
    \A k \in TicketIds :
        /\ Stale(k, "OPEN") ~> ~Stale(k, "OPEN")
        /\ <>[]Quiet({"OPEN"}) => (Stale(k, "IN_PROGRESS") ~> ~Stale(k, "IN_PROGRESS"))
        /\ <>[]Quiet({"OPEN", "IN_PROGRESS"}) =>
              \A s \in {"WAITING_ON_USER", "RESOLVED"} : Stale(k, s) ~> ~Stale(k, s)
=============================================================================
