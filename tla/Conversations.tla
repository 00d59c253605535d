---------------------------- MODULE Conversations ----------------------------
(***************************************************************************)
(* Which conversations are opened about one standard order, with one       *)
(* vendor and with the support, and who takes part in them.  Every request *)
(* looks for an open one first and creates it in a later step.  The        *)
(* listener opens the one of the order when the vendor has accepted, and   *)
(* queues the dispatch after it; the driver joins when he has taken the    *)
(* order.  The listener takes its key first: when it dies nobody opens the *)
(* conversation in its place, while the monitor still queues the dispatch. *)
(***************************************************************************)
EXTENDS Integers, FiniteSets

CONSTANTS
    Talks,          \* conversations that can ever be opened, in this order
    Clients,        \* users who ask for conversations; one of them ordered
    Orderer,
    Team,           \* members of the vendor
    Helpers,        \* staff with the permission to manage conversations
    Riders,         \* drivers
    Callers         \* requests in flight

ASSUME ConversationsAssumption ==
    /\ Orderer \in Clients
    /\ \A x, y \in {Clients, Team, Helpers, Riders} : x = y \/ x \cap y = {}
    /\ IsFiniteSet(Talks) /\ Talks = 1..Cardinality(Talks) /\ IsFiniteSet(Callers)
    /\ Callers \cap {"accepted", "assigned"} = {}
    /\ Riders \cap {"none", "nobody", "lost"} = {}

People == Clients \cup Team \cup Helpers \cup Riders
Tasks == Callers \cup {"accepted", "assigned"}
Kinds == {"ORDER", "SUPPORT", "VENDOR"}

VARIABLES
    talk,           \* conversations rows with their participants
    task,           \* what each request, and the listener of each event, is about to do
    trip            \* the order, as far as its conversation depends on it

conversationsVars == <<talk, task, trip>>

NoTalk == [state |-> "NONE"]
TalkRows == [state : {"OPEN", "CLOSED"}, kind : Kinds, creator : People \cup {"system"}, members : SUBSET People]

\* rider: order.driver.  listener: of ORDER_STATUS_CHANGED to ACCEPTED.  told: the
\* driver whose DRIVER_ASSIGNED event is handled.  met: what the driver found,
\* a conversation, one being opened when he took the order, or neither.
Trips == [status : {"PENDING", "ACCEPTED", "SEARCHED"}, rider : Riders \cup {"none"},
          by : {"none", "dispatch", "admin"}, told : Riders \cup {"lost", "nobody"},
          listener : {"waiting", "due", "working", "done", "dead"},
          met : {"unknown", "conversation", "opening", "neither"}]

ConversationsTypeOK ==
    /\ talk \in [Talks -> {NoTalk} \cup TalkRows]
    /\ task \in [Tasks -> {[op |-> "idle"]}
          \cup [op : {"create"}, kind : Kinds, creator : People \cup {"system"}, members : SUBSET People]
          \cup [op : {"join"}, talk : Talks, who : People]]
    /\ trip \in Trips

ConversationsInit ==
    /\ talk = [c \in Talks |-> NoTalk]
    /\ task = [t \in Tasks |-> [op |-> "idle"]]
    /\ trip = [status |-> "PENDING", rider |-> "none", by |-> "none", told |-> "nobody",
               listener |-> "waiting", met |-> "unknown"]

OpenTalks(kind) == {c \in Talks : talk[c].state = "OPEN" /\ talk[c].kind = kind}
Occupy(t, r) == task' = [task EXCEPT ![t] = r]

\* Creates unless one was found.
FindOrCreate(t, found, kind, creator, members) ==
    IF found # {} THEN UNCHANGED task
    ELSE Occupy(t, [op |-> "create", kind |-> kind, creator |-> creator, members |-> members])

\* Who a conversation about the order is created with.
Concerned == {Orderer} \cup Team \cup ({trip.rider} \ {"none"})

-----------------------------------------------------------------------------
(* Requests *)

\* addParticipantToOrderConversation, to any of those that are open.
AddToOrderTalk(t, u) ==
    IF OpenTalks("ORDER") = {} THEN UNCHANGED task
    ELSE \E c \in OpenTalks("ORDER") :
            IF u \in talk[c].members THEN UNCHANGED task
            ELSE Occupy(t, [op |-> "join", talk |-> c, who |-> u])

CreateOrderConversation(t, u) ==
    /\ t \in Callers /\ task[t].op = "idle"
    /\ u \in {Orderer, trip.rider} \cup Team \cup Helpers
    /\ IF u = trip.rider /\ OpenTalks("ORDER") # {}
       THEN AddToOrderTalk(t, u)
       ELSE FindOrCreate(t, OpenTalks("ORDER"), "ORDER", u, Concerned)
    /\ UNCHANGED <<talk, trip>>

\* Of the conversations with the support the one he opened himself counts.
CreateSupportConversation(t, u) ==
    /\ t \in Callers /\ task[t].op = "idle"
    /\ FindOrCreate(t, {c \in OpenTalks("SUPPORT") : talk[c].creator = u}, "SUPPORT", u, {u})
    /\ UNCHANGED <<talk, trip>>

CreateVendorConversation(t, u) ==
    /\ t \in Callers /\ task[t].op = "idle"
    /\ FindOrCreate(t, {c \in OpenTalks("VENDOR") : u \in talk[c].members}, "VENDOR", u, {u} \cup Team)
    /\ UNCHANGED <<talk, trip>>

\* With a member of the vendor it is one with the vendor.  With anybody else the
\* one found may be his own with the support, in which the actor takes no part.
CreateDirectConversation(t, u, other) ==
    IF other \in Team THEN CreateVendorConversation(t, u)
    ELSE /\ t \in Callers /\ task[t].op = "idle"
         /\ FindOrCreate(t, {c \in OpenTalks("SUPPORT") : other \in talk[c].members}, "SUPPORT", u, {u, other})
         /\ UNCHANGED <<talk, trip>>

NextTalk == Cardinality({c \in Talks : talk[c] # NoTalk}) + 1

WriteConversation(t) ==
    /\ task[t].op = "create"
    /\ NextTalk \in Talks
    /\ talk' = [talk EXCEPT ![NextTalk] = [state |-> "OPEN", kind |-> task[t].kind,
                                           creator |-> task[t].creator, members |-> task[t].members]]
    /\ Occupy(t, [op |-> "idle"])
    /\ UNCHANGED trip

\* Fails on the primary key if he is one already.
WriteParticipant(t) ==
    /\ task[t].op = "join"
    /\ talk' = [talk EXCEPT ![task[t].talk].members = @ \cup {task[t].who}]
    /\ Occupy(t, [op |-> "idle"])
    /\ UNCHANGED trip

\* A vendor member or an admin joins a conversation by sending to it.
JoinBySending(u, c) ==
    /\ talk[c].state = "OPEN"
    /\ u \in Helpers \cup (IF talk[c].kind = "SUPPORT" THEN {} ELSE Team)
    /\ talk' = [talk EXCEPT ![c].members = @ \cup {u}]
    /\ UNCHANGED <<task, trip>>

\* By a participant or somebody who manages conversations.
CloseTalk(c) ==
    /\ talk[c].state = "OPEN"
    /\ talk' = [talk EXCEPT ![c].state = "CLOSED"]
    /\ UNCHANGED <<task, trip>>

-----------------------------------------------------------------------------
(* The order and its listener *)

AcceptOrder ==
    /\ trip.status = "PENDING"
    /\ trip' = [trip EXCEPT !.status = "ACCEPTED", !.listener = "due"]
    /\ UNCHANGED <<talk, task>>

\* createSystemOrderConversation, when the key of the event is taken.
HandleAccepted ==
    /\ trip.listener = "due"
    /\ trip' = [trip EXCEPT !.listener = "working"]
    /\ FindOrCreate("accepted", OpenTalks("ORDER"), "ORDER", "system", Concerned)
    /\ UNCHANGED talk

\* Mistake: does not wait for the conversation.
DispatchAtOnce ==
    /\ trip.listener = "working"
    /\ trip' = [trip EXCEPT !.status = "SEARCHED", !.listener = "done"]
    /\ UNCHANGED <<talk, task>>

\* The job that looks for a driver is queued once the conversation is there.
QueueDispatch ==
    /\ trip.listener = "working" /\ task["accepted"].op = "idle"
    /\ trip' = [trip EXCEPT !.status = "SEARCHED", !.listener = "done"]
    /\ UNCHANGED <<talk, task>>

\* The key stays: the event is not handled again.
ListenerDies ==
    /\ trip.listener \in {"due", "working"}
    /\ trip' = [trip EXCEPT !.listener = "dead"]
    /\ Occupy("accepted", [op |-> "idle"])
    /\ UNCHANGED talk

\* The monitor queues the job of an order that stays ACCEPTED, whatever became of
\* the listener.
RequeueStuck ==
    /\ trip.status = "ACCEPTED"
    /\ trip' = [trip EXCEPT !.status = "SEARCHED"]
    /\ UNCHANGED <<talk, task>>

BeingOpened == {t \in Tasks : task[t].op = "create" /\ task[t].kind = "ORDER"}

AtHand == IF trip.listener = "done" THEN "conversation"
          ELSE IF BeingOpened # {} THEN "opening" ELSE "neither"

TakeTrip(d) ==
    /\ trip.status = "SEARCHED" /\ trip.rider = "none"
    /\ trip' = [trip EXCEPT !.rider = d, !.by = "dispatch", !.met = AtHand]
    /\ UNCHANGED <<talk, task>>

\* An admin does not wait for the job, and replaces the driver there is.
ForceAssign(d) ==
    /\ trip.status # "PENDING" /\ trip.by # "admin" /\ trip.rider # d
    /\ trip' = [trip EXCEPT !.rider = d, !.by = "admin"]
    /\ UNCHANGED <<talk, task>>

\* DRIVER_ASSIGNED is handled once for an order: the event of a second driver is
\* taken for a repetition.
HandleAssigned ==
    /\ task["assigned"].op = "idle" /\ trip.rider # "none" /\ trip.told = "nobody"
    /\ trip' = [trip EXCEPT !.told = trip.rider,
                            !.met = IF OpenTalks("ORDER") = {} THEN trip.met ELSE "conversation"]
    /\ AddToOrderTalk("assigned", trip.rider)
    /\ UNCHANGED talk

\* Before he is a participant.
AssignedDies ==
    /\ trip.rider # "none" /\ (trip.told = "nobody" \/ task["assigned"].op = "join")
    /\ trip' = [trip EXCEPT !.told = "lost"]
    /\ Occupy("assigned", [op |-> "idle"])
    /\ UNCHANGED talk

ConversationsNext ==
    \/ \E t \in Tasks : WriteConversation(t) \/ WriteParticipant(t)
    \/ \E t \in Callers, u \in People :
          \/ CreateOrderConversation(t, u) \/ CreateSupportConversation(t, u) \/ CreateVendorConversation(t, u)
          \/ u \in Helpers /\ \E o \in People \ {u} : CreateDirectConversation(t, u, o)
    \/ \E c \in Talks : CloseTalk(c) \/ \E u \in People : JoinBySending(u, c)
    \/ AcceptOrder \/ HandleAccepted \/ QueueDispatch \/ ListenerDies \/ RequeueStuck
    \/ HandleAssigned \/ AssignedDies
    \/ \E d \in Riders : TakeTrip(d) \/ ForceAssign(d)

ConversationsSpec == ConversationsInit /\ [][ConversationsNext]_conversationsVars

-----------------------------------------------------------------------------
(* Properties *)

\* A driver whom the dispatch found takes part in a conversation about the order
\* when his assignment has been handled, whoever else opens conversations about
\* it at the same time, as long as none of them is closed: when the listener of
\* the acceptance was through before he took the order, or one was open when his
\* assignment was handled.  When there was none, nor one on the way as he took
\* the order (the listener died, the monitor queued the job), he takes part in
\* every one that is opened later.  He is left out of one that was on the way, and
\* of the others where two were opened side by side; and so may be the driver an
\* admin assigns (handleOrderStatusChanged, createSystemOrderConversation,
\* addParticipantToOrderConversation).
DriverIsIn ==
    trip.by = "dispatch" /\ trip.told = trip.rider /\ task["assigned"].op = "idle" =>
        /\ trip.met = "conversation" /\ (\A c \in Talks : talk[c].state = "CLOSED" => talk[c].kind # "ORDER")
              => \E c \in OpenTalks("ORDER") : trip.rider \in talk[c].members
        /\ trip.met = "neither" => \A c \in OpenTalks("ORDER") : trip.rider \in talk[c].members
=============================================================================
