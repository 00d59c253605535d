-------------------------------- MODULE Chat --------------------------------
(***************************************************************************)
(* The messages of a conversation, the marks up to which its participants  *)
(* have read, and a participant who pages back through its history.        *)
(*                                                                         *)
(* A message has the time at which its transaction wrote it and is seen    *)
(* when that commits: messages come into sight in another order than that  *)
(* of their times, and two of them may have the same one.                  *)
(***************************************************************************)
EXTENDS Integers, FiniteSets

CONSTANTS
    Participants,
    Joiners,        \* super admins and vendor members who are no participants yet
    Messages,       \* messages that can ever be sent, in this order
    LastTime,       \* bound on the time that passes
    PageSize        \* limit

ASSUME ChatAssumption ==
    /\ IsFiniteSet(Messages) /\ Messages = 1..Cardinality(Messages)
    /\ Participants \cap Joiners = {}
    /\ LastTime \in Nat /\ PageSize \in Nat \ {0}

Senders == Participants \cup Joiners
Times == 0..LastTime

VARIABLES
    time,           \* milliseconds
    open,           \* conversation.status is OPEN
    message,        \* messages rows
    mark,           \* lastReadAt of each participant
    sending,        \* requests to send, one at a time of each sender
    paging          \* somebody who reads the history, page by page

chatVars == <<time, open, message, mark, sending, paging>>

NoMark == -1        \* no participant
NoMessage == [state |-> "NONE"]

MessageRows == {NoMessage}
    \cup [state : {"WRITTEN", "SENT", "DELETED"}, at : Times, by : Senders]

\* before: createdAt of the cursor.  there: what could be read in the beginning.
PagingRecords == {[op |-> "idle"]}
    \cup [op : {"read", "end"}, before : 0..(LastTime + 1),
          there : SUBSET Messages, seen : SUBSET Messages]

ChatTypeOK ==
    /\ time \in Times
    /\ open \in BOOLEAN
    /\ message \in [Messages -> MessageRows]
    /\ mark \in [Senders -> Times \cup {NoMark}]
    /\ sending \in [Senders -> {[op |-> "idle"], [op |-> "write"]} \cup [op : {"commit"}, message : Messages]]
    /\ paging \in PagingRecords

ChatInit ==
    /\ time = 0
    /\ open = TRUE
    /\ message = [m \in Messages |-> NoMessage]
    /\ mark = [u \in Senders |-> IF u \in Participants THEN 0 ELSE NoMark]
    /\ sending = [u \in Senders |-> [op |-> "idle"]]
    /\ paging = [op |-> "idle"]

Sent(m) == message[m].state = "SENT"
Turn(u, r) == sending' = [sending EXCEPT ![u] = r]

Elapse ==
    /\ time < LastTime \* bound
    /\ time' = time + 1
    /\ UNCHANGED <<open, message, mark, sending, paging>>

-----------------------------------------------------------------------------
(* send, closeConversation, deleteMessage, markRead *)

SendMessage(u) ==
    /\ sending[u].op = "idle"
    /\ open
    /\ Turn(u, [op |-> "write"])
    /\ UNCHANGED <<time, open, message, mark, paging>>

NextMessage == Cardinality({m \in Messages : message[m] # NoMessage}) + 1

WriteMessage(u) ==
    /\ sending[u].op = "write"
    /\ NextMessage \in Messages
    /\ message' = [message EXCEPT ![NextMessage] = [state |-> "WRITTEN", at |-> time, by |-> u]]
    /\ Turn(u, [op |-> "commit", message |-> NextMessage])
    /\ UNCHANGED <<time, open, mark, paging>>

\* The sender has read what is older than the message.  One who was no participant
\* joins: his row is written just before the message, at a moment taken for the same.
CommitMessage(u) ==
    /\ sending[u].op = "commit"
    /\ LET m == sending[u].message IN
          /\ message' = [message EXCEPT ![m].state = "SENT"]
          /\ mark' = [mark EXCEPT ![u] = message[m].at]
    /\ Turn(u, [op |-> "idle"])
    /\ UNCHANGED <<time, open, paging>>

CloseConversation ==
    /\ open
    /\ open' = FALSE
    /\ UNCHANGED <<time, message, mark, sending, paging>>

DeleteMessage(m) ==
    /\ Sent(m)
    /\ message' = [message EXCEPT ![m].state = "DELETED"]
    /\ UNCHANGED <<time, open, mark, sending, paging>>

\* Up to a message, which may be older than the mark and deleted, or to now.
MarkMessagesRead(u) ==
    /\ mark[u] # NoMark
    /\ \E at \in {time} \cup {message[m].at : m \in {x \in Messages : message[x].state \in {"SENT", "DELETED"}}} :
          mark' = [mark EXCEPT ![u] = at]
    /\ UNCHANGED <<time, open, message, sending, paging>>

-----------------------------------------------------------------------------
(* list *)

StartPaging ==
    /\ paging.op = "idle"
    /\ paging' = [op |-> "read", before |-> LastTime + 1,
                  there |-> {m \in Messages : Sent(m)}, seen |-> {}]
    /\ UNCHANGED <<time, open, message, mark, sending>>

\* Mistake: the order is not turned round.
OldestFirst(P, Q) == \A p \in P, q \in Q \ P : message[p].at <= message[q].at

\* P is what Q begins with by descending time.
LatestFirst(P, Q) == \A p \in P, q \in Q \ P : message[p].at >= message[q].at

\* A page is full as long as there may be more; its oldest message is the cursor,
\* of messages that have the same time any one.
ReadPage ==
    /\ paging.op = "read"
    /\ LET Q == {m \in Messages : Sent(m) /\ message[m].at < paging.before} IN
          \E P \in SUBSET Q :
             /\ LatestFirst(P, Q)
             /\ IF Cardinality(Q) < PageSize
                THEN P = Q /\ paging' = [paging EXCEPT !.op = "end", !.seen = @ \cup P]
                ELSE /\ Cardinality(P) = PageSize
                     /\ \E c \in P :
                           /\ \A p \in P : message[c].at <= message[p].at
                           /\ paging' = [paging EXCEPT !.seen = @ \cup P, !.before = message[c].at]
    /\ UNCHANGED <<time, open, message, mark, sending>>

ChatNext ==
    \/ Elapse \/ CloseConversation \/ StartPaging \/ ReadPage
    \/ \E u \in Senders :
          \/ SendMessage(u) \/ WriteMessage(u) \/ CommitMessage(u) \/ MarkMessagesRead(u)
    \/ \E m \in Messages : DeleteMessage(m)

ChatSpec == ChatInit /\ [][ChatNext]_chatVars

-----------------------------------------------------------------------------
(* Properties *)

\* Whoever pages to the end of the history has got every message that was there
\* when he began, although messages are sent, come late and are deleted
\* meanwhile, the cursor itself among them, unless it was deleted or is of the
\* same millisecond as another one of a page he got (list).
PagesCoverHistory ==
    paging.op = "end" =>
        \A m \in paging.there \ paging.seen :
            \/ ~Sent(m)
            \/ \E x \in paging.seen : message[x].at = message[m].at
=============================================================================
