------------------------------- MODULE MCOffice -------------------------------
(***************************************************************************)
(* Messages, conversations, lists, statistics and notifications share no   *)
(* variable: each is explored on its own, while the others stay as in the  *)
(* beginning.                                                              *)
(***************************************************************************)
EXTENDS Chat, Conversations, Listings, Reports, Notices, TLC

MCMessages == 1..3
MCTalks == 1..2
MCTokens == 1..3
MCSpan == "WEEKLY" :> 2

\* The component that is explored.
VARIABLE part

officeVars == <<part, chatVars, conversationsVars, listingsVars, reportsVars, noticesVars>>

InChat == part = "chat" /\ UNCHANGED <<part, conversationsVars, listingsVars, reportsVars, noticesVars>>
InTalks == part = "talks" /\ UNCHANGED <<part, chatVars, listingsVars, reportsVars, noticesVars>>
InLists == part = "lists" /\ UNCHANGED <<part, chatVars, conversationsVars, reportsVars, noticesVars>>
InReports == part = "reports" /\ UNCHANGED <<part, chatVars, conversationsVars, listingsVars, noticesVars>>
InNotices == part = "notices" /\ UNCHANGED <<part, chatVars, conversationsVars, listingsVars, reportsVars>>

\* The other parts do not depend on which list is read, whom notifications
\* reach or whose devices are registered.
MCInit ==
    /\ part \in {"chat", "talks", "lists", "reports", "notices"}
    /\ ChatInit /\ ConversationsInit /\ ListingsInit /\ ReportsInit /\ NoticesInit
    /\ part # "lists" => list = NotificationList
    /\ part # "notices" => allowed = {} /\ \A t \in Tokens : device[t] = None

MCChatNext ==
    \/ InChat /\ Elapse
    \/ InChat /\ CloseConversation
    \/ InChat /\ StartPaging
    \/ InChat /\ ReadPage
    \/ \E u \in Senders :
          \/ InChat /\ SendMessage(u)
          \/ InChat /\ WriteMessage(u)
          \/ InChat /\ CommitMessage(u)
          \/ InChat /\ MarkMessagesRead(u)
    \/ \E m \in Messages : InChat /\ DeleteMessage(m)

\* Clients ask for the support and the vendor, and helpers for anybody else; for
\* the order's a helper asks like a member of the vendor.
MCTalksNext ==
    \/ \E t \in Tasks :
          \/ InTalks /\ WriteConversation(t)
          \/ InTalks /\ WriteParticipant(t)
    \/ \E t \in Callers :
          \/ \E u \in Clients \cup Team \cup Riders : InTalks /\ CreateOrderConversation(t, u)
          \/ \E u \in Clients : InTalks /\ CreateSupportConversation(t, u)
          \/ \E u \in Clients : InTalks /\ CreateVendorConversation(t, u)
          \/ \E u \in Helpers : \E o \in (Clients \cup Team) \ {u} : InTalks /\ CreateDirectConversation(t, u, o)
    \/ \E c \in Talks :
          \/ InTalks /\ CloseTalk(c)
          \/ \E u \in Helpers : InTalks /\ JoinBySending(u, c)
    \/ InTalks /\ AcceptOrder
    \/ InTalks /\ HandleAccepted
    \/ InTalks /\ QueueDispatch
    \/ InTalks /\ ListenerDies
    \/ InTalks /\ RequeueStuck
    \/ InTalks /\ HandleAssigned
    \/ InTalks /\ AssignedDies
    \/ \E d \in Riders :
          \/ InTalks /\ TakeTrip(d)
          \/ InTalks /\ ForceAssign(d)

MCListsNext ==
    \/ InLists /\ RowComes
    \/ InLists /\ StartReading
    \/ InLists /\ ReadRows
    \/ \E i \in DOMAIN rows :
          \/ InLists /\ RowLeaves(i)
          \/ InLists /\ RowMoves(i)
          \/ InLists /\ CleanUpRows(i - 1)

MCReportsNext ==
    \/ InReports /\ NextDay
    \/ InReports /\ StatisticsCleanup
    \/ \E r \in Reporters :
          \/ \E P \in SUBSET Parties : InReports /\ RecordCancellation(r, P)
          \/ InReports /\ RecordDispatchSent(r)
          \/ InReports /\ RecordResponse(r)
          \/ \E x \in report[r].left :
                \/ InReports /\ Upsert(r, x)
                \/ InReports /\ UpsertFails(r, x)

MCNoticesNext ==
    \/ \E u \in Owners :
          \/ \E t \in Tokens :
                \/ InNotices /\ RegisterDevice(u, t)
                \/ InNotices /\ RemoveDevice(u, t)
          \/ \E n \in News :
                \/ InNotices /\ CreateNotice(n, u)
                \/ InNotices /\ MarkRead(u, n)
                \/ InNotices /\ DeleteNotice(u, n)
          \/ InNotices /\ MarkAllRead(u)
          \/ InNotices /\ DeleteAllRead(u)
    \/ \E n \in News :
          \/ \E A, B \in SUBSET Tokens : InNotices /\ SendBatch(n, A, B)
          \/ InNotices /\ DispatchPush(n)
          \/ InNotices /\ StartSending(n)
          \/ InNotices /\ BatchFails(n)
          \/ InNotices /\ FinishSending(n)
          \/ InNotices /\ WorkerDies(n)

MCNext == MCChatNext \/ MCTalksNext \/ MCListsNext \/ MCReportsNext \/ MCNoticesNext

MCSpec == MCInit /\ [][MCNext]_officeVars

OfficeTypeOK ==
    ChatTypeOK /\ ConversationsTypeOK /\ ListingsTypeOK /\ ReportsTypeOK /\ NoticesTypeOK

\* Whoever reads page by page, with a cursor or by page numbers, misses nothing
\* but what is moved about under him, and messages of the same millisecond as one at
\* the end of a page (list, findAll, ...).
PagesComplete == PagesCoverHistory /\ RowsMissedFew
=============================================================================
