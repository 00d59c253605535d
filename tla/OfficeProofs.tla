----------------------------- MODULE OfficeProofs -----------------------------
(***************************************************************************)
(* What users see, for any number of users, messages, conversations, rows, *)
(* events and notifications.                                               *)
(*                                                                         *)
(* Messages: the history that is paged through grows at its new end only,  *)
(* but for messages of the same millisecond.  Conversations: as long as an *)
(* assignment is to be handled, or one is being written for it, the driver *)
(* is on his way in.  Lists: what a reader may miss is bounded by the rows *)
(* that left from before his place.  Statistics: the days of a period and  *)
(* the period count the same, with what is to come, but for what failed.   *)
(* Notifications: whoever answered has a token before the next batch.      *)
(***************************************************************************)
EXTENDS MCOffice, Sums, SequenceTheorems

-----------------------------------------------------------------------------
(* Chat *)

MessagesFilled ==
    \E n \in 0..Cardinality(Messages) : {m \in Messages : message[m] # NoMessage} = 1..n

\* Whoever is about to commit commits a message of his own that nobody can see yet.
CommitsSound ==
    \A u \in Senders : sending[u].op = "commit" =>
        /\ message[sending[u].message].state = "WRITTEN"
        /\ \A v \in Senders : sending[v].op = "commit" /\ sending[v].message = sending[u].message => v = u

Seeable(m) == message[m].state \in {"SENT", "DELETED"}

\* Nothing that is to be read is behind the cursor, but for the milliseconds of what
\* was read.
Ahead(m) ==
    \/ ~Sent(m)
    \/ message[m].at < paging.before
    \/ \E x \in paging.seen : message[x].at = message[m].at

PagingSound ==
    /\ paging.op # "idle" => \A m \in paging.there \cup paging.seen : Seeable(m)
    /\ paging.op = "read" => \A m \in paging.there \ paging.seen : Ahead(m)
    /\ PagesCoverHistory

ChatIInv == ChatTypeOK /\ MessagesFilled /\ CommitsSound /\ PagingSound

LEMMA SendingForms ==
    /\ [op |-> "idle"] \in {[op |-> "idle"], [op |-> "write"]} \cup [op : {"commit"}, message : Messages]
    /\ \A m \in Messages :
          [op |-> "commit", message |-> m] \in
             {[op |-> "idle"], [op |-> "write"]} \cup [op : {"commit"}, message : Messages]
OBVIOUS

LEMMA MessageForms ==
    /\ \A s \in {"WRITTEN", "SENT", "DELETED"}, a \in Times, u \in Senders :
          [state |-> s, at |-> a, by |-> u] \in MessageRows \ {NoMessage}
    /\ \A r \in MessageRows \ {NoMessage} :
          /\ r.state \in {"WRITTEN", "SENT", "DELETED"} /\ r.at \in Times /\ r.by \in Senders
          /\ \A s \in {"WRITTEN", "SENT", "DELETED"} :
                /\ [r EXCEPT !.state = s] \in MessageRows \ {NoMessage}
                /\ [r EXCEPT !.state = s].at = r.at
                /\ [r EXCEPT !.state = s].state = s
BY DEF MessageRows, NoMessage

LEMMA SeeableFacts ==
    ASSUME ChatTypeOK, NEW m \in Messages, message[m].state \in {"WRITTEN", "SENT", "DELETED"}
    PROVE  message[m] \in MessageRows \ {NoMessage} /\ message[m].at \in Times
<1>1. message[m] \in MessageRows \ {NoMessage}
  BY DEF ChatTypeOK, NoMessage
<1> QED
  BY <1>1, MessageForms

LEMMA SendingShape ==
    ASSUME ChatTypeOK, NEW u \in Senders
    PROVE  sending[u].op = "commit" => sending[u].message \in Messages
<1>1. sending[u] \in {[op |-> "idle"], [op |-> "write"]} \cup [op : {"commit"}, message : Messages]
  BY DEF ChatTypeOK
<1>2. CASE sending[u] \in {[op |-> "idle"], [op |-> "write"]}
  BY <1>2
<1>3. CASE sending[u] \in [op : {"commit"}, message : Messages]
  BY <1>3
<1> QED
  BY <1>1, <1>2, <1>3

LEMMA PagingShape ==
    ASSUME ChatTypeOK, paging.op # "idle"
    PROVE  /\ paging.op \in {"read", "end"} /\ paging.before \in 0..(LastTime + 1)
           /\ paging.there \in SUBSET Messages /\ paging.seen \in SUBSET Messages
           /\ paging = [op |-> paging.op, before |-> paging.before,
                        there |-> paging.there, seen |-> paging.seen]
<1>1. paging \in PagingRecords
  BY DEF ChatTypeOK
<1> QED
  BY <1>1 DEF PagingRecords

\* Messages that can be read stay where they are, and none comes back.
LEMMA PagingKept ==
    ASSUME ChatIInv, paging' = paging,
           \A m \in Messages : Seeable(m) =>
              /\ Seeable(m)' /\ message'[m].at = message[m].at
              /\ Sent(m)' => Sent(m)
    PROVE  PagingSound'
<1>1. CASE paging.op = "idle"
  BY <1>1 DEF PagingSound, PagesCoverHistory
<1>2. CASE paging.op # "idle"
  <2>1. /\ paging.there \in SUBSET Messages /\ paging.seen \in SUBSET Messages
        /\ \A m \in paging.there \cup paging.seen : Seeable(m)
    BY <1>2, PagingShape DEF ChatIInv, PagingSound
  <2>2. \A m \in paging.there \cup paging.seen :
           /\ Seeable(m)' /\ message'[m].at = message[m].at /\ (Sent(m)' => Sent(m))
    BY <2>1
  <2>3. paging.op = "read" => \A m \in paging.there \ paging.seen : Ahead(m)'
    BY <2>2 DEF ChatIInv, PagingSound, Ahead
  <2>4. PagesCoverHistory'
    BY <2>2 DEF ChatIInv, PagingSound, PagesCoverHistory
  <2> QED
    BY <2>2, <2>3, <2>4 DEF PagingSound
<1> QED
  BY <1>1, <1>2

LEMMA NextMessageIsFree ==
    ASSUME ChatIInv
    PROVE  /\ NextMessage \in Nat \ {0}
           /\ {m \in Messages : message[m] # NoMessage} = 1..(NextMessage - 1)
           /\ NextMessage \in Messages => message[NextMessage] = NoMessage
<1>1. PICK n \in 0..Cardinality(Messages) : {m \in Messages : message[m] # NoMessage} = 1..n
  BY DEF ChatIInv, MessagesFilled
<1>2. Cardinality(Messages) \in Nat
  BY ChatAssumption, FS_CardinalityType
<1>3. NextMessage = n + 1
  <2>1. n \in Nat /\ Cardinality(1..n) = n
    BY <1>2, FS_Interval
  <2> QED
    BY <1>1, <2>1 DEF NextMessage
<1> HIDE DEF NextMessage
<1> QED
  BY <1>1, <1>2, <1>3

LEMMA SameMessagesFilled ==
    ASSUME ChatIInv, \A m \in Messages : message'[m] = NoMessage <=> message[m] = NoMessage
    PROVE  MessagesFilled'
<1>1. {m \in Messages : message'[m] # NoMessage} = {m \in Messages : message[m] # NoMessage}
  OBVIOUS
<1> QED
  BY <1>1 DEF ChatIInv, MessagesFilled

LEMMA ChatInitIInv == ASSUME ChatInit PROVE ChatIInv
<1>1. ChatTypeOK
  <2>1. 0 \in Times
    BY ChatAssumption DEF Times
  <2>2. mark \in [Senders -> Times \cup {NoMark}]
    BY <2>1 DEF ChatInit
  <2>3. NoMessage \in MessageRows /\ [op |-> "idle"] \in PagingRecords
    BY DEF MessageRows, PagingRecords
  <2> QED
    BY <2>1, <2>2, <2>3, SendingForms DEF ChatInit, ChatTypeOK
<1>2. MessagesFilled
  <2>1. {m \in Messages : message[m] # NoMessage} = 1..0
    BY DEF ChatInit
  <2>2. 0 \in 0..Cardinality(Messages)
    BY ChatAssumption, FS_CardinalityType
  <2> QED
    BY <2>1, <2>2 DEF MessagesFilled
<1>3. CommitsSound /\ PagingSound
  BY DEF ChatInit, CommitsSound, PagingSound, PagesCoverHistory
<1> QED
  BY <1>1, <1>2, <1>3 DEF ChatIInv

\* Neither messages nor the reader change.
LEMMA AsideStep ==
    ASSUME ChatIInv, ChatTypeOK', UNCHANGED <<message, paging>>,
           \A u \in Senders : sending'[u] = sending[u] \/ sending'[u].op # "commit"
    PROVE  ChatIInv'
<1>1. MessagesFilled'
  BY SameMessagesFilled
<1>2. CommitsSound'
  BY DEF ChatIInv, CommitsSound
<1>3. PagingSound'
  BY PagingKept DEF Seeable, Sent
<1> QED
  BY <1>1, <1>2, <1>3 DEF ChatIInv

LEMMA ClockStep ==
    ASSUME ChatIInv, Elapse \/ CloseConversation
    PROVE  ChatIInv'
<1>1. time' \in Times
  BY ChatAssumption DEF ChatIInv, ChatTypeOK, Elapse, CloseConversation, Times
<1>2. ChatTypeOK'
  BY <1>1 DEF ChatIInv, ChatTypeOK, Elapse, CloseConversation
<1> QED
  BY <1>2, AsideStep DEF Elapse, CloseConversation

LEMMA SendMessageStep ==
    ASSUME ChatIInv, NEW u \in Senders, SendMessage(u)
    PROVE  ChatIInv'
<1>1. ChatTypeOK'
  <2>1. sending' = [sending EXCEPT ![u] = [op |-> "write"]]
    BY DEF SendMessage, Turn
  <2> QED
    BY <2>1 DEF ChatIInv, ChatTypeOK, SendMessage
<1>2. \A v \in Senders : sending'[v] = sending[v] \/ sending'[v].op # "commit"
  BY DEF ChatIInv, ChatTypeOK, SendMessage, Turn
<1> QED
  BY <1>1, <1>2, AsideStep DEF SendMessage

LEMMA MarkReadStep ==
    ASSUME ChatIInv, NEW u \in Senders, MarkMessagesRead(u)
    PROVE  ChatIInv'
<1>1. ChatTypeOK
  BY DEF ChatIInv
<1>2. PICK at \in {time} \cup {message[m].at : m \in {x \in Messages : message[x].state \in {"SENT", "DELETED"}}} :
         mark' = [mark EXCEPT ![u] = at]
  BY DEF MarkMessagesRead
<1>3. at \in Times
  <2>1. CASE at = time
    BY <1>1, <2>1 DEF ChatTypeOK
  <2>2. CASE at # time
    <3>1. PICK m \in Messages : message[m].state \in {"SENT", "DELETED"} /\ at = message[m].at
      BY <2>2
    <3> QED
      BY <1>1, <3>1, SeeableFacts
  <2> QED
    BY <2>1, <2>2
<1>4. ChatTypeOK'
  BY <1>1, <1>2, <1>3 DEF ChatTypeOK, MarkMessagesRead
<1> QED
  BY <1>4, AsideStep DEF MarkMessagesRead

LEMMA WriteMessageStep ==
    ASSUME ChatIInv, NEW u \in Senders, WriteMessage(u)
    PROVE  ChatIInv'
<1> DEFINE n == NextMessage
           row == [state |-> "WRITTEN", at |-> time, by |-> u]
           r == [op |-> "commit", message |-> n]
<1>1. /\ ChatTypeOK /\ n \in Messages /\ message[n] = NoMessage /\ n \in Nat \ {0}
      /\ {m \in Messages : message[m] # NoMessage} = 1..(n - 1)
  BY NextMessageIsFree DEF ChatIInv, WriteMessage
<1>2. /\ message' = [message EXCEPT ![n] = row] /\ sending' = [sending EXCEPT ![u] = r]
      /\ UNCHANGED <<time, open, mark, paging>>
  BY DEF WriteMessage, Turn
<1> HIDE DEF n
<1>3. row \in MessageRows \ {NoMessage} /\ row.state = "WRITTEN"
  BY <1>1, MessageForms DEF ChatTypeOK
<1>4. r \in {[op |-> "idle"], [op |-> "write"]} \cup [op : {"commit"}, message : Messages]
  BY <1>1
<1>5. r.op = "commit" /\ r.message = n
  OBVIOUS
<1> HIDE DEF row, r
<1>6. ChatTypeOK'
  BY <1>1, <1>2, <1>3, <1>4 DEF ChatTypeOK
<1>7. message'[n] = row /\ \A m \in Messages : m # n => message'[m] = message[m]
  BY <1>1, <1>2 DEF ChatTypeOK
<1>8. MessagesFilled'
  <2>1. {m \in Messages : message'[m] # NoMessage} = (1..(n - 1)) \cup {n}
    BY <1>1, <1>3, <1>7
  <2>2. (1..(n - 1)) \cup {n} = 1..n
    BY <1>1
  <2>3. n \in 0..Cardinality(Messages)
    BY <1>1, ChatAssumption, FS_CardinalityType
  <2> QED
    BY <2>1, <2>2, <2>3 DEF MessagesFilled
<1>9. sending'[u] = r /\ \A v \in Senders : v # u => sending'[v] = sending[v]
  BY <1>1, <1>2 DEF ChatTypeOK
<1>10. \A v \in Senders : sending[v].op = "commit" =>
          /\ sending[v].message \in Messages /\ sending[v].message # n
          /\ message[sending[v].message].state = "WRITTEN"
  BY <1>1, SendingShape DEF ChatIInv, CommitsSound, NoMessage
<1>11. CommitsSound'
  BY <1>3, <1>5, <1>7, <1>9, <1>10 DEF ChatIInv, CommitsSound
<1>12. PagingSound'
  <2>1. \A m \in Messages : Seeable(m) => m # n
    BY <1>1 DEF Seeable, NoMessage
  <2> QED
    BY <1>2, <1>7, <2>1, PagingKept DEF Seeable, Sent
<1> QED
  BY <1>6, <1>8, <1>11, <1>12 DEF ChatIInv

LEMMA CommitMessageStep ==
    ASSUME ChatIInv, NEW u \in Senders, CommitMessage(u)
    PROVE  ChatIInv'
<1> DEFINE m == sending[u].message
           row == [message[m] EXCEPT !.state = "SENT"]
           at == message[m].at
<1>1. /\ ChatTypeOK /\ m \in Messages /\ message[m].state = "WRITTEN"
      /\ sending[u].op = "commit"
      /\ \A v \in Senders : sending[v].op = "commit" /\ sending[v].message = m => v = u
  BY SendingShape DEF ChatIInv, CommitsSound, CommitMessage
<1>2. message[m] \in MessageRows \ {NoMessage} /\ message[m].at \in Times
  BY <1>1, SeeableFacts
<1>3. row \in MessageRows \ {NoMessage} /\ row.state = "SENT"
  BY <1>2, MessageForms
<1>4. at \in Times
  BY <1>1, <1>2 DEF ChatTypeOK
<1>5. /\ message' = [message EXCEPT ![m] = row] /\ mark' = [mark EXCEPT ![u] = at]
      /\ sending' = [sending EXCEPT ![u] = [op |-> "idle"]]
      /\ UNCHANGED <<time, open, paging>>
  BY DEF CommitMessage, Turn
<1> HIDE DEF m, row, at
<1>6. ChatTypeOK'
  BY <1>1, <1>3, <1>4, <1>5, SendingForms DEF ChatTypeOK
<1>7. message'[m] = row /\ \A x \in Messages : x # m => message'[x] = message[x]
  BY <1>1, <1>5 DEF ChatTypeOK
<1>8. MessagesFilled'
  BY <1>2, <1>3, <1>7, SameMessagesFilled
<1>9. sending'[u].op = "idle" /\ \A v \in Senders : v # u => sending'[v] = sending[v]
  BY <1>1, <1>5 DEF ChatTypeOK
<1>10. \A v \in Senders : sending[v].op = "commit" => sending[v].message \in Messages
  BY <1>1, SendingShape
<1>11. CommitsSound'
  BY <1>1, <1>7, <1>9, <1>10 DEF ChatIInv, CommitsSound
<1>12. PagingSound'
  <2>1. \A x \in Messages : Seeable(x) => x # m
    BY <1>1 DEF Seeable
  <2> QED
    BY <1>5, <1>7, <2>1, PagingKept DEF Seeable, Sent
<1> QED
  BY <1>6, <1>8, <1>11, <1>12 DEF ChatIInv

LEMMA DeleteMessageStep ==
    ASSUME ChatIInv, NEW m \in Messages, DeleteMessage(m)
    PROVE  ChatIInv'
<1> DEFINE row == [message[m] EXCEPT !.state = "DELETED"]
<1>1. ChatTypeOK /\ message[m].state = "SENT"
  BY DEF ChatIInv, DeleteMessage, Sent
<1>2. message[m] \in MessageRows \ {NoMessage}
  BY <1>1, SeeableFacts
<1>3. row \in MessageRows \ {NoMessage} /\ row.state = "DELETED" /\ row.at = message[m].at
  BY <1>2, MessageForms
<1>4. message' = [message EXCEPT ![m] = row] /\ UNCHANGED <<time, open, mark, sending, paging>>
  BY DEF DeleteMessage
<1> HIDE DEF row
<1>5. ChatTypeOK'
  BY <1>1, <1>3, <1>4 DEF ChatTypeOK
<1>6. message'[m] = row /\ \A x \in Messages : x # m => message'[x] = message[x]
  BY <1>1, <1>4 DEF ChatTypeOK
<1>7. MessagesFilled'
  BY <1>2, <1>3, <1>6, SameMessagesFilled
<1>8. CommitsSound'
  <2>1. \A v \in Senders : sending[v].op = "commit" =>
           message'[sending[v].message] = message[sending[v].message]
    BY <1>1, <1>6, SendingShape DEF ChatIInv, CommitsSound
  <2> QED
    BY <1>4, <2>1 DEF ChatIInv, CommitsSound
<1>9. PagingSound'
  BY <1>1, <1>3, <1>4, <1>6, PagingKept DEF Seeable, Sent
<1> QED
  BY <1>5, <1>7, <1>8, <1>9 DEF ChatIInv

LEMMA StartPagingStep ==
    ASSUME ChatIInv, StartPaging
    PROVE  ChatIInv'
<1> DEFINE T == {m \in Messages : Sent(m)}
<1>1. /\ ChatTypeOK /\ UNCHANGED <<time, open, message, mark, sending>>
      /\ paging' = [op |-> "read", before |-> LastTime + 1, there |-> T, seen |-> {}]
  BY DEF ChatIInv, StartPaging
<1>2. T \in SUBSET Messages /\ \A m \in T : Sent(m) /\ Seeable(m) /\ message[m].at < LastTime + 1
  <2>1. \A m \in T : message[m].at \in Times
    BY <1>1, SeeableFacts DEF Sent
  <2> QED
    BY <2>1, ChatAssumption DEF Times, Sent, Seeable
<1> HIDE DEF T
<1>3. paging' \in PagingRecords
  BY <1>1, <1>2, ChatAssumption DEF PagingRecords
<1>4. ChatTypeOK'
  BY <1>1, <1>3 DEF ChatTypeOK
<1>5. MessagesFilled' /\ CommitsSound'
  BY <1>1 DEF ChatIInv, MessagesFilled, CommitsSound
<1>6. PagingSound'
  BY <1>1, <1>2 DEF PagingSound, PagesCoverHistory, Seeable, Ahead
<1> QED
  BY <1>4, <1>5, <1>6 DEF ChatIInv

LEMMA ReadPageStep ==
    ASSUME ChatIInv, ReadPage
    PROVE  ChatIInv'
<1> DEFINE Q == {m \in Messages : Sent(m) /\ message[m].at < paging.before}
<1>1. /\ ChatTypeOK /\ paging.op = "read" /\ UNCHANGED <<time, open, message, mark, sending>>
  BY DEF ChatIInv, ReadPage
<1>2. PICK P \in SUBSET Q :
             /\ LatestFirst(P, Q)
             /\ \/ P = Q /\ paging' = [paging EXCEPT !.op = "end", !.seen = @ \cup P]
                \/ \E c \in P :
                      /\ \A p \in P : message[c].at <= message[p].at
                      /\ paging' = [paging EXCEPT !.seen = @ \cup P, !.before = message[c].at]
  BY DEF ReadPage
<1>3. /\ Q \in SUBSET Messages /\ \A m \in Q : Sent(m) /\ Seeable(m) /\ message[m].at < paging.before
      /\ \A m \in Messages : Sent(m) /\ message[m].at < paging.before => m \in Q
  BY DEF Seeable, Sent
<1>4. \A m \in Q : message[m].at \in Times
  BY <1>1, <1>3, SeeableFacts DEF Sent
<1> HIDE DEF Q
<1>5. /\ paging.there \in SUBSET Messages /\ paging.seen \in SUBSET Messages
      /\ paging.before \in 0..(LastTime + 1)
      /\ paging = [op |-> "read", before |-> paging.before, there |-> paging.there, seen |-> paging.seen]
      /\ \A m \in paging.there \cup paging.seen : Seeable(m)
      /\ \A m \in paging.there \ paging.seen : Ahead(m)
  BY <1>1, PagingShape DEF ChatIInv, PagingSound
<1>6. \A m \in paging.there : message[m].at \in Times
  BY <1>1, <1>5, SeeableFacts DEF Seeable
<1>7. MessagesFilled' /\ CommitsSound'
  BY <1>1 DEF ChatIInv, MessagesFilled, CommitsSound
<1>8. CASE P = Q /\ paging' = [paging EXCEPT !.op = "end", !.seen = @ \cup P]
  <2>1. paging' = [op |-> "end", before |-> paging.before, there |-> paging.there,
                   seen |-> paging.seen \cup P]
    BY <1>5, <1>8
  <2>2. ChatTypeOK'
    <3>1. paging' \in PagingRecords
      BY <1>3, <1>5, <2>1 DEF PagingRecords
    <3> QED
      BY <1>1, <3>1 DEF ChatTypeOK
  <2>3. PagingSound'
    BY <1>1, <1>3, <1>5, <1>8, <2>1 DEF PagingSound, PagesCoverHistory, Seeable, Sent, Ahead
  <2> QED
    BY <1>7, <2>2, <2>3 DEF ChatIInv
<1>9. ASSUME NEW c \in P, \A p \in P : message[c].at <= message[p].at,
             paging' = [paging EXCEPT !.seen = @ \cup P, !.before = message[c].at]
      PROVE  ChatIInv'
  <2>1. paging' = [op |-> "read", before |-> message[c].at, there |-> paging.there,
                   seen |-> paging.seen \cup P]
    <3> DEFINE read == [paging EXCEPT !.seen = @ \cup P]
    <3>1. paging = [op |-> "read", before |-> paging.before, there |-> paging.there, seen |-> paging.seen]
      BY <1>5
    <3>2. read = [op |-> "read", before |-> paging.before, there |-> paging.there,
                  seen |-> paging.seen \cup P]
      BY <3>1
    <3>3. paging' = [read EXCEPT !.before = message[c].at]
      BY <1>9
    <3> QED
      BY <3>2, <3>3
  <2>2. message[c].at \in Times
    BY <1>4
  <2>3. ChatTypeOK'
    <3>1. paging' \in PagingRecords
      BY <1>3, <1>5, <2>1, <2>2, ChatAssumption DEF PagingRecords, Times
    <3> QED
      BY <1>1, <3>1 DEF ChatTypeOK
  <2>4. ASSUME NEW m \in paging.there \ (paging.seen \cup P)
        PROVE  \/ ~Sent(m) \/ message[m].at < message[c].at
               \/ \E x \in paging.seen \cup P : message[x].at = message[m].at
    <3>1. Ahead(m)
      BY <1>5
    <3>2. CASE Sent(m) /\ message[m].at < paging.before
      <4>1. m \in Q \ P
        BY <1>3, <1>5, <3>2
      <4>2. message[c].at >= message[m].at
        BY <1>2, <4>1 DEF LatestFirst
      <4>3. message[c].at \in Int /\ message[m].at \in Int
        BY <1>6, <2>2, ChatAssumption DEF Times
      <4>4. message[m].at < message[c].at \/ message[c].at = message[m].at
        BY <4>2, <4>3
      <4> QED
        BY <4>4
    <3> QED
      BY <3>1, <3>2 DEF Ahead
  <2>5. PagingSound'
    BY <1>1, <1>3, <1>5, <2>1, <2>4 DEF PagingSound, PagesCoverHistory, Seeable, Sent, Ahead
  <2> QED
    BY <1>7, <2>3, <2>5 DEF ChatIInv
<1> QED
  BY <1>2, <1>8, <1>9

LEMMA ChatStepIInv == ASSUME ChatIInv, [ChatNext]_chatVars PROVE ChatIInv'
<1>1. CASE ChatNext
  BY <1>1, ClockStep, StartPagingStep, ReadPageStep, SendMessageStep, WriteMessageStep,
     CommitMessageStep, MarkReadStep, DeleteMessageStep DEF ChatNext
<1>2. CASE UNCHANGED chatVars
  <2>1. ChatTypeOK'
    BY <1>2 DEF ChatIInv, ChatTypeOK, chatVars
  <2> QED
    BY <1>2, <2>1, AsideStep DEF chatVars
<1> QED
  BY <1>1, <1>2

-----------------------------------------------------------------------------
(* Conversations *)

TalksFilled ==
    \E n \in 0..Cardinality(Talks) : {c \in Talks : talk[c] # NoTalk} = 1..n

OrderTalk(c) == talk[c] # NoTalk /\ talk[c].kind = "ORDER"

\* The listener of the acceptance only opens, that of the assignment only adds.
TasksSound ==
    /\ task["accepted"].op \in {"idle", "create"}
    /\ task["accepted"].op = "create" => task["accepted"].kind = "ORDER"
    /\ task["assigned"].op \in {"idle", "join"}
    /\ \A t \in Tasks : task[t].op = "join" => talk[task[t].talk] # NoTalk

\* A listener that is through has left a conversation behind.
TripSound ==
    /\ trip.listener = "working" => task["accepted"].op = "create" \/ \E c \in Talks : OrderTalk(c)
    /\ trip.listener = "done" => \E c \in Talks : OrderTalk(c)
    /\ trip.rider = "none" => trip.told = "nobody"
    /\ trip.by = "dispatch" => trip.rider # "none"
    /\ trip.by = "dispatch" /\ trip.met = "conversation" => \E c \in Talks : OrderTalk(c)

\* A driver who was told of takes part, is about to, or somebody closed one.
RiderSound ==
    trip.by = "dispatch" /\ trip.told = trip.rider /\ trip.met = "conversation" =>
        \E c \in Talks :
            /\ OrderTalk(c)
            /\ \/ talk[c].state = "CLOSED"
               \/ trip.rider \in talk[c].members
               \/ /\ task["assigned"].op = "join" /\ task["assigned"].talk = c
                  /\ task["assigned"].who = trip.rider

\* What is opened after a driver found neither a conversation nor one on the way
\* is opened with him.
LaterSound ==
    trip.by = "dispatch" /\ trip.met = "neither" =>
        /\ \A t \in BeingOpened : trip.rider \in task[t].members
        /\ trip.told = trip.rider => \A c \in OpenTalks("ORDER") : trip.rider \in talk[c].members

TalksIInv == ConversationsTypeOK /\ TalksFilled /\ TasksSound /\ TripSound /\ RiderSound /\ LaterSound

\* A request that opens a conversation about the order opens it with the driver.
Fresh(r) == r.op = "create" /\ r.kind = "ORDER" => trip.rider \in r.members \cup {"none"}

Requests == {[op |-> "idle"]}
          \cup [op : {"create"}, kind : Kinds, creator : People \cup {"system"}, members : SUBSET People]
          \cup [op : {"join"}, talk : Talks, who : People]

LEMMA RequestForms ==
    /\ [op |-> "idle"] \in Requests
    /\ \A k \in Kinds, u \in People \cup {"system"}, M \in SUBSET People :
          [op |-> "create", kind |-> k, creator |-> u, members |-> M] \in Requests
    /\ \A c \in Talks, u \in People : [op |-> "join", talk |-> c, who |-> u] \in Requests
<1>1. [op |-> "idle"] \in Requests
  BY DEF Requests
<1>2. \A k \in Kinds, u \in People \cup {"system"}, M \in SUBSET People :
          [op |-> "create", kind |-> k, creator |-> u, members |-> M] \in Requests
  BY DEF Requests
<1>3. \A c \in Talks, u \in People : [op |-> "join", talk |-> c, who |-> u] \in Requests
  BY DEF Requests
<1> QED
  BY <1>1, <1>2, <1>3

LEMMA RequestFacts ==
    ASSUME NEW r \in Requests
    PROVE  /\ r.op \in {"idle", "create", "join"}
           /\ r.op = "create" => r.kind \in Kinds /\ r.creator \in People \cup {"system"} /\ r.members \in SUBSET People
           /\ r.op = "join" => r.talk \in Talks /\ r.who \in People
<1>1. CASE r = [op |-> "idle"]
  BY <1>1
<1>2. CASE r \in [op : {"create"}, kind : Kinds, creator : People \cup {"system"}, members : SUBSET People]
  BY <1>2
<1>3. CASE r \in [op : {"join"}, talk : Talks, who : People]
  BY <1>3
<1> QED
  BY <1>1, <1>2, <1>3 DEF Requests

LEMMA TalksTypes ==
    ConversationsTypeOK <=>
        /\ talk \in [Talks -> {NoTalk} \cup TalkRows]
        /\ task \in [Tasks -> Requests]
        /\ trip \in Trips
BY DEF ConversationsTypeOK, Requests

LEMMA TalkForms ==
    /\ \A s \in {"OPEN", "CLOSED"}, k \in Kinds, u \in People \cup {"system"}, M \in SUBSET People :
          [state |-> s, kind |-> k, creator |-> u, members |-> M] \in TalkRows
    /\ \A r \in TalkRows : 
          /\ r # NoTalk /\ r.kind \in Kinds /\ r.state \in {"OPEN", "CLOSED"}
          /\ r.members \in SUBSET People /\ r.creator \in People \cup {"system"}
          /\ r = [state |-> r.state, kind |-> r.kind, creator |-> r.creator, members |-> r.members]
<1>1. \A s \in {"OPEN", "CLOSED"}, k \in Kinds, u \in People \cup {"system"}, M \in SUBSET People :
          [state |-> s, kind |-> k, creator |-> u, members |-> M] \in TalkRows
  BY DEF TalkRows
<1>2. ASSUME NEW r \in TalkRows
      PROVE  /\ r # NoTalk /\ r.kind \in Kinds /\ r.state \in {"OPEN", "CLOSED"}
             /\ r.members \in SUBSET People /\ r.creator \in People \cup {"system"}
             /\ r = [state |-> r.state, kind |-> r.kind, creator |-> r.creator, members |-> r.members]
  BY DEF TalkRows, NoTalk
<1> QED
  BY <1>1, <1>2

LEMMA TalkClosed ==
    ASSUME NEW r \in TalkRows
    PROVE  /\ [r EXCEPT !.state = "CLOSED"] \in TalkRows
           /\ [r EXCEPT !.state = "CLOSED"].kind = r.kind
           /\ [r EXCEPT !.state = "CLOSED"].members = r.members
           /\ [r EXCEPT !.state = "CLOSED"].state = "CLOSED"
<1>1. r = [state |-> r.state, kind |-> r.kind, creator |-> r.creator, members |-> r.members]
  BY TalkForms
<1>2. [r EXCEPT !.state = "CLOSED"] = [state |-> "CLOSED", kind |-> r.kind, creator |-> r.creator, members |-> r.members]
  BY <1>1
<1> QED
  BY <1>2, TalkForms

LEMMA TalkJoined ==
    ASSUME NEW r \in TalkRows, NEW u \in People
    PROVE  /\ [r EXCEPT !.members = @ \cup {u}] \in TalkRows
           /\ [r EXCEPT !.members = @ \cup {u}].kind = r.kind
           /\ [r EXCEPT !.members = @ \cup {u}].members = r.members \cup {u}
           /\ [r EXCEPT !.members = @ \cup {u}].state = r.state
<1>1. /\ r = [state |-> r.state, kind |-> r.kind, creator |-> r.creator, members |-> r.members]
      /\ r.members \in SUBSET People /\ r.kind \in Kinds /\ r.state \in {"OPEN", "CLOSED"}
      /\ r.creator \in People \cup {"system"}
  BY TalkForms
<1>2. [r EXCEPT !.members = @ \cup {u}] =
      [state |-> r.state, kind |-> r.kind, creator |-> r.creator, members |-> r.members \cup {u}]
  BY <1>1
<1>3. r.members \cup {u} \in SUBSET People
  BY <1>1
<1> QED
  BY <1>1, <1>2, <1>3, TalkForms

\* What there is of the conversations stays.
Grown ==
    \A c \in Talks : talk[c] # NoTalk =>
        /\ talk'[c] # NoTalk /\ talk'[c].kind = talk[c].kind
        /\ talk[c].state = "CLOSED" => talk'[c].state = "CLOSED"
        /\ talk[c].members \subseteq talk'[c].members

Listening == {"waiting", "due", "working", "done", "dead"}
Meetings == {"unknown", "conversation", "opening", "neither"}

LEMMA TripShape ==
    ASSUME trip \in Trips
    PROVE  /\ trip = [status |-> trip.status, rider |-> trip.rider, by |-> trip.by, told |-> trip.told,
                      listener |-> trip.listener, met |-> trip.met]
           /\ trip.status \in {"PENDING", "ACCEPTED", "SEARCHED"} /\ trip.rider \in Riders \cup {"none"}
           /\ trip.by \in {"none", "dispatch", "admin"} /\ trip.told \in Riders \cup {"lost", "nobody"}
           /\ trip.listener \in Listening /\ trip.met \in Meetings
BY DEF Trips, Listening, Meetings

LEMMA TripForms ==
    \A s \in {"PENDING", "ACCEPTED", "SEARCHED"}, d \in Riders \cup {"none"},
       b \in {"none", "dispatch", "admin"}, e \in Riders \cup {"lost", "nobody"},
       h \in Listening, m \in Meetings :
       [status |-> s, rider |-> d, by |-> b, told |-> e, listener |-> h, met |-> m] \in Trips
BY DEF Trips, Listening, Meetings

LEMMA NextTalkIsFree ==
    ASSUME TalksIInv
    PROVE  /\ NextTalk \in Nat \ {0}
           /\ {c \in Talks : talk[c] # NoTalk} = 1..(NextTalk - 1)
           /\ NextTalk \in Talks => talk[NextTalk] = NoTalk
<1>1. PICK n \in 0..Cardinality(Talks) : {c \in Talks : talk[c] # NoTalk} = 1..n
  BY DEF TalksIInv, TalksFilled
<1>2. Cardinality(Talks) \in Nat
  BY ConversationsAssumption, FS_CardinalityType
<1>3. NextTalk = n + 1
  <2>1. n \in Nat /\ Cardinality(1..n) = n
    BY <1>2, FS_Interval
  <2> QED
    BY <1>1, <2>1 DEF NextTalk
<1> HIDE DEF NextTalk
<1> QED
  BY <1>1, <1>2, <1>3

LEMMA SameTalksFilled ==
    ASSUME TalksIInv, \A c \in Talks : talk'[c] = NoTalk <=> talk[c] = NoTalk
    PROVE  TalksFilled'
<1>1. {c \in Talks : talk'[c] # NoTalk} = {c \in Talks : talk[c] # NoTalk}
  OBVIOUS
<1> QED
  BY <1>1 DEF TalksIInv, TalksFilled

LEMMA TalksInitIInv == ASSUME ConversationsInit PROVE TalksIInv
<1>1. ConversationsTypeOK
  BY RequestForms, TripForms, TalksTypes DEF ConversationsInit, Listening, Meetings
<1>2. TalksFilled
  <2>1. {c \in Talks : talk[c] # NoTalk} = 1..0
    BY DEF ConversationsInit
  <2>2. 0 \in 0..Cardinality(Talks)
    BY ConversationsAssumption, FS_CardinalityType
  <2> QED
    BY <2>1, <2>2 DEF TalksFilled
<1>3. TasksSound /\ TripSound /\ RiderSound /\ LaterSound
  BY DEF ConversationsInit, TasksSound, TripSound, RiderSound, LaterSound, Tasks
<1> QED
  BY <1>1, <1>2, <1>3 DEF TalksIInv

\* Any step that leaves the order alone, and of the listeners' tasks only ends them.
LEMMA TalkStep ==
    ASSUME TalksIInv, ConversationsTypeOK', TalksFilled', Grown, trip' = trip,
           \A t \in Tasks : \/ task'[t] = task[t]
                            \/ task'[t].op = "idle"
                            \/ /\ t \in Callers /\ Fresh(task'[t])
                               /\ task'[t].op = "join" => talk[task'[t].talk] # NoTalk,
           \A c \in Talks : talk[c] = NoTalk /\ talk'[c] # NoTalk =>
               \E t \in Tasks : /\ task[t].op = "create"
                               /\ talk'[c].kind = task[t].kind /\ talk'[c].members = task[t].members,
           task["accepted"].op = "create" /\ task'["accepted"] # task["accepted"] =>
               \E c \in Talks : OrderTalk(c)',
           task["assigned"].op = "join" /\ task'["assigned"] # task["assigned"] =>
               task["assigned"].who \in talk'[task["assigned"].talk].members
    PROVE  TalksIInv'
<1>1. /\ talk \in [Talks -> {NoTalk} \cup TalkRows] /\ task \in [Tasks -> Requests]
      /\ task' \in [Tasks -> Requests]
  BY TalksTypes DEF TalksIInv, ConversationsTypeOK, Requests
<1>2. \A c \in Talks : OrderTalk(c) => OrderTalk(c)'
  BY DEF Grown, OrderTalk
<1>3. {"accepted", "assigned"} \subseteq Tasks /\ "accepted" \notin Callers /\ "assigned" \notin Callers
  BY ConversationsAssumption DEF Tasks
<1>4. TasksSound'
  <2>1. \A t \in Tasks : task'[t].op = "join" => task'[t].talk \in Talks
    BY <1>1, RequestFacts
  <2>2. \A t \in Tasks : task'[t].op = "join" => talk[task'[t].talk] # NoTalk
    BY <1>3 DEF TalksIInv, TasksSound
  <2>3. \A t \in Tasks : task'[t].op = "join" => talk'[task'[t].talk] # NoTalk
    BY <2>1, <2>2 DEF Grown
  <2> QED
    BY <1>3, <2>3 DEF TalksIInv, TasksSound
<1>5. TripSound'
  <2>1. (\E c \in Talks : OrderTalk(c)) => \E c \in Talks : OrderTalk(c)'
    BY <1>2
  <2>2. trip.listener = "working" => task'["accepted"].op = "create" \/ \E c \in Talks : OrderTalk(c)'
    BY <2>1 DEF TalksIInv, TripSound
  <2> QED
    BY <2>1, <2>2 DEF TalksIInv, TripSound
<1>6. RiderSound'
  <2> SUFFICES ASSUME trip.by = "dispatch", trip.told = trip.rider, trip.met = "conversation"
               PROVE  \E c \in Talks :
                         /\ OrderTalk(c)'
                         /\ \/ talk'[c].state = "CLOSED"
                            \/ trip.rider \in talk'[c].members
                            \/ /\ task'["assigned"].op = "join" /\ task'["assigned"].talk = c
                               /\ task'["assigned"].who = trip.rider
    BY DEF RiderSound
  <2>1. PICK c \in Talks :
            /\ OrderTalk(c)
            /\ \/ talk[c].state = "CLOSED"
               \/ trip.rider \in talk[c].members
               \/ /\ task["assigned"].op = "join" /\ task["assigned"].talk = c
                  /\ task["assigned"].who = trip.rider
    BY DEF TalksIInv, RiderSound
  <2>2. OrderTalk(c)' /\ (talk[c].state = "CLOSED" => talk'[c].state = "CLOSED")
        /\ talk[c].members \subseteq talk'[c].members
    BY <1>2, <2>1 DEF Grown, OrderTalk
  <2> QED
    BY <2>1, <2>2
<1>7. LaterSound'
  <2> SUFFICES ASSUME trip.by = "dispatch", trip.met = "neither"
               PROVE  /\ \A t \in BeingOpened' : trip.rider \in task'[t].members
                      /\ trip.told = trip.rider =>
                            \A c \in OpenTalks("ORDER")' : trip.rider \in talk'[c].members
    BY DEF LaterSound
  <2>1. trip.rider # "none" /\ \A t \in Tasks : task[t].op = "create" /\ task[t].kind = "ORDER" =>
                                               trip.rider \in task[t].members
    BY DEF TalksIInv, TripSound, LaterSound, BeingOpened
  <2>2. ASSUME NEW t \in Tasks, task'[t].op = "create", task'[t].kind = "ORDER"
        PROVE  trip.rider \in task'[t].members
    BY <2>1, <2>2 DEF Fresh
  <2>3. ASSUME trip.told = trip.rider, NEW c \in Talks, talk'[c].state = "OPEN", talk'[c].kind = "ORDER"
        PROVE  trip.rider \in talk'[c].members
    <3>1. CASE talk[c] = NoTalk
      <4>1. talk'[c] # NoTalk
        BY <2>3 DEF NoTalk
      <4> QED
        BY <2>1, <2>3, <3>1, <4>1
    <3>2. CASE talk[c] # NoTalk
      <4>1. talk[c].kind = "ORDER" /\ talk[c].state # "CLOSED" /\ talk[c].members \subseteq talk'[c].members
        BY <2>3, <3>2 DEF Grown
      <4>2. talk[c].state = "OPEN"
        BY <1>1, <3>2, <4>1, TalkForms
      <4> QED
        BY <2>3, <4>1, <4>2 DEF TalksIInv, LaterSound, OpenTalks
    <3> QED
      BY <3>1, <3>2
  <2> QED
    BY <2>2, <2>3 DEF BeingOpened, OpenTalks
<1> QED
  BY <1>4, <1>5, <1>6, <1>7 DEF TalksIInv

LEMMA SameTalks == ASSUME talk' = talk PROVE Grown
BY DEF Grown

LEMMA RequestStep ==
    ASSUME TalksIInv, NEW t \in Callers, UNCHANGED <<talk, trip>>,
           \/ UNCHANGED task
           \/ \E r \in Requests : Occupy(t, r) /\ Fresh(r) /\ (r.op = "join" => talk[r.talk] # NoTalk)
    PROVE  TalksIInv'
<1>1. /\ task \in [Tasks -> Requests] /\ talk \in [Talks -> {NoTalk} \cup TalkRows] /\ trip \in Trips
  BY TalksTypes DEF TalksIInv
<1>2. t \in Tasks /\ t # "accepted" /\ t # "assigned"
  BY ConversationsAssumption DEF Tasks
<1>3. ConversationsTypeOK'
  <2>1. task' \in [Tasks -> Requests]
    BY <1>1, <1>2 DEF Occupy
  <2> QED
    BY <1>1, <2>1 DEF ConversationsTypeOK, Requests
<1>4. TalksFilled'
  BY DEF TalksIInv, TalksFilled
<1>5. /\ \A v \in Tasks : v # t => task'[v] = task[v]
      /\ task'[t] = task[t] \/ (Fresh(task'[t]) /\ (task'[t].op = "join" => talk[task'[t].talk] # NoTalk))
  BY <1>1, <1>2 DEF Occupy
<1>6. task'["accepted"] = task["accepted"] /\ task'["assigned"] = task["assigned"]
  BY <1>2, <1>5 DEF Tasks
<1> QED
  BY <1>3, <1>4, <1>5, <1>6, SameTalks, TalkStep

LEMMA FoundOrCreated ==
    ASSUME NEW t, NEW found, NEW k \in Kinds, NEW u \in People \cup {"system"}, NEW M \in SUBSET People,
           FindOrCreate(t, found, k, u, M), k = "ORDER" => trip.rider \in M \cup {"none"}
    PROVE  \/ UNCHANGED task
           \/ \E r \in Requests : Occupy(t, r) /\ Fresh(r) /\ (r.op = "join" => talk[r.talk] # NoTalk)
<1>1. CASE found # {}
  BY <1>1 DEF FindOrCreate
<1>2. CASE found = {}
  <2> DEFINE r == [op |-> "create", kind |-> k, creator |-> u, members |-> M]
  <2>1. r \in Requests /\ r.op = "create"
    BY RequestForms
  <2>2. Fresh(r)
    BY DEF Fresh
  <2>3. Occupy(t, r)
    BY <1>2 DEF FindOrCreate
  <2> HIDE DEF r
  <2> QED
    BY <2>1, <2>2, <2>3
<1> QED
  BY <1>1, <1>2

LEMMA Added ==
    ASSUME NEW t, NEW u \in People, AddToOrderTalk(t, u)
    PROVE  \/ UNCHANGED task
           \/ \E r \in Requests : Occupy(t, r) /\ Fresh(r) /\ (r.op = "join" => talk[r.talk] # NoTalk)
<1>1. CASE OpenTalks("ORDER") = {}
  BY <1>1 DEF AddToOrderTalk
<1>2. CASE OpenTalks("ORDER") # {}
  <2>1. PICK c \in OpenTalks("ORDER") : 
            IF u \in talk[c].members THEN UNCHANGED task
            ELSE Occupy(t, [op |-> "join", talk |-> c, who |-> u])
    BY <1>2 DEF AddToOrderTalk
  <2>2. c \in Talks /\ talk[c] # NoTalk
    BY DEF OpenTalks, NoTalk
  <2> DEFINE r == [op |-> "join", talk |-> c, who |-> u]
  <2>3. r \in Requests /\ r.op = "join" /\ r.talk = c
    BY <2>2, RequestForms
  <2>4. Fresh(r)
    BY <2>3 DEF Fresh
  <2>5. UNCHANGED task \/ Occupy(t, r)
    BY <2>1
  <2> HIDE DEF r
  <2> QED
    BY <2>2, <2>3, <2>4, <2>5
<1> QED
  BY <1>1, <1>2

LEMMA CreateStep ==
    ASSUME TalksIInv, NEW t \in Callers, NEW u \in People,
           \/ CreateOrderConversation(t, u) \/ CreateSupportConversation(t, u)
           \/ CreateVendorConversation(t, u)
           \/ \E o \in People : CreateDirectConversation(t, u, o)
    PROVE  TalksIInv'
<1> USE DEF Kinds
<1>1. Concerned \in SUBSET People /\ trip.rider \in Concerned \cup {"none"}
  <2>1. trip.rider \in Riders \cup {"none"}
    BY TalksTypes, TripShape DEF TalksIInv
  <2> QED
    BY <2>1, ConversationsAssumption DEF Concerned, People
<1>2. CASE CreateOrderConversation(t, u)
  <2>1. CASE FindOrCreate(t, OpenTalks("ORDER"), "ORDER", u, Concerned)
    BY <1>1, <1>2, <2>1, FoundOrCreated, RequestStep DEF CreateOrderConversation
  <2>2. CASE AddToOrderTalk(t, u)
    BY <1>2, <2>2, Added, RequestStep DEF CreateOrderConversation
  <2> QED
    BY <1>2, <2>1, <2>2 DEF CreateOrderConversation
<1>3. CASE CreateSupportConversation(t, u)
  <2>1. {u} \in SUBSET People
    OBVIOUS
  <2> QED
    BY <1>3, <2>1, FoundOrCreated, RequestStep DEF CreateSupportConversation
<1>4. ASSUME CreateVendorConversation(t, u) PROVE TalksIInv'
  <2>1. {u} \cup Team \in SUBSET People
    BY DEF People
  <2> QED
    BY <1>4, <2>1, FoundOrCreated, RequestStep DEF CreateVendorConversation
<1>5. ASSUME NEW o \in People, CreateDirectConversation(t, u, o) PROVE TalksIInv'
  <2>1. CASE o \in Team
    BY <1>4, <1>5, <2>1 DEF CreateDirectConversation
  <2>2. CASE o \notin Team
    <3>1. {u, o} \in SUBSET People
      OBVIOUS
    <3> QED
      BY <1>5, <2>2, <3>1, FoundOrCreated, RequestStep DEF CreateDirectConversation
  <2> QED
    BY <2>1, <2>2
<1> QED
  BY <1>2, <1>3, <1>4, <1>5

\* One row takes the place of another that was there.
LEMMA RowStep ==
    ASSUME TalksIInv, NEW c \in Talks, NEW r \in TalkRows, talk[c] \in TalkRows,
           talk' = [talk EXCEPT ![c] = r], trip' = trip, r.kind = talk[c].kind,
           talk[c].state = "CLOSED" => r.state = "CLOSED", talk[c].members \subseteq r.members,
           \/ UNCHANGED task
           \/ \E t \in Tasks : /\ task[t].op = "join" /\ task[t].talk = c /\ task[t].who \in r.members
                               /\ Occupy(t, [op |-> "idle"])
    PROVE  TalksIInv'
<1>1. /\ task \in [Tasks -> Requests] /\ talk \in [Talks -> {NoTalk} \cup TalkRows] /\ trip \in Trips
  BY TalksTypes DEF TalksIInv
<1>2. r # NoTalk /\ talk[c] # NoTalk
  BY TalkForms
<1>3. talk' \in [Talks -> {NoTalk} \cup TalkRows]
  BY <1>1
<1>4. talk'[c] = r /\ \A b \in Talks : b # c => talk'[b] = talk[b]
  BY <1>1
<1>5. task' \in [Tasks -> Requests]
  BY <1>1, RequestForms DEF Occupy
<1>6. ConversationsTypeOK'
  BY <1>1, <1>3, <1>5 DEF ConversationsTypeOK, Requests
<1>7. TalksFilled'
  BY <1>2, <1>4, SameTalksFilled
<1>8. Grown
  BY <1>2, <1>4 DEF Grown
<1>9. \A t \in Tasks :
         \/ task'[t] = task[t]
         \/ task'[t].op = "idle" /\ task[t].op = "join" /\ task[t].talk = c /\ task[t].who \in r.members
  BY <1>1 DEF Occupy
<1>10. task["accepted"].op # "join" /\ {"accepted", "assigned"} \subseteq Tasks
  BY DEF TalksIInv, TasksSound, Tasks
<1>11. task'["accepted"] = task["accepted"]
  BY <1>9, <1>10
<1>12. task'["assigned"] = task["assigned"] \/ task["assigned"].who \in talk'[task["assigned"].talk].members
  BY <1>4, <1>9, <1>10
<1>13. \A b \in Talks : talk[b] = NoTalk => talk'[b] = NoTalk
  BY <1>2, <1>4
<1> QED
  BY <1>6, <1>7, <1>8, <1>9, <1>11, <1>12, <1>13, TalkStep

LEMMA RowMoves3 ==
    ASSUME TalksIInv,
           \/ \E c \in Talks : CloseTalk(c) \/ \E u \in People : JoinBySending(u, c)
           \/ \E t \in Tasks : WriteParticipant(t)
    PROVE  TalksIInv'
<1>1. /\ task \in [Tasks -> Requests] /\ talk \in [Talks -> {NoTalk} \cup TalkRows]
  BY TalksTypes DEF TalksIInv
<1>2. ASSUME NEW c \in Talks, CloseTalk(c) PROVE TalksIInv'
  <2>1. talk[c] \in TalkRows /\ talk[c].state = "OPEN"
    BY <1>1, <1>2 DEF CloseTalk, NoTalk
  <2>2. talk' = [talk EXCEPT ![c] = [talk[c] EXCEPT !.state = "CLOSED"]] /\ UNCHANGED <<task, trip>>
    BY <1>2 DEF CloseTalk
  <2> QED
    BY <2>1, <2>2, TalkClosed, RowStep
<1>3. ASSUME NEW c \in Talks, NEW u \in People, JoinBySending(u, c) PROVE TalksIInv'
  <2>1. talk[c] \in TalkRows
    BY <1>1, <1>3 DEF JoinBySending, NoTalk
  <2>2. talk' = [talk EXCEPT ![c] = [talk[c] EXCEPT !.members = @ \cup {u}]] /\ UNCHANGED <<task, trip>>
    BY <1>3 DEF JoinBySending
  <2> DEFINE r == [talk[c] EXCEPT !.members = @ \cup {u}]
  <2>3. r \in TalkRows /\ r.kind = talk[c].kind /\ r.state = talk[c].state /\ r.members = talk[c].members \cup {u}
    BY <2>1, TalkJoined
  <2>4. talk' = [talk EXCEPT ![c] = r]
    BY <2>2
  <2> HIDE DEF r
  <2> QED
    BY <2>1, <2>2, <2>3, <2>4, RowStep
<1>4. ASSUME NEW t \in Tasks, WriteParticipant(t) PROVE TalksIInv'
  <2> DEFINE c == task[t].talk  u == task[t].who
             r == [talk[c] EXCEPT !.members = @ \cup {u}]
  <2>1. task[t].op = "join" /\ c \in Talks /\ u \in People /\ talk[c] # NoTalk
    BY <1>1, <1>4, RequestFacts DEF TalksIInv, TasksSound, WriteParticipant
  <2>2. talk[c] \in TalkRows
    BY <1>1, <2>1
  <2>3. r \in TalkRows /\ r.kind = talk[c].kind /\ r.state = talk[c].state /\ r.members = talk[c].members \cup {u}
    BY <2>1, <2>2, TalkJoined
  <2>4. talk' = [talk EXCEPT ![c] = r] /\ Occupy(t, [op |-> "idle"]) /\ trip' = trip
    BY <1>4 DEF WriteParticipant
  <2>5. task[t].talk = c /\ task[t].who \in r.members
    BY <2>3
  <2> HIDE DEF r, c, u
  <2> QED
    BY <2>1, <2>2, <2>3, <2>4, <2>5, RowStep
<1> QED
  BY <1>2, <1>3, <1>4

LEMMA WriteConversationStep ==
    ASSUME TalksIInv, NEW t \in Tasks, WriteConversation(t)
    PROVE  TalksIInv'
<1>1. PICK n \in Talks : n = NextTalk
  BY DEF WriteConversation
<1> DEFINE r == [state |-> "OPEN", kind |-> task[t].kind, creator |-> task[t].creator, members |-> task[t].members]
<1>16. /\ task \in [Tasks -> Requests] /\ talk \in [Talks -> {NoTalk} \cup TalkRows] /\ trip \in Trips
  BY TalksTypes DEF TalksIInv
<1>2. /\ n \in Talks /\ talk[n] = NoTalk /\ n \in Nat \ {0}
      /\ {c \in Talks : talk[c] # NoTalk} = 1..(n - 1)
  BY <1>1, NextTalkIsFree DEF WriteConversation
<1>3. talk' = [talk EXCEPT ![n] = r] /\ task' = [task EXCEPT ![t] = [op |-> "idle"]] /\ trip' = trip
      /\ task[t].op = "create"
  BY <1>1 DEF WriteConversation, Occupy
<1>4. r \in TalkRows /\ r # NoTalk /\ r.kind = task[t].kind /\ r.members = task[t].members
  <2>1. task[t].kind \in Kinds /\ task[t].creator \in People \cup {"system"} /\ task[t].members \in SUBSET People
    BY <1>16, <1>3, RequestFacts
  <2> QED
    BY <2>1, TalkForms
<1> HIDE DEF r
<1>5. talk'[n] = r /\ \A c \in Talks : c # n => talk'[c] = talk[c]
  BY <1>16, <1>2, <1>3
<1>6. task'[t] = [op |-> "idle"] /\ \A v \in Tasks : v # t => task'[v] = task[v]
  BY <1>16, <1>3
<1>7. ConversationsTypeOK'
  <2>1. talk' \in [Talks -> {NoTalk} \cup TalkRows] /\ task' \in [Tasks -> Requests]
    BY <1>16, <1>2, <1>3, <1>4, RequestForms
  <2> QED
    BY <1>16, <1>3, <2>1 DEF ConversationsTypeOK, Requests
<1>8. TalksFilled'
  <2>1. {c \in Talks : talk'[c] # NoTalk} = (1..(n - 1)) \cup {n}
    BY <1>2, <1>4, <1>5
  <2>2. (1..(n - 1)) \cup {n} = 1..n
    BY <1>2
  <2>3. n \in 0..Cardinality(Talks)
    BY <1>2, ConversationsAssumption, FS_CardinalityType
  <2> QED
    BY <2>1, <2>2, <2>3 DEF TalksFilled
<1>9. Grown
  BY <1>2, <1>5 DEF Grown
<1>10. "accepted" = t => OrderTalk(n)'
  BY <1>3, <1>4, <1>5 DEF TalksIInv, TasksSound, OrderTalk
<1>11. "assigned" # t
  BY <1>3 DEF TalksIInv, TasksSound
<1>12. {"accepted", "assigned"} \subseteq Tasks
  BY DEF Tasks
<1>13. \A v \in Tasks : task'[v] = task[v] \/ task'[v].op = "idle"
  BY <1>6
<1>14. task'["assigned"] = task["assigned"]
  BY <1>6, <1>11, <1>12
<1>15. task'["accepted"] # task["accepted"] => \E c \in Talks : OrderTalk(c)'
  BY <1>2, <1>6, <1>10, <1>12
<1>17. \A c \in Talks : talk[c] = NoTalk /\ talk'[c] # NoTalk =>
          /\ task[t].op = "create"
          /\ talk'[c].kind = task[t].kind /\ talk'[c].members = task[t].members
  BY <1>3, <1>4, <1>5
<1> QED
  BY <1>3, <1>7, <1>8, <1>9, <1>13, <1>14, <1>15, <1>17, TalkStep

LEMMA HandleAcceptedStep ==
    ASSUME TalksIInv, HandleAccepted
    PROVE  TalksIInv'
<1>1. /\ task \in [Tasks -> Requests] /\ talk \in [Talks -> {NoTalk} \cup TalkRows] /\ trip \in Trips
      /\ "accepted" \in Tasks /\ "assigned" \in Tasks
  BY TalksTypes DEF TalksIInv, Tasks
<1>2. /\ talk' = talk
      /\ trip' = [status |-> trip.status, rider |-> trip.rider, by |-> trip.by, told |-> trip.told,
                  listener |-> "working", met |-> trip.met]
  BY <1>1, TripShape DEF HandleAccepted
<1>3. trip' \in Trips
  BY <1>1, <1>2, TripShape, TripForms DEF Listening
<1>4. Concerned \in SUBSET People /\ trip.rider \in Concerned \cup {"none"}
  BY <1>1, TripShape, ConversationsAssumption DEF Concerned, People
<1>5. CASE OpenTalks("ORDER") # {}
  <2>1. task' = task /\ \E c \in Talks : OrderTalk(c)
    BY <1>5 DEF HandleAccepted, FindOrCreate, OpenTalks, OrderTalk, NoTalk
  <2>2. ConversationsTypeOK' /\ TalksFilled' /\ TasksSound'
    BY <1>1, <1>2, <1>3, <2>1 DEF TalksIInv, TalksFilled, TasksSound, ConversationsTypeOK, Requests
  <2>3. \E c \in Talks : OrderTalk(c)'
    BY <1>2, <2>1 DEF OrderTalk
  <2>4. TripSound' /\ RiderSound'
    BY <1>1, <1>2, <2>1, <2>3 DEF TalksIInv, TripSound, RiderSound, OrderTalk
  <2>5. LaterSound'
    BY <1>1, <1>2, <2>1 DEF TalksIInv, LaterSound, BeingOpened, OpenTalks
  <2> QED
    BY <2>2, <2>4, <2>5 DEF TalksIInv
<1>6. CASE OpenTalks("ORDER") = {}
  <2> DEFINE r == [op |-> "create", kind |-> "ORDER", creator |-> "system", members |-> Concerned]
  <2>1. task' = [task EXCEPT !["accepted"] = r]
    BY <1>6 DEF HandleAccepted, FindOrCreate, Occupy
  <2>2. r \in Requests /\ r.op = "create" /\ r.kind = "ORDER" /\ trip.rider \in r.members \cup {"none"}
    BY <1>4, RequestForms DEF Kinds
  <2> HIDE DEF r
  <2>3. task' \in [Tasks -> Requests] /\ task'["accepted"] = r /\ \A v \in Tasks : v # "accepted" => task'[v] = task[v]
    BY <1>1, <2>1, <2>2
  <2>4. ConversationsTypeOK' /\ TalksFilled'
    BY <1>1, <1>2, <1>3, <2>3 DEF TalksIInv, TalksFilled, ConversationsTypeOK, Requests
  <2>5. TasksSound'
    BY <1>1, <1>2, <2>2, <2>3 DEF TalksIInv, TasksSound
  <2>6. TripSound'
    BY <1>1, <1>2, <2>2, <2>3 DEF TalksIInv, TripSound, OrderTalk
  <2>7. RiderSound'
    BY <1>1, <1>2, <2>2, <2>3 DEF TalksIInv, RiderSound, OrderTalk
  <2>8. LaterSound'
    <3>1. trip.by = "dispatch" => trip.rider \in r.members
      BY <2>2 DEF TalksIInv, TripSound
    <3>2. trip.by = "dispatch" /\ trip.met = "neither" => \A t \in BeingOpened' : trip.rider \in task'[t].members
      BY <2>3, <3>1 DEF TalksIInv, LaterSound, BeingOpened
    <3> QED
      BY <1>2, <3>2 DEF TalksIInv, LaterSound, OpenTalks
  <2> QED
    BY <2>4, <2>5, <2>6, <2>7, <2>8 DEF TalksIInv
<1> QED
  BY <1>5, <1>6

LEMMA ListenersDieStep ==
    ASSUME TalksIInv, ListenerDies \/ AssignedDies
    PROVE  TalksIInv'
<1>1. /\ task \in [Tasks -> Requests] /\ talk \in [Talks -> {NoTalk} \cup TalkRows] /\ trip \in Trips
      /\ "accepted" \in Tasks /\ "assigned" \in Tasks /\ talk' = talk
  BY TalksTypes DEF TalksIInv, Tasks, ListenerDies, AssignedDies
<1>2. [op |-> "idle"] \in Requests /\ [op |-> "idle"].op = "idle"
  BY RequestForms
<1>3. CASE ListenerDies
  <2>1. task' = [task EXCEPT !["accepted"] = [op |-> "idle"]]
    BY <1>3 DEF ListenerDies, Occupy
  <2>2. task' \in [Tasks -> Requests] /\ task'["accepted"].op = "idle" /\ \A v \in Tasks : v # "accepted" => task'[v] = task[v]
    BY <1>1, <1>2, <2>1
  <2>3. /\ trip' = [status |-> trip.status, rider |-> trip.rider, by |-> trip.by, told |-> trip.told,
                    listener |-> "dead", met |-> trip.met]
    BY <1>1, <1>3, TripShape DEF ListenerDies
  <2>4. trip' \in Trips
    BY <1>1, <2>3, TripShape, TripForms DEF Listening
  <2>5. ConversationsTypeOK' /\ TalksFilled'
    BY <1>1, <2>2, <2>4 DEF TalksIInv, TalksFilled, ConversationsTypeOK, Requests
  <2>6. TasksSound'
    BY <1>1, <2>2 DEF TalksIInv, TasksSound
  <2>7. TripSound' /\ RiderSound'
    BY <1>1, <2>2, <2>3 DEF TalksIInv, TripSound, RiderSound, OrderTalk
  <2>8. LaterSound'
    BY <1>1, <2>2, <2>3 DEF TalksIInv, LaterSound, BeingOpened, OpenTalks
  <2> QED
    BY <2>5, <2>6, <2>7, <2>8 DEF TalksIInv
<1>4. CASE AssignedDies
  <2>1. task' = [task EXCEPT !["assigned"] = [op |-> "idle"]] /\ trip.rider # "none"
    BY <1>4 DEF AssignedDies, Occupy
  <2>2. task' \in [Tasks -> Requests] /\ task'["assigned"].op = "idle" /\ \A v \in Tasks : v # "assigned" => task'[v] = task[v]
    BY <1>1, <1>2, <2>1
  <2>3. /\ trip' = [status |-> trip.status, rider |-> trip.rider, by |-> trip.by, told |-> "lost",
                    listener |-> trip.listener, met |-> trip.met]
    BY <1>1, <1>4, TripShape DEF AssignedDies
  <2>4. trip' \in Trips /\ trip.rider # "lost"
    BY <1>1, <2>1, <2>3, TripShape, TripForms, ConversationsAssumption
  <2>5. ConversationsTypeOK' /\ TalksFilled'
    BY <1>1, <2>2, <2>4 DEF TalksIInv, TalksFilled, ConversationsTypeOK, Requests
  <2>6. TasksSound'
    BY <1>1, <2>2 DEF TalksIInv, TasksSound
  <2>7. TripSound' /\ RiderSound'
    BY <1>1, <2>1, <2>2, <2>3, <2>4 DEF TalksIInv, TripSound, RiderSound, OrderTalk
  <2>8. LaterSound'
    <3>1. BeingOpened' \subseteq BeingOpened /\ \A t \in BeingOpened' : task'[t] = task[t]
      BY <1>1, <2>2 DEF BeingOpened
    <3> QED
      BY <2>3, <2>4, <3>1 DEF TalksIInv, LaterSound
  <2> QED
    BY <2>5, <2>6, <2>7, <2>8 DEF TalksIInv
<1> QED
  BY <1>3, <1>4

LEMMA SearchStep ==
    ASSUME TalksIInv, AcceptOrder \/ QueueDispatch \/ RequeueStuck
    PROVE  TalksIInv'
<1>0. UNCHANGED <<talk, task>>
  BY DEF AcceptOrder, QueueDispatch, RequeueStuck
<1>1. /\ task \in [Tasks -> Requests] /\ talk \in [Talks -> {NoTalk} \cup TalkRows] /\ trip \in Trips
      /\ talk' = talk /\ task' = task
  BY <1>0, TalksTypes DEF TalksIInv
<1>2. /\ \A c \in Talks : OrderTalk(c)' <=> OrderTalk(c)
      /\ BeingOpened' = BeingOpened /\ OpenTalks("ORDER")' = OpenTalks("ORDER")
  BY <1>1 DEF OrderTalk, BeingOpened, OpenTalks
<1>3. trip' \in Trips => ConversationsTypeOK' /\ TalksFilled' /\ TasksSound'
  BY <1>1 DEF TalksIInv, TalksFilled, TasksSound, ConversationsTypeOK
<1>4. CASE AcceptOrder
  <2>1. trip' = [status |-> "ACCEPTED", rider |-> trip.rider, by |-> trip.by, told |-> trip.told,
                 listener |-> "due", met |-> trip.met]
    BY <1>1, <1>4, TripShape DEF AcceptOrder
  <2>2. trip' \in Trips
    BY <1>1, <2>1, TripShape, TripForms DEF Listening
  <2>3. TripSound' /\ RiderSound' /\ LaterSound'
    BY <1>1, <1>2, <2>1 DEF TalksIInv, TripSound, RiderSound, LaterSound
  <2> QED
    BY <1>3, <2>2, <2>3 DEF TalksIInv
<1>5. CASE QueueDispatch
  <2>1. /\ trip' = [status |-> "SEARCHED", rider |-> trip.rider, by |-> trip.by, told |-> trip.told,
                    listener |-> "done", met |-> trip.met]
        /\ trip.listener = "working" /\ task["accepted"].op = "idle"
    BY <1>1, <1>5, TripShape DEF QueueDispatch
  <2>2. trip' \in Trips
    BY <1>1, <2>1, TripShape, TripForms DEF Listening
  <2>3. TripSound' /\ RiderSound' /\ LaterSound'
    BY <1>1, <1>2, <2>1 DEF TalksIInv, TripSound, RiderSound, LaterSound
  <2> QED
    BY <1>3, <2>2, <2>3 DEF TalksIInv
<1>6. CASE RequeueStuck
  <2>1. trip' = [status |-> "SEARCHED", rider |-> trip.rider, by |-> trip.by, told |-> trip.told,
                 listener |-> trip.listener, met |-> trip.met]
    BY <1>1, <1>6, TripShape DEF RequeueStuck
  <2>2. trip' \in Trips
    BY <1>1, <2>1, TripShape, TripForms
  <2>3. TripSound' /\ RiderSound' /\ LaterSound'
    BY <1>1, <1>2, <2>1 DEF TalksIInv, TripSound, RiderSound, LaterSound
  <2> QED
    BY <1>3, <2>2, <2>3 DEF TalksIInv
<1> QED
  BY <1>4, <1>5, <1>6

LEMMA RiderStep ==
    ASSUME TalksIInv, NEW d \in Riders, TakeTrip(d) \/ ForceAssign(d)
    PROVE  TalksIInv'
<1>0. UNCHANGED <<talk, task>>
  BY DEF TakeTrip, ForceAssign
<1>1. /\ task \in [Tasks -> Requests] /\ talk \in [Talks -> {NoTalk} \cup TalkRows] /\ trip \in Trips
      /\ talk' = talk /\ task' = task
  BY <1>0, TalksTypes DEF TalksIInv
<1>2. /\ \A c \in Talks : OrderTalk(c)' <=> OrderTalk(c)
      /\ BeingOpened' = BeingOpened /\ OpenTalks("ORDER")' = OpenTalks("ORDER")
  BY <1>1 DEF OrderTalk, BeingOpened, OpenTalks
<1>3. trip' \in Trips => ConversationsTypeOK' /\ TalksFilled' /\ TasksSound'
  BY <1>1 DEF TalksIInv, TalksFilled, TasksSound, ConversationsTypeOK
<1>4. CASE TakeTrip(d)
  <2> DEFINE m == AtHand
  <2>6. trip' = [trip EXCEPT !.rider = d, !.by = "dispatch", !.met = m] /\ trip.rider = "none"
    BY <1>4 DEF TakeTrip
  <2>2. /\ m \in Meetings
        /\ m = "conversation" => trip.listener = "done"
        /\ m = "neither" => BeingOpened = {}
    BY DEF Meetings, AtHand
  <2> HIDE DEF m
  <2>1. trip' = [status |-> trip.status, rider |-> d, by |-> "dispatch", told |-> trip.told,
                 listener |-> trip.listener, met |-> m]
    BY <1>1, <2>6, TripShape
  <2>3. trip' \in Trips
    BY <1>1, <2>1, <2>2, TripShape, TripForms
  <2>4. trip.told = "nobody" /\ d # "nobody" /\ d # "none"
    BY <2>6, ConversationsAssumption DEF TalksIInv, TripSound
  <2>5. TripSound' /\ RiderSound' /\ LaterSound'
    BY <1>1, <1>2, <2>1, <2>2, <2>4 DEF TalksIInv, TripSound, RiderSound, LaterSound
  <2> QED
    BY <1>3, <2>3, <2>5 DEF TalksIInv
<1>5. CASE ForceAssign(d)
  <2>5. trip' = [trip EXCEPT !.rider = d, !.by = "admin"]
    BY <1>5 DEF ForceAssign
  <2>1. trip' = [status |-> trip.status, rider |-> d, by |-> "admin", told |-> trip.told,
                 listener |-> trip.listener, met |-> trip.met]
    BY <1>1, <2>5, TripShape
  <2>2. trip' \in Trips
    BY <1>1, <2>1, TripShape, TripForms
  <2>3. d # "nobody" /\ d # "none"
    BY ConversationsAssumption
  <2>4. TripSound' /\ RiderSound' /\ LaterSound'
    BY <1>1, <1>2, <2>1, <2>3 DEF TalksIInv, TripSound, RiderSound, LaterSound
  <2> QED
    BY <1>3, <2>2, <2>4 DEF TalksIInv
<1> QED
  BY <1>4, <1>5

LEMMA HandleAssignedStep ==
    ASSUME TalksIInv, HandleAssigned
    PROVE  TalksIInv'
<1> DEFINE m == IF OpenTalks("ORDER") = {} THEN trip.met ELSE "conversation"
<1>1. /\ task \in [Tasks -> Requests] /\ talk \in [Talks -> {NoTalk} \cup TalkRows] /\ trip \in Trips
      /\ trip.rider # "none" /\ talk' = talk /\ task["assigned"].op = "idle"
      /\ "accepted" \in Tasks /\ "assigned" \in Tasks
  BY TalksTypes DEF TalksIInv, HandleAssigned, Tasks
<1>2. trip' = [status |-> trip.status, rider |-> trip.rider, by |-> trip.by, told |-> trip.rider,
               listener |-> trip.listener, met |-> m]
  BY <1>1, TripShape DEF HandleAssigned
<1>3. trip' \in Trips /\ trip.rider \in People
  <2>1. m \in Meetings
    BY <1>1, TripShape DEF Meetings
  <2> HIDE DEF m
  <2> QED
    BY <1>1, <1>2, <2>1, TripShape, TripForms DEF People
<1>4. \A c \in Talks : OrderTalk(c)' <=> OrderTalk(c)
  BY <1>1 DEF OrderTalk
<1>5. CASE OpenTalks("ORDER") = {}
  <2>1. task' = task
    BY <1>5 DEF HandleAssigned, AddToOrderTalk
  <2>2. m = trip.met
    BY <1>5
  <2> HIDE DEF m
  <2>3. ConversationsTypeOK' /\ TalksFilled' /\ TasksSound'
    BY <1>1, <1>3, <2>1 DEF TalksIInv, TalksFilled, TasksSound, ConversationsTypeOK
  <2>4. TripSound'
    BY <1>1, <1>2, <1>4, <2>1, <2>2 DEF TalksIInv, TripSound
  <2>5. \A c \in Talks : OrderTalk(c) => talk[c].state = "CLOSED"
    BY <1>1, <1>5, TalkForms DEF OpenTalks, OrderTalk
  <2>6. RiderSound'
    BY <1>1, <1>2, <1>4, <2>2, <2>5 DEF TalksIInv, TripSound, RiderSound
  <2>7. LaterSound'
    BY <1>1, <1>2, <1>5, <2>1, <2>2 DEF TalksIInv, LaterSound, BeingOpened, OpenTalks
  <2> QED
    BY <2>3, <2>4, <2>6, <2>7 DEF TalksIInv
<1>6. CASE OpenTalks("ORDER") # {}
  <2>1. PICK c \in OpenTalks("ORDER") :
            IF trip.rider \in talk[c].members THEN UNCHANGED task
            ELSE Occupy("assigned", [op |-> "join", talk |-> c, who |-> trip.rider])
    BY <1>6 DEF HandleAssigned, AddToOrderTalk
  <2>2. c \in Talks /\ OrderTalk(c)
    BY DEF OpenTalks, OrderTalk, NoTalk
  <2>3. m = "conversation"
    BY <1>6
  <2> HIDE DEF m
  <2>4. LaterSound'
    BY <1>2, <2>3 DEF LaterSound
  <2>5. CASE trip.rider \in talk[c].members
    <3>1. task' = task
      BY <2>1, <2>5
    <3>2. ConversationsTypeOK' /\ TalksFilled' /\ TasksSound'
      BY <1>1, <1>3, <3>1 DEF TalksIInv, TalksFilled, TasksSound, ConversationsTypeOK
    <3>3. TripSound'
      BY <1>1, <1>2, <1>4, <2>2, <3>1 DEF TalksIInv, TripSound
    <3>4. RiderSound'
      BY <1>1, <1>2, <1>4, <2>2, <2>5 DEF RiderSound
    <3> QED
      BY <2>4, <3>2, <3>3, <3>4 DEF TalksIInv
  <2>6. CASE trip.rider \notin talk[c].members
    <3> DEFINE r == [op |-> "join", talk |-> c, who |-> trip.rider]
    <3>1. task' = [task EXCEPT !["assigned"] = r]
      BY <2>1, <2>6 DEF Occupy
    <3>2. r \in Requests /\ r.op = "join" /\ r.talk = c /\ r.who = trip.rider
      BY <1>3, <2>2, RequestForms
    <3> HIDE DEF r
    <3>3. task' \in [Tasks -> Requests] /\ task'["assigned"] = r /\ \A v \in Tasks : v # "assigned" => task'[v] = task[v]
      BY <1>1, <3>1, <3>2
    <3>4. ConversationsTypeOK' /\ TalksFilled'
      BY <1>1, <1>3, <3>3 DEF TalksIInv, TalksFilled, ConversationsTypeOK, Requests
    <3>5. TasksSound'
      BY <1>1, <2>2, <3>2, <3>3 DEF TalksIInv, TasksSound, OrderTalk
    <3>6. TripSound'
      BY <1>1, <1>2, <1>4, <2>2, <3>3 DEF TalksIInv, TripSound
    <3>7. RiderSound'
      BY <1>1, <1>2, <1>4, <2>2, <3>2, <3>3 DEF RiderSound
    <3> QED
      BY <2>4, <3>4, <3>5, <3>6, <3>7 DEF TalksIInv
  <2> QED
    BY <2>5, <2>6
<1> QED
  BY <1>5, <1>6

LEMMA ConversationsStepIInv == ASSUME TalksIInv, [ConversationsNext]_conversationsVars PROVE TalksIInv'
<1>1. CASE ConversationsNext
  BY <1>1, WriteConversationStep, RowMoves3, CreateStep, HandleAcceptedStep, ListenersDieStep, SearchStep,
     RiderStep, HandleAssignedStep DEF ConversationsNext
<1>2. CASE UNCHANGED conversationsVars
  BY <1>2 DEF conversationsVars, TalksIInv, ConversationsTypeOK, TalksFilled, TasksSound, TripSound,
     RiderSound, LaterSound, OrderTalk, OpenTalks, BeingOpened
<1> QED
  BY <1>1, <1>2

\* A driver whom the dispatch found is in a conversation about the order.
LEMMA TalksSafe == ASSUME TalksIInv PROVE DriverIsIn
<1> SUFFICES ASSUME trip.by = "dispatch", trip.told = trip.rider, task["assigned"].op = "idle"
             PROVE  /\ (/\ trip.met = "conversation"
                        /\ \A c \in Talks : talk[c].state = "CLOSED" => talk[c].kind # "ORDER")
                         => \E c \in OpenTalks("ORDER") : trip.rider \in talk[c].members
                    /\ trip.met = "neither" => \A c \in OpenTalks("ORDER") : trip.rider \in talk[c].members
  BY DEF DriverIsIn
<1>1. ASSUME trip.met = "conversation", \A c \in Talks : talk[c].state = "CLOSED" => talk[c].kind # "ORDER"
      PROVE  \E c \in OpenTalks("ORDER") : trip.rider \in talk[c].members
  <2>1. PICK c \in Talks : OrderTalk(c) /\ trip.rider \in talk[c].members
    BY <1>1 DEF TalksIInv, RiderSound, OrderTalk
  <2>2. talk[c] \in TalkRows
    BY <2>1, TalksTypes DEF TalksIInv, OrderTalk
  <2>3. talk[c].state = "OPEN"
    BY <1>1, <2>1, <2>2, TalkForms DEF OrderTalk
  <2> QED
    BY <2>1, <2>3 DEF OpenTalks, OrderTalk
<1>2. trip.met = "neither" => \A c \in OpenTalks("ORDER") : trip.rider \in talk[c].members
  BY DEF TalksIInv, LaterSound
<1> QED
  BY <1>1, <1>2

-----------------------------------------------------------------------------
(* Lists *)

\* Of W, what is among the first k.
Behind(s, W, k) == {r \in W : \E i \in 1..Len(s) : i <= k /\ s[i] = r}

Distinct(s) == \A i, j \in 1..Len(s) : s[i] = s[j] => i = j

RowsTyped ==
    /\ rows \in Seq(RowIds) /\ Distinct(rows)
    /\ \A i \in 1..Len(rows) : rows[i] \in 1..came

\* Of what stayed, little is behind the reader that he has not seen.
ReaderSound ==
    /\ reader.op = "read" =>
          /\ reader.stayed \subseteq RowsOf(rows)
          /\ Cardinality(Behind(rows, reader.stayed \ reader.seen, Skip(reader.page))) <= reader.left
    /\ RowsMissedFew

ListingsIInv == ListingsTypeOK /\ RowsTyped /\ ReaderSound

LEMMA RowIdsFacts ==
    /\ IsFiniteSet(RowIds) /\ RowIds \subseteq Nat
    /\ \A W \in SUBSET RowIds : IsFiniteSet(W) /\ Cardinality(W) \in Nat
<1>1. IsFiniteSet(RowIds) /\ RowIds \subseteq Nat
  BY ListingsAssumption, FS_Interval DEF RowIds
<1>2. ASSUME NEW W \in SUBSET RowIds PROVE IsFiniteSet(W) /\ Cardinality(W) \in Nat
  BY <1>1, FS_Subset, FS_CardinalityType
<1> QED
  BY <1>1, <1>2

LEMMA FewerBehind ==
    ASSUME NEW V \in SUBSET RowIds, NEW W \in SUBSET RowIds, V \subseteq W,
           NEW n \in Nat, Cardinality(W) <= n
    PROVE  Cardinality(V) <= n
<1>1. Cardinality(V) <= Cardinality(W) /\ Cardinality(V) \in Nat /\ Cardinality(W) \in Nat
  BY RowIdsFacts, FS_Subset
<1> QED
  BY <1>1

LEMMA RowsOfSeq ==
    ASSUME NEW s \in Seq(RowIds)
    PROVE  /\ RowsOf(s) = {s[i] : i \in 1..Len(s)} /\ Len(s) \in Nat
           /\ \A i \in 1..Len(s) : s[i] \in RowIds
BY LenProperties, ElementOfSeq DEF RowsOf

LEMMA RowsAreCounted ==
    ASSUME NEW s \in Seq(RowIds), Distinct(s)
    PROVE  Cardinality(RowsOf(s)) = Len(s)
<1>1. Len(s) \in Nat /\ s \in [1..Len(s) -> RowsOf(s)]
  BY LenProperties, RowsOfSeq
<1>2. s \in Surjection(1..Len(s), RowsOf(s))
  BY <1>1, RowsOfSeq DEF Surjection
<1>3. s \in Injection(1..Len(s), RowsOf(s))
  BY <1>1 DEF Injection, IsInjective, Distinct
<1>4. IsFiniteSet(1..Len(s)) /\ Cardinality(1..Len(s)) = Len(s)
  BY <1>1, FS_Interval
<1> QED
  BY <1>2, <1>3, <1>4, FS_Surjection

LEMMA RowsTypeOK ==
    ASSUME NEW s \in Seq(RowIds), Distinct(s), NEW c \in Nat, \A i \in 1..Len(s) : s[i] \in 1..c
    PROVE  RowsOf(s) \subseteq 1..c /\ Cardinality(RowsOf(s)) = Len(s)
BY RowsAreCounted, RowsOfSeq

LEMMA WithoutFacts ==
    ASSUME NEW s \in Seq(RowIds), NEW i \in 1..Len(s)
    PROVE  /\ Without(s, i) \in Seq(RowIds) /\ Len(Without(s, i)) = Len(s) - 1
           /\ \A j \in 1..(Len(s) - 1) : Without(s, i)[j] = IF j < i THEN s[j] ELSE s[j + 1]
<1> DEFINE a == SubSeq(s, 1, i - 1)  b == SubSeq(s, i + 1, Len(s))
<1>1. PICK n \in Nat : n = Len(s)
  BY LenProperties
<1>2. i \in 1..n /\ \A j \in 1..n : s[j] \in RowIds
  BY <1>1, RowsOfSeq
<1>3. /\ a \in Seq(RowIds) /\ Len(a) = i - 1 /\ \A j \in 1..(i - 1) : a[j] = s[j]
  <2>1. \A j \in 1..(i - 1) : s[j] \in RowIds
    BY <1>2
  <2>2. /\ a \in Seq(RowIds) /\ Len(a) = IF 1 <= i - 1 THEN (i - 1) - 1 + 1 ELSE 0
        /\ \A j \in 1..((i - 1) - 1 + 1) : a[j] = s[1 + j - 1]
    BY <1>2, <2>1, SubSeqProperties
  <2> HIDE DEF a
  <2>3. \A j \in 1..(i - 1) : 1 + j - 1 = j
    BY <1>2
  <2> QED
    BY <1>2, <2>2, <2>3
<1>4. /\ b \in Seq(RowIds) /\ Len(b) = n - i /\ \A j \in 1..(n - i) : b[j] = s[i + j]
  <2>1. \A j \in (i + 1)..n : s[j] \in RowIds
    BY <1>2
  <2>2. /\ SubSeq(s, i + 1, n) \in Seq(RowIds)
        /\ Len(SubSeq(s, i + 1, n)) = IF i + 1 <= n THEN n - (i + 1) + 1 ELSE 0
        /\ \A j \in 1..(n - (i + 1) + 1) : SubSeq(s, i + 1, n)[j] = s[(i + 1) + j - 1]
    BY <1>2, <2>1, SubSeqProperties
  <2>3. b = SubSeq(s, i + 1, n)
    BY <1>1
  <2> HIDE DEF b
  <2>4. \A j \in 1..(n - i) : (i + 1) + j - 1 = i + j
    BY <1>2
  <2> QED
    BY <1>2, <2>2, <2>3, <2>4
<1> HIDE DEF a, b
<1>5. /\ a \o b \in Seq(RowIds) /\ Len(a \o b) = Len(a) + Len(b)
      /\ \A j \in 1..(Len(a) + Len(b)) : (a \o b)[j] = IF j <= Len(a) THEN a[j] ELSE b[j - Len(a)]
  BY <1>3, <1>4, ConcatProperties
<1>6. \A j \in 1..(n - 1) : (a \o b)[j] = IF j < i THEN s[j] ELSE s[j + 1]
  <2> TAKE j \in 1..(n - 1)
  <2>1. CASE j < i
    BY <1>2, <1>3, <1>4, <1>5, <2>1
  <2>2. CASE ~(j < i)
    <3>1. (a \o b)[j] = b[j - (i - 1)] /\ j - (i - 1) \in 1..(n - i) /\ i + (j - (i - 1)) = j + 1
      BY <1>2, <1>3, <1>4, <1>5, <2>2
    <3> QED
      BY <1>4, <2>2, <3>1
  <2> QED
    BY <2>1, <2>2
<1>7. Without(s, i) = a \o b
  BY DEF Without, a, b
<1>8. Len(a \o b) = n - 1
  BY <1>2, <1>3, <1>4, <1>5
<1> QED
  BY <1>1, <1>5, <1>6, <1>7, <1>8

LEMMA BeforeFacts ==
    ASSUME NEW s \in Seq(RowIds), NEW x \in RowIds
    PROVE  /\ <<x>> \o s \in Seq(RowIds) /\ Len(<<x>> \o s) = Len(s) + 1
           /\ (<<x>> \o s)[1] = x
           /\ \A j \in 2..(Len(s) + 1) : (<<x>> \o s)[j] = s[j - 1]
<1>1. <<x>> \in Seq(RowIds) /\ Len(<<x>>) = 1 /\ <<x>>[1] = x
  OBVIOUS
<1>2. Len(s) \in Nat
  BY LenProperties
<1> DEFINE h == <<x>>
<1> HIDE DEF h
<1>3. /\ h \o s \in Seq(RowIds) /\ Len(h \o s) = Len(h) + Len(s)
      /\ \A j \in 1..(Len(h) + Len(s)) : (h \o s)[j] = IF j <= Len(h) THEN h[j] ELSE s[j - Len(h)]
  <2>1. h \in Seq(RowIds)
    BY <1>1 DEF h
  <2> QED
    BY <2>1, ConcatProperties
<1>4. Len(h) = 1 /\ h[1] = x
  BY <1>1 DEF h
<1>5. /\ h \o s \in Seq(RowIds) /\ Len(h \o s) = Len(s) + 1 /\ (h \o s)[1] = x
      /\ \A j \in 2..(Len(s) + 1) : (h \o s)[j] = s[j - 1]
  BY <1>2, <1>3, <1>4
<1> QED
  BY <1>5 DEF h

LEMMA PrefixFacts ==
    ASSUME NEW s \in Seq(RowIds), NEW m \in 0..Len(s)
    PROVE  /\ SubSeq(s, 1, m) \in Seq(RowIds) /\ Len(SubSeq(s, 1, m)) = m
           /\ \A j \in 1..m : SubSeq(s, 1, m)[j] = s[j]
<1>1. Len(s) \in Nat /\ \A j \in 1..Len(s) : s[j] \in RowIds
  BY RowsOfSeq
<1>2. \A j \in 1..m : s[j] \in RowIds
  BY <1>1
<1>3. /\ SubSeq(s, 1, m) \in Seq(RowIds) /\ Len(SubSeq(s, 1, m)) = IF 1 <= m THEN m - 1 + 1 ELSE 0
      /\ \A j \in 1..(m - 1 + 1) : SubSeq(s, 1, m)[j] = s[1 + j - 1]
  BY <1>1, <1>2, SubSeqProperties
<1>4. m \in Nat /\ \A j \in 1..m : 1 + j - 1 = j
  BY <1>1
<1> DEFINE p == SubSeq(s, 1, m)
<1> HIDE DEF p
<1>5. /\ p \in Seq(RowIds) /\ Len(p) = IF 1 <= m THEN m - 1 + 1 ELSE 0
      /\ \A j \in 1..(m - 1 + 1) : p[j] = s[1 + j - 1]
  BY <1>3 DEF p
<1>6. p \in Seq(RowIds) /\ Len(p) = m /\ \A j \in 1..m : p[j] = s[j]
  BY <1>4, <1>5
<1> QED
  BY <1>6 DEF p

\* What is behind a place when a row comes before it.
LEMMA BehindBefore ==
    ASSUME NEW s \in Seq(RowIds), NEW x \in RowIds, NEW W \in SUBSET RowIds, x \notin W, NEW k \in Nat
    PROVE  Behind(<<x>> \o s, W, k) \subseteq Behind(s, W, k)
<1>1. PICK t \in Seq(RowIds) :
         /\ t = <<x>> \o s /\ Len(t) = Len(s) + 1 /\ t[1] = x
         /\ \A j \in 2..(Len(s) + 1) : t[j] = s[j - 1]
  BY BeforeFacts
<1>2. Len(s) \in Nat
  BY LenProperties
<1>3. ASSUME NEW r \in W, NEW i \in 1..Len(t), i <= k, t[i] = r
      PROVE  \E j \in 1..Len(s) : j <= k /\ s[j] = r
  <2>1. i # 1
    BY <1>1, <1>3
  <2>2. i - 1 \in 1..Len(s) /\ i - 1 <= k /\ s[i - 1] = r
    BY <1>1, <1>2, <1>3, <2>1
  <2> QED
    BY <2>2
<1> QED
  BY <1>1, <1>3 DEF Behind

\* When a row leaves, the one after the place may come to be before it.
LEMMA BehindWithout ==
    ASSUME NEW s \in Seq(RowIds), NEW i \in 1..Len(s), NEW W \in SUBSET RowIds, NEW k \in Nat
    PROVE  /\ Behind(Without(s, i), W \ {s[i]}, k) \subseteq Behind(s, W, k) \cup {s[k + 1]}
           /\ i = Len(s) => Behind(Without(s, i), W \ {s[i]}, k) \subseteq Behind(s, W, k)
<1>1. PICK t \in Seq(RowIds) :
         /\ t = Without(s, i) /\ Len(t) = Len(s) - 1
         /\ \A j \in 1..(Len(s) - 1) : t[j] = IF j < i THEN s[j] ELSE s[j + 1]
  BY WithoutFacts
<1>2. Len(s) \in Nat
  BY LenProperties
<1>3. ASSUME NEW r \in W \ {s[i]}, NEW j \in 1..Len(t), j <= k, t[j] = r
      PROVE  /\ r = s[k + 1] \/ \E h \in 1..Len(s) : h <= k /\ s[h] = r
             /\ i = Len(s) => \E h \in 1..Len(s) : h <= k /\ s[h] = r
  <2>1. CASE j < i
    <3>1. j \in 1..Len(s) /\ s[j] = r
      BY <1>1, <1>2, <1>3, <2>1
    <3> QED
      BY <1>3, <3>1
  <2>2. CASE ~(j < i)
    <3>1. j + 1 \in 1..Len(s) /\ s[j + 1] = r /\ i # Len(s)
      BY <1>1, <1>2, <1>3, <2>2
    <3>2. j + 1 <= k \/ j = k
      BY <1>2, <1>3
    <3> QED
      BY <3>1, <3>2
  <2> QED
    BY <2>1, <2>2
<1> QED
  BY <1>1, <1>3 DEF Behind

LEMMA BehindMoved ==
    ASSUME NEW s \in Seq(RowIds), NEW i \in 1..Len(s), NEW W \in SUBSET RowIds, NEW k \in Nat
    PROVE  Behind(<<s[i]>> \o Without(s, i), W \ {s[i]}, k) \subseteq Behind(s, W, k)
<1>1. PICK u \in Seq(RowIds) :
         /\ u = Without(s, i) /\ Len(u) = Len(s) - 1
         /\ \A j \in 1..(Len(s) - 1) : u[j] = IF j < i THEN s[j] ELSE s[j + 1]
  BY WithoutFacts
<1>2. Len(s) \in Nat /\ s[i] \in RowIds
  BY RowsOfSeq
<1>3. PICK t \in Seq(RowIds) :
         /\ t = <<s[i]>> \o u /\ Len(t) = Len(u) + 1 /\ t[1] = s[i]
         /\ \A j \in 2..(Len(u) + 1) : t[j] = u[j - 1]
  BY <1>2, BeforeFacts
<1>4. ASSUME NEW r \in W \ {s[i]}, NEW j \in 1..Len(t), j <= k, t[j] = r
      PROVE  \E h \in 1..Len(s) : h <= k /\ s[h] = r
  <2>1. j # 1
    BY <1>3, <1>4
  <2>2. u[j - 1] = r /\ j - 1 \in 1..(Len(s) - 1) /\ j \in 1..Len(s)
    BY <1>1, <1>2, <1>3, <1>4, <2>1
  <2>3. CASE j - 1 < i
    <3>1. s[j - 1] = r /\ j - 1 \in 1..Len(s) /\ j - 1 <= k
      BY <1>1, <1>2, <1>4, <2>2, <2>3
    <3> QED
      BY <3>1
  <2>4. CASE ~(j - 1 < i)
    <3>1. s[j] = r
      BY <1>1, <1>2, <2>2, <2>4
    <3> QED
      BY <1>4, <2>2, <3>1
  <2> QED
    BY <2>3, <2>4
<1>5. <<s[i]>> \o Without(s, i) = t
  BY <1>1, <1>3
<1> QED
  BY <1>4, <1>5 DEF Behind

LEMMA BehindPrefix ==
    ASSUME NEW s \in Seq(RowIds), NEW m \in 0..Len(s), NEW W \in SUBSET RowIds, NEW V \in SUBSET W, NEW k \in Nat
    PROVE  Behind(SubSeq(s, 1, m), V, k) \subseteq Behind(s, W, k)
<1>1. PICK t \in Seq(RowIds) : t = SubSeq(s, 1, m) /\ Len(t) = m /\ \A j \in 1..m : t[j] = s[j]
  BY PrefixFacts
<1>2. Len(s) \in Nat
  BY LenProperties
<1>3. \A j \in 1..Len(t) : j \in 1..Len(s) /\ t[j] = s[j]
  BY <1>1, <1>2
<1> QED
  BY <1>1, <1>3 DEF Behind

\* The rows of a list that is changed, and that they stay distinct.
LEMMA WithoutRows ==
    ASSUME NEW s \in Seq(RowIds), Distinct(s), NEW i \in 1..Len(s)
    PROVE  /\ Distinct(Without(s, i))
           /\ \A j \in 1..Len(Without(s, i)) : \E h \in 1..Len(s) : h # i /\ Without(s, i)[j] = s[h]
           /\ \A h \in 1..Len(s) : h # i => \E j \in 1..Len(Without(s, i)) : Without(s, i)[j] = s[h]
<1>1. PICK t \in Seq(RowIds) :
         /\ t = Without(s, i) /\ Len(t) = Len(s) - 1
         /\ \A j \in 1..(Len(s) - 1) : t[j] = IF j < i THEN s[j] ELSE s[j + 1]
  BY WithoutFacts
<1>2. Len(s) \in Nat
  BY LenProperties
<1> DEFINE at(j) == IF j < i THEN j ELSE j + 1
<1>3. \A j \in 1..Len(t) : at(j) \in 1..Len(s) /\ at(j) # i /\ t[j] = s[at(j)]
  BY <1>1, <1>2
<1>4. \A j, h \in 1..Len(t) : at(j) = at(h) => j = h
  BY <1>1, <1>2
<1>5. Distinct(t)
  <2> SUFFICES ASSUME NEW j \in 1..Len(t), NEW h \in 1..Len(t), t[j] = t[h] PROVE j = h
    BY DEF Distinct
  <2> HIDE DEF at
  <2>1. at(j) = at(h)
    BY <1>3 DEF Distinct
  <2> QED
    BY <1>4, <2>1
<1>6. \A h \in 1..Len(s) : h # i => \E j \in 1..Len(t) : t[j] = s[h]
  <2> SUFFICES ASSUME NEW h \in 1..Len(s), h # i PROVE \E j \in 1..Len(t) : t[j] = s[h]
    OBVIOUS
  <2>1. CASE h < i
    <3>1. h \in 1..Len(t) /\ t[h] = s[h]
      BY <1>1, <1>2, <2>1
    <3> QED
      BY <3>1
  <2>2. CASE h > i
    <3>1. h - 1 \in 1..Len(t) /\ t[h - 1] = s[h]
      <4>1. h - 1 \in 1..(Len(s) - 1) /\ ~(h - 1 < i) /\ (h - 1) + 1 = h
        BY <1>2, <2>2
      <4> QED
        BY <1>1, <4>1
    <3> QED
      BY <3>1
  <2> QED
    BY <1>2, <2>1, <2>2
<1> HIDE DEF at
<1> QED
  BY <1>1, <1>3, <1>5, <1>6

LEMMA BeforeRows ==
    ASSUME NEW s \in Seq(RowIds), Distinct(s), NEW x \in RowIds, \A j \in 1..Len(s) : s[j] # x
    PROVE  /\ Distinct(<<x>> \o s)
           /\ \A j \in 1..Len(<<x>> \o s) :
                 (<<x>> \o s)[j] = x \/ \E h \in 1..Len(s) : (<<x>> \o s)[j] = s[h]
           /\ \A h \in 1..Len(s) : \E j \in 1..Len(<<x>> \o s) : (<<x>> \o s)[j] = s[h]
<1>1. PICK t \in Seq(RowIds) :
         /\ t = <<x>> \o s /\ Len(t) = Len(s) + 1 /\ t[1] = x
         /\ \A j \in 2..(Len(s) + 1) : t[j] = s[j - 1]
  BY BeforeFacts
<1>2. Len(s) \in Nat
  BY LenProperties
<1>3. \A j \in 1..Len(t) : j # 1 => j - 1 \in 1..Len(s) /\ t[j] = s[j - 1]
  BY <1>1, <1>2
<1>4. Distinct(t)
  <2> SUFFICES ASSUME NEW j \in 1..Len(t), NEW h \in 1..Len(t), t[j] = t[h] PROVE j = h
    BY DEF Distinct
  <2>1. CASE j = 1 \/ h = 1
    BY <1>1, <1>3, <2>1
  <2>2. CASE j # 1 /\ h # 1
    <3>1. j - 1 = h - 1
      BY <1>3, <2>2 DEF Distinct
    <3> QED
      BY <1>1, <1>2, <3>1
  <2> QED
    BY <2>1, <2>2
<1>5. \A h \in 1..Len(s) : h + 1 \in 1..Len(t) /\ t[h + 1] = s[h]
  <2> TAKE h \in 1..Len(s)
  <2>1. h + 1 \in 2..(Len(s) + 1) /\ (h + 1) - 1 = h
    BY <1>2
  <2> QED
    BY <1>1, <1>2, <2>1
<1> QED
  BY <1>1, <1>3, <1>4, <1>5

LEMMA ReaderShape ==
    ASSUME ListingsTypeOK, reader.op # "idle"
    PROVE  /\ reader.op \in {"read", "end"} /\ reader.page \in 1..(MaxRows + 1)
           /\ reader.seen \in SUBSET RowIds /\ reader.stayed \in SUBSET RowIds /\ reader.left \in 0..MaxLeft
           /\ reader = [op |-> reader.op, page |-> reader.page, seen |-> reader.seen,
                        stayed |-> reader.stayed, left |-> reader.left]
<1>1. reader \in ReaderRecords
  BY DEF ListingsTypeOK
<1> QED
  BY <1>1 DEF ReaderRecords

LEMMA ReaderForms ==
    /\ [op |-> "idle"] \in ReaderRecords
    /\ \A o \in {"read", "end"}, p \in 1..(MaxRows + 1), A, B \in SUBSET RowIds, n \in 0..MaxLeft :
          [op |-> o, page |-> p, seen |-> A, stayed |-> B, left |-> n] \in ReaderRecords
<1>1. [op |-> "idle"] \in ReaderRecords
  BY DEF ReaderRecords
<1>2. \A o \in {"read", "end"}, p \in 1..(MaxRows + 1), A, B \in SUBSET RowIds, n \in 0..MaxLeft :
          [op |-> o, page |-> p, seen |-> A, stayed |-> B, left |-> n] \in ReaderRecords
  BY DEF ReaderRecords
<1> QED
  BY <1>1, <1>2

LEMMA SkipFacts ==
    /\ \A p \in Nat \ {0} : Skip(p) \in Nat /\ p - 1 <= Skip(p) /\ Skip(p + 1) = Skip(p) + Limit
    /\ Skip(1) = 0
<1>1. Limit \in Nat /\ Limit >= 1
  BY ListingsAssumption
<1>2. ASSUME NEW q \in Nat PROVE q * Limit \in Nat /\ q <= q * Limit /\ (q + 1) * Limit = q * Limit + Limit
  BY <1>1
<1>3. ASSUME NEW p \in Nat \ {0} PROVE Skip(p) \in Nat /\ p - 1 <= Skip(p) /\ Skip(p + 1) = Skip(p) + Limit
  <2>1. PICK q \in Nat : q = p - 1
    OBVIOUS
  <2>2. Skip(p) = q * Limit /\ Skip(p + 1) = (q + 1) * Limit
    BY <2>1 DEF Skip
  <2> QED
    BY <1>2, <2>1, <2>2
<1>4. Skip(1) = 0
  BY <1>1 DEF Skip
<1> QED
  BY <1>3, <1>4

\* A reader who is not reading, or whose page and what he has seen stay.
LEMMA ReaderKept ==
    ASSUME ListingsIInv,
           \/ reader.op = "idle" /\ reader' = reader
           \/ \E B \in SUBSET RowIds, n \in 0..MaxLeft :
                /\ reader.op # "idle"
                /\ B \subseteq reader.stayed /\ reader.left <= n
                /\ reader' = [op |-> reader.op, page |-> reader.page, seen |-> reader.seen,
                              stayed |-> B, left |-> n]
                /\ reader.op = "read" =>
                      /\ B \subseteq RowsOf(rows')
                      /\ Cardinality(Behind(rows', B \ reader.seen, Skip(reader.page))) <= n
    PROVE  reader' \in ReaderRecords /\ ReaderSound'
<1>1. CASE reader.op = "idle" /\ reader' = reader
  BY <1>1 DEF ListingsIInv, ListingsTypeOK, ReaderSound, RowsMissedFew
<1>2. ASSUME NEW B \in SUBSET RowIds, NEW n \in 0..MaxLeft, reader.op # "idle",
             B \subseteq reader.stayed, reader.left <= n,
             reader' = [op |-> reader.op, page |-> reader.page, seen |-> reader.seen,
                              stayed |-> B, left |-> n],
             reader.op = "read" =>
                      /\ B \subseteq RowsOf(rows')
                      /\ Cardinality(Behind(rows', B \ reader.seen, Skip(reader.page))) <= n
      PROVE  reader' \in ReaderRecords /\ ReaderSound'
  <2>1. /\ reader.op \in {"read", "end"} /\ reader.page \in 1..(MaxRows + 1) /\ reader.seen \in SUBSET RowIds
        /\ reader.stayed \in SUBSET RowIds /\ reader.left \in 0..MaxLeft
    BY <1>2, ReaderShape DEF ListingsIInv
  <2>2. reader' \in ReaderRecords
    BY <1>2, <2>1, ReaderForms
  <2>3. /\ reader'.op = reader.op /\ reader'.page = reader.page /\ reader'.seen = reader.seen
        /\ reader'.stayed = B /\ reader'.left = n
    BY <1>2
  <2>4. RowsMissedFew'
    <3> SUFFICES ASSUME reader.op = "end" PROVE Cardinality(B \ reader.seen) <= n
      BY <2>3 DEF RowsMissedFew
    <3>1. Cardinality(reader.stayed \ reader.seen) <= reader.left
      BY DEF ListingsIInv, ReaderSound, RowsMissedFew
    <3>2. /\ B \ reader.seen \in SUBSET RowIds /\ reader.stayed \ reader.seen \in SUBSET RowIds
          /\ B \ reader.seen \subseteq reader.stayed \ reader.seen /\ reader.left \in Nat /\ n \in Nat
      BY <1>2, <2>1, ListingsAssumption
    <3>3. Cardinality(B \ reader.seen) <= reader.left /\ Cardinality(B \ reader.seen) \in Nat
      BY <3>1, <3>2, FewerBehind, RowIdsFacts
    <3> QED
      BY <1>2, <3>2, <3>3
  <2>5. ReaderSound'
    BY <1>2, <2>3, <2>4 DEF ReaderSound
  <2> QED
    BY <2>2, <2>5
<1> QED
  BY <1>1, <1>2

LEMMA ReadingKept ==
    ASSUME ListingsIInv, reader.op = "read",
           NEW B \in SUBSET RowIds, NEW n \in 0..MaxLeft,
           reader' = [op |-> reader.op, page |-> reader.page, seen |-> reader.seen, stayed |-> B, left |-> n],
           B \subseteq reader.stayed /\ reader.left <= n,
           B \subseteq RowsOf(rows') /\ Cardinality(Behind(rows', B \ reader.seen, Skip(reader.page))) <= n
    PROVE  reader' \in ReaderRecords /\ ReaderSound'
<1>1. \E C \in SUBSET RowIds, m \in 0..MaxLeft :
                /\ reader.op # "idle"
                /\ C \subseteq reader.stayed /\ reader.left <= m
                /\ reader' = [op |-> reader.op, page |-> reader.page, seen |-> reader.seen,
                              stayed |-> C, left |-> m]
                /\ reader.op = "read" =>
                      /\ C \subseteq RowsOf(rows')
                      /\ Cardinality(Behind(rows', C \ reader.seen, Skip(reader.page))) <= m
  <2> WITNESS B \in SUBSET RowIds, n \in 0..MaxLeft
  <2> QED
    OBVIOUS
<1> QED
  BY <1>1, ReaderKept

LEMMA RowsStep ==
    ASSUME list' \in Lists, came' \in 0..MaxRows, RowsTyped', reader' \in ReaderRecords, ReaderSound'
    PROVE  ListingsIInv'
<1>1. PICK s \in Seq(RowIds), c \in 0..MaxRows : 
         s = rows' /\ c = came' /\ Distinct(s) /\ \A i \in 1..Len(s) : s[i] \in 1..c
  BY DEF RowsTyped
<1>2. RowsOf(s) \subseteq 1..c /\ Cardinality(RowsOf(s)) = Len(s)
  BY <1>1, RowsTypeOK, ListingsAssumption
<1>3. ListingsTypeOK'
  BY <1>1, <1>2 DEF ListingsTypeOK
<1> QED
  BY <1>3 DEF ListingsIInv

LEMMA ReadingFacts ==
    ASSUME ListingsIInv, reader.op = "read"
    PROVE  /\ reader.stayed \subseteq RowsOf(rows)
           /\ Cardinality(Behind(rows, reader.stayed \ reader.seen, Skip(reader.page))) <= reader.left
           /\ reader.stayed \in SUBSET RowIds /\ reader.seen \in SUBSET RowIds
           /\ reader.left \in 0..MaxLeft /\ reader.page \in Nat \ {0} /\ reader.page \in 1..(MaxRows + 1)
           /\ Skip(reader.page) \in Nat
<1>1. /\ reader.page \in 1..(MaxRows + 1) /\ reader.seen \in SUBSET RowIds
      /\ reader.stayed \in SUBSET RowIds /\ reader.left \in 0..MaxLeft
  BY ReaderShape DEF ListingsIInv
<1>2. reader.page \in Nat \ {0}
  BY <1>1, ListingsAssumption
<1> QED
  BY <1>1, <1>2, SkipFacts DEF ListingsIInv, ReaderSound

LEMMA RowComesStep == ASSUME ListingsIInv, RowComes PROVE ListingsIInv'
<1>1. PICK c \in 0..MaxRows : c = came /\ c < MaxRows
  BY DEF ListingsIInv, ListingsTypeOK, RowComes
<1>2. PICK x \in RowIds : x = c + 1
  BY <1>1, ListingsAssumption DEF RowIds
<1>3. came' = x /\ rows' = <<x>> \o rows /\ list' = list /\ reader' = reader
  BY <1>1, <1>2 DEF RowComes
<1>4. /\ rows \in Seq(RowIds) /\ Distinct(rows) /\ \A i \in 1..Len(rows) : rows[i] \in 1..c
  BY <1>1 DEF ListingsIInv, RowsTyped
<1>5. \A i \in 1..Len(rows) : rows[i] # x /\ rows[i] \in 1..x
  BY <1>1, <1>2, <1>4
<1>6. x \in 0..MaxRows /\ x \in 1..x
  BY <1>1, <1>2 DEF RowIds
<1>7. PICK t \in Seq(RowIds) :
         /\ t = <<x>> \o rows /\ Distinct(t)
         /\ \A j \in 1..Len(t) : t[j] = x \/ \E h \in 1..Len(rows) : t[j] = rows[h]
         /\ \A h \in 1..Len(rows) : \E j \in 1..Len(t) : t[j] = rows[h]
  BY <1>4, <1>5, BeforeFacts, BeforeRows
<1>8. \A j \in 1..Len(t) : t[j] \in 1..x
  BY <1>5, <1>6, <1>7
<1>9. RowsTyped'
  BY <1>3, <1>7, <1>8 DEF RowsTyped
<1>10. reader' \in ReaderRecords /\ ReaderSound'
  <2>1. CASE reader.op = "idle"
    BY <1>3, <2>1, ReaderKept
  <2>2. CASE reader.op = "end"
    <3>1. /\ reader.stayed \in SUBSET RowIds /\ reader.left \in 0..MaxLeft /\ reader.left <= reader.left
          /\ reader' = [op |-> reader.op, page |-> reader.page, seen |-> reader.seen,
                        stayed |-> reader.stayed, left |-> reader.left]
      BY <1>3, <2>2, ReaderShape DEF ListingsIInv
    <3> QED
      BY <2>2, <3>1, ReaderKept
  <2>3. CASE reader.op = "read"
    <3>1. PICK B, S \in SUBSET RowIds, n \in 0..MaxLeft, k \in Nat :
             B = reader.stayed /\ S = reader.seen /\ n = reader.left /\ k = Skip(reader.page)
      BY <2>3, ReadingFacts
    <3>2. n \in Nat /\ n <= n /\ B \subseteq RowsOf(rows) /\ Cardinality(Behind(rows, B \ S, k)) <= n
      BY <2>3, <3>1, ReadingFacts, ListingsAssumption
    <3>3. \A r \in B : \E h \in 1..Len(rows) : rows[h] = r
      BY <1>4, <3>2, RowsOfSeq
    <3>4. x \notin B
      BY <1>5, <3>3
    <3>5. B \subseteq RowsOf(t)
      <4>1. RowsOf(t) = {t[j] : j \in 1..Len(t)}
        BY RowsOfSeq
      <4>2. \A r \in B : \E j \in 1..Len(t) : t[j] = r
        BY <1>7, <3>3
      <4> QED
        BY <4>1, <4>2
    <3>6. Behind(t, B \ S, k) \subseteq Behind(rows, B \ S, k)
      BY <1>4, <1>7, <3>4, BehindBefore
    <3>7. Cardinality(Behind(t, B \ S, k)) <= n
      <4>1. Behind(t, B \ S, k) \in SUBSET RowIds /\ Behind(rows, B \ S, k) \in SUBSET RowIds
        BY DEF Behind
      <4> QED
        BY <3>2, <3>6, <4>1, FewerBehind
    <3>8. reader' = [op |-> reader.op, page |-> reader.page, seen |-> reader.seen, stayed |-> B, left |-> n]
      BY <1>3, <2>3, <3>1, ReaderShape DEF ListingsIInv
    <3>9. rows' = t /\ B \subseteq reader.stayed /\ reader.left <= n
      BY <1>3, <1>7, <3>1, <3>2
    <3>10. B \subseteq RowsOf(rows') /\ Cardinality(Behind(rows', B \ reader.seen, Skip(reader.page))) <= n
      BY <3>1, <3>5, <3>7, <3>9
    <3> QED
      BY <2>3, <3>8, <3>9, <3>10, ReadingKept
  <2> QED
    BY <2>1, <2>2, <2>3, ReaderShape DEF ListingsIInv
<1> QED
  BY <1>3, <1>6, <1>9, <1>10, RowsStep DEF ListingsIInv, ListingsTypeOK

MayLose(l) == reader.op # "idle" => reader.left + l \in 0..MaxLeft

\* At most l rows come to be behind a place.
LosesAtMost(s, t, x, l) ==
    \A W \in SUBSET RowIds, k \in Nat :
       \/ Behind(t, W \ {x}, k) \subseteq Behind(s, W, k)
       \/ l = 1 /\ \E y : Behind(t, W \ {x}, k) \subseteq Behind(s, W, k) \cup {y}

\* The reader loses a row.
LEMMA LoseStep ==
    ASSUME ListingsIInv, NEW t \in Seq(RowIds), rows' = t, NEW x \in RowIds, NEW l \in {0, 1}, Lose(x, l),
           MayLose(l),
           \A r \in RowsOf(rows) : r # x => r \in RowsOf(t),
           LosesAtMost(rows, t, x, l)
    PROVE  reader' \in ReaderRecords /\ ReaderSound'
<1>1. CASE reader.op = "idle"
  BY <1>1, ReaderKept DEF Lose
<1>2. CASE reader.op # "idle"
  <2>1. PICK B, S \in SUBSET RowIds, n \in Nat : B = reader.stayed /\ S = reader.seen /\ n = reader.left
    BY <1>2, ReaderShape, ListingsAssumption DEF ListingsIInv
  <2>2. PICK m \in 0..MaxLeft : m = n + l
    BY <1>2, <2>1 DEF MayLose
  <2>3. m \in Nat /\ n <= m
    BY <2>2, ListingsAssumption
  <2>4. reader' = [op |-> reader.op, page |-> reader.page, seen |-> reader.seen, stayed |-> B \ {x}, left |-> m]
    <3>1. reader' = [reader EXCEPT !.stayed = @ \ {x}, !.left = @ + l]
      BY <1>2 DEF Lose
    <3>2. reader' = [reader EXCEPT !.stayed = B \ {x}, !.left = m]
      BY <2>1, <2>2, <3>1
    <3>3. reader = [op |-> reader.op, page |-> reader.page, seen |-> reader.seen, stayed |-> B, left |-> reader.left]
      BY <1>2, <2>1, ReaderShape DEF ListingsIInv
    <3> QED
      BY <3>2, <3>3
  <2>5. B \ {x} \in SUBSET RowIds /\ B \ {x} \subseteq reader.stayed /\ reader.left <= m
    BY <2>1, <2>3
  <2>6. CASE reader.op = "end"
    BY <1>2, <2>4, <2>5, <2>6, ReaderKept
  <2>7. CASE reader.op = "read"
    <3>1. PICK k \in Nat : k = Skip(reader.page)
      BY <2>7, ReadingFacts
    <3>2. B \subseteq RowsOf(rows) /\ Cardinality(Behind(rows, B \ S, k)) <= n
      BY <2>1, <2>7, <3>1, ReadingFacts
    <3>3. B \ {x} \subseteq RowsOf(t)
      BY <3>2
    <3> DEFINE V == Behind(t, (B \ S) \ {x}, k)  W == Behind(rows, B \ S, k)
    <3>4. V \in SUBSET RowIds /\ W \in SUBSET RowIds
      BY DEF Behind
    <3>5. V \subseteq W \/ (l = 1 /\ \E y : V \subseteq W \cup {y})
      <4>1. B \ S \in SUBSET RowIds
        OBVIOUS
      <4> QED
        BY <4>1 DEF LosesAtMost
    <3>6. Cardinality(W) <= n /\ Cardinality(W) \in Nat /\ Cardinality(V) \in Nat /\ IsFiniteSet(W)
      BY <3>2, <3>4, RowIdsFacts
    <3> HIDE DEF V, W
    <3>7. Cardinality(V) <= m
      <4>1. CASE V \subseteq W
        <5>1. Cardinality(V) <= n
          BY <3>4, <3>6, <4>1, FewerBehind
        <5> QED
          BY <2>3, <3>6, <5>1
      <4>2. ASSUME l = 1, NEW y, V \subseteq W \cup {y} PROVE Cardinality(V) <= m
        <5>1. /\ IsFiniteSet(W \cup {y})
              /\ Cardinality(W \cup {y}) = IF y \in W THEN Cardinality(W) ELSE Cardinality(W) + 1
          BY <3>6, FS_AddElement
        <5>2. Cardinality(V) <= Cardinality(W \cup {y})
          BY <4>2, <5>1, FS_Subset
        <5> QED
          BY <2>2, <3>6, <4>2, <5>1, <5>2
      <4> QED
        BY <3>5, <4>1, <4>2
    <3>8. (B \ {x}) \ S = (B \ S) \ {x}
      OBVIOUS
    <3>9. B \ {x} \subseteq RowsOf(rows') /\ Cardinality(Behind(rows', (B \ {x}) \ reader.seen, Skip(reader.page))) <= m
      BY <2>1, <3>1, <3>3, <3>7, <3>8 DEF V
    <3> QED
      BY <2>4, <2>5, <2>7, <3>9, ReadingKept
  <2> QED
    BY <1>2, <2>6, <2>7, ReaderShape DEF ListingsIInv
<1> QED
  BY <1>1, <1>2

LEMMA SameRows ==
    ASSUME NEW s \in Seq(RowIds), NEW t \in Seq(RowIds), NEW x,
           \A h \in 1..Len(s) : s[h] # x => \E j \in 1..Len(t) : t[j] = s[h]
    PROVE  \A r \in RowsOf(s) : r # x => r \in RowsOf(t)
<1>1. RowsOf(s) = {s[j] : j \in 1..Len(s)} /\ RowsOf(t) = {t[j] : j \in 1..Len(t)}
  BY RowsOfSeq
<1> QED
  BY <1>1

LEMMA ListFacts ==
    ASSUME ListingsIInv
    PROVE  /\ rows \in Seq(RowIds) /\ Distinct(rows) /\ DOMAIN rows = 1..Len(rows) /\ Len(rows) \in Nat
           /\ came \in 0..MaxRows /\ \A j \in 1..Len(rows) : rows[j] \in 1..came
           /\ list \in Lists
BY LenProperties DEF ListingsIInv, ListingsTypeOK, RowsTyped

LEMMA RowLeavesStep == ASSUME ListingsIInv, NEW i \in DOMAIN rows, RowLeaves(i) PROVE ListingsIInv'
<1>1. i \in 1..Len(rows) /\ rows[i] \in RowIds
  BY ListFacts, RowsOfSeq
<1>2. PICK t \in Seq(RowIds) :
         /\ t = Without(rows, i) /\ Distinct(t)
         /\ \A j \in 1..Len(t) : \E h \in 1..Len(rows) : h # i /\ t[j] = rows[h]
         /\ \A h \in 1..Len(rows) : h # i => \E j \in 1..Len(t) : t[j] = rows[h]
  BY <1>1, ListFacts, WithoutFacts, WithoutRows
<1>3. PICK x \in RowIds, l \in {0, 1} : x = rows[i] /\ l = (IF i < Len(rows) THEN 1 ELSE 0)
  BY <1>1
<1>4. rows' = t /\ Lose(x, l) /\ UNCHANGED <<list, came>>
  BY <1>2, <1>3 DEF RowLeaves
<1>5. RowsTyped'
  BY <1>2, <1>4, ListFacts DEF RowsTyped
<1>6. MayLose(l)
  <2> SUFFICES ASSUME reader.op # "idle" PROVE reader.left + l \in 0..MaxLeft
    BY DEF MayLose
  <2>1. reader.op = "read" /\ reader.left < MaxLeft
    BY ReaderShape DEF RowLeaves, ListingsIInv
  <2>2. PICK n \in Nat : n = reader.left
    BY <2>1, ReadingFacts, ListingsAssumption
  <2> QED
    BY <2>1, <2>2, ListingsAssumption
<1>7. \A r \in RowsOf(rows) : r # x => r \in RowsOf(t)
  <2>1. \A h \in 1..Len(rows) : rows[h] # x => \E j \in 1..Len(t) : t[j] = rows[h]
    BY <1>2, <1>3
  <2> QED
    BY <2>1, ListFacts, SameRows
<1>8. ASSUME NEW W \in SUBSET RowIds, NEW k \in Nat
      PROVE  \/ Behind(t, W \ {x}, k) \subseteq Behind(rows, W, k)
             \/ l = 1 /\ \E y : Behind(t, W \ {x}, k) \subseteq Behind(rows, W, k) \cup {y}
  <2>1. /\ Behind(t, W \ {x}, k) \subseteq Behind(rows, W, k) \cup {rows[k + 1]}
        /\ i = Len(rows) => Behind(t, W \ {x}, k) \subseteq Behind(rows, W, k)
    BY <1>1, <1>2, <1>3, ListFacts, BehindWithout
  <2>2. i # Len(rows) => l = 1
    BY <1>1, <1>3, ListFacts
  <2> QED
    BY <2>1, <2>2
<1>9. reader' \in ReaderRecords /\ ReaderSound'
  <2>1. LosesAtMost(rows, t, x, l)
    BY <1>8 DEF LosesAtMost
  <2> QED
    BY <1>4, <1>6, <1>7, <2>1, LoseStep
<1> QED
  BY <1>4, <1>5, <1>9, ListFacts, RowsStep

LEMMA RowMovesStep == ASSUME ListingsIInv, NEW i \in DOMAIN rows, RowMoves(i) PROVE ListingsIInv'
<1>1. i \in 1..Len(rows) /\ rows[i] \in RowIds
  BY ListFacts, RowsOfSeq
<1>2. PICK u \in Seq(RowIds) :
         /\ u = Without(rows, i) /\ Distinct(u)
         /\ \A j \in 1..Len(u) : \E h \in 1..Len(rows) : h # i /\ u[j] = rows[h]
         /\ \A h \in 1..Len(rows) : h # i => \E j \in 1..Len(u) : u[j] = rows[h]
  BY <1>1, ListFacts, WithoutFacts, WithoutRows
<1>3. PICK x \in RowIds : x = rows[i]
  BY <1>1
<1>4. \A j \in 1..Len(u) : u[j] # x
  <2> TAKE j \in 1..Len(u)
  <2>1. PICK h \in 1..Len(rows) : h # i /\ u[j] = rows[h]
    BY <1>2
  <2>2. \A g \in 1..Len(rows) : rows[g] = rows[i] => g = i
    BY <1>1, ListFacts DEF Distinct
  <2> QED
    BY <1>3, <2>1, <2>2
<1>5. PICK t \in Seq(RowIds) :
         /\ t = <<x>> \o u /\ Distinct(t)
         /\ \A j \in 1..Len(t) : t[j] = x \/ \E h \in 1..Len(u) : t[j] = u[h]
         /\ \A h \in 1..Len(u) : \E j \in 1..Len(t) : t[j] = u[h]
  BY <1>2, <1>4, BeforeFacts, BeforeRows
<1>6. rows' = t /\ Lose(x, 0) /\ UNCHANGED <<list, came>>
  BY <1>2, <1>3, <1>5 DEF RowMoves
<1>7. \A j \in 1..Len(t) : \E h \in 1..Len(rows) : t[j] = rows[h]
  <2> TAKE j \in 1..Len(t)
  <2>1. CASE t[j] = x
    BY <1>1, <1>3, <2>1
  <2>2. ASSUME NEW g \in 1..Len(u), t[j] = u[g] PROVE \E h \in 1..Len(rows) : t[j] = rows[h]
    <3>1. PICK h \in 1..Len(rows) : u[g] = rows[h]
      BY <1>2
    <3> QED
      BY <2>2, <3>1
  <2> QED
    BY <1>5, <2>1, <2>2
<1>8. RowsTyped'
  BY <1>5, <1>6, <1>7, ListFacts DEF RowsTyped
<1>9. \A r \in RowsOf(rows) : r # x => r \in RowsOf(t)
  <2>1. \A h \in 1..Len(rows) : rows[h] # x => \E j \in 1..Len(t) : t[j] = rows[h]
    <3> TAKE h \in 1..Len(rows)
    <3> SUFFICES ASSUME rows[h] # x PROVE \E j \in 1..Len(t) : t[j] = rows[h]
      OBVIOUS
    <3>1. PICK j \in 1..Len(u) : u[j] = rows[h]
      BY <1>2, <1>3
    <3> QED
      BY <1>5, <3>1
  <2> QED
    BY <2>1, ListFacts, SameRows
<1>10. LosesAtMost(rows, t, x, 0)
  BY <1>1, <1>2, <1>3, <1>5, ListFacts, BehindMoved DEF LosesAtMost
<1>11. MayLose(0)
  <2> SUFFICES ASSUME reader.op # "idle" PROVE reader.left + 0 \in 0..MaxLeft
    BY DEF MayLose
  <2>1. PICK n \in 0..MaxLeft : n = reader.left
    BY ReaderShape DEF ListingsIInv
  <2>2. n + 0 = n
    BY ListingsAssumption
  <2> QED
    BY <2>1, <2>2
<1>12. reader' \in ReaderRecords /\ ReaderSound'
  BY <1>6, <1>9, <1>10, <1>11, LoseStep
<1> QED
  BY <1>6, <1>8, <1>12, ListFacts, RowsStep

LEMMA CleanUpRowsStep == ASSUME ListingsIInv, NEW i \in DOMAIN rows, CleanUpRows(i - 1) PROVE ListingsIInv'
<1>1. PICK m \in 0..Len(rows) : m = i - 1
  BY ListFacts
<1>2. PICK t \in Seq(RowIds) : t = SubSeq(rows, 1, m) /\ Len(t) = m /\ \A j \in 1..m : t[j] = rows[j]
  BY ListFacts, PrefixFacts
<1>3. /\ rows' = t /\ UNCHANGED <<list, came>> /\ reader.op # "end"
      /\ reader' = IF reader.op = "idle" THEN reader ELSE [reader EXCEPT !.stayed = @ \cap RowsOf(t)]
  BY <1>1, <1>2 DEF CleanUpRows
<1>4. \A j \in 1..Len(t) : j \in 1..Len(rows) /\ t[j] = rows[j]
  BY <1>2, ListFacts
<1>5. RowsTyped'
  BY <1>3, <1>4, ListFacts DEF RowsTyped, Distinct
<1>6. reader' \in ReaderRecords /\ ReaderSound'
  <2>1. CASE reader.op = "idle"
    BY <1>3, <2>1, ReaderKept
  <2>2. CASE reader.op = "read"
    <3>1. PICK B, S \in SUBSET RowIds, n \in 0..MaxLeft, k \in Nat :
             B = reader.stayed /\ S = reader.seen /\ n = reader.left /\ k = Skip(reader.page)
      BY <2>2, ReadingFacts
    <3>2. n \in Nat /\ n <= n /\ Cardinality(Behind(rows, B \ S, k)) <= n
      BY <2>2, <3>1, ReadingFacts, ListingsAssumption
    <3> DEFINE C == B \cap RowsOf(t)
    <3>3. C \in SUBSET RowIds /\ C \subseteq RowsOf(t) /\ C \subseteq reader.stayed /\ reader.left <= n
          /\ C \ S \in SUBSET (B \ S)
      BY <3>1, <3>2
    <3>4. reader' = [op |-> reader.op, page |-> reader.page, seen |-> reader.seen, stayed |-> C, left |-> n]
      <4>1. reader' = [reader EXCEPT !.stayed = C]
        BY <1>3, <2>2, <3>1
      <4>2. reader = [op |-> reader.op, page |-> reader.page, seen |-> reader.seen, stayed |-> B, left |-> n]
        BY <2>2, <3>1, ReaderShape DEF ListingsIInv
      <4> HIDE DEF C
      <4> QED
        BY <4>1, <4>2
    <3> HIDE DEF C
    <3>5. Behind(t, C \ S, k) \subseteq Behind(rows, B \ S, k)
      BY <1>2, <3>3, ListFacts, BehindPrefix
    <3>6. Cardinality(Behind(t, C \ S, k)) <= n
      <4>1. Behind(t, C \ S, k) \in SUBSET RowIds /\ Behind(rows, B \ S, k) \in SUBSET RowIds
        BY <3>3 DEF Behind
      <4> QED
        BY <3>2, <3>5, <4>1, FewerBehind
    <3>7. C \subseteq RowsOf(rows') /\ Cardinality(Behind(rows', C \ reader.seen, Skip(reader.page))) <= n
      BY <1>3, <3>1, <3>3, <3>6
    <3> QED
      BY <2>2, <3>3, <3>4, <3>7, ReadingKept
  <2> QED
    BY <1>3, <2>1, <2>2, ReaderShape DEF ListingsIInv
<1> QED
  BY <1>3, <1>5, <1>6, ListFacts, RowsStep

LEMMA StartReadingStep == ASSUME ListingsIInv, StartReading PROVE ListingsIInv'
<1>1. /\ UNCHANGED <<list, rows, came>>
      /\ reader' = [op |-> "read", page |-> 1, seen |-> {}, stayed |-> RowsOf(rows), left |-> 0]
  BY DEF StartReading
<1>2. RowsOf(rows) \in SUBSET RowIds
  BY ListFacts, RowsOfSeq
<1>3. reader' \in ReaderRecords
  <2>1. {} \in SUBSET RowIds /\ 0 \in 0..MaxLeft /\ 1 \in 1..(MaxRows + 1)
    BY ListingsAssumption
  <2> QED
    BY <1>1, <1>2, <2>1, ReaderForms
<1>4. Cardinality(Behind(rows, RowsOf(rows) \ {}, 0)) <= 0
  <2>1. Behind(rows, RowsOf(rows) \ {}, 0) = {}
    BY ListFacts DEF Behind
  <2> QED
    BY <2>1, FS_EmptySet
<1>5. ReaderSound'
  <2>1. /\ reader'.op = "read" /\ reader'.page = 1 /\ reader'.seen = {} /\ reader'.stayed = RowsOf(rows)
        /\ reader'.left = 0 /\ rows' = rows
    BY <1>1
  <2>2. reader'.stayed \subseteq RowsOf(rows') /\ RowsMissedFew'
    BY <2>1 DEF RowsMissedFew
  <2>3. Cardinality(Behind(rows', reader'.stayed \ reader'.seen, Skip(reader'.page))) <= reader'.left
    BY <1>4, <2>1, SkipFacts
  <2> QED
    BY <2>2, <2>3 DEF ReaderSound
<1>6. RowsTyped'
  BY <1>1 DEF ListingsIInv, RowsTyped
<1> QED
  BY <1>1, <1>3, <1>5, <1>6, ListFacts, RowsStep

\* A page that is full ends where the next one begins, one that is not is at the end.
LEMMA PageFacts ==
    ASSUME NEW s \in Seq(RowIds), NEW k \in Nat
    PROVE  LET P == {i \in DOMAIN s : k < i /\ i <= k + Limit}
           IN  IF Cardinality(P) = Limit THEN k + Limit <= Len(s) ELSE Len(s) <= k + Limit
<1> DEFINE P == {i \in DOMAIN s : k < i /\ i <= k + Limit}
<1>1. PICK n \in Nat : n = Len(s) /\ DOMAIN s = 1..n
  BY LenProperties
<1>2. PICK l \in Nat : l = Limit /\ l > 0
  BY ListingsAssumption
<1>3. CASE n >= k + l
  <2>1. P = (k + 1)..(k + l)
    BY <1>1, <1>2, <1>3
  <2>2. Cardinality((k + 1)..(k + l)) = l
    BY <1>2, FS_Interval
  <2> QED
    BY <1>1, <1>2, <1>3, <2>1, <2>2
<1>4. CASE n < k + l
  <2>1. P = (k + 1)..n
    BY <1>1, <1>2, <1>4
  <2>2. Cardinality((k + 1)..n) = IF k + 1 > n THEN 0 ELSE n - (k + 1) + 1
    BY FS_Interval
  <2>3. Cardinality(P) # l
    <3>1. PICK c : c = Cardinality(P)
      OBVIOUS
    <3> HIDE DEF P
    <3>2. c = IF k + 1 > n THEN 0 ELSE n - (k + 1) + 1
      BY <2>1, <2>2, <3>1
    <3> QED
      BY <1>2, <1>4, <3>1, <3>2
  <2> QED
    BY <1>1, <1>2, <1>4, <2>3
<1> QED
  BY <1>1, <1>2, <1>3, <1>4

LEMMA ReadRowsStep == ASSUME ListingsIInv, ReadRows PROVE ListingsIInv'
<1>1. reader.op = "read" /\ UNCHANGED <<list, rows, came>>
  BY DEF ReadRows
<1>2. PICK B, S \in SUBSET RowIds, n \in 0..MaxLeft, k \in Nat, p \in Nat \ {0} :
         B = reader.stayed /\ S = reader.seen /\ n = reader.left /\ p = reader.page /\ k = Skip(p)
  BY <1>1, ReadingFacts
<1>3. n \in Nat /\ B \subseteq RowsOf(rows) /\ Cardinality(Behind(rows, B \ S, k)) <= n
      /\ p \in 1..(MaxRows + 1)
  BY <1>1, <1>2, ReadingFacts, ListingsAssumption
<1> DEFINE P == {i \in DOMAIN rows : k < i /\ i <= k + Limit}
           T == {rows[i] : i \in P}
<1>4. P \subseteq 1..Len(rows) /\ T \in SUBSET RowIds
  BY ListFacts, RowsOfSeq
<1>5. reader' = [reader EXCEPT !.seen = @ \cup T,
                               !.page = IF Cardinality(P) = Limit THEN @ + 1 ELSE @,
                               !.op = IF Cardinality(P) = Limit THEN "read" ELSE "end"]
  BY <1>2 DEF ReadRows
<1>6. reader = [op |-> "read", page |-> p, seen |-> S, stayed |-> B, left |-> n]
  BY <1>1, <1>2, ReaderShape DEF ListingsIInv
<1>7. PICK l \in Nat : l = Limit
  BY ListingsAssumption
<1>8. IF Cardinality(P) = Limit THEN k + l <= Len(rows) ELSE Len(rows) <= k + l
  BY <1>7, ListFacts, PageFacts
<1>9. \A i \in 1..Len(rows) : i <= k \/ i > k + l \/ rows[i] \in T
  BY <1>7, ListFacts
<1>10. Behind(rows, B \ (S \cup T), k + l) \subseteq Behind(rows, B \ S, k)
  <2>1. ASSUME NEW r \in B \ (S \cup T), NEW i \in 1..Len(rows), i <= k + l, rows[i] = r
        PROVE  i <= k
    BY <1>9, <2>1, ListFacts
  <2> QED
    BY <2>1 DEF Behind
<1> DEFINE V == Behind(rows, B \ (S \cup T), k + l)
<1>11. Cardinality(V) <= n
  <2>1. V \in SUBSET RowIds /\ Behind(rows, B \ S, k) \in SUBSET RowIds
    BY DEF Behind
  <2> QED
    BY <1>3, <1>10, <2>1, FewerBehind
<1>12. RowsTyped'
  BY <1>1 DEF ListingsIInv, RowsTyped
<1>13. S \cup T \in SUBSET RowIds
  BY <1>4
<1> HIDE DEF P, T, V
<1>14. CASE Cardinality(P) = Limit
  <2>1. reader' = [op |-> "read", page |-> p + 1, seen |-> S \cup T, stayed |-> B, left |-> n]
    <3>1. PICK q : q = p + 1
      OBVIOUS
    <3>2. reader' = [reader EXCEPT !.seen = S \cup T, !.page = q, !.op = "read"]
      BY <1>5, <1>6, <1>14, <3>1
    <3> QED
      BY <1>6, <3>1, <3>2
  <2>2. p + 1 \in 1..(MaxRows + 1)
    <3>1. Len(rows) <= MaxRows /\ Len(rows) \in Nat
      <4>1. RowsOf(rows) \in SUBSET RowIds /\ Cardinality(RowsOf(rows)) = Len(rows)
        BY ListFacts, RowsAreCounted, RowsOfSeq
      <4>2. Cardinality(RowIds) = MaxRows
        BY ListingsAssumption, FS_Interval DEF RowIds
      <4> QED
        BY <4>1, <4>2, RowIdsFacts, FS_Subset, ListFacts
    <3>2. k + l <= Len(rows)
      BY <1>8, <1>14
    <3>3. p - 1 <= k /\ l >= 1
      BY <1>2, <1>7, SkipFacts, ListingsAssumption
    <3> QED
      BY <3>1, <3>2, <3>3, ListingsAssumption
  <2>3. reader' \in ReaderRecords
    BY <1>13, <2>1, <2>2, ReaderForms
  <2>4. Skip(p + 1) = k + l
    BY <1>2, <1>7, SkipFacts
  <2>5. ReaderSound'
    <3>1. /\ reader'.op = "read" /\ reader'.page = p + 1 /\ reader'.seen = S \cup T
          /\ reader'.stayed = B /\ reader'.left = n /\ rows' = rows
      BY <1>1, <2>1
    <3>2. RowsMissedFew' /\ reader'.stayed \subseteq RowsOf(rows')
      BY <1>3, <3>1 DEF RowsMissedFew
    <3>3. Cardinality(Behind(rows', reader'.stayed \ reader'.seen, Skip(reader'.page))) <= reader'.left
      BY <1>11, <2>4, <3>1 DEF V
    <3> QED
      BY <3>2, <3>3 DEF ReaderSound
  <2> QED
    BY <1>1, <1>12, <2>3, <2>5, ListFacts, RowsStep
<1>15. CASE Cardinality(P) # Limit
  <2>1. reader' = [op |-> "end", page |-> p, seen |-> S \cup T, stayed |-> B, left |-> n]
    <3>1. reader' = [reader EXCEPT !.seen = S \cup T, !.page = p, !.op = "end"]
      BY <1>5, <1>6, <1>15
    <3> QED
      BY <1>6, <3>1
  <2>2. reader' \in ReaderRecords
    BY <1>3, <1>13, <2>1, ReaderForms
  <2>3. B \ (S \cup T) \subseteq V
    <3>1. \A r \in B : \E i \in 1..Len(rows) : rows[i] = r
      BY <1>3, ListFacts, RowsOfSeq
    <3>2. \A i \in 1..Len(rows) : i <= k + l
      BY <1>8, <1>15, ListFacts
    <3> QED
      BY <3>1, <3>2 DEF V, Behind
  <2>4. Cardinality(B \ (S \cup T)) <= n
    <3>1. V \in SUBSET RowIds /\ B \ (S \cup T) \in SUBSET RowIds
      BY DEF V, Behind
    <3> QED
      BY <1>3, <1>11, <2>3, <3>1, FewerBehind
  <2>5. ReaderSound'
    BY <1>1, <2>1, <2>4 DEF ReaderSound, RowsMissedFew
  <2> QED
    BY <1>1, <1>12, <2>2, <2>5, ListFacts, RowsStep
<1> QED
  BY <1>14, <1>15

LEMMA ListingsInitIInv == ASSUME ListingsInit PROVE ListingsIInv
<1>1. RowsTyped
  BY EmptySeq DEF ListingsInit, RowsTyped, Distinct
<1>2. RowsOf(rows) \subseteq 1..0 /\ Cardinality(RowsOf(rows)) = Len(rows)
  <2>1. RowsOf(rows) = {} /\ Len(rows) = 0
    BY DEF ListingsInit, RowsOf
  <2> QED
    BY <2>1, FS_EmptySet
<1>3. ListingsTypeOK
  BY <1>2, ReaderForms, ListingsAssumption DEF ListingsInit, ListingsTypeOK
<1>4. ReaderSound
  BY DEF ListingsInit, ReaderSound, RowsMissedFew
<1> QED
  BY <1>1, <1>3, <1>4 DEF ListingsIInv

LEMMA ListingsStepIInv == ASSUME ListingsIInv, [ListingsNext]_listingsVars PROVE ListingsIInv'
<1>1. CASE ListingsNext
  BY <1>1, RowComesStep, StartReadingStep, ReadRowsStep, RowLeavesStep, RowMovesStep, CleanUpRowsStep
     DEF ListingsNext
<1>2. CASE UNCHANGED listingsVars
  BY <1>2 DEF listingsVars, ListingsIInv, ListingsTypeOK, RowsTyped, ReaderSound, RowsMissedFew
<1> QED
  BY <1>1, <1>2

-----------------------------------------------------------------------------
(* Statistics *)

Waiting(s, p, q, start) ==
    {r \in Reporters : <<s, p>> \in report[r].left /\ StartOf(q, report[r].day) = start}

Days(p, start) == DaysOf(p, start) \cap CalendarDays

\* What the days of a period count, and what the period does, with what is to come.
Daily(s, p, start) == SumFunctionOnSet([d \in Days(p, start) |-> stat[<<s, "DAILY", d>>]], Days(p, start))
ByDay(s, p, start) == Daily(s, p, start) + Cardinality(Waiting(s, "DAILY", p, start))
ByPeriod(s, p, start) == stat[<<s, p, start>>] + Cardinality(Waiting(s, p, p, start))

DaysKept(p, start) == \A d \in Days(p, start) : ~Outdated("DAILY", d)

Starts(p) == {StartOf(p, day) : day \in CalendarDays}

RowsBounded ==
    \A s \in Subjects, p \in Periods, start \in CalendarDays : ByPeriod(s, p, start) <= reported

AgreesWith(s, p, start) ==
    ~Outdated(p, start) =>
        /\ ByDay(s, p, start) <= ByPeriod(s, p, start) + missed[s]
        /\ DaysKept(p, start) => ByPeriod(s, p, start) <= ByDay(s, p, start) + missed[s]

CountsAgree == \A s \in Subjects, p \in DOMAIN Span, day \in CalendarDays : AgreesWith(s, p, StartOf(p, day))

ReportsIInv == ReportsTypeOK /\ RowsBounded /\ CountsAgree

LEMMA LengthType ==
    ASSUME NEW p \in Periods
    PROVE  Length(p) \in Nat \ {0}
BY ReportsAssumption DEF Length, Periods

LEMMA Remainder ==
    ASSUME NEW n \in Nat, NEW l \in Nat \ {0}
    PROVE  \E q \in Nat, k \in 0..(l - 1) : n = l * q + k /\ n % l = k
<1>1. n % l \in 0..(l - 1)
    OBVIOUS
<1>2. n \div l \in Nat
    OBVIOUS
<1>3. n = l * (n \div l) + (n % l)
    OBVIOUS
<1> QED
  BY <1>1, <1>2, <1>3

LEMMA SameMultiple ==
    ASSUME NEW l \in Nat \ {0}, NEW q \in Nat, NEW r \in Nat,
           l * q < l * r + l, l * r < l * q + l
    PROVE  q = r
<1>1. CASE q < r
  <2>1. l * (q + 1) <= l * r
    BY <1>1
  <2> QED
    BY <2>1
<1>2. CASE r < q
  <2>1. l * (r + 1) <= l * q
    BY <1>2
  <2> QED
    BY <2>1
<1> QED
  BY <1>1, <1>2

LEMMA StartFacts ==
    ASSUME NEW p \in Periods, NEW d \in CalendarDays
    PROVE  /\ StartOf(p, d) \in CalendarDays
           /\ d \in Days(p, StartOf(p, d))
<1>1. PICK l \in Nat \ {0} : l = Length(p)
    BY LengthType
<1>2. d \in Nat /\ MaxDay \in Nat
    BY ReportsAssumption DEF CalendarDays
<1>3. PICK q \in Nat, k \in 0..(l - 1) : d = l * q + k /\ d % l = k
    BY <1>2, Remainder
<1>4. PICK m \in Nat : m = l * q
    OBVIOUS
<1>5. StartOf(p, d) = m /\ d = m + k
    BY <1>1, <1>3, <1>4 DEF StartOf
<1> QED
  BY <1>1, <1>2, <1>5 DEF CalendarDays, Days, DaysOf

LEMMA SameStart ==
    ASSUME NEW p \in Periods, NEW d \in CalendarDays, NEW e \in CalendarDays
    PROVE  e \in Days(p, StartOf(p, d)) <=> StartOf(p, e) = StartOf(p, d)
<1>1. PICK l \in Nat \ {0} : l = Length(p)
    BY LengthType
<1>2. d \in Nat /\ e \in Nat /\ MaxDay \in Nat
    BY ReportsAssumption DEF CalendarDays
<1>3. PICK q \in Nat, k \in 0..(l - 1) : d = l * q + k /\ d % l = k
    BY <1>2, Remainder
<1>4. PICK r \in Nat, j \in 0..(l - 1) : e = l * r + j /\ e % l = j
    BY <1>2, Remainder
<1>5. PICK m \in Nat, n \in Nat : m = l * q /\ n = l * r
    OBVIOUS
<1>6. StartOf(p, d) = m /\ StartOf(p, e) = n /\ e = n + j
  <2>1. d = m + k /\ e = n + j
    BY <1>3, <1>4, <1>5
  <2>2. d - k = m /\ e - j = n
    BY <2>1
  <2>3. StartOf(p, d) = d - k /\ StartOf(p, e) = e - j
    BY <1>1, <1>3, <1>4, Zenon DEF StartOf
  <2> QED
    BY <1>1, <2>1, <2>2, <2>3 DEF StartOf
<1>7. e \in Days(p, m) <=> m <= e /\ e < m + l
  <2>1. DaysOf(p, m) = m..(m + l - 1)
    BY <1>1 DEF DaysOf
  <2>2. e \in m..(m + l - 1) <=> m <= e /\ e < m + l
    BY <1>2
  <2> QED
    BY <2>1, <2>2 DEF Days
<1>8. ASSUME m <= e, e < m + l PROVE m = n
  <2>1. m < n + l /\ n < m + l
    BY <1>4, <1>6, <1>8
  <2>2. q = r
    BY <1>5, <2>1, SameMultiple
  <2> QED
    BY <1>5, <2>2
<1>9. ASSUME m = n PROVE m <= e /\ e < m + l
    BY <1>6, <1>9
<1> QED
  BY <1>6, <1>7, <1>8, <1>9

LEMMA StartOfDay ==
    ASSUME NEW d \in CalendarDays
    PROVE  StartOf("DAILY", d) = d
<1>1. d \in Nat
    BY ReportsAssumption DEF CalendarDays
<1> QED
  BY <1>1 DEF StartOf, Length

LEMMA DaysFinite ==
    ASSUME NEW p \in Periods, NEW start
    PROVE  IsFiniteSet(Days(p, start)) /\ Days(p, start) \subseteq CalendarDays
<1>1. IsFiniteSet(CalendarDays)
    BY ReportsAssumption, FS_Interval DEF CalendarDays
<1> QED
  BY <1>1, FS_Subset DEF Days

LEMMA DailyType ==
    ASSUME ReportsTypeOK, NEW s \in Subjects, NEW p \in Periods, NEW start
    PROVE  /\ Daily(s, p, start) \in Nat
           /\ \A d \in Days(p, start) : stat[<<s, "DAILY", d>>] \in Nat
<1>1. \A d \in Days(p, start) : stat[<<s, "DAILY", d>>] \in Nat
    BY DaysFinite, ReportsAssumption DEF ReportsTypeOK, Periods
<1> QED
  BY <1>1, DaysFinite, SumType DEF Daily

LEMMA WaitingFinite ==
    ASSUME NEW s, NEW p, NEW q, NEW start
    PROVE  IsFiniteSet(Waiting(s, p, q, start)) /\ Cardinality(Waiting(s, p, q, start)) \in Nat
BY ReportsAssumption, FS_Subset, FS_CardinalityType DEF Waiting

CountsTyped ==
    \A s \in Subjects, p \in Periods, start \in CalendarDays :
        /\ ByDay(s, p, start) \in Nat /\ ByPeriod(s, p, start) \in Nat
        /\ Daily(s, p, start) \in Nat /\ stat[<<s, p, start>>] \in Nat /\ missed[s] \in Nat

LEMMA RowTypes ==
    ASSUME ReportsTypeOK, NEW s \in Subjects, NEW p \in Periods, NEW start \in CalendarDays
    PROVE  stat[<<s, p, start>>] \in Nat /\ missed[s] \in Nat /\ reported \in Nat
BY ReportsAssumption DEF ReportsTypeOK

LEMMA CountTypes == ReportsTypeOK => CountsTyped
<1> SUFFICES ASSUME ReportsTypeOK, NEW s \in Subjects, NEW p \in Periods, NEW start \in CalendarDays
             PROVE  /\ ByDay(s, p, start) \in Nat /\ ByPeriod(s, p, start) \in Nat
                    /\ Daily(s, p, start) \in Nat /\ stat[<<s, p, start>>] \in Nat /\ missed[s] \in Nat
  BY DEF CountsTyped
<1> QED
  BY RowTypes, DailyType, WaitingFinite DEF ByDay, ByPeriod

LEMMA CountTypesNext == ReportsTypeOK' => CountsTyped'
BY CountTypes, PTL

LEMMA ReportFacts ==
    ASSUME ReportsTypeOK, NEW r \in Reporters
    PROVE  /\ report[r].day \in CalendarDays
           /\ report[r].left \subseteq Subjects \X Periods
           /\ report[r] = [day |-> report[r].day, left |-> report[r].left]
BY DEF ReportsTypeOK

\* How the counts move decides whether they go on to agree.
LEMMA AgreesNow ==
    ASSUME ReportsTypeOK, ReportsTypeOK', NEW s \in Subjects, NEW p \in Periods, NEW start \in CalendarDays,
           AgreesWith(s, p, start),
           ~Outdated(p, start)' => ~Outdated(p, start),
           ~Outdated(p, start)' =>
               ByDay(s, p, start)' - ByDay(s, p, start) <=
               ByPeriod(s, p, start)' - ByPeriod(s, p, start) + missed'[s] - missed[s],
           ~Outdated(p, start)' /\ DaysKept(p, start)' =>
               /\ DaysKept(p, start)
               /\ ByPeriod(s, p, start)' - ByPeriod(s, p, start) <=
                  ByDay(s, p, start)' - ByDay(s, p, start) + missed'[s] - missed[s]
    PROVE  AgreesWith(s, p, start)'
<1>0. CountsTyped /\ CountsTyped' /\ Subjects' = Subjects /\ Periods' = Periods /\ CalendarDays' = CalendarDays
    BY CountTypes, CountTypesNext DEF Subjects, Periods, CalendarDays
<1>1. PICK a \in Nat, b \in Nat, c \in Nat, e \in Nat :
         /\ a = ByDay(s, p, start) /\ b = ByPeriod(s, p, start)
         /\ c = ByDay(s, p, start)' /\ e = ByPeriod(s, p, start)'
    BY <1>0 DEF CountsTyped
<1>2. PICK m \in Nat, n \in Nat : m = missed[s] /\ n = missed'[s]
    BY DEF ReportsTypeOK, Subjects
<1>3. ASSUME ~Outdated(p, start)' PROVE c <= e + n
  <2>1. a <= b + m
    BY <1>1, <1>2, <1>3 DEF AgreesWith
  <2>2. c - a <= e - b + n - m
    BY <1>1, <1>2, <1>3
  <2> QED
    BY <2>1, <2>2
<1>4. ASSUME ~Outdated(p, start)', DaysKept(p, start)' PROVE e <= c + n
  <2>1. b <= a + m
    BY <1>1, <1>2, <1>4 DEF AgreesWith
  <2>2. e - b <= c - a + n - m
    BY <1>1, <1>2, <1>4
  <2> QED
    BY <2>1, <2>2
<1> QED
  BY <1>1, <1>2, <1>3, <1>4 DEF AgreesWith

\* Nothing is counted: what there is to come does not matter.
LEMMA WaitingSame ==
    ASSUME report' = report, NEW s, NEW p, NEW q, NEW start
    PROVE  Waiting(s, p, q, start)' = Waiting(s, p, q, start)
BY DEF Waiting, StartOf, Length

LEMMA DailySame ==
    ASSUME NEW s, NEW p, NEW start, \A d \in Days(p, start) : stat'[<<s, "DAILY", d>>] = stat[<<s, "DAILY", d>>]
    PROVE  Daily(s, p, start)' = Daily(s, p, start)
<1>1. Days(p, start)' = Days(p, start)
    BY DEF Days, DaysOf, Length, CalendarDays
<1>2. [d \in Days(p, start) |-> stat'[<<s, "DAILY", d>>]] = [d \in Days(p, start) |-> stat[<<s, "DAILY", d>>]]
    OBVIOUS
<1> QED
  BY <1>1, <1>2 DEF Daily

LEMMA CleanupStep ==
    ASSUME ReportsIInv, StatisticsCleanup
    PROVE  ReportsIInv'
<1>0. ReportsTypeOK /\ RowsBounded /\ CountsAgree /\ 0 \in 0..MaxReports
    BY ReportsAssumption DEF ReportsIInv
<1>1. /\ stat' = [x \in Subjects \X Periods \X CalendarDays |-> IF Outdated(x[2], x[3]) THEN 0 ELSE stat[x]]
      /\ UNCHANGED <<today, report, reported, missed>>
    BY <1>0 DEF StatisticsCleanup, ReportsTypeOK
<1>2. ReportsTypeOK'
  <2>1. \A x \in Subjects \X Periods \X CalendarDays :
           (IF Outdated(x[2], x[3]) THEN 0 ELSE stat[x]) \in 0..MaxReports
    BY <1>0 DEF ReportsTypeOK
  <2>2. stat' \in [Subjects \X Periods \X CalendarDays -> 0..MaxReports]
    BY <1>1, <2>1
  <2> QED
    BY <1>0, <1>1, <2>2 DEF ReportsTypeOK, CalendarDays, Subjects, Periods
<1>3. ASSUME NEW s \in Subjects, NEW p \in Periods, NEW start \in CalendarDays
      PROVE  /\ stat'[<<s, p, start>>] \in Nat /\ stat[<<s, p, start>>] \in Nat
             /\ stat'[<<s, p, start>>] <= stat[<<s, p, start>>]
             /\ ~Outdated(p, start) => stat'[<<s, p, start>>] = stat[<<s, p, start>>]
             /\ Waiting(s, p, p, start)' = Waiting(s, p, p, start)
  <2>1. stat[<<s, p, start>>] \in Nat
    BY <1>0, RowTypes
  <2>2. stat'[<<s, p, start>>] = IF Outdated(p, start) THEN 0 ELSE stat[<<s, p, start>>]
    BY <1>1
  <2> QED
    BY <1>1, <2>1, <2>2, WaitingSame
<1>4. RowsBounded'
  <2>1. SUFFICES ASSUME NEW s \in Subjects, NEW p \in Periods, NEW start \in CalendarDays
                 PROVE  ByPeriod(s, p, start)' <= reported
    BY <1>1 DEF RowsBounded, Subjects, Periods, CalendarDays
  <2>2. PICK a \in Nat, b \in Nat, w \in Nat, r \in Nat :
           /\ a = stat[<<s, p, start>>] /\ b = stat'[<<s, p, start>>] /\ b <= a
           /\ w = Cardinality(Waiting(s, p, p, start)) /\ w = Cardinality(Waiting(s, p, p, start)')
           /\ r = reported
    BY <1>0, <1>3, WaitingFinite, RowTypes
  <2>3. a + w <= r
    BY <1>0, <2>2 DEF RowsBounded, ByPeriod
  <2>4. b + w <= r
    BY <2>2, <2>3
  <2> QED
    BY <2>2, <2>4 DEF ByPeriod
<1>5. CountsAgree'
  <2>1. SUFFICES ASSUME NEW s \in Subjects, NEW p \in DOMAIN Span, NEW day \in CalendarDays
                 PROVE  AgreesWith(s, p, StartOf(p, day))'
    BY <1>1 DEF CountsAgree, Subjects, CalendarDays, StartOf, Length
  <2>2. p \in Periods /\ "DAILY" \in Periods
    BY DEF Periods
  <2>3. PICK start \in CalendarDays : start = StartOf(p, day)
    BY <2>2, StartFacts
  <2>4. \A d \in Days(p, start) : d \in CalendarDays
    BY DEF Days
  <2>5. Daily(s, p, start)' <= Daily(s, p, start)
    <3> DEFINE f == [d \in Days(p, start) |-> stat[<<s, "DAILY", d>>]]
               g == [d \in Days(p, start) |-> stat'[<<s, "DAILY", d>>]]
    <3>1. \A d \in Days(p, start) : f[d] \in Nat /\ g[d] \in Nat /\ g[d] <= f[d]
      BY <1>3, <2>2, <2>4
    <3>2. SumFunctionOnSet(g, Days(p, start)) <= SumFunctionOnSet(f, Days(p, start))
      <4> HIDE DEF f, g
      <4> QED
        BY <2>2, <3>1, DaysFinite, SumAtMost
    <3>3. Days(p, start)' = Days(p, start)
      BY DEF Days, DaysOf, Length, CalendarDays
    <3> QED
      BY <3>2, <3>3 DEF Daily
  <2>6. ASSUME DaysKept(p, start) PROVE Daily(s, p, start)' = Daily(s, p, start)
    BY <1>3, <2>2, <2>4, <2>6, DailySame DEF DaysKept
  <2>7. CountsTyped /\ CountsTyped' /\ Subjects' = Subjects /\ Periods' = Periods /\ CalendarDays' = CalendarDays
    BY <1>0, <1>2, CountTypes, CountTypesNext DEF Subjects, Periods, CalendarDays
  <2>8. PICK c \in Nat, e \in Nat, w \in Nat, v \in Nat, b \in Nat, m \in Nat, d \in Nat :
           /\ c = Daily(s, p, start) /\ e = Daily(s, p, start)'
           /\ w = Cardinality(Waiting(s, "DAILY", p, start)) /\ w = Cardinality(Waiting(s, "DAILY", p, start)')
           /\ v = Cardinality(Waiting(s, p, p, start)) /\ v = Cardinality(Waiting(s, p, p, start)')
           /\ b = stat[<<s, p, start>>] /\ d = stat'[<<s, p, start>>] /\ m = missed[s] /\ m = missed'[s]
    <3>1. Daily(s, p, start)' \in Nat
      BY <2>2, <2>7 DEF CountsTyped
    <3>2. Daily(s, p, start) \in Nat /\ stat[<<s, p, start>>] \in Nat /\ missed[s] \in Nat
      BY <2>2, <2>7 DEF CountsTyped
    <3>3. stat'[<<s, p, start>>] \in Nat
      BY <1>3, <2>2
    <3> QED
      BY <1>1, <3>1, <3>2, <3>3, WaitingFinite, WaitingSame
  <2>9. ~Outdated(p, start) => d = b
    BY <1>3, <2>2, <2>8
  <2>10. Outdated(p, start)' = Outdated(p, start) /\ DaysKept(p, start)' = DaysKept(p, start)
    BY <1>1 DEF Outdated, DaysKept, Days, DaysOf, Length, CalendarDays
  <2>11. e <= c /\ (DaysKept(p, start) => e = c)
    BY <2>5, <2>6, <2>8
  <2>12. /\ ByDay(s, p, start) = c + w /\ ByDay(s, p, start)' = e + w
         /\ ByPeriod(s, p, start) = b + v /\ ByPeriod(s, p, start)' = d + v
    BY <2>8 DEF ByDay, ByPeriod
  <2>13. AgreesWith(s, p, start)
    BY <1>0, <2>3 DEF CountsAgree
  <2>14. AgreesWith(s, p, start)'
    <3>1. ~Outdated(p, start) => (e + w) - (c + w) <= (d + v) - (b + v) + m - m
      BY <2>9, <2>11
    <3>2. ~Outdated(p, start) /\ DaysKept(p, start) => (d + v) - (b + v) <= (e + w) - (c + w) + m - m
      BY <2>9, <2>11
    <3>3. ~Outdated(p, start)' =>
              ByDay(s, p, start)' - ByDay(s, p, start) <=
              ByPeriod(s, p, start)' - ByPeriod(s, p, start) + missed'[s] - missed[s]
      BY <2>8, <2>10, <2>12, <3>1
    <3>4. ~Outdated(p, start)' /\ DaysKept(p, start)' =>
              /\ DaysKept(p, start)
              /\ ByPeriod(s, p, start)' - ByPeriod(s, p, start) <=
                 ByDay(s, p, start)' - ByDay(s, p, start) + missed'[s] - missed[s]
      BY <2>8, <2>10, <2>12, <3>2
    <3> QED
      BY <1>0, <1>2, <2>2, <2>10, <2>13, <3>3, <3>4, AgreesNow
  <2>15. StartOf(p, day)' = start
    BY <2>3 DEF StartOf, Length
  <2> QED
    BY <2>3, <2>14
<1> QED
  BY <1>2, <1>4, <1>5 DEF ReportsIInv

\* How far the counts may move apart while nothing is cleaned up.
MovesTogether(s, p, start) ==
    /\ ByDay(s, p, start)' - ByDay(s, p, start) <=
       ByPeriod(s, p, start)' - ByPeriod(s, p, start) + missed'[s] - missed[s]
    /\ ByPeriod(s, p, start)' - ByPeriod(s, p, start) <=
       ByDay(s, p, start)' - ByDay(s, p, start) + missed'[s] - missed[s]

LEMMA CountsMove ==
    ASSUME ReportsIInv, ReportsTypeOK', today <= today',
           \A s \in Subjects, p \in Periods, start \in CalendarDays :
               ByPeriod(s, p, start)' - ByPeriod(s, p, start) <= reported' - reported,
           \A s \in Subjects, p \in DOMAIN Span, day \in CalendarDays : MovesTogether(s, p, StartOf(p, day))
    PROVE  ReportsIInv'
<1>1. ReportsTypeOK /\ RowsBounded /\ CountsAgree
    BY DEF ReportsIInv
<1>2. CountsTyped /\ CountsTyped' /\ Subjects' = Subjects /\ Periods' = Periods /\ CalendarDays' = CalendarDays
    BY <1>1, CountTypes, CountTypesNext DEF Subjects, Periods, CalendarDays
<1>3. RowsBounded'
  <2>1. SUFFICES ASSUME NEW s \in Subjects, NEW p \in Periods, NEW start \in CalendarDays
                 PROVE  ByPeriod(s, p, start)' <= reported'
    BY <1>2 DEF RowsBounded
  <2>2. PICK b \in Nat, c \in Nat : b = ByPeriod(s, p, start) /\ c = ByPeriod(s, p, start)'
    BY <1>2 DEF CountsTyped
  <2>3. PICK m \in Nat, n \in Nat : m = reported /\ n = reported'
    BY <1>1, ReportsAssumption DEF ReportsTypeOK
  <2>4. b <= m
    BY <1>1, <2>2, <2>3 DEF RowsBounded
  <2>5. c - b <= n - m
    BY <2>2, <2>3
  <2>6. c <= n
    BY <2>4, <2>5
  <2> QED
    BY <2>2, <2>3, <2>6
<1>4. CountsAgree'
  <2>1. SUFFICES ASSUME NEW s \in Subjects, NEW p \in DOMAIN Span, NEW day \in CalendarDays
                 PROVE  AgreesWith(s, p, StartOf(p, day))'
    BY <1>2 DEF CountsAgree, StartOf, Length
  <2>2. p \in Periods
    BY DEF Periods
  <2>3. PICK start \in CalendarDays : start = StartOf(p, day)
    BY <2>2, StartFacts
  <2>4. AgreesWith(s, p, start)
    BY <1>1, <2>3 DEF CountsAgree
  <2>5. MovesTogether(s, p, start)
    BY <2>3
  <2>6. PICK t \in Int, u \in Int : t = today /\ u = today'
    BY <1>1 DEF ReportsTypeOK, CalendarDays
  <2>7. PICK l \in Int : l = Length(p)
    BY <2>2, LengthType
  <2>8. ~Outdated(p, start)' => ~Outdated(p, start)
    <3>1. t <= u /\ start \in Int /\ Retention \in Int
      BY <2>6, ReportsAssumption DEF CalendarDays
    <3>2. Outdated(p, start) <=> start + l - 1 + Retention < t
      BY <2>6, <2>7 DEF Outdated
    <3>3. Outdated(p, start)' <=> start + l - 1 + Retention < u
      BY <2>6, <2>7 DEF Outdated, Length
    <3> QED
      BY <3>1, <3>2, <3>3
  <2>9. DaysKept(p, start)' => DaysKept(p, start)
    <3>1. ASSUME NEW d \in Days(p, start), ~Outdated("DAILY", d)' PROVE ~Outdated("DAILY", d)
      <4>1. t <= u /\ d \in Int /\ Retention \in Int
        BY <2>6, ReportsAssumption DEF Days, CalendarDays
      <4>2. Outdated("DAILY", d) <=> d + 1 - 1 + Retention < t
        BY <2>6 DEF Outdated, Length
      <4>3. Outdated("DAILY", d)' <=> d + 1 - 1 + Retention < u
        BY <2>6 DEF Outdated, Length
      <4> QED
        BY <3>1, <4>1, <4>2, <4>3
    <3>2. Days(p, start)' = Days(p, start)
      BY DEF Days, DaysOf, Length, CalendarDays
    <3> QED
      BY <3>1, <3>2 DEF DaysKept
  <2>10. AgreesWith(s, p, start)'
    BY <1>1, <2>2, <2>4, <2>5, <2>8, <2>9, AgreesNow DEF MovesTogether
  <2> QED
    BY <2>3, <2>10
<1> QED
  BY <1>3, <1>4 DEF ReportsIInv

LEMMA TimePasses ==
    ASSUME ReportsIInv, UNCHANGED <<stat, report, reported, missed>>, today' \in CalendarDays, today <= today'
    PROVE  ReportsIInv'
<1>1. ReportsTypeOK /\ UNCHANGED <<stat, report, reported, missed>>
    BY DEF ReportsIInv
<1>2. today' \in CalendarDays /\ today <= today'
    OBVIOUS
<1>3. ReportsTypeOK'
    BY <1>1, <1>2 DEF ReportsTypeOK, CalendarDays, Subjects, Periods
<1>4. ASSUME NEW s, NEW p, NEW start
      PROVE  ByDay(s, p, start)' = ByDay(s, p, start) /\ ByPeriod(s, p, start)' = ByPeriod(s, p, start)
    BY <1>1, WaitingSame, DailySame DEF ByDay, ByPeriod
<1>5. CountsTyped
    BY <1>1, CountTypes
<1>6. \A s \in Subjects, p \in Periods, start \in CalendarDays :
         ByPeriod(s, p, start)' - ByPeriod(s, p, start) <= reported' - reported
  <2>1. SUFFICES ASSUME NEW s \in Subjects, NEW p \in Periods, NEW start \in CalendarDays
                 PROVE  ByPeriod(s, p, start)' - ByPeriod(s, p, start) <= reported' - reported
    OBVIOUS
  <2>2. PICK n \in Int : n = reported /\ n = reported'
    BY <1>1 DEF ReportsTypeOK
  <2>3. PICK b \in Nat : b = ByPeriod(s, p, start) /\ b = ByPeriod(s, p, start)'
    BY <1>4, <1>5 DEF CountsTyped
  <2> QED
    BY <2>2, <2>3
<1>7. \A s \in Subjects, p \in DOMAIN Span, day \in CalendarDays : MovesTogether(s, p, StartOf(p, day))
  <2>1. \A s \in Subjects, p \in Periods, start \in CalendarDays : MovesTogether(s, p, start)
    <3>1. SUFFICES ASSUME NEW s \in Subjects, NEW p \in Periods, NEW start \in CalendarDays
                   PROVE  MovesTogether(s, p, start)
      OBVIOUS
    <3>2. PICK a \in Nat, b \in Nat, m \in Nat :
             /\ a = ByDay(s, p, start) /\ a = ByDay(s, p, start)'
             /\ b = ByPeriod(s, p, start) /\ b = ByPeriod(s, p, start)'
             /\ m = missed[s] /\ m = missed'[s]
      BY <1>1, <1>4, <1>5 DEF CountsTyped
    <3> QED
      BY <3>2 DEF MovesTogether
  <2> QED
    BY <2>1, StartFacts DEF Periods
<1> QED
  BY <1>2, <1>3, <1>6, <1>7, CountsMove

LEMMA NextDayStep ==
    ASSUME ReportsIInv, NextDay
    PROVE  ReportsIInv'
<1>1. PICK t \in Nat : t = today /\ t < MaxDay /\ today' = t + 1
    BY ReportsAssumption DEF ReportsIInv, NextDay, ReportsTypeOK, CalendarDays
<1>2. today' \in CalendarDays /\ today <= today'
    BY <1>1, ReportsAssumption DEF CalendarDays
<1> QED
  BY <1>2, TimePasses DEF NextDay

LEMMA WaitingMore ==
    ASSUME ReportsTypeOK, NEW r \in Reporters, NEW S \in SUBSET Subjects, Record(r, S),
           NEW s \in Subjects, NEW p \in Periods, NEW q \in Periods, NEW start
    PROVE  Cardinality(Waiting(s, p, q, start)') = Cardinality(Waiting(s, p, q, start))
             + (IF s \in S /\ StartOf(q, today) = start THEN 1 ELSE 0)
<1>1. /\ report[r].left = {}
      /\ \A x \in Reporters \ {r} : report'[x] = report[x]
      /\ report'[r].left = S \X Periods /\ report'[r].day = today
    BY DEF Record, ReportsTypeOK
<1>2. r \notin Waiting(s, p, q, start)
    BY <1>1 DEF Waiting
<1>3. \A x \in Reporters \ {r} : x \in Waiting(s, p, q, start)' <=> x \in Waiting(s, p, q, start)
    BY <1>1 DEF Waiting, StartOf, Length
<1>4. r \in Waiting(s, p, q, start)' <=> s \in S /\ StartOf(q, today) = start
    BY <1>1 DEF Waiting, StartOf, Length
<1>5. Waiting(s, p, q, start) \subseteq Reporters /\ Waiting(s, p, q, start)' \subseteq Reporters
    BY DEF Waiting
<1>6. CASE s \in S /\ StartOf(q, today) = start
  <2>1. Waiting(s, p, q, start)' = Waiting(s, p, q, start) \cup {r}
    BY <1>3, <1>4, <1>5, <1>6
  <2> QED
    BY <1>2, <1>6, <2>1, WaitingFinite, FS_AddElement
<1>7. CASE ~(s \in S /\ StartOf(q, today) = start)
  <2>1. Waiting(s, p, q, start)' = Waiting(s, p, q, start)
    BY <1>2, <1>3, <1>4, <1>5, <1>7
  <2> QED
    BY <1>7, <2>1, WaitingFinite
<1> QED
  BY <1>6, <1>7

LEMMA WaitingLess ==
    ASSUME ReportsTypeOK, NEW r \in Reporters, NEW t \in Subjects, NEW v \in Periods,
           <<t, v>> \in report[r].left, Done(r, <<t, v>>),
           NEW s \in Subjects, NEW p \in Periods, NEW q \in Periods, NEW start
    PROVE  Cardinality(Waiting(s, p, q, start)') = Cardinality(Waiting(s, p, q, start))
             - (IF s = t /\ p = v /\ StartOf(q, report[r].day) = start THEN 1 ELSE 0)
<1>1. /\ \A x \in Reporters \ {r} : report'[x] = report[x]
      /\ report'[r].left = report[r].left \ {<<t, v>>} /\ report'[r].day = report[r].day
    BY DEF Done, ReportsTypeOK
<1>2. \A x \in Reporters \ {r} : x \in Waiting(s, p, q, start)' <=> x \in Waiting(s, p, q, start)
    BY <1>1 DEF Waiting, StartOf, Length
<1>3. r \in Waiting(s, p, q, start)' <=>
         r \in Waiting(s, p, q, start) /\ ~(s = t /\ p = v /\ StartOf(q, report[r].day) = start)
    BY <1>1 DEF Waiting, StartOf, Length
<1>4. Waiting(s, p, q, start) \subseteq Reporters /\ Waiting(s, p, q, start)' \subseteq Reporters
    BY DEF Waiting
<1>5. CASE s = t /\ p = v /\ StartOf(q, report[r].day) = start
  <2>1. Waiting(s, p, q, start)' = Waiting(s, p, q, start) \ {r}
    BY <1>2, <1>3, <1>4, <1>5
  <2>2. r \in Waiting(s, p, q, start)
    BY <1>5 DEF Waiting
  <2>3. PICK n \in Nat : n = Cardinality(Waiting(s, p, q, start))
    BY WaitingFinite
  <2>4. Cardinality(Waiting(s, p, q, start) \ {r}) = n - 1
    BY <2>2, <2>3, WaitingFinite, FS_RemoveElement
  <2> QED
    BY <1>5, <2>1, <2>3, <2>4
<1>6. CASE ~(s = t /\ p = v /\ StartOf(q, report[r].day) = start)
  <2>1. Waiting(s, p, q, start)' = Waiting(s, p, q, start)
    BY <1>2, <1>3, <1>4, <1>6
  <2> QED
    BY <1>6, <2>1, WaitingFinite
<1> QED
  BY <1>5, <1>6

LEMMA RecordStep ==
    ASSUME ReportsIInv, NEW r \in Reporters, NEW S \in SUBSET Subjects, Record(r, S)
    PROVE  ReportsIInv'
<1>1. ReportsTypeOK /\ CountsTyped /\ UNCHANGED <<today, stat, missed>>
    BY CountTypes DEF ReportsIInv, Record
<1>2. PICK n \in Nat : n = reported /\ reported' = n + 1 /\ n + 1 <= MaxReports
  <2>1. PICK n \in Nat : n = reported
    BY <1>1, ReportsAssumption DEF ReportsTypeOK
  <2> QED
    BY <1>1, <2>1, ReportsAssumption DEF Record
<1>3. ReportsTypeOK'
  <2>1. report' \in [Reporters -> [day : CalendarDays, left : SUBSET (Subjects \X Periods)]]
    BY <1>1 DEF Record, ReportsTypeOK
  <2>2. reported' \in 0..MaxReports
    BY <1>2, ReportsAssumption
  <2> QED
    BY <1>1, <2>1, <2>2 DEF ReportsTypeOK, CalendarDays, Subjects, Periods
<1>4. ASSUME NEW s \in Subjects, NEW p \in Periods, NEW start \in CalendarDays
      PROVE  \E e \in 0..1 : /\ ByPeriod(s, p, start)' = ByPeriod(s, p, start) + e
                             /\ ByDay(s, p, start)' = ByDay(s, p, start) + e
  <2>1. "DAILY" \in Periods
    BY DEF Periods
  <2>2. PICK e \in 0..1 : e = IF s \in S /\ StartOf(p, today) = start THEN 1 ELSE 0
    OBVIOUS
  <2>3. PICK v \in Nat, w \in Nat : /\ v = Cardinality(Waiting(s, p, p, start))
                                    /\ w = Cardinality(Waiting(s, "DAILY", p, start))
    BY WaitingFinite
  <2>4. PICK a \in Nat, b \in Nat : a = Daily(s, p, start) /\ b = stat[<<s, p, start>>]
    BY <1>1 DEF CountsTyped
  <2>5. Daily(s, p, start)' = a /\ stat'[<<s, p, start>>] = b
    BY <1>1, <2>4, DailySame
  <2>6. /\ Cardinality(Waiting(s, p, p, start)') = v + e
        /\ Cardinality(Waiting(s, "DAILY", p, start)') = w + e
    BY <1>1, <2>1, <2>2, <2>3, WaitingMore
  <2> QED
    BY <2>3, <2>4, <2>5, <2>6 DEF ByDay, ByPeriod
<1>5. \A s \in Subjects, p \in Periods, start \in CalendarDays :
         ByPeriod(s, p, start)' - ByPeriod(s, p, start) <= reported' - reported
  <2>1. SUFFICES ASSUME NEW s \in Subjects, NEW p \in Periods, NEW start \in CalendarDays
                 PROVE  ByPeriod(s, p, start)' - ByPeriod(s, p, start) <= reported' - reported
    OBVIOUS
  <2>2. PICK b \in Nat, e \in 0..1 : b = ByPeriod(s, p, start) /\ b + e = ByPeriod(s, p, start)'
    BY <1>1, <1>4 DEF CountsTyped
  <2>3. (b + e) - b <= (n + 1) - n
    OBVIOUS
  <2> QED
    BY <1>2, <2>2, <2>3
<1>6. \A s \in Subjects, p \in DOMAIN Span, day \in CalendarDays : MovesTogether(s, p, StartOf(p, day))
  <2>1. \A s \in Subjects, p \in Periods, start \in CalendarDays : MovesTogether(s, p, start)
    <3>1. SUFFICES ASSUME NEW s \in Subjects, NEW p \in Periods, NEW start \in CalendarDays
                   PROVE  MovesTogether(s, p, start)
      OBVIOUS
    <3>2. PICK a \in Nat, b \in Nat, m \in Nat, e \in 0..1 :
             /\ a = ByDay(s, p, start) /\ a + e = ByDay(s, p, start)'
             /\ b = ByPeriod(s, p, start) /\ b + e = ByPeriod(s, p, start)'
             /\ m = missed[s] /\ m = missed'[s]
      BY <1>1, <1>4 DEF CountsTyped
    <3> QED
      BY <3>2 DEF MovesTogether
  <2> QED
    BY <2>1, StartFacts DEF Periods
<1>7. today <= today'
    BY <1>1 DEF ReportsTypeOK, CalendarDays
<1> QED
  BY <1>3, <1>5, <1>6, <1>7, CountsMove

LEMMA DoneTypes ==
    ASSUME ReportsTypeOK, NEW r \in Reporters, NEW x, Done(r, x)
    PROVE  report' \in [Reporters -> [day : CalendarDays, left : SUBSET (Subjects \X Periods)]]
BY DEF Done, ReportsTypeOK

CountBecomes(t, v, row, m) == stat' = [stat EXCEPT ![<<t, v, row>>] = m]

\* A day's count, where the event is of that day.
LEMMA DailyMore ==
    ASSUME ReportsTypeOK, NEW t \in Subjects, NEW v \in Periods, NEW d \in CalendarDays,
           NEW k \in Nat, NEW m \in Nat, k = stat[<<t, v, StartOf(v, d)>>], m = k + 1,
           CountBecomes(t, v, StartOf(v, d), m),
           NEW s \in Subjects, NEW p \in Periods, NEW day \in CalendarDays, NEW start,
           start = StartOf(p, day)
    PROVE  Daily(s, p, start)' = Daily(s, p, start)
             + (IF s = t /\ v = "DAILY" /\ StartOf(p, d) = start THEN 1 ELSE 0)
<1>2. Days(p, start)' = Days(p, start)
    BY DEF Days, DaysOf, CalendarDays, Length
<1>3. d \in Days(p, start) <=> StartOf(p, d) = start
    BY SameStart
<1>4. StartOf(v, d) \in CalendarDays /\ "DAILY" \in Periods
    BY StartFacts DEF Periods
<1> DEFINE f == [e \in Days(p, start) |-> stat[<<s, "DAILY", e>>]]
           g == [e \in Days(p, start) |-> stat'[<<s, "DAILY", e>>]]
<1>5. Days(p, start) \subseteq CalendarDays /\ IsFiniteSet(Days(p, start))
    BY DaysFinite
<1>6. \A e \in CalendarDays : stat[<<s, "DAILY", e>>] \in Nat
    BY <1>4, RowTypes
<1>7. CASE s = t /\ v = "DAILY" /\ StartOf(p, d) = start
  <2>1. StartOf(v, d) = d /\ d \in Days(p, start)
    BY <1>3, <1>7, StartOfDay
  <2>2. PICK n \in Nat : n = stat[<<s, "DAILY", d>>] /\ m = n + 1
    BY <1>7, <2>1
  <2>3. stat' = [stat EXCEPT ![<<s, "DAILY", d>>] = m]
    BY <1>7, <2>1 DEF CountBecomes
  <2>4. \A e \in Days(p, start) : g[e] = IF e = d THEN m ELSE f[e]
    BY <1>4, <1>5, <2>3 DEF ReportsTypeOK
  <2>5. \A e \in Days(p, start) : f[e] \in Nat
    BY <1>5, <1>6
  <2>6. f[d] = n
    BY <2>1, <2>2
  <2> HIDE DEF f, g
  <2>7. SumFunctionOnSet(g, Days(p, start)) = SumFunctionOnSet(f, Days(p, start)) + m - n
    <3>1. \A e \in Days(p, start) : f[e] \in Nat /\ g[e] \in Nat
      BY <2>4, <2>5
    <3>2. \A e \in Days(p, start) \ {d} : g[e] = f[e]
      BY <2>4
    <3>3. g[d] = m
      BY <2>1, <2>4
    <3> QED
      BY <1>5, <2>1, <2>6, <3>1, <3>2, <3>3, SumChanges
  <2>8. SumFunctionOnSet(f, Days(p, start)) \in Nat
    BY <1>5, <2>5, SumType
  <2>9. SumFunctionOnSet(g, Days(p, start)) = SumFunctionOnSet(f, Days(p, start)) + 1
    BY <2>2, <2>7, <2>8
  <2> QED
    BY <1>2, <1>7, <2>9 DEF Daily, f, g
<1>8. CASE ~(s = t /\ v = "DAILY" /\ StartOf(p, d) = start)
  <2>1. ASSUME NEW e \in Days(p, start) PROVE stat'[<<s, "DAILY", e>>] = stat[<<s, "DAILY", e>>]
    <3>1. <<s, "DAILY", e>> # <<t, v, StartOf(v, d)>>
      BY <1>3, <1>8, StartOfDay
    <3> QED
      BY <1>4, <1>5, <3>1 DEF ReportsTypeOK, CountBecomes
  <2>2. Daily(s, p, start)' = Daily(s, p, start)
    BY <2>1, DailySame
  <2>3. Daily(s, p, start) \in Nat
    BY DailyType
  <2> QED
    BY <1>8, <2>2, <2>3
<1> QED
  BY <1>7, <1>8

LEMMA UpsertStep ==
    ASSUME ReportsIInv, NEW r \in Reporters, NEW t \in Subjects, NEW v \in Periods, Upsert(r, <<t, v>>)
    PROVE  ReportsIInv'
<1>1. ReportsTypeOK /\ RowsBounded /\ CountsTyped /\ UNCHANGED <<today, reported, missed>>
    BY CountTypes DEF ReportsIInv, Upsert
<1>2. PICK d \in CalendarDays : d = report[r].day
    BY <1>1, ReportFacts
<1>3. PICK row : row = StartOf(v, d) /\ row \in CalendarDays
    BY StartFacts
<1>4. /\ <<t, v>> \in report[r].left /\ Done(r, <<t, v>>)
      /\ stat' = [stat EXCEPT ![<<t, v, row>>] = @ + 1]
    BY <1>2, <1>3 DEF Upsert
<1>5. PICK n \in Nat : n = reported /\ n <= MaxReports
    BY <1>1, ReportsAssumption DEF ReportsTypeOK
<1>6. PICK b \in Nat : b = stat[<<t, v, row>>] /\ b + 1 <= n
  <2>1. PICK b \in Nat, w \in Nat : b = stat[<<t, v, row>>] /\ w = Cardinality(Waiting(t, v, v, row))
    BY <1>1, <1>3, WaitingFinite DEF CountsTyped
  <2>2. b + w <= n
    BY <1>1, <1>3, <1>5, <2>1 DEF RowsBounded, ByPeriod
  <2>3. w # 0
    <3>1. r \in Waiting(t, v, v, row)
      BY <1>2, <1>3, <1>4 DEF Waiting
    <3> QED
      BY <2>1, <3>1, WaitingFinite, FS_EmptySet
  <2> QED
    BY <2>1, <2>2, <2>3
<1>7. stat' = [stat EXCEPT ![<<t, v, row>>] = b + 1]
    BY <1>4, <1>6
<1>8. ReportsTypeOK'
  <2>1. b + 1 \in 0..MaxReports
    BY <1>5, <1>6, ReportsAssumption
  <2>2. stat' \in [Subjects \X Periods \X CalendarDays -> 0..MaxReports]
    BY <1>1, <1>7, <2>1 DEF ReportsTypeOK
  <2>3. report' \in [Reporters -> [day : CalendarDays, left : SUBSET (Subjects \X Periods)]]
    BY <1>1, <1>4, DoneTypes
  <2> QED
    BY <1>1, <2>2, <2>3 DEF ReportsTypeOK, CalendarDays, Subjects, Periods
<1>9. ASSUME NEW s \in Subjects, NEW p \in Periods, NEW start \in CalendarDays
      PROVE  ByPeriod(s, p, start)' = ByPeriod(s, p, start)
  <2>1. PICK w \in Nat, c \in Nat : w = Cardinality(Waiting(s, p, p, start)) /\ c = stat[<<s, p, start>>]
    BY <1>1, WaitingFinite DEF CountsTyped
  <2>2. Cardinality(Waiting(s, p, p, start)') = w - (IF s = t /\ p = v /\ StartOf(p, d) = start THEN 1 ELSE 0)
    BY <1>1, <1>2, <1>4, <2>1, WaitingLess
  <2>3. CASE s = t /\ p = v /\ StartOf(p, d) = start
    <3>1. stat'[<<s, p, start>>] = c + 1
      BY <1>1, <1>3, <1>6, <1>7, <2>1, <2>3 DEF ReportsTypeOK
    <3>2. Cardinality(Waiting(s, p, p, start)') = w - 1
      BY <2>2, <2>3
    <3>3. (c + 1) + (w - 1) = c + w
      OBVIOUS
    <3> QED
      BY <2>1, <3>1, <3>2, <3>3 DEF ByPeriod
  <2>4. CASE ~(s = t /\ p = v /\ StartOf(p, d) = start)
    <3>1. <<s, p, start>> # <<t, v, row>>
      BY <1>3, <2>4
    <3>2. stat'[<<s, p, start>>] = c
      BY <1>1, <1>7, <2>1, <3>1 DEF ReportsTypeOK
    <3>3. Cardinality(Waiting(s, p, p, start)') = w
      BY <2>2, <2>4
    <3> QED
      BY <2>1, <3>2, <3>3 DEF ByPeriod
  <2> QED
    BY <2>3, <2>4
<1>10. ASSUME NEW s \in Subjects, NEW p \in Periods, NEW day \in CalendarDays
       PROVE  ByDay(s, p, StartOf(p, day))' = ByDay(s, p, StartOf(p, day))
  <2>1. PICK start \in CalendarDays : start = StartOf(p, day)
    BY StartFacts
  <2>2. StartOf(p, day)' = start /\ "DAILY" \in Periods
    BY <2>1 DEF StartOf, Length, Periods
  <2>3. PICK w \in Nat, a \in Nat : w = Cardinality(Waiting(s, "DAILY", p, start)) /\ a = Daily(s, p, start)
    BY <1>1, WaitingFinite DEF CountsTyped
  <2>4. PICK e \in 0..1 : e = IF s = t /\ v = "DAILY" /\ StartOf(p, d) = start THEN 1 ELSE 0
    OBVIOUS
  <2>5. Cardinality(Waiting(s, "DAILY", p, start)') = w - e
    <3>1. Cardinality(Waiting(s, "DAILY", p, start)')
             = w - (IF s = t /\ "DAILY" = v /\ StartOf(p, d) = start THEN 1 ELSE 0)
      BY <1>1, <1>2, <1>4, <2>2, <2>3, WaitingLess
    <3> QED
      BY <2>4, <3>1
  <2>6. Daily(s, p, start)' = a + e
    <3>1. PICK k \in Nat, m \in Nat : k = stat[<<t, v, StartOf(v, d)>>] /\ m = k + 1
             /\ CountBecomes(t, v, StartOf(v, d), m)
      <4>1. b + 1 \in Nat
        OBVIOUS
      <4> QED
        BY <1>3, <1>6, <1>7, <4>1 DEF CountBecomes
    <3>2. Daily(s, p, start)' = Daily(s, p, start)
             + (IF s = t /\ v = "DAILY" /\ StartOf(p, d) = start THEN 1 ELSE 0)
      BY <1>1, <2>1, <3>1, DailyMore
    <3> QED
      BY <2>3, <2>4, <3>2
  <2>7. (a + e) + (w - e) = a + w
    OBVIOUS
  <2> QED
    BY <2>1, <2>2, <2>3, <2>5, <2>6, <2>7 DEF ByDay
<1>11. \A s \in Subjects, p \in Periods, start \in CalendarDays :
         ByPeriod(s, p, start)' - ByPeriod(s, p, start) <= reported' - reported
  <2>1. SUFFICES ASSUME NEW s \in Subjects, NEW p \in Periods, NEW start \in CalendarDays
                 PROVE  ByPeriod(s, p, start)' - ByPeriod(s, p, start) <= reported' - reported
    OBVIOUS
  <2>2. PICK c \in Nat : c = ByPeriod(s, p, start) /\ c = ByPeriod(s, p, start)'
    BY <1>1, <1>9 DEF CountsTyped
  <2>3. c - c <= n - n
    OBVIOUS
  <2> QED
    BY <1>1, <1>5, <2>2, <2>3
<1>12. \A s \in Subjects, p \in DOMAIN Span, day \in CalendarDays : MovesTogether(s, p, StartOf(p, day))
  <2>1. SUFFICES ASSUME NEW s \in Subjects, NEW p \in Periods, NEW day \in CalendarDays
                 PROVE  MovesTogether(s, p, StartOf(p, day))
    BY DEF Periods
  <2>2. PICK start \in CalendarDays : start = StartOf(p, day)
    BY StartFacts
  <2>3. StartOf(p, day)' = start
    BY <2>2 DEF StartOf, Length
  <2>4. PICK a \in Nat, c \in Nat, m \in Nat :
           /\ a = ByDay(s, p, start) /\ a = ByDay(s, p, start)'
           /\ c = ByPeriod(s, p, start) /\ c = ByPeriod(s, p, start)'
           /\ m = missed[s] /\ m = missed'[s]
    BY <1>1, <1>9, <1>10, <2>2, <2>3 DEF CountsTyped
  <2>5. MovesTogether(s, p, start)
    BY <2>4 DEF MovesTogether
  <2> QED
    BY <2>2, <2>5
<1>13. today <= today'
    BY <1>1 DEF ReportsTypeOK, CalendarDays
<1> QED
  BY <1>8, <1>11, <1>12, <1>13, CountsMove

LEMMA UpsertFailsStep ==
    ASSUME ReportsIInv, NEW r \in Reporters, NEW t \in Subjects, NEW v \in Periods, UpsertFails(r, <<t, v>>)
    PROVE  ReportsIInv'
<1>1. ReportsTypeOK /\ CountsTyped /\ UNCHANGED <<today, stat, reported>>
    BY CountTypes DEF ReportsIInv, UpsertFails
<1>2. PICK d \in CalendarDays : d = report[r].day
    BY <1>1, ReportFacts
<1>3. /\ <<t, v>> \in report[r].left /\ Done(r, <<t, v>>)
      /\ missed' = [missed EXCEPT ![t] = @ + 1]
    BY DEF UpsertFails
<1>4. PICK n \in Nat : n = reported
    BY <1>1, ReportsAssumption DEF ReportsTypeOK
<1>5. ReportsTypeOK'
  <2>1. missed' \in [Subjects -> Nat]
    BY <1>1, <1>3 DEF ReportsTypeOK
  <2>2. report' \in [Reporters -> [day : CalendarDays, left : SUBSET (Subjects \X Periods)]]
    BY <1>1, <1>3, DoneTypes
  <2> QED
    BY <1>1, <2>1, <2>2 DEF ReportsTypeOK, CalendarDays, Subjects, Periods
<1>6. ASSUME NEW s \in Subjects, NEW p \in Periods, NEW start \in CalendarDays
      PROVE  \E e \in 0..1, g \in 0..1, m \in Nat :
                /\ ByPeriod(s, p, start)' = ByPeriod(s, p, start) - e
                /\ ByDay(s, p, start)' = ByDay(s, p, start) - g
                /\ missed[s] = m /\ (IF s = t THEN missed'[s] = m + 1 ELSE missed'[s] = m /\ e = 0 /\ g = 0)
  <2>1. PICK w \in Nat, u \in Nat, a \in Nat, c \in Nat :
           /\ w = Cardinality(Waiting(s, p, p, start)) /\ c = stat[<<s, p, start>>]
           /\ u = Cardinality(Waiting(s, "DAILY", p, start)) /\ a = Daily(s, p, start)
    BY <1>1, WaitingFinite DEF CountsTyped
  <2>2. Daily(s, p, start)' = a /\ stat'[<<s, p, start>>] = c
    BY <1>1, <2>1, DailySame
  <2>3. PICK e \in 0..1 : e = IF s = t /\ p = v /\ StartOf(p, d) = start THEN 1 ELSE 0
    OBVIOUS
  <2>4. PICK g \in 0..1 : g = IF s = t /\ "DAILY" = v /\ StartOf(p, d) = start THEN 1 ELSE 0
    OBVIOUS
  <2>5. Cardinality(Waiting(s, p, p, start)') = w - e
    <3>1. Cardinality(Waiting(s, p, p, start)') = w - (IF s = t /\ p = v /\ StartOf(p, d) = start THEN 1 ELSE 0)
      BY <1>1, <1>2, <1>3, <2>1, WaitingLess
    <3> QED
      BY <2>3, <3>1
  <2>6. Cardinality(Waiting(s, "DAILY", p, start)') = u - g
    <3>1. "DAILY" \in Periods
      BY DEF Periods
    <3>2. Cardinality(Waiting(s, "DAILY", p, start)')
             = u - (IF s = t /\ "DAILY" = v /\ StartOf(p, d) = start THEN 1 ELSE 0)
      BY <1>1, <1>2, <1>3, <2>1, <3>1, WaitingLess
    <3> QED
      BY <2>4, <3>2
  <2>7. ByPeriod(s, p, start)' = ByPeriod(s, p, start) - e
    <3>1. c + (w - e) = (c + w) - e
      OBVIOUS
    <3> QED
      BY <2>1, <2>2, <2>5, <3>1 DEF ByPeriod
  <2>8. ByDay(s, p, start)' = ByDay(s, p, start) - g
    <3>1. a + (u - g) = (a + u) - g
      OBVIOUS
    <3> QED
      BY <2>1, <2>2, <2>6, <3>1 DEF ByDay
  <2>9. PICK m \in Nat : m = missed[s]
    BY <1>1 DEF CountsTyped
  <2>10. IF s = t THEN missed'[s] = m + 1 ELSE missed'[s] = m /\ e = 0 /\ g = 0
    BY <1>1, <1>3, <2>3, <2>4, <2>9 DEF ReportsTypeOK
  <2> QED
    BY <2>7, <2>8, <2>9, <2>10
<1>7. \A s \in Subjects, p \in Periods, start \in CalendarDays :
         ByPeriod(s, p, start)' - ByPeriod(s, p, start) <= reported' - reported
  <2>1. SUFFICES ASSUME NEW s \in Subjects, NEW p \in Periods, NEW start \in CalendarDays
                 PROVE  ByPeriod(s, p, start)' - ByPeriod(s, p, start) <= reported' - reported
    OBVIOUS
  <2>2. PICK c \in Nat, e \in 0..1 : c = ByPeriod(s, p, start) /\ c - e = ByPeriod(s, p, start)'
    <3>1. PICK e \in 0..1 : ByPeriod(s, p, start)' = ByPeriod(s, p, start) - e
      BY <1>6
    <3>2. ByPeriod(s, p, start) \in Nat
      BY <1>1 DEF CountsTyped
    <3> QED
      BY <3>1, <3>2
  <2>3. (c - e) - c <= n - n
    OBVIOUS
  <2> QED
    BY <1>1, <1>4, <2>2, <2>3
<1>8. \A s \in Subjects, p \in DOMAIN Span, day \in CalendarDays : MovesTogether(s, p, StartOf(p, day))
  <2>1. \A s \in Subjects, p \in Periods, start \in CalendarDays : MovesTogether(s, p, start)
    <3>1. SUFFICES ASSUME NEW s \in Subjects, NEW p \in Periods, NEW start \in CalendarDays
                   PROVE  MovesTogether(s, p, start)
      OBVIOUS
    <3>2. PICK e \in 0..1, g \in 0..1, m \in Nat :
             /\ ByPeriod(s, p, start)' = ByPeriod(s, p, start) - e
             /\ ByDay(s, p, start)' = ByDay(s, p, start) - g
             /\ missed[s] = m /\ (IF s = t THEN missed'[s] = m + 1 ELSE missed'[s] = m /\ e = 0 /\ g = 0)
      BY <1>6
    <3>3. PICK a \in Nat, c \in Nat : a = ByDay(s, p, start) /\ c = ByPeriod(s, p, start)
      BY <1>1 DEF CountsTyped
    <3>4. CASE s = t
      <4>1. (a - g) - a <= (c - e) - c + (m + 1) - m /\ (c - e) - c <= (a - g) - a + (m + 1) - m
        OBVIOUS
      <4> QED
        BY <3>2, <3>3, <3>4, <4>1 DEF MovesTogether
    <3>5. CASE s # t
      <4>1. (a - 0) - a <= (c - 0) - c + m - m /\ (c - 0) - c <= (a - 0) - a + m - m
        OBVIOUS
      <4> QED
        BY <3>2, <3>3, <3>5, <4>1 DEF MovesTogether
    <3> QED
      BY <3>4, <3>5
  <2> QED
    BY <2>1, StartFacts DEF Periods
<1>9. today <= today'
    BY <1>1 DEF ReportsTypeOK, CalendarDays
<1> QED
  BY <1>5, <1>7, <1>8, <1>9, CountsMove

LEMMA ReportsStepIInv == ASSUME ReportsIInv, [ReportsNext]_reportsVars PROVE ReportsIInv'
<1>1. CASE UNCHANGED reportsVars
  <2>1. today \in CalendarDays /\ today <= today
    BY DEF ReportsIInv, ReportsTypeOK, CalendarDays
  <2> QED
    BY <1>1, <2>1, TimePasses DEF reportsVars
<1>2. CASE NextDay
    BY <1>2, NextDayStep
<1>3. CASE StatisticsCleanup
    BY <1>3, CleanupStep
<1>4. ASSUME NEW r \in Reporters, NEW P \in SUBSET Parties, RecordCancellation(r, P) PROVE ReportsIInv'
  <2>1. CancellationSubjects(P) \in SUBSET Subjects
    BY DEF CancellationSubjects, Subjects
  <2> QED
    BY <1>4, <2>1, RecordStep DEF RecordCancellation
<1>5. ASSUME NEW r \in Reporters, RecordDispatchSent(r) \/ RecordResponse(r) PROVE ReportsIInv'
  <2>1. DispatchSubjects \in SUBSET Subjects
    BY DEF DispatchSubjects, Subjects
  <2> QED
    BY <1>5, <2>1, RecordStep DEF RecordDispatchSent, RecordResponse
<1>6. ASSUME NEW r \in Reporters, NEW x \in report[r].left, Upsert(r, x) \/ UpsertFails(r, x) PROVE ReportsIInv'
  <2>1. x \in Subjects \X Periods
    BY ReportFacts DEF ReportsIInv
  <2>2. PICK t \in Subjects, v \in Periods : x = <<t, v>>
    BY <2>1
  <2> QED
    BY <1>6, <2>2, UpsertStep, UpsertFailsStep
<1> QED
  BY <1>1, <1>2, <1>3, <1>4, <1>5, <1>6 DEF ReportsNext

LEMMA ReportsInitIInv == ASSUME ReportsInit PROVE ReportsIInv
<1>1. ReportsTypeOK /\ CountsTyped
  <2>1. ReportsTypeOK
    BY ReportsAssumption DEF ReportsInit, ReportsTypeOK, CalendarDays
  <2> QED
    BY <2>1, CountTypes
<1>2. ASSUME NEW s, NEW p, NEW q, NEW start PROVE Cardinality(Waiting(s, p, q, start)) = 0
  <2>1. Waiting(s, p, q, start) = {}
    BY DEF ReportsInit, Waiting
  <2> QED
    BY <2>1, FS_EmptySet
<1>3. ASSUME NEW s \in Subjects, NEW p \in Periods, NEW start \in CalendarDays PROVE ByPeriod(s, p, start) = 0
    BY <1>2 DEF ByPeriod, ReportsInit
<1>4. ASSUME NEW s \in Subjects, NEW p \in Periods, NEW start \in CalendarDays PROVE ByDay(s, p, start) = 0
  <2> DEFINE f == [d \in Days(p, start) |-> stat[<<s, "DAILY", d>>]]
  <2>1. \A d \in Days(p, start) : f[d] = 0
    BY DaysFinite DEF ReportsInit, Periods
  <2>2. Units(f, Days(p, start)) = {}
    <3> HIDE DEF f
    <3> QED
      BY <2>1 DEF Units
  <2>3. SumFunctionOnSet(f, Days(p, start)) = 0
    <3> HIDE DEF f
    <3> QED
      BY <2>1, <2>2, DaysFinite, SumIsSize, FS_EmptySet
  <2> QED
    BY <1>2, <2>3 DEF ByDay, Daily
<1>5. RowsBounded
    BY <1>3 DEF RowsBounded, ReportsInit
<1>6. CountsAgree
  <2>1. SUFFICES ASSUME NEW s \in Subjects, NEW p \in Periods, NEW start \in CalendarDays
                 PROVE  AgreesWith(s, p, start)
    BY StartFacts DEF CountsAgree, Periods
  <2>2. missed[s] = 0
    BY DEF ReportsInit
  <2> QED
    BY <1>3, <1>4, <2>2 DEF AgreesWith
<1> QED
  BY <1>1, <1>5, <1>6 DEF ReportsIInv

LEMMA ReportsSafe == ASSUME ReportsIInv PROVE PeriodsAgree
<1>1. ReportsTypeOK /\ CountsAgree /\ CountsTyped
    BY CountTypes DEF ReportsIInv
<1>2. SUFFICES ASSUME AtRest, NEW s \in Subjects, NEW p \in DOMAIN Span, NEW day \in CalendarDays,
                      ~Outdated(p, StartOf(p, day))
               PROVE  LET start == StartOf(p, day)
                          D == DaysOf(p, start) \cap CalendarDays
                          daily == SumFunction([d \in D |-> stat[<<s, "DAILY", d>>]])
                      IN  /\ daily <= stat[<<s, p, start>>] + missed[s]
                          /\ (\A d \in D : ~Outdated("DAILY", d)) => stat[<<s, p, start>>] <= daily + missed[s]
    BY DEF PeriodsAgree
<1>3. p \in Periods
    BY DEF Periods
<1>4. PICK start \in CalendarDays : start = StartOf(p, day)
    BY <1>3, StartFacts
<1>5. ASSUME NEW x, NEW q PROVE Cardinality(Waiting(s, x, q, start)) = 0
  <2>1. Waiting(s, x, q, start) = {}
    BY <1>2 DEF AtRest, Waiting
  <2> QED
    BY <2>1, FS_EmptySet
<1>6. ByDay(s, p, start) = Daily(s, p, start) /\ ByPeriod(s, p, start) = stat[<<s, p, start>>]
    BY <1>1, <1>3, <1>5 DEF ByDay, ByPeriod, CountsTyped
<1>7. AgreesWith(s, p, start)
    BY <1>1, <1>4 DEF CountsAgree
<1>8. /\ Daily(s, p, start) <= stat[<<s, p, start>>] + missed[s]
      /\ DaysKept(p, start) => stat[<<s, p, start>>] <= Daily(s, p, start) + missed[s]
    BY <1>2, <1>4, <1>6, <1>7 DEF AgreesWith
<1>9. SumFunction([d \in Days(p, start) |-> stat[<<s, "DAILY", d>>]]) = Daily(s, p, start)
    BY DEF SumFunction, Daily
<1> QED
  BY <1>4, <1>8, <1>9 DEF Days, DaysKept

-----------------------------------------------------------------------------
(* Notifications *)

Below(T, t) == Cardinality({s \in T : s < t})

\* What was answered in this attempt was of a batch before, and of none if all failed.
AnsweredSound(n) ==
    /\ inbox[n].op = "none" => push[n].op = "none"
    /\ push[n].op \in {"none", "create", "waiting"} => answered[n] = {}
    /\ push[n].op = "sending" =>
          /\ push[n].failed <= push[n].batch
          /\ push[n].failed = push[n].batch => answered[n] = {}
          /\ \A t \in answered[n] : Below(push[n].tokens, t) < push[n].batch * BatchSize

NoticesIInv == NoticesTypeOK /\ \A n \in News : AnsweredSound(n)

Inboxes == {[op |-> "none"], [op |-> "deleted"]} \cup [op : {"unread", "read"}, owner : Owners]

LEMMA NoticesTypes ==
    NoticesTypeOK <=>
        /\ inbox \in [News -> Inboxes] /\ allowed \subseteq Owners
        /\ device \in [Tokens -> Owners \cup {None}]
        /\ push \in [News -> Pushes] /\ answered \in [News -> SUBSET Tokens]
BY DEF NoticesTypeOK, Inboxes

LEMMA InboxForms ==
    /\ [op |-> "none"] \in Inboxes
    /\ [op |-> "deleted"] \in Inboxes
    /\ \A u \in Owners : [op |-> "unread", owner |-> u] \in Inboxes
    /\ \A r \in Inboxes : r.op \in {"unread", "read"} =>
          [r EXCEPT !.op = "read"] \in Inboxes /\ [r EXCEPT !.op = "read"].op = "read"
<1>1. [op |-> "none"] \in Inboxes /\ [op |-> "deleted"] \in Inboxes
  BY DEF Inboxes
<1>2. \A u \in Owners : [op |-> "unread", owner |-> u] \in Inboxes /\ [op |-> "read", owner |-> u] \in Inboxes
  BY DEF Inboxes
<1>3. ASSUME NEW r \in Inboxes, r.op \in {"unread", "read"}
      PROVE  [r EXCEPT !.op = "read"] \in Inboxes /\ [r EXCEPT !.op = "read"].op = "read"
  <2>1. r.owner \in Owners /\ r = [op |-> r.op, owner |-> r.owner]
    BY <1>3 DEF Inboxes
  <2>2. [r EXCEPT !.op = "read"] = [op |-> "read", owner |-> r.owner]
    BY <2>1
  <2> QED
    BY <1>2, <2>1, <2>2
<1> QED
  BY <1>1, <1>2, <1>3

LEMMA PushForms ==
    /\ [op |-> "none"] \in Pushes
    /\ [op |-> "done"] \in Pushes
    /\ \A u \in Owners : [op |-> "create", owner |-> u] \in Pushes
    /\ \A T \in SUBSET Tokens, k \in 1..Attempts : [op |-> "waiting", tokens |-> T, left |-> k] \in Pushes
    /\ \A T, I \in SUBSET Tokens, k \in 1..Attempts, b, f \in Nat :
          [op |-> "sending", tokens |-> T, left |-> k, batch |-> b, failed |-> f, invalid |-> I] \in Pushes
<1>1. [op |-> "none"] \in Pushes /\ [op |-> "done"] \in Pushes
  BY DEF Pushes
<1>2. \A u \in Owners : [op |-> "create", owner |-> u] \in Pushes
  BY DEF Pushes
<1>3. \A T \in SUBSET Tokens, k \in 1..Attempts : [op |-> "waiting", tokens |-> T, left |-> k] \in Pushes
  BY DEF Pushes
<1>4. \A T, I \in SUBSET Tokens, k \in 1..Attempts, b, f \in Nat :
          [op |-> "sending", tokens |-> T, left |-> k, batch |-> b, failed |-> f, invalid |-> I] \in Pushes
  BY DEF Pushes
<1> QED
  BY <1>1, <1>2, <1>3, <1>4

LEMMA PushFacts ==
    ASSUME NEW p \in Pushes
    PROVE  /\ p.op \in {"none", "done", "create", "waiting", "sending"}
           /\ p.op = "waiting" => p.tokens \in SUBSET Tokens /\ p.left \in 1..Attempts
           /\ p.op = "sending" =>
                 /\ p.tokens \in SUBSET Tokens /\ p.invalid \in SUBSET Tokens /\ p.left \in 1..Attempts
                 /\ p.batch \in Nat /\ p.failed \in Nat
                 /\ p = [op |-> "sending", tokens |-> p.tokens, left |-> p.left, batch |-> p.batch,
                         failed |-> p.failed, invalid |-> p.invalid]
<1>1. CASE p \in {[op |-> "none"], [op |-> "done"]} 
  BY <1>1
<1>2. CASE p \in [op : {"create"}, owner : Owners]
  BY <1>2
<1>3. CASE p \in [op : {"waiting"}, tokens : SUBSET Tokens, left : 1..Attempts]
  BY <1>3
<1>4. CASE p \in [op : {"sending"}, tokens : SUBSET Tokens, left : 1..Attempts,
                  batch : Nat, failed : Nat, invalid : SUBSET Tokens]
  BY <1>4
<1> QED
  BY <1>1, <1>2, <1>3, <1>4 DEF Pushes

LEMMA BelowType == ASSUME NEW T \in SUBSET Tokens, NEW t PROVE Below(T, t) \in Nat
<1>1. IsFiniteSet({s \in T : s < t})
  BY NoticesAssumption, FS_Subset
<1> QED
  BY <1>1, FS_CardinalityType DEF Below

LEMMA NextMultiple ==
    ASSUME NEW b \in Nat
    PROVE  /\ b * BatchSize \in Nat /\ (b + 1) * BatchSize \in Nat
           /\ (b + 1) * BatchSize = b * BatchSize + BatchSize
           /\ 0 * BatchSize = 0
<1>1. BatchSize \in Nat
  BY NoticesAssumption
<1> QED
  BY <1>1

\* No push job moves.
LEMMA PushKept ==
    ASSUME NoticesIInv, NoticesTypeOK', UNCHANGED <<push, answered>>,
           \A n \in News : inbox'[n].op = "none" => inbox[n].op = "none"
    PROVE  NoticesIInv'
BY DEF NoticesIInv, AnsweredSound

LEMMA InboxStep ==
    ASSUME NoticesIInv, NEW u \in Owners,
           \/ \E t \in Tokens : RegisterDevice(u, t) \/ RemoveDevice(u, t)
           \/ \E n \in News : MarkRead(u, n) \/ DeleteNotice(u, n)
           \/ MarkAllRead(u) \/ DeleteAllRead(u)
    PROVE  NoticesIInv'
<1>1. /\ inbox \in [News -> Inboxes] /\ allowed \subseteq Owners
      /\ device \in [Tokens -> Owners \cup {None}]
      /\ push \in [News -> Pushes] /\ answered \in [News -> SUBSET Tokens]
  BY NoticesTypes DEF NoticesIInv
<1>2. UNCHANGED <<push, answered, allowed>>
  BY DEF RegisterDevice, RemoveDevice, MarkRead, DeleteNotice, MarkAllRead, DeleteAllRead
<1>3. device' \in [Tokens -> Owners \cup {None}]
  BY <1>1 DEF RegisterDevice, RemoveDevice, MarkRead, DeleteNotice, MarkAllRead, DeleteAllRead
<1>4. inbox' \in [News -> Inboxes]
  <2>1. CASE \E t \in Tokens : RegisterDevice(u, t) \/ RemoveDevice(u, t)
    BY <1>1, <2>1 DEF RegisterDevice, RemoveDevice
  <2>2. ASSUME NEW n \in News, MarkRead(u, n) PROVE inbox' \in [News -> Inboxes]
    <3>1. [inbox[n] EXCEPT !.op = "read"] \in Inboxes
      BY <1>1, <2>2, InboxForms DEF MarkRead
    <3>2. inbox' = [inbox EXCEPT ![n] = [inbox[n] EXCEPT !.op = "read"]]
      BY <2>2 DEF MarkRead
    <3> QED
      BY <1>1, <3>1, <3>2
  <2>3. ASSUME NEW n \in News, DeleteNotice(u, n) PROVE inbox' \in [News -> Inboxes]
    BY <1>1, <2>3, InboxForms DEF DeleteNotice
  <2>4. CASE MarkAllRead(u)
    <3>1. \A n \in News : inbox[n].op = "unread" => [inbox[n] EXCEPT !.op = "read"] \in Inboxes
      BY <1>1, InboxForms
    <3> QED
      BY <1>1, <2>4, <3>1 DEF MarkAllRead
  <2>5. CASE DeleteAllRead(u)
    BY <1>1, <2>5, InboxForms DEF DeleteAllRead
  <2> QED
    BY <2>1, <2>2, <2>3, <2>4, <2>5
<1>5. NoticesTypeOK'
  BY <1>1, <1>2, <1>3, <1>4 DEF NoticesTypeOK, Inboxes
<1>6. ASSUME NEW n \in News, inbox'[n].op = "none" PROVE inbox[n].op = "none"
  <2>1. CASE \E t \in Tokens : RegisterDevice(u, t) \/ RemoveDevice(u, t)
    BY <1>6, <2>1 DEF RegisterDevice, RemoveDevice
  <2>2. ASSUME NEW m \in News, MarkRead(u, m) \/ DeleteNotice(u, m) PROVE inbox[n].op = "none"
    <3>1. inbox[m].op \in {"unread", "read"} /\ inbox[m] \in Inboxes
      BY <1>1, <2>2 DEF MarkRead, DeleteNotice
    <3>2. \/ inbox' = [inbox EXCEPT ![m] = [inbox[m] EXCEPT !.op = "read"]]
          \/ inbox' = [inbox EXCEPT ![m] = [op |-> "deleted"]]
      BY <2>2 DEF MarkRead, DeleteNotice
    <3>3. [inbox[m] EXCEPT !.op = "read"].op = "read"
      BY <3>1, InboxForms
    <3>4. inbox'[m].op # "none"
      <4>1. inbox'[m] = [inbox[m] EXCEPT !.op = "read"] \/ inbox'[m] = [op |-> "deleted"]
        BY <1>1, <3>2
      <4>2. CASE inbox'[m] = [op |-> "deleted"]
        BY <4>2
      <4>3. CASE inbox'[m] = [inbox[m] EXCEPT !.op = "read"]
        BY <3>3, <4>3
      <4> QED
        BY <4>1, <4>2, <4>3
    <3>5. m # n => inbox'[n] = inbox[n]
      BY <1>1, <3>2
    <3> QED
      BY <1>6, <3>4, <3>5
  <2>3. CASE MarkAllRead(u)
    BY <1>1, <1>6, <2>3 DEF MarkAllRead
  <2>4. CASE DeleteAllRead(u)
    BY <1>1, <1>6, <2>4 DEF DeleteAllRead
  <2> QED
    BY <2>1, <2>2, <2>3, <2>4
<1> QED
  BY <1>2, <1>5, <1>6, PushKept

\* The push job of one notification moves.
LEMMA PushStep ==
    ASSUME NoticesIInv, NEW n \in News, NEW p \in Pushes, NEW A \in SUBSET Tokens,
           push' = [push EXCEPT ![n] = p], answered' = [answered EXCEPT ![n] = A],
           allowed' = allowed, inbox' \in [News -> Inboxes], device' \in [Tokens -> Owners \cup {None}],
           \A m \in News : inbox'[m].op = "none" => m # n /\ inbox[m].op = "none",
           p.op \in {"none", "create", "waiting"} => A = {},
           p.op = "sending" =>
              /\ p.failed <= p.batch
              /\ p.failed = p.batch => A = {}
              /\ \A t \in A : Below(p.tokens, t) < p.batch * BatchSize
    PROVE  NoticesIInv'
<1>1. /\ allowed \subseteq Owners /\ push \in [News -> Pushes] /\ answered \in [News -> SUBSET Tokens]
  BY NoticesTypes DEF NoticesIInv
<1>2. push' \in [News -> Pushes] /\ answered' \in [News -> SUBSET Tokens]
  BY <1>1
<1>3. NoticesTypeOK'
  BY <1>1, <1>2 DEF NoticesTypeOK, Inboxes
<1>4. /\ push'[n] = p /\ answered'[n] = A
      /\ \A m \in News : m # n => push'[m] = push[m] /\ answered'[m] = answered[m]
  BY <1>1
<1>5. ASSUME NEW m \in News PROVE AnsweredSound(m)'
  <2>1. CASE m = n
    BY <1>4, <2>1 DEF AnsweredSound
  <2>2. CASE m # n
    BY <1>4, <2>2 DEF NoticesIInv, AnsweredSound
  <2> QED
    BY <2>1, <2>2
<1> QED
  BY <1>3, <1>5 DEF NoticesIInv

LEMMA NoticesTyped ==
    ASSUME NoticesIInv
    PROVE  /\ inbox \in [News -> Inboxes] /\ allowed \subseteq Owners
           /\ device \in [Tokens -> Owners \cup {None}]
           /\ push \in [News -> Pushes] /\ answered \in [News -> SUBSET Tokens]
BY NoticesTypes DEF NoticesIInv

LEMMA SameAnswers ==
    ASSUME NoticesIInv, NEW n \in News, answered' = answered
    PROVE  answered' = [answered EXCEPT ![n] = answered[n]]
BY NoticesTyped

LEMMA QueueStep ==
    ASSUME NoticesIInv, NEW n \in News,
           \/ \E u \in Owners : CreateNotice(n, u)
           \/ DispatchPush(n) \/ StartSending(n)
    PROVE  NoticesIInv'
<1>1. ASSUME NEW u \in Owners, CreateNotice(n, u) PROVE NoticesIInv'
  <2> DEFINE p == [op |-> "create", owner |-> u]
  <2>1. /\ push' = [push EXCEPT ![n] = p] /\ inbox[n].op = "none"
        /\ inbox' = [inbox EXCEPT ![n] = [op |-> "unread", owner |-> u]] /\ UNCHANGED <<allowed, device, answered>>
    BY <1>1 DEF CreateNotice
  <2>2. /\ inbox' \in [News -> Inboxes]
        /\ \A m \in News : inbox'[m].op = "none" => m # n /\ inbox[m].op = "none"
    BY <2>1, NoticesTyped, InboxForms
  <2>3. p \in Pushes /\ p.op = "create"
    BY PushForms
  <2>4. answered[n] = {}
    BY <2>1 DEF NoticesIInv, AnsweredSound
  <2> HIDE DEF p
  <2>5. answered[n] \in SUBSET Tokens
    BY <2>4
  <2> QED
    BY <2>1, <2>2, <2>3, <2>4, <2>5, SameAnswers, NoticesTyped, PushStep
<1>2. CASE DispatchPush(n)
  <2>1. push[n].op = "create" /\ UNCHANGED <<inbox, allowed, device, answered>>
    BY <1>2 DEF DispatchPush
  <2>2. answered[n] = {} /\ inbox[n].op # "none"
    BY <2>1 DEF NoticesIInv, AnsweredSound
  <2>3. ASSUME NEW p \in Pushes, push' = [push EXCEPT ![n] = p], p.op \in {"waiting", "done"}
        PROVE  NoticesIInv'
    <3>1. answered[n] \in SUBSET Tokens /\ \A m \in News : inbox'[m].op = "none" => m # n /\ inbox[m].op = "none"
      BY <2>1, <2>2
    <3>2. inbox' \in [News -> Inboxes] /\ device' \in [Tokens -> Owners \cup {None}]
      BY <2>1, NoticesTyped
    <3> QED
      BY <2>1, <2>2, <2>3, <3>1, <3>2, SameAnswers, PushStep
  <2>4. CASE push' = [push EXCEPT ![n] = [op |-> "done"]]
    BY <2>3, <2>4, PushForms
  <2>5. CASE push' = [push EXCEPT ![n] = [op |-> "waiting", tokens |-> TokensOf(push[n].owner), left |-> Attempts]]
    <3>1. TokensOf(push[n].owner) \in SUBSET Tokens /\ Attempts \in 1..Attempts
      BY NoticesAssumption DEF TokensOf
    <3> DEFINE p == [op |-> "waiting", tokens |-> TokensOf(push[n].owner), left |-> Attempts]
    <3>2. p \in Pushes /\ p.op = "waiting"
      BY <3>1, PushForms
    <3> HIDE DEF p
    <3>3. push' = [push EXCEPT ![n] = p]
      BY <2>5 DEF p
    <3> QED
      BY <2>3, <3>2, <3>3
  <2> QED
    BY <1>2, <2>4, <2>5 DEF DispatchPush
<1>3. CASE StartSending(n)
  <2> DEFINE p == [op |-> "sending", tokens |-> push[n].tokens, left |-> push[n].left,
                   batch |-> 0, failed |-> 0, invalid |-> {}]
  <2>1. push[n].op = "waiting" /\ UNCHANGED <<inbox, allowed, device, answered>> /\ push' = [push EXCEPT ![n] = p]
    BY <1>3 DEF StartSending
  <2>2. answered[n] = {} /\ inbox[n].op # "none"
    BY <2>1 DEF NoticesIInv, AnsweredSound
  <2>3. push[n].tokens \in SUBSET Tokens /\ push[n].left \in 1..Attempts
    BY <2>1, NoticesTyped, PushFacts
  <2>4. p \in Pushes /\ p.op = "sending" /\ p.failed <= p.batch
    BY <2>3, PushForms
  <2> HIDE DEF p
  <2>5. answered[n] \in SUBSET Tokens /\ \A m \in News : inbox'[m].op = "none" => m # n /\ inbox[m].op = "none"
    BY <2>1, <2>2
  <2>6. inbox' \in [News -> Inboxes] /\ device' \in [Tokens -> Owners \cup {None}]
    BY <2>1, NoticesTyped
  <2>7. \A t \in answered[n] : Below(p.tokens, t) < p.batch * BatchSize
    BY <2>2
  <2> QED
    BY <2>1, <2>2, <2>4, <2>5, <2>6, <2>7, SameAnswers, PushStep
<1> QED
  BY <1>1, <1>2, <1>3

\* What a job that is sending has.
LEMMA SendingFacts ==
    ASSUME NoticesIInv, NEW n \in News, push[n].op = "sending"
    PROVE  /\ push[n].tokens \in SUBSET Tokens /\ push[n].invalid \in SUBSET Tokens
           /\ push[n].left \in 1..Attempts /\ push[n].batch \in Nat /\ push[n].failed \in Nat
           /\ push[n].failed <= push[n].batch
           /\ push[n].failed = push[n].batch => answered[n] = {}
           /\ \A t \in answered[n] : Below(push[n].tokens, t) < push[n].batch * BatchSize
           /\ answered[n] \in SUBSET Tokens /\ inbox[n].op # "none"
BY NoticesTyped, PushFacts DEF NoticesIInv, AnsweredSound

Sending(T, k, b, f, I) ==
    [op |-> "sending", tokens |-> T, left |-> k, batch |-> b, failed |-> f, invalid |-> I]

LEMMA SendingPush ==
    ASSUME NoticesIInv, NEW n \in News, push[n].op = "sending"
    PROVE  \E T, I \in SUBSET Tokens, k \in 1..Attempts, b, f \in Nat :
              /\ push[n] = Sending(T, k, b, f, I)
              /\ f <= b /\ (f = b => answered[n] = {})
              /\ \A t \in answered[n] : Below(T, t) < b * BatchSize
<1>1. push[n] \in Pushes
  BY NoticesTyped
<1> DEFINE T == push[n].tokens  k == push[n].left  b == push[n].batch  f == push[n].failed
           I == push[n].invalid
<1>2. push[n] = Sending(T, k, b, f, I)
  BY <1>1, PushFacts DEF Sending
<1>3. /\ T \in SUBSET Tokens /\ I \in SUBSET Tokens /\ k \in 1..Attempts /\ b \in Nat /\ f \in Nat
      /\ f <= b /\ (f = b => answered[n] = {})
      /\ \A t \in answered[n] : Below(T, t) < b * BatchSize
  BY SendingFacts
<1> HIDE DEF T, k, b, f, I
<1> QED
  BY <1>2, <1>3

\* Another batch is done with.
LEMMA BatchStep ==
    ASSUME NoticesIInv, NEW n \in News,
           NEW T \in SUBSET Tokens, NEW I \in SUBSET Tokens, NEW k \in 1..Attempts,
           NEW b \in Nat, NEW f \in Nat, NEW g \in Nat, NEW A \in SUBSET Tokens,
           push[n].op = "sending", f <= b, f = b => answered[n] = {},
           \A t \in answered[n] : Below(T, t) < b * BatchSize,
           A \subseteq Batch(T, b), g = f \/ (g = f + 1 /\ A = {}),
           push' = [push EXCEPT ![n] = Sending(T, k, b + 1, g, I)],
           answered' = [answered EXCEPT ![n] = answered[n] \cup A],
           UNCHANGED <<inbox, allowed, device>>
    PROVE  NoticesIInv'
<1> DEFINE p == Sending(T, k, b + 1, g, I)
           R == answered[n] \cup A
<1>1. PICK c \in Nat : c = b + 1
  OBVIOUS
<1>2. p \in Pushes /\ p.op = "sending" /\ p.failed = g /\ p.batch = c /\ p.tokens = T
  <2>1. p = [op |-> "sending", tokens |-> T, left |-> k, batch |-> c, failed |-> g, invalid |-> I]
    BY <1>1 DEF Sending
  <2> QED
    BY <2>1, PushForms
<1>3. g <= c /\ (g = c => R = {})
  BY <1>1
<1>4. \A t \in R : Below(T, t) < c * BatchSize
  <2>1. PICK x \in Nat, y \in Nat : x = b * BatchSize /\ y = c * BatchSize /\ x < y
    BY <1>1, NextMultiple, NoticesAssumption
  <2>2. \A t : Below(T, t) \in Nat
    BY BelowType
  <2>3. \A t \in answered[n] : Below(T, t) < x
    BY <2>1
  <2>4. \A t \in A : Below(T, t) < y
    BY <1>1, <2>1 DEF Batch, Below
  <2>5. \A t \in R : Below(T, t) < y
    BY <2>1, <2>2, <2>3, <2>4
  <2> QED
    BY <2>1, <2>5
<1>5. R \in SUBSET Tokens /\ inbox[n].op # "none"
  BY SendingFacts
<1>6. /\ inbox' \in [News -> Inboxes] /\ device' \in [Tokens -> Owners \cup {None}]
      /\ \A m \in News : inbox'[m].op = "none" => m # n /\ inbox[m].op = "none"
  BY <1>5, NoticesTyped
<1> HIDE DEF p, R
<1>7. /\ p.failed <= p.batch /\ (p.failed = p.batch => R = {})
      /\ \A t \in R : Below(p.tokens, t) < p.batch * BatchSize
  BY <1>2, <1>3, <1>4
<1>8. push' = [push EXCEPT ![n] = p] /\ answered' = [answered EXCEPT ![n] = R]
  BY DEF p, R
<1> QED
  BY <1>2, <1>5, <1>6, <1>7, <1>8, PushStep

LEMMA SendBatchStep ==
    ASSUME NoticesIInv, NEW n \in News, NEW A \in SUBSET Tokens, NEW J \in SUBSET Tokens, SendBatch(n, A, J)
    PROVE  NoticesIInv'
<1>1. PICK T, I \in SUBSET Tokens, k \in 1..Attempts, b, f \in Nat :
         /\ push[n] = Sending(T, k, b, f, I)
         /\ f <= b /\ (f = b => answered[n] = {})
         /\ \A t \in answered[n] : Below(T, t) < b * BatchSize
  BY SendingPush DEF SendBatch
<1>2. push[n].tokens = T /\ push[n].batch = b /\ push[n].invalid = I
  BY <1>1 DEF Sending
<1>3. /\ push[n].op = "sending" /\ A \subseteq Batch(T, b)
      /\ answered' = [answered EXCEPT ![n] = answered[n] \cup A]
      /\ UNCHANGED <<inbox, allowed, device>>
  BY <1>2 DEF SendBatch
<1>4. PICK c \in Nat : c = b + 1
  OBVIOUS
<1>5. push' = [push EXCEPT ![n] = Sending(T, k, b + 1, f, I \cup J)]
  <2>1. push' = [push EXCEPT ![n] = [push[n] EXCEPT !.batch = c, !.invalid = I \cup J]]
    <3>1. push' = [push EXCEPT ![n].batch = @ + 1, ![n].invalid = @ \cup J]
      BY DEF SendBatch
    <3>2. push' = [push EXCEPT ![n].batch = c, ![n].invalid = I \cup J]
      BY <1>2, <1>4, <3>1
    <3> QED
      BY <3>2
  <2>2. [push[n] EXCEPT !.batch = c, !.invalid = I \cup J] = Sending(T, k, c, f, I \cup J)
    <3>1. PICK K \in SUBSET Tokens : K = I \cup J
      OBVIOUS
    <3>2. [push[n] EXCEPT !.batch = c] = Sending(T, k, c, f, I)
      BY <1>1 DEF Sending
    <3>3. [Sending(T, k, c, f, I) EXCEPT !.invalid = K] = Sending(T, k, c, f, K)
      BY DEF Sending
    <3> QED
      BY <3>1, <3>2, <3>3
  <2> QED
    BY <1>4, <2>1, <2>2
<1>6. I \cup J \in SUBSET Tokens
  OBVIOUS
<1> QED
  BY <1>1, <1>3, <1>5, <1>6, BatchStep

LEMMA BatchFailsStep ==
    ASSUME NoticesIInv, NEW n \in News, BatchFails(n)
    PROVE  NoticesIInv'
<1>1. PICK T, I \in SUBSET Tokens, k \in 1..Attempts, b, f \in Nat :
         /\ push[n] = Sending(T, k, b, f, I)
         /\ f <= b /\ (f = b => answered[n] = {})
         /\ \A t \in answered[n] : Below(T, t) < b * BatchSize
  BY SendingPush DEF BatchFails
<1>2. push[n].batch = b /\ push[n].failed = f
  BY <1>1 DEF Sending
<1>3. push[n].op = "sending" /\ UNCHANGED <<inbox, allowed, device, answered>>
  BY DEF BatchFails
<1>4. PICK c, g \in Nat : c = b + 1 /\ g = f + 1
  OBVIOUS
<1>5. push' = [push EXCEPT ![n] = Sending(T, k, b + 1, f + 1, I)]
  <2>1. push' = [push EXCEPT ![n] = [push[n] EXCEPT !.batch = c, !.failed = g]]
    <3>1. push' = [push EXCEPT ![n].batch = @ + 1, ![n].failed = @ + 1]
      BY DEF BatchFails
    <3>2. push' = [push EXCEPT ![n].batch = c, ![n].failed = g]
      BY <1>2, <1>4, <3>1
    <3> QED
      BY <3>2
  <2>2. [push[n] EXCEPT !.batch = c, !.failed = g] = Sending(T, k, c, g, I)
    <3>1. [push[n] EXCEPT !.batch = c] = Sending(T, k, c, f, I)
      BY <1>1 DEF Sending
    <3>2. [Sending(T, k, c, f, I) EXCEPT !.failed = g] = Sending(T, k, c, g, I)
      BY DEF Sending
    <3> QED
      BY <3>1, <3>2
  <2> QED
    BY <1>4, <2>1, <2>2
<1>6. answered' = [answered EXCEPT ![n] = answered[n] \cup {}] /\ f + 1 \in Nat
  BY <1>3, NoticesTyped
<1>7. {} \in SUBSET Tokens /\ {} \subseteq Batch(T, b)
  OBVIOUS
<1> QED
  BY <1>1, <1>3, <1>5, <1>6, <1>7, BatchStep

LEMMA AgainForm ==
    ASSUME NEW p \in Pushes, p.op = "sending"
    PROVE  Again(p) \in Pushes /\ Again(p).op \in {"waiting", "done"}
<1>1. p.tokens \in SUBSET Tokens /\ p.left \in 1..Attempts /\ Attempts \in Nat
  BY PushFacts, NoticesAssumption
<1>2. CASE p.left > 1
  <2>1. p.left - 1 \in 1..Attempts
    BY <1>1, <1>2
  <2>2. Again(p) = [op |-> "waiting", tokens |-> p.tokens, left |-> p.left - 1]
    BY <1>2 DEF Again
  <2> QED
    BY <1>1, <2>1, <2>2, PushForms
<1>3. CASE ~(p.left > 1)
  BY <1>3, PushForms DEF Again
<1> QED
  BY <1>2, <1>3

\* The attempt is over: with nothing answered there may be another.
LEMMA AttemptEnds ==
    ASSUME NoticesIInv, NEW n \in News, push[n].op = "sending", FinishSending(n) \/ WorkerDies(n)
    PROVE  NoticesIInv'
<1>1. /\ Again(push[n]) \in Pushes /\ Again(push[n]).op \in {"waiting", "done"}
      /\ [op |-> "done"] \in Pushes
  BY AgainForm, NoticesTyped, PushForms
<1>2. /\ inbox' = inbox /\ allowed' = allowed
      /\ inbox' \in [News -> Inboxes]
      /\ \A m \in News : inbox'[m].op = "none" => m # n /\ inbox[m].op = "none"
  BY SendingFacts, NoticesTyped DEF FinishSending, WorkerDies
<1>3. device' \in [Tokens -> Owners \cup {None}]
  BY NoticesTyped DEF FinishSending, WorkerDies
<1>4. ASSUME NEW p \in Pushes, p.op \in {"waiting", "done"}, NEW A \in SUBSET Tokens,
             push' = [push EXCEPT ![n] = p], answered' = [answered EXCEPT ![n] = A], p.op = "waiting" => A = {}
      PROVE  NoticesIInv'
  BY <1>2, <1>3, <1>4, PushStep
<1>5. CASE WorkerDies(n)
  <2>1. push' = [push EXCEPT ![n] = Again(push[n])] /\ answered' = [answered EXCEPT ![n] = {}]
    BY <1>5 DEF WorkerDies
  <2>2. {} \in SUBSET Tokens
    OBVIOUS
  <2> QED
    BY <1>1, <1>4, <2>1, <2>2
<1>6. CASE FinishSending(n)
  <2>1. /\ push' = [push EXCEPT ![n] = IF GiveUp(push[n]) THEN Again(push[n]) ELSE [op |-> "done"]]
        /\ push[n].batch = Batches(push[n].tokens) /\ answered' = answered
    BY <1>6 DEF FinishSending
  <2>2. answered[n] \in SUBSET Tokens /\ answered' = [answered EXCEPT ![n] = answered[n]]
    BY <2>1, NoticesTyped
  <2>3. CASE GiveUp(push[n])
    <3>1. answered[n] = {}
      BY <2>1, <2>3, SendingFacts DEF GiveUp
    <3> QED
      BY <1>1, <1>4, <2>1, <2>2, <2>3, <3>1
  <2>4. CASE ~GiveUp(push[n])
    <3>1. push' = [push EXCEPT ![n] = [op |-> "done"]]
      BY <2>1, <2>4
    <3> QED
      BY <1>1, <1>4, <2>2, <3>1
  <2> QED
    BY <2>3, <2>4
<1> QED
  BY <1>5, <1>6

LEMMA NoticesStepIInv == ASSUME NoticesIInv, [NoticesNext]_noticesVars PROVE NoticesIInv'
<1>1. CASE UNCHANGED noticesVars
  BY <1>1 DEF noticesVars, NoticesIInv, NoticesTypeOK, AnsweredSound
<1>2. ASSUME NEW n \in News, FinishSending(n) \/ WorkerDies(n) PROVE NoticesIInv'
  BY <1>2, AttemptEnds DEF FinishSending, WorkerDies
<1>3. CASE NoticesNext
  BY <1>2, <1>3, InboxStep, QueueStep, SendBatchStep, BatchFailsStep DEF NoticesNext
<1> QED
  BY <1>1, <1>3

LEMMA NoticesInitIInv == ASSUME NoticesInit PROVE NoticesIInv
<1>1. NoticesTypeOK
  BY InboxForms, PushForms DEF NoticesInit, NoticesTypeOK, Inboxes
<1>2. \A n \in News : AnsweredSound(n)
  BY DEF NoticesInit, AnsweredSound
<1> QED
  BY <1>1, <1>2 DEF NoticesIInv

\* The batch to come is of tokens nothing was answered for.
LEMMA BatchIsNew ==
    ASSUME NoticesIInv, NEW n \in News, push[n].op = "sending"
    PROVE  Batch(push[n].tokens, push[n].batch) \cap answered[n] = {}
<1>1. PICK b \in Nat : b = push[n].batch
  BY SendingFacts
<1>2. PICK T \in SUBSET Tokens : T = push[n].tokens
  BY SendingFacts
<1>3. PICK x \in Nat : x = b * BatchSize
  BY NextMultiple
<1>4. \A t \in answered[n] : Below(T, t) < x
  BY <1>1, <1>2, <1>3, SendingFacts
<1>5. \A t \in Batch(T, b) : Below(T, t) >= x
  BY <1>3 DEF Batch, Below
<1>6. \A t : Below(T, t) \in Nat
  BY BelowType
<1>7. \A t \in answered[n] : t \notin Batch(T, b)
  BY <1>4, <1>5, <1>6
<1> QED
  BY <1>1, <1>2, <1>7

-----------------------------------------------------------------------------
(* The parts, one at a time *)

\* Whoever pages to the end of the history has got every message that was there
\* when he began, although messages are sent, come late and are deleted
\* meanwhile, unless it was deleted or is of the same millisecond as another one
\* of a page he got (list).
THEOREM HistoryIsCovered == ChatSpec => []PagesCoverHistory
<1>1. ChatIInv => PagesCoverHistory
  BY DEF ChatIInv, PagingSound
<1> QED
  BY <1>1, ChatInitIInv, ChatStepIInv, PTL DEF ChatSpec

\* A driver whom the dispatch found takes part, when his assignment has been
\* handled, in a conversation about the order, as long as none is closed: if the
\* listener of the acceptance was through before he took the order or one was open
\* when his assignment was handled.  If there was none, nor one on the way, because
\* the listener died, he takes part in every one opened later, whoever opens them
\* (handleOrderStatusChanged, createSystemOrderConversation, handleStuckOrderMonitor).
THEOREM DriverTakesPart == ConversationsSpec => []DriverIsIn
BY TalksInitIInv, ConversationsStepIInv, TalksSafe, PTL DEF ConversationsSpec

\* Whoever reads a list to the end misses no more of the rows that stayed in their
\* place than rows left from before others meanwhile (list, findAll, ...).
THEOREM FewRowsMissed == ListingsSpec => []RowsMissedFew
<1>1. ListingsIInv => RowsMissedFew
  BY DEF ListingsIInv, ReaderSound
<1> QED
  BY <1>1, ListingsInitIInv, ListingsStepIInv, PTL DEF ListingsSpec

\* When no event is under way, a longer period counts what its days count, but for
\* upserts that failed and days that are long over, whenever midnight comes and
\* whatever the nightly job removes (getPeriodsForDate, recordCancellation, ...).
THEOREM PeriodsCountTheirDays == ReportsSpec => []PeriodsAgree
BY ReportsInitIInv, ReportsStepIInv, ReportsSafe, PTL DEF ReportsSpec

\* A device for which the messaging service answered that it took a notification
\* gets it no second time, however many batches fail and attempts follow, unless
\* the worker died.  One of a batch whose call failed when it was sent in part had
\* no answer, and may get it again (handleSendToDevices).
THEOREM AnsweredOnce == NoticesSpec => AnsweredNotResent
<1>1. ASSUME NoticesIInv, [NoticesNext]_noticesVars
      PROVE  [\A n \in News :
                 push[n].op = "sending" /\ push'[n].op = "sending" /\ push'[n].batch > push[n].batch
                 => Batch(push[n].tokens, push[n].batch) \cap answered[n] = {}]_noticesVars
  BY <1>1, BatchIsNew
<1> QED
  BY <1>1, NoticesInitIInv, NoticesStepIInv, PTL DEF NoticesSpec, AnsweredNotResent

LEMMA OnePartMoves ==
    ASSUME [MCNext]_officeVars
    PROVE  /\ [ChatNext]_chatVars /\ [ConversationsNext]_conversationsVars
           /\ [ListingsNext]_listingsVars /\ [ReportsNext]_reportsVars /\ [NoticesNext]_noticesVars
<1>1. CASE MCChatNext
  <2>1. ChatNext /\ UNCHANGED <<conversationsVars, listingsVars, reportsVars, noticesVars>>
    BY <1>1 DEF MCChatNext, InChat, ChatNext
  <2> QED
    BY <2>1
<1>2. CASE MCTalksNext
  <2>1. UNCHANGED <<chatVars, listingsVars, reportsVars, noticesVars>>
    BY <1>2 DEF MCTalksNext, InTalks
  <2>2. Clients \cup Team \cup Helpers \cup Riders \subseteq People
    BY DEF People
  <2>3. ASSUME NEW t \in Tasks, WriteConversation(t) \/ WriteParticipant(t) PROVE ConversationsNext
    BY <2>3 DEF ConversationsNext
  <2>4. ASSUME NEW t \in Callers, NEW u \in People,
               \/ CreateOrderConversation(t, u)
               \/ CreateSupportConversation(t, u)
               \/ CreateVendorConversation(t, u)
        PROVE  ConversationsNext
    BY <2>4 DEF ConversationsNext
  <2>5. ASSUME NEW t \in Callers, NEW u \in Helpers, NEW o \in People \ {u}, CreateDirectConversation(t, u, o)
        PROVE  ConversationsNext
    BY <2>2, <2>5 DEF ConversationsNext
  <2>6. ASSUME NEW c \in Talks, CloseTalk(c) \/ \E u \in People : JoinBySending(u, c) PROVE ConversationsNext
    BY <2>6 DEF ConversationsNext
  <2>7. ASSUME \/ AcceptOrder \/ HandleAccepted \/ QueueDispatch \/ ListenerDies \/ RequeueStuck
               \/ HandleAssigned \/ AssignedDies
               \/ \E d \in Riders : TakeTrip(d) \/ ForceAssign(d)
        PROVE  ConversationsNext
    BY <2>7 DEF ConversationsNext
  <2>8. ConversationsNext
    BY <1>2, <2>2, <2>3, <2>4, <2>5, <2>6, <2>7 DEF MCTalksNext
  <2> QED
    BY <2>1, <2>8
<1>3. CASE MCListsNext
  <2>1. ListingsNext /\ UNCHANGED <<chatVars, conversationsVars, reportsVars, noticesVars>>
    BY <1>3 DEF MCListsNext, InLists, ListingsNext
  <2> QED
    BY <2>1
<1>4. CASE MCReportsNext
  <2>1. ReportsNext /\ UNCHANGED <<chatVars, conversationsVars, listingsVars, noticesVars>>
    BY <1>4 DEF MCReportsNext, InReports, ReportsNext
  <2> QED
    BY <2>1
<1>5. CASE MCNoticesNext
  <2>1. NoticesNext /\ UNCHANGED <<chatVars, conversationsVars, listingsVars, reportsVars>>
    BY <1>5 DEF MCNoticesNext, InNotices, NoticesNext
  <2> QED
    BY <2>1
<1>6. CASE UNCHANGED officeVars
  BY <1>6 DEF officeVars
<1> QED
  BY <1>1, <1>2, <1>3, <1>4, <1>5, <1>6 DEF MCNext

OfficeIInv == ChatIInv /\ TalksIInv /\ ListingsIInv /\ ReportsIInv /\ NoticesIInv

LEMMA OfficeInit == ASSUME MCInit PROVE OfficeIInv
BY ChatInitIInv, TalksInitIInv, ListingsInitIInv, ReportsInitIInv, NoticesInitIInv DEF MCInit, OfficeIInv

LEMMA OfficeStep == ASSUME OfficeIInv, [MCNext]_officeVars PROVE OfficeIInv'
BY OnePartMoves, ChatStepIInv, ConversationsStepIInv, ListingsStepIInv, ReportsStepIInv, NoticesStepIInv
   DEF OfficeIInv

\* Messages, conversations, lists, counters and notifications have their forms: no
\* counter exceeds the events there were, no push has more tokens than devices.
THEOREM OfficeTypesCorrect == MCSpec => []OfficeTypeOK
<1>1. OfficeIInv => OfficeTypeOK
  BY DEF OfficeIInv, ChatIInv, TalksIInv, ListingsIInv, ReportsIInv, NoticesIInv, OfficeTypeOK
<1> QED
  BY <1>1, OfficeInit, OfficeStep, PTL DEF MCSpec

\* Whoever reads page by page, with a cursor or by page numbers, misses nothing but
\* what is moved about under him (list, findAll, ...).
THEOREM PagesAreComplete == MCSpec => []PagesComplete
<1>1. OfficeIInv => PagesComplete
  BY DEF OfficeIInv, ChatIInv, PagingSound, ListingsIInv, ReaderSound, PagesComplete
<1> QED
  BY <1>1, OfficeInit, OfficeStep, PTL DEF MCSpec
=============================================================================
