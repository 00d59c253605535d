------------------------------ MODULE Notices -------------------------------
(***************************************************************************)
(* Notifications: the inbox of a user, the devices that are registered for *)
(* him, and the queue whose jobs send to the devices.  A job that fails as *)
(* a whole, or whose worker dies, is run again with the tokens it was      *)
(* given.                                                                  *)
(***************************************************************************)
EXTENDS Integers, FiniteSets

CONSTANTS
    Owners,             \* users
    Tokens,             \* device tokens: an initial segment of the naturals
    BatchSize,          \* tokens of a batch, 500
    News,               \* notifications, one job each
    Attempts            \* of a job: 3

ASSUME NoticesAssumption ==
    /\ IsFiniteSet(Tokens) /\ Tokens = 1..Cardinality(Tokens)
    /\ BatchSize \in Nat \ {0} /\ Attempts \in Nat \ {0}

VARIABLES
    inbox,      \* of each notification: its user and whether it was read
    allowed,    \* users whose settings let notifications through
    device,     \* owner of each registered token
    push,       \* the push job of each notification
    answered    \* per notification: tokens for which the messaging service answered that it took it

noticesVars == <<inbox, allowed, device, push, answered>>

None == "NONE"

\* batch: the next batch; failed: batches that failed; invalid: tokens it refused.
Pushes == {[op |-> "none"], [op |-> "done"]} \cup [op : {"create"}, owner : Owners]
    \cup [op : {"waiting"}, tokens : SUBSET Tokens, left : 1..Attempts]
    \cup [op : {"sending"}, tokens : SUBSET Tokens, left : 1..Attempts,
          batch : Nat, failed : Nat, invalid : SUBSET Tokens]

NoticesTypeOK ==
    /\ inbox \in [News -> {[op |-> "none"], [op |-> "deleted"]}
                          \cup [op : {"unread", "read"}, owner : Owners]]
    /\ allowed \subseteq Owners
    /\ device \in [Tokens -> Owners \cup {None}]
    /\ push \in [News -> Pushes]
    /\ answered \in [News -> SUBSET Tokens]

NoticesInit ==
    /\ inbox = [n \in News |-> [op |-> "none"]]
    /\ allowed \in SUBSET Owners
    /\ device \in [Tokens -> Owners \cup {None}]
    /\ push = [n \in News |-> [op |-> "none"]]
    /\ answered = [n \in News |-> {}]

-----------------------------------------------------------------------------
(* Devices *)

\* A token that is known moves to the user.
RegisterDevice(u, t) ==
    /\ device' = [device EXCEPT ![t] = u]
    /\ UNCHANGED <<inbox, allowed, push, answered>>

RemoveDevice(u, t) ==
    /\ device[t] = u
    /\ device' = [device EXCEPT ![t] = None]
    /\ UNCHANGED <<inbox, allowed, push, answered>>

-----------------------------------------------------------------------------
(* Notifications *)

\* create, createMany: the row.
CreateNotice(n, u) ==
    /\ inbox[n].op = "none"
    /\ inbox' = [inbox EXCEPT ![n] = [op |-> "unread", owner |-> u]]
    /\ push' = [push EXCEPT ![n] = [op |-> "create", owner |-> u]]
    /\ UNCHANGED <<allowed, device, answered>>

TokensOf(u) == {t \in Tokens : device[t] = u}

\* The devices of the moment; a failure to queue the job is logged.
DispatchPush(n) ==
    /\ push[n].op = "create"
    /\ \/ LET T == TokensOf(push[n].owner) IN
          /\ push[n].owner \in allowed /\ T # {}
          /\ push' = [push EXCEPT ![n] = [op |-> "waiting", tokens |-> T, left |-> Attempts]]
       \/ push' = [push EXCEPT ![n] = [op |-> "done"]]
    /\ UNCHANGED <<inbox, allowed, device, answered>>

MarkRead(u, n) ==
    /\ inbox[n].op = "unread" /\ inbox[n].owner = u
    /\ inbox' = [inbox EXCEPT ![n].op = "read"]
    /\ UNCHANGED <<allowed, device, push, answered>>

MarkAllRead(u) ==
    /\ \E n \in News : inbox[n].op = "unread" /\ inbox[n].owner = u
    /\ inbox' = [n \in News |-> IF inbox[n].op = "unread" /\ inbox[n].owner = u
                                THEN [inbox[n] EXCEPT !.op = "read"] ELSE inbox[n]]
    /\ UNCHANGED <<allowed, device, push, answered>>

DeleteNotice(u, n) ==
    /\ inbox[n].op \in {"unread", "read"} /\ inbox[n].owner = u
    /\ inbox' = [inbox EXCEPT ![n] = [op |-> "deleted"]]
    /\ UNCHANGED <<allowed, device, push, answered>>

DeleteAllRead(u) ==
    /\ \E n \in News : inbox[n].op = "read" /\ inbox[n].owner = u
    /\ inbox' = [n \in News |-> IF inbox[n].op = "read" /\ inbox[n].owner = u
                                THEN [op |-> "deleted"] ELSE inbox[n]]
    /\ UNCHANGED <<allowed, device, push, answered>>

-----------------------------------------------------------------------------
(* The push queue *)

StartSending(n) ==
    /\ push[n].op = "waiting"
    /\ push' = [push EXCEPT ![n] = [op |-> "sending", tokens |-> push[n].tokens,
                                    left |-> push[n].left, batch |-> 0, failed |-> 0, invalid |-> {}]]
    /\ UNCHANGED <<inbox, allowed, device, answered>>

\* chunkArray: the tokens in their order, BatchSize at a time.
Batch(T, i) ==
    {t \in T : LET before == Cardinality({s \in T : s < t})
               IN  before >= i * BatchSize /\ before < (i + 1) * BatchSize}
Batches(T) == (Cardinality(T) + BatchSize - 1) \div BatchSize

\* sendEachForMulticast answers for each token: taken, or refused as invalid, or
\* refused for another reason.
SendBatch(n, taken, invalid) ==
    LET p == push[n] IN
    /\ p.op = "sending" /\ p.batch < Batches(p.tokens)
    /\ taken \cup invalid \subseteq Batch(p.tokens, p.batch) /\ taken \cap invalid = {}
    /\ answered' = [answered EXCEPT ![n] = @ \cup taken]
    /\ push' = [push EXCEPT ![n].batch = @ + 1, ![n].invalid = @ \cup invalid]
    /\ UNCHANGED <<inbox, allowed, device>>

\* The call fails: whatever was sent of the batch got no answer.
BatchFails(n) ==
    LET p == push[n] IN
    /\ p.op = "sending" /\ p.batch < Batches(p.tokens)
    /\ push' = [push EXCEPT ![n].batch = @ + 1, ![n].failed = @ + 1]
    /\ UNCHANGED <<inbox, allowed, device, answered>>

\* Mistake: one batch that failed has the job run again.
GiveUpAny(p) == p.failed > 0

\* ALL_BATCHES_FAILED
GiveUp(p) == p.failed = Batches(p.tokens)

Again(p) == IF p.left > 1 THEN [op |-> "waiting", tokens |-> p.tokens, left |-> p.left - 1]
            ELSE [op |-> "done"]

\* cleanupTokens removes the tokens whoever has them now, or fails without a trace.
FinishSending(n) ==
    LET p == push[n] IN
    /\ p.op = "sending" /\ p.batch = Batches(p.tokens)
    /\ \E gone \in {{}, p.invalid} :
          device' = [t \in Tokens |-> IF t \in gone THEN None ELSE device[t]]
    /\ push' = [push EXCEPT ![n] = IF GiveUp(p) THEN Again(p) ELSE [op |-> "done"]]
    /\ UNCHANGED <<inbox, allowed, answered>>

\* The worker dies: the job stalls and is taken up again.
WorkerDies(n) ==
    /\ push[n].op = "sending"
    /\ push' = [push EXCEPT ![n] = Again(push[n])]
    /\ answered' = [answered EXCEPT ![n] = {}]
    /\ UNCHANGED <<inbox, allowed, device>>

NoticesNext ==
    \/ \E u \in Owners :
          \/ \E t \in Tokens : RegisterDevice(u, t) \/ RemoveDevice(u, t)
          \/ \E n \in News : CreateNotice(n, u) \/ MarkRead(u, n) \/ DeleteNotice(u, n)
          \/ MarkAllRead(u) \/ DeleteAllRead(u)
    \/ \E n \in News :
          \/ \E A, B \in SUBSET Tokens : SendBatch(n, A, B)
          \/ DispatchPush(n) \/ StartSending(n) \/ BatchFails(n) \/ FinishSending(n) \/ WorkerDies(n)

NoticesSpec == NoticesInit /\ [][NoticesNext]_noticesVars

-----------------------------------------------------------------------------
(* Properties *)

\* A device for which the messaging service answered that it took a notification
\* gets it no second time, however many batches fail and attempts follow, unless
\* the worker died.  One of a batch whose call failed when it was sent in part had
\* no answer, and may get it again (handleSendToDevices).
AnsweredNotResent ==
    [][\A n \in News :
        push[n].op = "sending" /\ push'[n].op = "sending" /\ push'[n].batch > push[n].batch
        => Batch(push[n].tokens, push[n].batch) \cap answered[n] = {}]_noticesVars
=============================================================================
