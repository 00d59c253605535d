----------------------------- MODULE DispatchProofs -----------------------------
(***************************************************************************)
(* Proofs about Dispatch, for any number of tasks, drivers, broadcasts,    *)
(* attempts, overrides and losses.  That a row can be won only once needs  *)
(* to know that an order with an ACCEPTED row has a driver and never goes  *)
(* back to a status from which a search starts.                            *)
(***************************************************************************)
EXTENDS Dispatch, FiniteSetTheorems, TLAPS

\* What TypeOK says of one task.
WithBroadcast(x) ==
    \/ x.op \in {"expire", "accept", "reject"}
    \/ x.pc \in {"send", "verified", "assign", "cancelClean"}
Sound(x) ==
    /\ x \in Task
    /\ WithBroadcast(x) => x.id \in Broadcasts
    /\ x.pc \in {"verified", "assign"} => x.driver \in info[x.id].asked
    /\ x.op = "assign" => x.driver \in Drivers

\* TypeOK but for the tasks.
RestOK ==
    /\ status \in OrderStatus
    /\ driver \in Drivers \cup {NoDriver}
    /\ status = "DRIVER_ASSIGNED" => driver # NoDriver
    /\ accepted \subseteq Broadcasts \X Drivers
    /\ info \in [Broadcasts -> [asked : SUBSET Drivers, attempt : Nat,
                                exclude : SUBSET Drivers]]
    /\ live \subseteq Broadcasts /\ expired \subseteq Broadcasts
    /\ active \in Broadcasts \cup {NoBroadcast}
    /\ rejected \in [Broadcasts -> SUBSET Drivers]
    /\ expireJobs \subseteq Broadcasts
    /\ announced \in BOOLEAN
    /\ overrides \in Nat /\ crashes \in Nat

Tasked == task \in [Tasks -> Task] /\ \A t \in Tasks : Sound(task[t])

LEMMA TypeParts == TypeOK <=> RestOK /\ Tasked
  BY DEF TypeOK, RestOK, Tasked, Sound, WithBroadcast

-----------------------------------------------------------------------------
(* Tasks *)

\* A task replaced by a sound one leaves all of them sound.
LEMMA BecomeSound ==
  ASSUME Tasked, info' = info, NEW t \in Tasks, NEW new, Sound(new), Become(t, new)
  PROVE  Tasked'
  <1>1. task' \in [Tasks -> Task]
    BY DEF Tasked, Become, Sound
  <1>2. ASSUME NEW u \in Tasks PROVE Sound(task'[u])
    BY DEF Tasked, Become
  <1>3. ASSUME NEW u \in Tasks PROVE Sound(task[u])'
    BY <1>2 DEF Sound
  <1> QED BY <1>1, <1>3 DEF Tasked

LEMMA FreeSound == Sound(Free) /\ Free.pc = "free" /\ Free.op = "none"
  BY DEF Sound, Free, Task, Op, Pc, WithBroadcast

LEMMA JobSound ==
  ASSUME NEW a \in Nat, NEW S \in SUBSET Drivers
  PROVE  Sound(DispatchJob(a, S))
  BY DEF Sound, DispatchJob, Free, Task, Op, Pc, WithBroadcast

LEMMA CancelSound == Sound(CancelActive)
  BY DEF Sound, CancelActive, Free, Task, Op, Pc, WithBroadcast

LEMMA SpawnSound ==
  ASSUME Tasked, info' = info, NEW new, Sound(new), Spawn(new)
  PROVE  Tasked'
  BY BecomeSound DEF Spawn

LEMMA EndSound ==
  ASSUME Tasked, info' = info, NEW t \in Tasks, End(t)
  PROVE  Tasked'
  BY BecomeSound, FreeSound DEF End

\* Moving on keeps the broadcast and the driver a later step relies on.
LEMMA GotoSound ==
  ASSUME Tasked, info' = info, NEW t \in Tasks, NEW pc \in Pc \ {"send", "cancelClean"}, Goto(t, pc),
         pc \in {"verified", "assign"} =>
            task[t].id \in Broadcasts /\ task[t].driver \in info[task[t].id].asked
  PROVE  Tasked'
  <1> DEFINE new == [task[t] EXCEPT !.pc = pc]
  <1>1. Sound(new)
    BY DEF Sound, Tasked, Task, WithBroadcast
  <1>2. Become(t, new)
    BY DEF Goto, Become, Tasked
  <1> QED BY <1>1, <1>2, BecomeSound

\* A handler started beside a task that moves on.
LEMMA ForkSound ==
  ASSUME Tasked, info' = info, NEW t \in Tasks, NEW new, Sound(new), Fork(t, "answer", new)
  PROVE  Tasked'
  <1> DEFINE old == [task[t] EXCEPT !.pc = "answer"]
  <1>1. Sound(old)
    BY DEF Sound, Tasked, Task, Pc, WithBroadcast
  <1>2. PICK u \in Tasks \ {t} : task' = [task EXCEPT ![t].pc = "answer", ![u] = new]
    BY DEF Fork
  <1>3. task' = [task EXCEPT ![t] = old, ![u] = new]
    BY <1>2 DEF Tasked
  <1> HIDE DEF old
  <1>4. old \in Task /\ new \in Task BY <1>1 DEF Sound
  <1>5. task' \in [Tasks -> Task]
    BY <1>3, <1>4 DEF Tasked
  <1>6. ASSUME NEW v \in Tasks PROVE Sound(task'[v])
    BY <1>1, <1>2, <1>3 DEF Tasked
  <1>7. ASSUME NEW v \in Tasks PROVE Sound(task[v])'
    BY <1>6 DEF Sound
  <1> QED BY <1>5, <1>7 DEF Tasked

\* The next round's job carries the attempt and exclude list of a broadcast.
LEMMA RequeueSound ==
  ASSUME RestOK, Tasked, info' = info, NEW t \in Tasks, task[t].id \in Broadcasts, Requeue(t)
  PROVE  Tasked'
  <1> DEFINE b == info[task[t].id]
  <1>1. b.attempt + 1 \in Nat /\ b.exclude \in SUBSET Drivers
    BY DEF RestOK
  <1>2. Sound(DispatchJob(b.attempt + 1, b.exclude))
    BY <1>1, JobSound
  <1> QED BY <1>2, BecomeSound DEF Requeue

\* Removing the keys of a broadcast keeps the ranges.
LEMMA DelDispatchOK ==
  ASSUME RestOK, NEW b \in Broadcasts, DelDispatch(b), UNCHANGED order,
         UNCHANGED <<expireJobs, announced, overrides, crashes>>
  PROVE  RestOK' /\ info' = info
  BY DEF RestOK, DelDispatch, order

-----------------------------------------------------------------------------
(* Type correctness, one lemma per kind of actor *)

LEMMA RestUnchanged ==
  ASSUME RestOK, UNCHANGED <<order, redis, expireJobs, announced, overrides, crashes>>
  PROVE  RestOK' /\ info' = info
  BY DEF RestOK, order, redis

LEMMA FirstJobSound ==
  ASSUME RestOK, Tasked, info' = info, FirstJob
  PROVE  Tasked' /\ crashes' \in Nat
  <1>1. Sound(DispatchJob(1, {}))
    BY JobSound
  <1>2. ASSUME UNCHANGED task PROVE Tasked'
    BY <1>2 DEF Tasked, Sound
  <1>3. crashes' \in Nat
    BY DEF FirstJob, RestOK
  <1> QED BY <1>1, <1>2, <1>3, SpawnSound DEF FirstJob

LEMMA AnnounceSound ==
  ASSUME RestOK, Tasked, info' = info, AnnounceAccepted
  PROVE  Tasked' /\ announced' \in BOOLEAN /\ crashes' \in Nat
  <1>1. ASSUME UNCHANGED <<task, crashes>> PROVE Tasked' /\ crashes' \in Nat
    BY <1>1 DEF Tasked, Sound, RestOK
  <1> QED BY <1>1, FirstJobSound DEF AnnounceAccepted

LEMMA OthersType ==
  ASSUME RestOK, Tasked, Others
  PROVE  RestOK' /\ Tasked'
  <1>0. ASSUME UNCHANGED <<task, info>> PROVE Tasked'
    BY <1>0 DEF Tasked, Sound
  <1>1. CASE VendorAccepts
    <2>1. info' = info BY <1>1 DEF VendorAccepts, redis
    <2>2. Tasked' /\ announced' \in BOOLEAN /\ crashes' \in Nat
      BY <1>1, <2>1, AnnounceSound DEF VendorAccepts
    <2>3. RestOK' BY <1>1, <2>2 DEF VendorAccepts, RestOK, redis, OrderStatus
    <2> QED BY <2>2, <2>3
  <1>2. CASE AcceptOrderChanges
    <2>1. info' = info BY <1>2 DEF AcceptOrderChanges, redis
    <2>2. Tasked' /\ announced' \in BOOLEAN /\ crashes' \in Nat
      <3>1. CASE driver = NoDriver
        BY <1>2, <2>1, <3>1, AnnounceSound DEF AcceptOrderChanges
      <3>2. CASE driver # NoDriver
        BY <1>2, <2>1, <3>2, <1>0 DEF AcceptOrderChanges, RestOK
      <3> QED BY <3>1, <3>2
    <2>3. RestOK' BY <1>2, <2>2 DEF AcceptOrderChanges, RestOK, redis, OrderStatus
    <2> QED BY <2>2, <2>3
  <1>3. CASE EditOrderItems
    <2> DEFINE new == [Free EXCEPT !.op = "edit", !.pc = "override"]
    <2>1. RestOK' /\ info' = info
      BY <1>3 DEF EditOrderItems, RestOK, order, redis
    <2>2. Sound(new)
      BY DEF Sound, Free, Task, Op, Pc, WithBroadcast
    <2> QED BY <1>3, <2>1, <2>2, SpawnSound DEF EditOrderItems
  <1>4. CASE VendorPrepares
    BY <1>4, <1>0 DEF VendorPrepares, RestOK, redis, OrderStatus
  <1>5. CASE CancelOrder
    <2>1. RestOK' /\ info' = info
      BY <1>5 DEF CancelOrder, RestOK, redis, OrderStatus
    <2> QED BY <1>5, <2>1, SpawnSound, CancelSound DEF CancelOrder
  <1>6. ASSUME NEW d \in Drivers, AdminForceAssignDriver(d) PROVE RestOK' /\ Tasked'
    <2> DEFINE new == [Free EXCEPT !.op = "assign", !.pc = "override", !.driver = d]
    <2>1. RestOK' /\ info' = info
      BY <1>6 DEF AdminForceAssignDriver, RestOK, order, redis
    <2>2. Sound(new)
      BY DEF Sound, Free, Task, Op, Pc, WithBroadcast
    <2> QED BY <1>6, <2>1, <2>2, SpawnSound DEF AdminForceAssignDriver
  <1>7. ASSUME NEW b \in Broadcasts, NEW d \in Drivers, NEW op \in {"accept", "reject"},
               VerifyPendingDispatch(b, d, op)
        PROVE  RestOK' /\ Tasked'
    <2> DEFINE new == [Free EXCEPT !.op = op, !.pc = "verified", !.id = b, !.driver = d]
    <2>1. RestOK' /\ info' = info
      BY <1>7, RestUnchanged DEF VerifyPendingDispatch
    <2>2. new \in Task /\ new.id = b /\ new.driver = d
      BY DEF Free, Task, Op, Pc
    <2>3. Sound(new)
      BY <1>7, <2>2 DEF Sound, WithBroadcast, VerifyPendingDispatch, Answerable
    <2> QED BY <1>7, <2>1, <2>3, SpawnSound DEF VerifyPendingDispatch
  <1>8. CASE PlaceCustomOrder
    <2>1. info' = info BY <1>8 DEF PlaceCustomOrder, redis
    <2>2. Tasked' /\ crashes' \in Nat
      BY <1>8, <2>1, FirstJobSound DEF PlaceCustomOrder
    <2>3. RestOK' BY <1>8, <2>2 DEF PlaceCustomOrder, RestOK, redis, OrderStatus
    <2> QED BY <2>2, <2>3
  <1> QED BY <1>1, <1>2, <1>3, <1>4, <1>5, <1>6, <1>7, <1>8 DEF Others

LEMMA DispatchType ==
  ASSUME RestOK, Tasked, NEW t \in Tasks,
         \/ HandleDispatch(t) \/ Exhausted(t) \/ NobodyToAsk(t) \/ SelectDrivers(t)
         \/ SendBroadcast(t)
  PROVE  RestOK' /\ Tasked'
  <1>0. task[t].attempt + 1 \in Nat /\ task[t].exclude \in SUBSET Drivers
    BY DEF Tasked, Sound, Task
  <1>1. CASE HandleDispatch(t)
    <2>1. RestOK' /\ info' = info
      BY <1>1 DEF HandleDispatch, RestOK, redis, OrderStatus, Dispatchable
    <2> DEFINE pc == IF task[t].attempt > MaxAttempts THEN "exhausted" ELSE "attempt"
    <2>2. pc \in Pc \ {"send", "cancelClean"} BY DEF Pc
    <2>3. End(t) \/ Goto(t, pc) BY <1>1 DEF HandleDispatch
    <2>4. pc \notin {"verified", "assign"} OBVIOUS
    <2> HIDE DEF pc
    <2> QED BY <2>1, <2>2, <2>3, <2>4, EndSound, GotoSound
  <1>2. CASE Exhausted(t)
    <2>1. RestOK' /\ info' = info
      BY <1>2 DEF Exhausted, RestOK, redis, OrderStatus
    <2> QED BY <1>2, <2>1, EndSound, BecomeSound, CancelSound DEF Exhausted
  <1>3. CASE NobodyToAsk(t)
    BY <1>3, <1>0, RestUnchanged, BecomeSound, JobSound DEF NobodyToAsk, NextAttempt
  <1>4. CASE SelectDrivers(t)
    <2>1. PICK S \in SUBSET (Drivers \ task[t].exclude), b \in Broadcasts :
             /\ info[b].asked = {}
             /\ info' = [info EXCEPT ![b] = [asked |-> S, attempt |-> task[t].attempt,
                                             exclude |-> task[t].exclude \cup S]]
             /\ Become(t, [task[t] EXCEPT !.pc = "send", !.id = b])
      BY <1>4 DEF SelectDrivers
    <2> DEFINE new == [task[t] EXCEPT !.pc = "send", !.id = b]
    <2>2. [asked |-> S, attempt |-> task[t].attempt, exclude |-> task[t].exclude \cup S]
            \in [asked : SUBSET Drivers, attempt : Nat, exclude : SUBSET Drivers]
      BY DEF Tasked, Sound, Task
    <2>3. info' \in [Broadcasts -> [asked : SUBSET Drivers, attempt : Nat,
                                    exclude : SUBSET Drivers]]
      BY <2>1, <2>2 DEF RestOK
    <2>4. RestOK'
      BY <1>4, <2>3 DEF SelectDrivers, RestOK, order
    <2>5. /\ new \in Task /\ new.pc = "send" /\ new.id = b /\ new.op = "dispatch"
      BY <1>4 DEF SelectDrivers, At, Tasked, Sound, Task, Pc
    <2>6. task' \in [Tasks -> Task]
      BY <2>1, <2>5 DEF Tasked, Become
    <2>7. ASSUME NEW u \in Tasks PROVE Sound(task[u])'
      <3>1. CASE u = t
        <4>1. task'[u] = new BY <2>1, <3>1 DEF Tasked, Become
        <4> HIDE DEF new
        <4> QED BY <4>1, <2>5 DEF Sound, WithBroadcast
      <3>2. CASE u # t
        <4>1. task'[u] = task[u] BY <2>1, <3>2 DEF Tasked, Become
        <4>2. Sound(task[u]) BY DEF Tasked
        <4>3. ASSUME task[u].pc \in {"verified", "assign"}
              PROVE  task[u].driver \in info'[task[u].id].asked
          <5>1. task[u].driver \in info[task[u].id].asked /\ task[u].id \in Broadcasts
            BY <4>2, <4>3 DEF Sound, WithBroadcast
          <5>2. task[u].id # b
            BY <5>1, <2>1
          <5> QED BY <5>1, <5>2, <2>1 DEF RestOK
        <4> QED BY <4>1, <4>2, <4>3 DEF Sound
      <3> QED BY <3>1, <3>2
    <2> QED BY <2>4, <2>6, <2>7 DEF Tasked
  <1>5. CASE SendBroadcast(t)
    <2>1. task[t].id \in Broadcasts
      BY <1>5 DEF SendBroadcast, At, Tasked, Sound, WithBroadcast
    <2>2. RestOK' /\ info' = info
      BY <1>5, <2>1 DEF SendBroadcast, RestOK, order
    <2> QED BY <1>5, <2>2, EndSound DEF SendBroadcast
  <1> QED BY <1>1, <1>2, <1>3, <1>4, <1>5

\* What a task at a step that has a broadcast may use of it.
LEMMA AtBroadcast ==
  ASSUME Tasked, NEW t \in Tasks, WithBroadcast(task[t])
  PROVE  task[t].id \in Broadcasts
  BY DEF Tasked, Sound

LEMMA ExpiryType ==
  ASSUME RestOK, Tasked, NEW t \in Tasks,
         ReadExpired(t) \/ CleanExpired(t) \/ RequeueExpired(t)
  PROVE  RestOK' /\ Tasked'
  <1>1. task[t].id \in Broadcasts
    BY AtBroadcast DEF ReadExpired, CleanExpired, RequeueExpired, At, WithBroadcast
  <1>2. CASE ReadExpired(t)
    <2>1. "expireClean" \in Pc \ {"send", "cancelClean"} /\ "expireClean" \notin {"verified", "assign"} BY DEF Pc
    <2> QED BY <1>1, <1>2, <2>1, RestUnchanged, GotoSound, EndSound DEF ReadExpired
  <1>3. CASE CleanExpired(t)
    <2>1. "requeue" \in Pc \ {"send", "cancelClean"} /\ "requeue" \notin {"verified", "assign"} BY DEF Pc
    <2>2. RestOK' /\ info' = info BY <1>1, <1>3, DelDispatchOK DEF CleanExpired
    <2> QED BY <1>1, <1>3, <2>1, <2>2, GotoSound DEF CleanExpired
  <1>4. CASE RequeueExpired(t)
    BY <1>1, <1>4, RestUnchanged, RequeueSound DEF RequeueExpired
  <1> QED BY <1>2, <1>3, <1>4

LEMMA AcceptanceType ==
  ASSUME RestOK, Tasked, NEW t \in Tasks,
         HandleAcceptance(t) \/ AssignWinner(t) \/ CleanUpAccepted(t) \/ Answer(t)
  PROVE  RestOK' /\ Tasked'
  <1>1. task[t].id \in Broadcasts
    BY AtBroadcast DEF HandleAcceptance, AssignWinner, CleanUpAccepted, Answer, At, WithBroadcast
  <1>2. /\ {"assign", "answer", "cleanup"} \subseteq Pc \ {"send", "cancelClean"}
        /\ {"answer", "cleanup"} \cap {"verified", "assign"} = {}
    BY DEF Pc
  <1>3. CASE HandleAcceptance(t)
    <2>1. task[t].driver \in info[task[t].id].asked
      BY <1>3 DEF HandleAcceptance, At, Tasked, Sound
    <2>2. End(t) \/ Goto(t, "assign") \/ Goto(t, "answer")
      BY <1>3 DEF HandleAcceptance
    <2>3. RestOK' /\ info' = info
      BY <1>3, RestUnchanged DEF HandleAcceptance
    <2> QED BY <1>1, <1>2, <2>1, <2>2, <2>3, EndSound, GotoSound
  <1>4. CASE AssignWinner(t)
    <2>1. task[t].driver \in info[task[t].id].asked
      BY <1>4 DEF AssignWinner, At, Tasked, Sound
    <2>2. task[t].driver \in Drivers
      BY <1>1, <2>1 DEF RestOK
    <2>3. RestOK' /\ info' = info
      BY <1>1, <1>4, <2>2, DispatchAssumption
      DEF AssignWinner, RestOK, order, redis, OrderStatus
    <2>4. End(t) \/ Goto(t, "cleanup")
      BY <1>4 DEF AssignWinner
    <2> QED BY <1>1, <1>2, <2>3, <2>4, EndSound, GotoSound
  <1>5. CASE CleanUpAccepted(t)
    <2>1. RestOK' /\ info' = info BY <1>1, <1>5, DelDispatchOK DEF CleanUpAccepted
    <2>2. CASE Goto(t, "answer")
      BY <1>1, <1>2, <2>1, <2>2, GotoSound
    <2>3. CASE Fork(t, "answer", CancelActive)
      BY <1>1, <1>2, <2>1, <2>3, ForkSound, CancelSound
    <2> QED BY <1>5, <2>2, <2>3 DEF CleanUpAccepted
  <1>6. CASE Answer(t)
    <2>1. RestOK' /\ info' = info BY <1>6 DEF Answer, RestOK, order, redis
    <2> QED BY <1>6, <2>1, EndSound DEF Answer
  <1> QED BY <1>3, <1>4, <1>5, <1>6

LEMMA RejectionType ==
  ASSUME RestOK, Tasked, NEW t \in Tasks,
         HandleRejection(t) \/ CountRejections(t) \/ CleanRejected(t) \/ RequeueRejected(t)
  PROVE  RestOK' /\ Tasked'
  <1>1. task[t].id \in Broadcasts
    BY AtBroadcast DEF HandleRejection, CountRejections, CleanRejected, RequeueRejected, At,
                       WithBroadcast
  <1>2. /\ {"count", "rejectClean", "requeue"} \subseteq Pc \ {"send", "cancelClean"}
        /\ {"count", "rejectClean", "requeue"} \cap {"verified", "assign"} = {}
    BY DEF Pc
  <1>3. CASE HandleRejection(t)
    <2>1. task[t].driver \in Drivers
      BY <1>1, <1>3 DEF HandleRejection, At, Tasked, Sound, RestOK
    <2>2. RestOK' /\ info' = info
      BY <1>1, <1>3, <2>1 DEF HandleRejection, RestOK, order
    <2>3. End(t) \/ Goto(t, "count") BY <1>3 DEF HandleRejection
    <2> QED BY <1>1, <1>2, <2>2, <2>3, EndSound, GotoSound
  <1>4. CASE CountRejections(t)
    <2>1. End(t) \/ Goto(t, "rejectClean") BY <1>4 DEF CountRejections
    <2> QED BY <1>1, <1>2, <1>4, <2>1, RestUnchanged, EndSound, GotoSound DEF CountRejections
  <1>5. CASE CleanRejected(t)
    <2>1. RestOK' /\ info' = info BY <1>1, <1>5, DelDispatchOK DEF CleanRejected
    <2> QED BY <1>1, <1>2, <1>5, <2>1, GotoSound DEF CleanRejected
  <1>6. CASE RequeueRejected(t)
    <2>1. RestOK' /\ info' = info
      BY <1>6 DEF RequeueRejected, RestOK, order, redis
    <2>2. Sound(DispatchJob(1, rejected[task[t].id]))
      BY <1>1, JobSound DEF RestOK
    <2>3. \/ End(t) \/ Requeue(t) \/ Become(t, DispatchJob(1, rejected[task[t].id]))
      BY <1>6 DEF RequeueRejected
    <2> QED BY <1>1, <2>1, <2>2, <2>3, EndSound, RequeueSound, BecomeSound
  <1> QED BY <1>3, <1>4, <1>5, <1>6

LEMMA CancelType ==
  ASSUME RestOK, Tasked, NEW t \in Tasks, CancelRead(t) \/ CancelClean(t)
  PROVE  RestOK' /\ Tasked'
  <1>1. CASE CancelRead(t)
    <2>1. RestOK' /\ info' = info BY <1>1, RestUnchanged DEF CancelRead
    <2>2. CASE active \in live
      <3> DEFINE new == [task[t] EXCEPT !.pc = "cancelClean", !.id = active]
      <3>1. active \in Broadcasts BY <2>2 DEF RestOK
      <3>2. Sound(new) BY <3>1 DEF Sound, Tasked, Task, Pc
      <3> QED BY <1>1, <2>1, <2>2, <3>2, BecomeSound DEF CancelRead
    <2>3. CASE active \notin live
      BY <1>1, <2>1, <2>3, EndSound DEF CancelRead
    <2> QED BY <2>2, <2>3
  <1>2. CASE CancelClean(t)
    <2>1. task[t].id \in Broadcasts BY <1>2, AtBroadcast DEF CancelClean, WithBroadcast
    <2>2. RestOK' /\ info' = info BY <1>2, <2>1, DelDispatchOK DEF CancelClean
    <2> QED BY <1>2, <2>2, EndSound DEF CancelClean
  <1> QED BY <1>1, <1>2

LEMMA OverrideType ==
  ASSUME RestOK, Tasked, NEW t \in Tasks, CommitEdit(t) \/ AssignDriver(t)
  PROVE  RestOK' /\ Tasked'
  <1>1. CASE CommitEdit(t)
    <2>1. RestOK' /\ info' = info BY <1>1 DEF CommitEdit, RestOK, redis, OrderStatus
    <2> QED BY <1>1, <2>1, EndSound DEF CommitEdit
  <1>2. CASE AssignDriver(t)
    <2>1. task[t].driver \in Drivers
      BY <1>2 DEF AssignDriver, At, Tasked, Sound
    <2>2. RestOK' /\ info' = info
      BY <1>2, <2>1, DispatchAssumption DEF AssignDriver, RestOK, redis, OrderStatus
    <2> QED BY <1>2, <2>2, BecomeSound, CancelSound DEF AssignDriver
  <1> QED BY <1>1, <1>2

LEMMA CrashType ==
  ASSUME RestOK, Tasked, NEW t \in Tasks, Crash(t)
  PROVE  RestOK' /\ Tasked'
  <1>1. Sound(task[t]) /\ task[t].attempt \in Nat /\ task[t].exclude \in SUBSET Drivers
    BY DEF Tasked, Sound, Task
  <1>2. task[t].op = "expire" => task[t].id \in Broadcasts
    BY <1>1 DEF Sound, WithBroadcast
  <1>3. info' = info BY DEF Crash, redis
  <1>4. Tasked'
    BY <1>1, <1>3, BecomeSound, JobSound, EndSound DEF Crash
  <1>5. expireJobs' \subseteq Broadcasts
    BY <1>2 DEF Crash, RestOK
  <1>6. RestOK'
    BY <1>5 DEF Crash, RestOK, order, redis
  <1> QED BY <1>4, <1>6

LEMMA BroadcastType ==
  ASSUME RestOK, Tasked, NEW b \in Broadcasts, Timeout(b) \/ StartExpiry(b) \/ KeyTtl(b)
  PROVE  RestOK' /\ Tasked'
  <1>1. CASE Timeout(b)
    BY <1>1 DEF Timeout, RestOK, Tasked, Sound, order
  <1>2. CASE KeyTtl(b)
    BY <1>2 DEF KeyTtl, RestOK, Tasked, Sound, order
  <1>3. CASE StartExpiry(b)
    <2> DEFINE new == [Free EXCEPT !.op = "expire", !.pc = "expire", !.id = b]
    <2>1. RestOK' /\ info' = info
      BY <1>3 DEF StartExpiry, RestOK, order, redis
    <2>2. Sound(new)
      BY DEF Free, Sound, Task, Op, Pc
    <2> QED BY <1>3, <2>1, <2>2, SpawnSound DEF StartExpiry
  <1> QED BY <1>1, <1>2, <1>3

LEMMA TypeInit == Init => TypeOK
  <1> SUFFICES ASSUME Init PROVE TypeOK
    OBVIOUS
  <1>1. RestOK
    BY DEF Init, RestOK, OrderStatus
  <1>2. Tasked
    BY FreeSound DEF Init, Tasked, Sound
  <1> QED BY <1>1, <1>2, TypeParts

LEMMA TypeStep == TypeOK /\ [Next]_vars => TypeOK'
  <1> SUFFICES ASSUME TypeOK, [Next]_vars PROVE TypeOK'
    OBVIOUS
  <1>1. RestOK /\ Tasked
    BY TypeParts
  <1>2. RestOK' /\ Tasked'
    <2>1. CASE Others
      BY <1>1, <2>1, OthersType
    <2>2. CASE StuckOrderMonitor
      BY <1>1, <2>2, RestUnchanged, SpawnSound, JobSound DEF StuckOrderMonitor
    <2>3. ASSUME NEW t \in Tasks, Run(t) PROVE RestOK' /\ Tasked'
      BY <1>1, <2>3, DispatchType, ExpiryType, AcceptanceType, RejectionType, CancelType,
         OverrideType DEF Run
    <2>4. ASSUME NEW t \in Tasks, Crash(t) PROVE RestOK' /\ Tasked'
      BY <1>1, <2>4, CrashType
    <2>5. ASSUME NEW b \in Broadcasts, Timeout(b) \/ StartExpiry(b) \/ KeyTtl(b)
          PROVE  RestOK' /\ Tasked'
      BY <1>1, <2>5, BroadcastType
    <2>6. CASE UNCHANGED vars
      BY <1>1, <2>6 DEF vars, order, redis, RestOK, Tasked, Sound
    <2> QED BY <2>1, <2>2, <2>3, <2>4, <2>5, <2>6 DEF Next
  <1>3. (RestOK /\ Tasked)' => TypeOK'
    BY TypeParts, PTL
  <1> QED BY <1>2, <1>3

\* TypeOK holds in every reachable state, whatever the instance: ranges, and
\* that a task answering a broadcast belongs to a driver asked in it.
THEOREM TypeCorrect == Spec => []TypeOK
  BY TypeInit, TypeStep, PTL DEF Spec

-----------------------------------------------------------------------------
(* What a step can do to the order *)

\* The order stops being searched for, without being won by an answer.
Leaves ==
    /\ accepted' = accepted
    /\ driver' \in {driver} \cup Drivers
    /\ status' \in {"DRIVER_ASSIGNED", "PREPARING", "CANCELLED", "CHANGES_REQUESTED"}

\* The order becomes, or stays, one that a driver is searched for.
Enters ==
    /\ UNCHANGED <<accepted, driver>>
    /\ \/ status \in Dispatchable \cup {"PENDING"}
       \/ status = "CHANGES_REQUESTED" /\ driver = NoDriver
    /\ status' \in Dispatchable

\* A task of an asked driver wins an order still LOOKING_FOR_DRIVER.
Wins(t) ==
    /\ status = "LOOKING_FOR_DRIVER" /\ status' = "DRIVER_ASSIGNED"
    /\ task[t].id \in Broadcasts /\ task[t].driver \in info[task[t].id].asked
    /\ driver' = task[t].driver
    /\ accepted' = accepted \cup {<<task[t].id, task[t].driver>>}

LEMMA OrderStep ==
  ASSUME TypeOK, [Next]_vars
  PROVE  \/ UNCHANGED order
         \/ info' = info /\ (Leaves \/ Enters)
         \/ info' = info /\ \E t \in Tasks : Wins(t)
  <1>1. CASE Others
    BY <1>1 DEF Others, VendorAccepts, PlaceCustomOrder, EditOrderItems, AcceptOrderChanges, VendorPrepares,
                CancelOrder, AdminForceAssignDriver, VerifyPendingDispatch, order, redis,
                Leaves, Enters, Dispatchable
  <1>2. CASE StuckOrderMonitor
    BY <1>2 DEF StuckOrderMonitor
  <1>3. ASSUME NEW t \in Tasks, Run(t)
        PROVE  \/ UNCHANGED order
               \/ info' = info /\ (Leaves \/ Enters)
               \/ info' = info /\ Wins(t)
    <2>1. CASE HandleDispatch(t)
      BY <2>1 DEF HandleDispatch, order, redis, Enters, Dispatchable
    <2>2. CASE Exhausted(t)
      BY <2>2 DEF Exhausted, order, redis, Leaves
    <2>3. CASE AssignWinner(t)
      <3>1. task[t].id \in Broadcasts /\ task[t].driver \in info[task[t].id].asked
        BY <2>3 DEF AssignWinner, At, TypeOK
      <3> QED BY <2>3, <3>1 DEF AssignWinner, StillLooking, order, redis, Wins
    <2>4. CASE NobodyToAsk(t) \/ SelectDrivers(t) \/ SendBroadcast(t)
      BY <2>4 DEF NobodyToAsk, SelectDrivers, SendBroadcast
    <2>5. CASE ReadExpired(t) \/ CleanExpired(t) \/ RequeueExpired(t)
      BY <2>5 DEF ReadExpired, CleanExpired, RequeueExpired
    <2>6. CASE HandleAcceptance(t) \/ CleanUpAccepted(t) \/ Answer(t)
      BY <2>6 DEF HandleAcceptance, CleanUpAccepted, Answer
    <2>7. CASE HandleRejection(t) \/ CountRejections(t) \/ CleanRejected(t) \/ RequeueRejected(t)
      BY <2>7 DEF HandleRejection, CountRejections, CleanRejected, RequeueRejected
    <2>8. CASE CancelRead(t) \/ CancelClean(t)
      BY <2>8 DEF CancelRead, CancelClean
    <2>9. CASE CommitEdit(t)
      BY <2>9 DEF CommitEdit, order, redis, Leaves
    <2>10. CASE AssignDriver(t)
      <3>1. task[t].driver \in Drivers BY <2>10 DEF AssignDriver, At, TypeOK
      <3> QED BY <2>10, <3>1 DEF AssignDriver, order, redis, Leaves
    <2> QED BY <1>3, <2>1, <2>2, <2>3, <2>4, <2>5, <2>6, <2>7, <2>8, <2>9, <2>10 DEF Run
  <1>4. ASSUME NEW t \in Tasks, Crash(t) PROVE UNCHANGED order
    BY <1>4 DEF Crash
  <1>5. ASSUME NEW b \in Broadcasts, Timeout(b) \/ StartExpiry(b) \/ KeyTtl(b)
        PROVE  UNCHANGED order
    BY <1>5 DEF Timeout, StartExpiry, KeyTtl
  <1>6. CASE UNCHANGED vars
    BY <1>6 DEF vars
  <1> QED BY <1>1, <1>2, <1>3, <1>4, <1>5, <1>6 DEF Next

-----------------------------------------------------------------------------
(* One winner *)

\* An order with an ACCEPTED row is not, or no longer, a new one; that it has
\* a driver then, which an agreed edit looks at, is part of SingleWinner.
Settled == accepted # {} => status # "PENDING"

IInv == TypeOK /\ SingleWinner /\ Settled

LEMMA IInvInit == Init => IInv
  BY TypeInit DEF Init, IInv, SingleWinner, Settled

LEMMA IInvStep == IInv /\ [Next]_vars => IInv'
  <1> SUFFICES ASSUME IInv, [Next]_vars PROVE IInv'
    OBVIOUS
  <1>1. TypeOK /\ TypeOK'
    BY TypeStep DEF IInv
  <1>2. SingleWinner' /\ Settled'
    <2>1. CASE UNCHANGED order
      BY <2>1 DEF order, IInv, SingleWinner, Settled
    <2>2. CASE Leaves
      BY <1>1, <2>2, DispatchAssumption DEF Leaves, IInv, SingleWinner, Settled, Dispatchable
    <2>3. CASE Enters
      <3>1. accepted = {}
        BY <2>3 DEF Enters, IInv, SingleWinner, Settled
      <3> QED BY <2>3, <3>1 DEF Enters, SingleWinner, Settled
    <2>4. ASSUME NEW t \in Tasks, Wins(t) PROVE SingleWinner' /\ Settled'
      <3>1. accepted = {}
        BY <2>4 DEF Wins, IInv, SingleWinner, Dispatchable
      <3>2. task[t].driver \in Drivers
        BY <1>1, <2>4 DEF Wins, TypeOK
      <3> QED BY <2>4, <3>1, <3>2, DispatchAssumption DEF Wins, SingleWinner, Settled, Dispatchable
    <2> QED BY <1>1, <2>1, <2>2, <2>3, <2>4, OrderStep
  <1> QED BY <1>1, <1>2 DEF IInv

LEMMA Invariance == Spec => []IInv
  BY IInvInit, IInvStep, PTL DEF Spec

\* However many broadcasts, duplicate chains, concurrent answers and losses
\* there are, one ACCEPTED row at most is written for an order, and never one
\* for an order that is being offered.
THEOREM OneWinner == Spec => []SingleWinner
  <1>1. IInv => SingleWinner BY DEF IInv
  <1> QED BY <1>1, Invariance, PTL

-----------------------------------------------------------------------------
(* Refinement *)

asked == UNION {info[b].asked : b \in Broadcasts}
winners == {x[2] : x \in accepted}

LEMMA SearchInit == Init => Search!Init
  BY DEF Init, Search!Init, Dispatchable

\* Drivers are added to those asked by a new broadcast, never removed.
LEMMA AskedGrows ==
  ASSUME TypeOK, TypeOK', [Next]_vars
  PROVE  asked' = asked \cup asked' /\ asked' \subseteq Drivers
  <1>1. asked' \subseteq Drivers
    BY DEF asked, TypeOK
  <1>2. info' = info \/ \E t \in Tasks : SelectDrivers(t)
    BY DEF Next, Others, VendorAccepts, PlaceCustomOrder, EditOrderItems, AcceptOrderChanges,
           VendorPrepares,
           CancelOrder, AdminForceAssignDriver, VerifyPendingDispatch, redis, vars,
           StuckOrderMonitor, Run, HandleDispatch, Exhausted, NobodyToAsk, SendBroadcast,
           ReadExpired, CleanExpired, RequeueExpired, HandleAcceptance, AssignWinner,
           CleanUpAccepted, Answer, HandleRejection, CountRejections, CleanRejected,
           RequeueRejected, CancelRead, CancelClean, CommitEdit, AssignDriver, DelDispatch, Crash, Timeout,
           StartExpiry, KeyTtl
  <1>3. ASSUME NEW b \in Broadcasts PROVE info[b].asked \subseteq info'[b].asked
    BY <1>2, <1>3 DEF SelectDrivers, TypeOK
  <1>4. asked \subseteq asked'
    BY <1>3 DEF asked
  <1> QED BY <1>1, <1>4

LEMMA SearchStep ==
  ASSUME IInv, IInv', [Next]_vars
  PROVE  [Search!Next]_(Search!vars)
  <1> DEFINE searching == status \in Dispatchable
  <1>1. TypeOK /\ TypeOK' BY DEF IInv
  <1>2. CASE UNCHANGED order
    <2>1. PICK S \in SUBSET Drivers : asked' = asked \cup S
      BY <1>1, AskedGrows
    <2>2. Search!Ask(S)
      BY <1>2, <2>1 DEF Search!Ask, order, asked
    <2> QED BY <2>1, <2>2 DEF Search!Next
  <1>3. CASE info' = info /\ Leaves
    <2>1. ~searching' /\ winners' = winners
      BY <1>3 DEF Leaves, Dispatchable, winners
    <2>2. CASE searching
      BY <1>3, <2>1, <2>2 DEF Search!Next, Search!Stop, winners
    <2>3. CASE ~searching
      BY <1>3, <2>1, <2>3 DEF Search!vars, winners
    <2> QED BY <2>2, <2>3
  <1>4. CASE info' = info /\ Enters
    <2>1. searching' /\ accepted' = accepted /\ accepted = {}
      BY <1>4 DEF Enters, Dispatchable, IInv, SingleWinner, Settled
    <2>2. CASE ~searching
      BY <1>4, <2>1, <2>2 DEF Search!Next, Search!Start
    <2>3. CASE searching
      BY <1>4, <2>1, <2>3 DEF Search!vars
    <2> QED BY <2>2, <2>3
  <1>5. ASSUME NEW t \in Tasks, info' = info, Wins(t)
        PROVE  [Search!Next]_(Search!vars)
    <2>1. searching /\ ~searching' /\ accepted = {}
      BY <1>5 DEF Wins, Dispatchable, IInv, SingleWinner
    <2>2. PICK d \in Drivers : d = task[t].driver /\ d \in asked
      BY <1>1, <1>5 DEF Wins, asked, TypeOK
    <2>3. winners = {} /\ winners' = {d}
      BY <1>5, <2>1, <2>2 DEF Wins, winners
    <2>4. Search!Win(d)
      BY <1>5, <2>1, <2>2, <2>3 DEF Search!Win, asked, winners
    <2> QED BY <2>2, <2>4 DEF Search!Next
  <1> QED BY <1>1, <1>2, <1>3, <1>4, <1>5, OrderStep

\* The broadcasts, jobs and keys implement the search of DriverSearch: every
\* step starts it, asks drivers, ends it with one winner who was asked, stops
\* it, or is invisible.
THEOREM DispatchImplementsSearch == Spec => ImplementsSearch
  <1>1. IInv /\ IInv' /\ [Next]_vars => [Search!Next]_(Search!vars)
    BY SearchStep
  <1> QED BY <1>1, SearchInit, Invariance, PTL DEF Spec, ImplementsSearch, Search!Spec

=============================================================================
