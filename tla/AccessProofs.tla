---------------------------- MODULE AccessProofs ----------------------------
(***************************************************************************)
(* Sessions, one-time codes, memberships and tickets, for any number of    *)
(* accounts, sessions, codes, vendors, tickets and requests in flight, and *)
(* what periodic jobs and expiries look after: opening hours, settings and *)
(* live tracking.  Each part has an inductive invariant of its own; what   *)
(* is explored together is put together after them.                        *)
(***************************************************************************)
EXTENDS MCAccess, MCUpkeep, FiniteSetTheorems, TLAPS

-----------------------------------------------------------------------------
(* Sessions.  The argument is about the requests that have decided and not  *)
(* yet written: one that was let in before the ban is late, and a session   *)
(* inherits that.                                                           *)

\* Whose sessions should be over: of RevokedSessionsEnd.
Out(a) == a \in banned \/ (user[a] = "ERASED" /\ a # linked)

\* A request that will open a session for somebody who is out was under way when
\* he was put out; or it links a banned account, and opens none.
LateIfOut(t) ==
    thread[t].op \in {"open", "link", "rotate"} /\ Out(thread[t].user) =>
        thread[t].late \/ (thread[t].op = "link" /\ thread[t].banned)

RequestsLate == \A t \in Threads : LateIfOut(t)

\* An account that is not there yet is not banned, nor linked.
NewAccountsClean ==
    \A a \in Accounts : user[a] = "NONE" => a \notin banned /\ a # linked

IInv ==
    /\ SessionsTypeOK
    /\ RequestsLate
    /\ NewAccountsClean
    /\ RevokedSessionsEnd

-----------------------------------------------------------------------------
LEMMA NobodyIsNoAccount == Nobody \notin Accounts
BY SessionsAssumption, FS_CardinalityType DEF Nobody

LEMMA InitIInv == ASSUME SessionsInit PROVE IInv
<1>1. SessionsTypeOK
  BY DEF SessionsInit, SessionsTypeOK, SessionRows, ThreadRecords
<1>2. RequestsLate
  BY DEF SessionsInit, RequestsLate, LateIfOut
<1>3. NewAccountsClean
  BY NobodyIsNoAccount DEF SessionsInit, NewAccountsClean
<1>4. RevokedSessionsEnd
  BY DEF SessionsInit, RevokedSessionsEnd, Live
<1> QED
  BY <1>1, <1>2, <1>3, <1>4 DEF IInv

\* What is in a request under way.
LEMMA RequestShape ==
    ASSUME SessionsTypeOK, NEW t \in Threads
    PROVE  /\ thread[t] \in ThreadRecords
           /\ thread[t].op = "purge" => thread[t].user \in Accounts
           /\ thread[t].op = "create" => thread[t].social \in BOOLEAN
           /\ thread[t].op \in {"open", "link", "rotate"} =>
                 thread[t].user \in Accounts /\ thread[t].late \in BOOLEAN
           /\ thread[t].op = "link" => thread[t].banned \in BOOLEAN
           /\ thread[t].op = "rotate" => thread[t].sid \in Sids
           /\ thread[t].op = "endSessions" => thread[t].user \in Accounts
BY DEF SessionsTypeOK, ThreadRecords

LEMMA SessionShape ==
    ASSUME SessionsTypeOK, NEW s \in Sids, Live(s)
    PROVE  /\ session[s].user \in Accounts
           /\ session[s].late \in BOOLEAN
           /\ session[s].old \in BOOLEAN
BY DEF SessionsTypeOK, SessionRows, Live

\* What RevokedSessionsEnd says of one.
SessionFine(s) ==
    Live(s) => ~session[s].old /\ (Out(session[s].user) => session[s].late)

LEMMA RevokedIsFine == RevokedSessionsEnd <=> \A s \in Sids : SessionFine(s)
BY DEF RevokedSessionsEnd, SessionFine, Out

\* Requests go on, or end; nobody is out who was not before.
LEMMA CalmStep ==
    ASSUME IInv,
           SessionsTypeOK',
           NewAccountsClean',
           \A a \in Accounts : Out(a)' => Out(a),
           \A t \in Threads : thread'[t] = thread[t] \/ LateIfOut(t)',
           \A s \in Sids : Live(s)' => session'[s] = session[s] \/ SessionFine(s)'
    PROVE  IInv'
<1>1. RequestsLate'
  <2> SUFFICES ASSUME NEW t \in Threads, thread'[t] = thread[t]
               PROVE  LateIfOut(t)'
    BY DEF RequestsLate
  <2>1. LateIfOut(t)
    BY DEF IInv, RequestsLate
  <2>2. thread[t].op \in {"open", "link", "rotate"} => thread[t].user \in Accounts
    BY RequestShape DEF IInv
  <2>3. thread[t].op \in {"open", "link", "rotate"} /\ Out(thread[t].user)' => Out(thread[t].user)
    BY <2>2 DEF Out
  <2> QED
    BY <2>1, <2>3 DEF LateIfOut
<1>2. RevokedSessionsEnd'
  <2> SUFFICES ASSUME NEW s \in Sids, Live(s)', session'[s] = session[s]
               PROVE  SessionFine(s)'
    BY DEF RevokedSessionsEnd, SessionFine, Out
  <2>1. Live(s)
    BY DEF Live
  <2>2. SessionFine(s)
    BY RevokedIsFine DEF IInv
  <2>3. session[s].user \in Accounts
    BY <2>1, SessionShape DEF IInv
  <2>4. Out(session[s].user)' => Out(session[s].user)
    BY <2>3 DEF Out
  <2> QED
    BY <2>1, <2>2, <2>4 DEF SessionFine
<1> QED
  BY <1>1, <1>2 DEF IInv

LEMMA OvertakenLate ==
    ASSUME SessionsTypeOK, NEW a \in Accounts, NEW t \in Threads
    PROVE  /\ Overtaken(a, t) \in ThreadRecords
           /\ Overtaken(a, t).op = thread[t].op
           /\ thread[t].op \in {"open", "link", "rotate"} =>
                 /\ Overtaken(a, t).user = thread[t].user
                 /\ thread[t].late \/ thread[t].user = a => Overtaken(a, t).late
           /\ thread[t].op = "link" => Overtaken(a, t).banned = thread[t].banned
<1>1. thread[t] \in ThreadRecords
  BY DEF SessionsTypeOK
<1>2. CASE thread[t].op \in {"open", "link", "rotate"} /\ thread[t].user = a
  <2>1. Overtaken(a, t) = [thread[t] EXCEPT !.late = TRUE]
    BY <1>2 DEF Overtaken
  <2>2. CASE thread[t].op = "open"
    <3>1. thread[t] \in [op : {"open"}, user : Accounts, late : BOOLEAN]
      BY <1>1, <2>2 DEF ThreadRecords
    <3>2. Overtaken(a, t) \in [op : {"open"}, user : Accounts, late : BOOLEAN]
      BY <2>1, <3>1
    <3> QED
      BY <1>2, <2>1, <3>1, <3>2 DEF ThreadRecords
  <2>3. CASE thread[t].op = "link"
    <3>1. thread[t] \in [op : {"link"}, user : Accounts, banned : BOOLEAN, late : BOOLEAN]
      BY <1>1, <2>3 DEF ThreadRecords
    <3>2. Overtaken(a, t) \in [op : {"link"}, user : Accounts, banned : BOOLEAN, late : BOOLEAN]
      BY <2>1, <3>1
    <3> QED
      BY <1>2, <2>1, <3>1, <3>2 DEF ThreadRecords
  <2>4. CASE thread[t].op = "rotate"
    <3>1. thread[t] \in [op : {"rotate"}, user : Accounts, sid : Sids, late : BOOLEAN]
      BY <1>1, <2>4 DEF ThreadRecords
    <3>2. Overtaken(a, t) \in [op : {"rotate"}, user : Accounts, sid : Sids, late : BOOLEAN]
      BY <2>1, <3>1
    <3> QED
      BY <1>2, <2>1, <3>1, <3>2 DEF ThreadRecords
  <2> QED
    BY <1>2, <2>2, <2>3, <2>4
<1>3. CASE ~(thread[t].op \in {"open", "link", "rotate"} /\ thread[t].user = a)
  BY <1>1, <1>3 DEF Overtaken
<1> QED
  BY <1>2, <1>3

\* The sessions of an account end, but those that may stay; its requests are late.
LEMMA RevocationStep ==
    ASSUME IInv,
           NEW a \in Accounts,
           SessionsTypeOK',
           NewAccountsClean',
           \A b \in Accounts \ {a} : Out(b)' => Out(b),
           \A t \in Threads : thread'[t] = [op |-> "idle"] \/ thread'[t] = Overtaken(a, t),
           \A s \in Sids : Live(s)' => /\ session'[s] = session[s]
                                       /\ session[s].user = a => (Out(a)' => Out(a))
    PROVE  IInv'
<1>1. RequestsLate'
  <2> SUFFICES ASSUME NEW t \in Threads, thread'[t] = Overtaken(a, t)
               PROVE  LateIfOut(t)'
    BY DEF RequestsLate, LateIfOut
  <2>1. LateIfOut(t)
    BY DEF IInv, RequestsLate
  <2> SUFFICES ASSUME thread[t].op \in {"open", "link", "rotate"},
                      Out(thread[t].user)',
                      thread'[t].user = thread[t].user
               PROVE  thread'[t].late \/ (thread'[t].op = "link" /\ thread'[t].banned)
    BY OvertakenLate DEF LateIfOut, Out, IInv
  <2>2. thread[t].user \in Accounts
    BY RequestShape DEF IInv
  <2>3. CASE thread[t].user = a
    BY <2>3, OvertakenLate DEF IInv
  <2>4. CASE thread[t].user # a
    <3>1. Out(thread[t].user)
      BY <2>2, <2>4 DEF Out
    <3> QED
      BY <2>1, <3>1, OvertakenLate DEF IInv, LateIfOut
  <2> QED
    BY <2>3, <2>4
<1>2. RevokedSessionsEnd'
  <2> SUFFICES ASSUME NEW s \in Sids, Live(s)'
               PROVE  SessionFine(s)'
    BY DEF RevokedSessionsEnd, SessionFine, Out
  <2>1. session'[s] = session[s] /\ Live(s)
    BY DEF Live
  <2>2. SessionFine(s)
    BY RevokedIsFine DEF IInv
  <2>3. session[s].user \in Accounts
    BY <2>1, SessionShape DEF IInv
  <2>4. Out(session[s].user)' => Out(session[s].user)
    BY <2>3 DEF Out
  <2> QED
    BY <2>1, <2>2, <2>4 DEF SessionFine
<1> QED
  BY <1>1, <1>2 DEF IInv

-----------------------------------------------------------------------------
(* The actions *)

\* Steps of requests that change neither accounts nor sessions.
LEMMA ThreadStep ==
    ASSUME IInv,
           NEW t \in Threads,
           NEW r \in ThreadRecords,
           thread' = [thread EXCEPT ![t] = r],
           r.op \in {"open", "link", "rotate"} /\ Out(r.user) =>
               r.late \/ (r.op = "link" /\ r.banned),
           UNCHANGED <<accountsVars, session>>
    PROVE  IInv'
<1>1. SessionsTypeOK'
  BY DEF IInv, SessionsTypeOK, accountsVars
<1>2. NewAccountsClean' /\ \A a \in Accounts : Out(a)' => Out(a)
  BY DEF IInv, NewAccountsClean, accountsVars, Out
<1>3. \A x \in Threads : thread'[x] = thread[x] \/ LateIfOut(x)'
  BY DEF IInv, SessionsTypeOK, LateIfOut, Out, accountsVars
<1> QED
  BY <1>1, <1>2, <1>3, CalmStep

LEMMA RegisterStep ==
    ASSUME IInv, NEW t \in Threads, Register(t)
    PROVE  IInv'
<1>1. CASE Turns(t, [op |-> "create", social |-> FALSE])
  <2>1. [op |-> "create", social |-> FALSE] \in ThreadRecords
    BY DEF ThreadRecords
  <2> QED
    BY <1>1, <2>1, ThreadStep DEF Register, Turns
<1>2. ASSUME NEW a \in Accounts, Turns(t, [op |-> "purge", user |-> a])
      PROVE  IInv'
  <2>1. [op |-> "purge", user |-> a] \in ThreadRecords
    BY DEF ThreadRecords
  <2> QED
    BY <1>2, <2>1, ThreadStep DEF Register, Turns
<1> QED
  BY <1>1, <1>2 DEF Register

LEMMA SimpleRequests ==
    /\ [op |-> "idle"] \in ThreadRecords
    /\ \A b \in BOOLEAN : [op |-> "create", social |-> b] \in ThreadRecords
    /\ \A a \in Accounts, b \in BOOLEAN : [op |-> "open", user |-> a, late |-> b] \in ThreadRecords
    /\ \A a \in Accounts, b, c \in BOOLEAN :
          [op |-> "link", user |-> a, banned |-> b, late |-> c] \in ThreadRecords
    /\ \A a \in Accounts, s \in Sids, b \in BOOLEAN :
          [op |-> "rotate", user |-> a, sid |-> s, late |-> b] \in ThreadRecords
    /\ \A a \in Accounts : [op |-> "endSessions", user |-> a] \in ThreadRecords
BY DEF ThreadRecords

LEMMA EndedRow == [state |-> "GONE"] \in SessionRows
BY DEF SessionRows

LEMMA PurgeStep ==
    ASSUME IInv, NEW t \in Threads, PurgeUnverified(t)
    PROVE  IInv'
<1> DEFINE a == thread[t].user
<1>1. a \in Accounts
  BY RequestShape DEF IInv, PurgeUnverified
<1>2. CASE Row(a)
  <2>1. /\ user' = [user EXCEPT ![a] = "GONE"]
        /\ session' = [s \in Sids |-> IF s \in SessionsOf(a) THEN [state |-> "GONE"] ELSE session[s]]
        /\ linked' = IF linked = a THEN Nobody ELSE linked
        /\ thread' = [thread EXCEPT ![t] = [op |-> "create", social |-> FALSE]]
        /\ UNCHANGED <<verified, banned>>
    BY <1>2 DEF PurgeUnverified, Turns
  <2>2. SessionsTypeOK'
    BY <1>1, <2>1, SimpleRequests, EndedRow DEF IInv, SessionsTypeOK
  <2>3. NewAccountsClean'
    BY <1>1, <1>2, <2>1, NobodyIsNoAccount DEF IInv, SessionsTypeOK, NewAccountsClean, Row
  <2>4. \A b \in Accounts : Out(b)' => Out(b)
    BY <1>1, <2>1 DEF IInv, SessionsTypeOK, Out
  <2>5. \A x \in Threads : thread'[x] = thread[x] \/ LateIfOut(x)'
    BY <2>1 DEF IInv, SessionsTypeOK, LateIfOut
  <2>6. \A s \in Sids : Live(s)' => session'[s] = session[s]
    BY <2>1 DEF Live
  <2> QED
    BY <2>2, <2>3, <2>4, <2>5, <2>6, CalmStep
<1>3. CASE ~Row(a)
  BY <1>3, ThreadStep, SimpleRequests DEF PurgeUnverified, Finishes, Turns, accountsVars
<1> QED
  BY <1>2, <1>3

LEMMA CreateUserStep ==
    ASSUME IInv, NEW t \in Threads, CreateUser(t)
    PROVE  IInv'
<1>1. CASE (\E a \in Accounts : Holder(a)) \/ (thread[t].social /\ linked # Nobody)
  BY <1>1, ThreadStep, SimpleRequests DEF CreateUser, Finishes, Turns, accountsVars
<1>2. CASE ~((\E a \in Accounts : Holder(a)) \/ (thread[t].social /\ linked # Nobody))
  <2>1. PICK a \in Accounts : NewAccount(a) /\ Insert(t, a)
    BY <1>2 DEF CreateUser
  <2>2. /\ user[a] = "NONE"
        /\ user' = [user EXCEPT ![a] = "LIVE"]
        /\ verified' \subseteq Accounts
        /\ linked' = IF thread[t].social THEN a ELSE linked
        /\ thread' = [thread EXCEPT ![t] = [op |-> "open", user |-> a, late |-> FALSE]]
        /\ UNCHANGED <<banned, session>>
    BY <2>1 DEF NewAccount, Insert, Turns, CreateUser, IInv, SessionsTypeOK
  <2>3. \A b \in Accounts : user[b] # "LIVE"
    BY <1>2 DEF Holder
  <2>4. SessionsTypeOK'
    BY <2>2, <2>3, SimpleRequests DEF IInv, SessionsTypeOK
  <2>5. NewAccountsClean'
    BY <2>2 DEF IInv, SessionsTypeOK, NewAccountsClean
  <2>6. \A b \in Accounts : Out(b)' => Out(b)
    BY <1>2, <2>2, NobodyIsNoAccount DEF IInv, SessionsTypeOK, Out
  <2>7. ~Out(a)'
    BY <2>2 DEF IInv, SessionsTypeOK, NewAccountsClean, Out
  <2>8. LateIfOut(t)'
    BY <2>2, <2>7 DEF IInv, SessionsTypeOK, LateIfOut, Out
  <2>9. \A x \in Threads : thread'[x] = thread[x] \/ LateIfOut(x)'
    BY <2>2, <2>8 DEF IInv, SessionsTypeOK
  <2>10. \A s \in Sids : Live(s)' => session'[s] = session[s]
    BY <2>2
  <2> QED
    BY <2>4, <2>5, <2>6, <2>9, <2>10, CalmStep
<1> QED
  BY <1>1, <1>2

LEMMA LoginStep ==
    ASSUME IInv, NEW t \in Threads, NEW a \in Accounts, Login(t, a)
    PROVE  IInv'
<1>1. ~Out(a)
  BY DEF Login, Holder, Out
<1> QED
  BY <1>1, ThreadStep, SimpleRequests DEF Login, Turns

LEMMA SocialLoginStep ==
    ASSUME IInv, NEW t \in Threads, SocialLogin(t)
    PROVE  IInv'
<1>1. CASE linked # Nobody /\ linked \notin banned /\ Turns(t, [op |-> "open", user |-> linked, late |-> FALSE])
  <2>1. linked \in Accounts /\ ~Out(linked)
    BY <1>1 DEF IInv, SessionsTypeOK, Out
  <2> QED
    BY <1>1, <2>1, ThreadStep, SimpleRequests DEF SocialLogin, Turns
<1>2. ASSUME NEW a \in Accounts, Holder(a),
             Turns(t, [op |-> "link", user |-> a, banned |-> a \in banned, late |-> FALSE])
      PROVE  IInv'
  <2>1. CASE a \in banned
    <3>1. (a \in banned) = TRUE
      BY <2>1
    <3>2. Turns(t, [op |-> "link", user |-> a, banned |-> TRUE, late |-> FALSE])
      BY <1>2, <3>1
    <3> QED
      BY <3>2, SimpleRequests, ThreadStep DEF SocialLogin, Turns
  <2>2. CASE a \notin banned
    <3>1. (a \in banned) = FALSE
      BY <2>2
    <3>2. Turns(t, [op |-> "link", user |-> a, banned |-> FALSE, late |-> FALSE])
      BY <1>2, <3>1
    <3>3. ~Out(a)
      BY <1>2, <2>2 DEF Holder, Out
    <3> QED
      BY <3>2, <3>3, SimpleRequests, ThreadStep DEF SocialLogin, Turns
  <2> QED
    BY <2>1, <2>2
<1>3. CASE Turns(t, [op |-> "create", social |-> TRUE])
  BY <1>3, ThreadStep, SimpleRequests DEF SocialLogin, Turns
<1> QED
  BY <1>1, <1>2, <1>3 DEF SocialLogin

LEMMA LinkAccountStep ==
    ASSUME IInv, NEW t \in Threads, LinkAccount(t)
    PROVE  IInv'
<1>1. /\ thread[t].user \in Accounts
      /\ thread[t].late \in BOOLEAN
      /\ thread[t].op = "link"
      /\ UNCHANGED <<user, verified, banned, session>>
  BY RequestShape DEF IInv, LinkAccount
<1> PICK a \in Accounts : a = thread[t].user
  BY <1>1
<1>2. CASE Row(a) /\ linked = Nobody
  <2>1. linked' = a
    BY <1>2 DEF LinkAccount
  <2>2. \A b \in Accounts : Out(b)' => Out(b)
    BY <1>1, <1>2, <2>1, NobodyIsNoAccount DEF Out
  <2>3. NewAccountsClean'
    BY <1>1, <1>2, <2>1 DEF IInv, NewAccountsClean, Row
  <2>4. CASE thread[t].banned /\ Finishes(t)
    <3>1. SessionsTypeOK'
      BY <1>1, <2>1, <2>4, SimpleRequests DEF IInv, SessionsTypeOK, Finishes, Turns
    <3>2. \A x \in Threads : thread'[x] = thread[x] \/ LateIfOut(x)'
      BY <2>4 DEF IInv, SessionsTypeOK, Finishes, Turns, LateIfOut
    <3> QED
      BY <1>1, <2>2, <2>3, <3>1, <3>2, CalmStep
  <2>5. CASE ~thread[t].banned /\ Turns(t, [op |-> "open", user |-> a, late |-> thread[t].late])
    <3>1. SessionsTypeOK'
      BY <1>1, <2>1, <2>5, SimpleRequests DEF IInv, SessionsTypeOK, Turns
    <3>2. Out(a) => thread[t].late
      BY <1>1, <2>5 DEF IInv, RequestsLate, LateIfOut
    <3>3. Out(a)' => thread[t].late
      BY <1>1, <2>2, <3>2
    <3>4. LateIfOut(t)'
      BY <1>1, <2>5, <3>3 DEF IInv, SessionsTypeOK, Turns, LateIfOut, Out
    <3>5. \A x \in Threads : thread'[x] = thread[x] \/ LateIfOut(x)'
      BY <2>5, <3>4 DEF IInv, SessionsTypeOK, Turns
    <3> QED
      BY <1>1, <2>2, <2>3, <3>1, <3>5, CalmStep
  <2> QED
    BY <1>1, <1>2, <2>4, <2>5 DEF LinkAccount
<1>3. CASE ~(Row(a) /\ linked = Nobody)
  BY <1>3, ThreadStep, SimpleRequests DEF LinkAccount, Finishes, Turns, accountsVars
<1> QED
  BY <1>2, <1>3

LEMMA CreateSessionStep ==
    ASSUME IInv, NEW t \in Threads, CreateSession(t)
    PROVE  IInv'
<1>1. thread[t].user \in Accounts /\ thread[t].late \in BOOLEAN /\ thread[t].op = "open"
  BY RequestShape DEF IInv, CreateSession
<1> PICK a \in Accounts, late \in BOOLEAN : a = thread[t].user /\ late = thread[t].late
  BY <1>1
<1> DEFINE r == [state |-> "LIVE", user |-> a, late |-> late, old |-> FALSE]
<1>2. r \in SessionRows
  BY <1>1 DEF SessionRows
<1>3. Out(a) => late
  BY <1>1 DEF IInv, RequestsLate, LateIfOut
<1>4. thread' = [thread EXCEPT ![t] = [op |-> "idle"]] /\ UNCHANGED accountsVars
  BY DEF CreateSession, Finishes, Turns
<1>5. /\ NewAccountsClean'
      /\ \A b \in Accounts : Out(b)' => Out(b)
      /\ \A x \in Threads : thread'[x] = thread[x] \/ LateIfOut(x)'
  BY <1>4 DEF IInv, SessionsTypeOK, NewAccountsClean, Out, LateIfOut, accountsVars
<1>6. CASE Row(a)
  <2>1. PICK n \in Sids : session' = [session EXCEPT ![n] = r]
    BY <1>6 DEF CreateSession
  <2>2. SessionsTypeOK'
    BY <1>2, <1>4, <2>1, SimpleRequests DEF IInv, SessionsTypeOK, accountsVars
  <2>3. session'[n] = r
    BY <2>1 DEF IInv, SessionsTypeOK
  <2>4. Out(a)' => late
    BY <1>3, <1>5
  <2>5. SessionFine(n)'
    BY <2>3, <2>4 DEF SessionFine, Out
  <2>6. \A s \in Sids : Live(s)' => session'[s] = session[s] \/ SessionFine(s)'
    BY <2>1, <2>5 DEF IInv, SessionsTypeOK
  <2> QED
    BY <1>5, <2>2, <2>6, CalmStep
<1>7. CASE ~Row(a)
  <2>1. UNCHANGED session
    BY <1>7 DEF CreateSession
  <2>2. SessionsTypeOK'
    BY <1>4, <2>1, SimpleRequests DEF IInv, SessionsTypeOK, accountsVars
  <2> QED
    BY <1>5, <2>1, <2>2, CalmStep
<1> QED
  BY <1>6, <1>7

LEMMA RefreshTokensStep ==
    ASSUME IInv, NEW t \in Threads, NEW s \in Sids, RefreshTokens(t, s)
    PROVE  IInv'
<1> DEFINE r == [op |-> "rotate", user |-> session[s].user, sid |-> s, late |-> session[s].late]
<1>1. r \in ThreadRecords
  BY SessionShape, SimpleRequests DEF IInv, RefreshTokens
<1>2. SessionFine(s)
  BY RevokedIsFine DEF IInv
<1>3. Out(session[s].user) => session[s].late
  BY <1>2 DEF SessionFine, RefreshTokens
<1> QED
  BY <1>1, <1>3, ThreadStep DEF RefreshTokens, Turns

LEMMA RotateStep ==
    ASSUME IInv, NEW t \in Threads, Rotate(t)
    PROVE  IInv'
<1> DEFINE a == thread[t].user
<1>1. /\ a \in Accounts /\ thread[t].late \in BOOLEAN /\ thread[t].op = "rotate"
      /\ thread[t].sid \in Sids
  BY RequestShape DEF IInv, Rotate
<1>2. /\ session' = [session EXCEPT ![thread[t].sid] = [state |-> "GONE"]]
      /\ thread' = [thread EXCEPT ![t] = [op |-> "open", user |-> a, late |-> thread[t].late]]
      /\ UNCHANGED accountsVars
  BY DEF Rotate, Turns
<1>3. SessionsTypeOK'
  BY <1>1, <1>2, SimpleRequests, EndedRow DEF IInv, SessionsTypeOK, accountsVars
<1>4. NewAccountsClean' /\ \A b \in Accounts : Out(b)' => Out(b)
  BY <1>2 DEF IInv, NewAccountsClean, Out, accountsVars
<1>5. Out(a) => thread[t].late
  BY <1>1 DEF IInv, RequestsLate, LateIfOut
<1>6. LateIfOut(t)'
  BY <1>1, <1>2, <1>5 DEF IInv, SessionsTypeOK, LateIfOut, Out, accountsVars
<1>7. \A x \in Threads : thread'[x] = thread[x] \/ LateIfOut(x)'
  BY <1>2, <1>6 DEF IInv, SessionsTypeOK
<1>8. \A s \in Sids : Live(s)' => session'[s] = session[s]
  BY <1>2 DEF IInv, SessionsTypeOK, Live
<1> QED
  BY <1>3, <1>4, <1>7, <1>8, CalmStep

\* Sessions are deleted and nothing else happens.
LEMMA DeletionStep ==
    ASSUME IInv,
           session' \in [Sids -> SessionRows],
           \A s \in Sids : session'[s] = session[s] \/ session'[s] = [state |-> "GONE"],
           UNCHANGED <<accountsVars, thread>>
    PROVE  IInv'
<1>1. SessionsTypeOK'
  BY DEF IInv, SessionsTypeOK, accountsVars
<1>2. NewAccountsClean' /\ \A a \in Accounts : Out(a)' => Out(a)
  BY DEF IInv, NewAccountsClean, accountsVars, Out
<1>3. \A s \in Sids : Live(s)' => session'[s] = session[s]
  BY DEF Live
<1> QED
  BY <1>1, <1>2, <1>3, CalmStep

LEMMA LogoutStep ==
    ASSUME IInv, NEW s \in Sids, Logout(s)
    PROVE  IInv'
BY DeletionStep, EndedRow DEF Logout, IInv, SessionsTypeOK

LEMMA CleanUpStep ==
    ASSUME IInv, NEW S \in SUBSET Sids, CleanUpSessions(S)
    PROVE  IInv'
BY DeletionStep, EndedRow DEF CleanUpSessions, IInv, SessionsTypeOK

\* Nothing but the accounts changes, and nobody is out who was not before.
LEMMA AccountStep ==
    ASSUME IInv,
           verified' \subseteq Accounts,
           banned' \subseteq banned,
           UNCHANGED <<user, linked, session, thread>>
    PROVE  IInv'
<1>1. SessionsTypeOK'
  BY DEF IInv, SessionsTypeOK
<1>2. NewAccountsClean' /\ \A a \in Accounts : Out(a)' => Out(a)
  BY DEF IInv, NewAccountsClean, Out
<1> QED
  BY <1>1, <1>2, CalmStep

LEMMA RevokedRows ==
    ASSUME SessionsTypeOK, NEW a \in Accounts
    PROVE  /\ Survivors(a, SessionsOf(a)) \in [Sids -> SessionRows]
           /\ \A s \in Sids :
                 Survivors(a, SessionsOf(a))[s] =
                     IF s \in SessionsOf(a) THEN [state |-> "GONE"] ELSE session[s]
BY EndedRow DEF Survivors, SessionsTypeOK

\* A revocation with what the account becomes by it.
LEMMA RevokeStep ==
    ASSUME IInv,
           NEW a \in Accounts,
           Row(a),
           session' = Survivors(a, SessionsOf(a)),
           thread' \in [Threads -> ThreadRecords],
           \A t \in Threads : thread'[t] = [op |-> "idle"] \/ thread'[t] = Overtaken(a, t),
           \/ UNCHANGED user
           \/ user' = [user EXCEPT ![a] = "ERASED"],
           banned' \in {banned, banned \cup {a}},
           UNCHANGED <<verified, linked>>
    PROVE  IInv'
<1>1. SessionsTypeOK'
  BY RevokedRows DEF IInv, SessionsTypeOK
<1>2. NewAccountsClean'
  BY DEF IInv, SessionsTypeOK, NewAccountsClean, Row
<1>3. \A b \in Accounts \ {a} : Out(b)' => Out(b)
  BY DEF IInv, SessionsTypeOK, Out
<1>4. \A s \in Sids : Live(s)' => session'[s] = session[s] /\ session[s].user # a
  BY RevokedRows DEF IInv, SessionsOf, Live
<1> QED
  BY <1>1, <1>2, <1>3, <1>4, RevocationStep

LEMMA RevokeThreads ==
    ASSUME SessionsTypeOK, NEW a \in Accounts, thread' = [t \in Threads |-> Overtaken(a, t)]
    PROVE  /\ thread' \in [Threads -> ThreadRecords]
           /\ \A t \in Threads : thread'[t] = Overtaken(a, t)
BY OvertakenLate

LEMMA RevokeAllStep ==
    ASSUME IInv, NEW a \in Accounts, RevokeAll(a)
    PROVE  IInv'
BY RevokeThreads, RevokeStep DEF RevokeAll, Revoke, IInv, accountsVars

LEMMA AdminBanStep ==
    ASSUME IInv, NEW a \in Accounts, AdminBan(a)
    PROVE  IInv'
BY RevokeThreads, RevokeStep DEF AdminBan, Revoke, IInv

LEMMA DeleteAccountStep ==
    ASSUME IInv, NEW a \in Accounts, DeleteAccount(a)
    PROVE  IInv'
BY RevokeThreads, RevokeStep DEF DeleteAccount, Revoke, IInv

LEMMA AdminUnbanStep ==
    ASSUME IInv, NEW a \in Accounts, AdminUnban(a)
    PROVE  IInv'
BY AccountStep DEF AdminUnban, IInv, SessionsTypeOK

LEMMA AdminUpdateStep ==
    ASSUME IInv, NEW a \in Accounts, AdminUpdate(a)
    PROVE  IInv'
BY AccountStep DEF AdminUpdate, IInv, SessionsTypeOK

LEMMA VerifyContactStep ==
    ASSUME IInv, NEW a \in Accounts, VerifyContact(a)
    PROVE  IInv'
BY AccountStep DEF VerifyContact, IInv, SessionsTypeOK

\* The session the password was changed in stays.
LEMMA ChangePasswordStep ==
    ASSUME IInv, NEW s \in Sids, ChangePassword(s)
    PROVE  IInv'
<1>1. session[s].user \in Accounts
  BY SessionShape DEF IInv, ChangePassword
<1> PICK a \in Accounts : a = session[s].user
  BY <1>1
<1>2. /\ session' = [x \in Sids |->
              IF x \in SessionsOf(a) \ {s} THEN [state |-> "GONE"] ELSE session[x]]
      /\ thread' = [t \in Threads |-> Overtaken(a, t)]
      /\ UNCHANGED accountsVars
  BY DEF ChangePassword
<1>3. SessionsTypeOK'
  BY <1>2, RevokeThreads, EndedRow DEF IInv, SessionsTypeOK, accountsVars
<1>4. NewAccountsClean' /\ \A b \in Accounts : Out(b)' => Out(b)
  BY <1>2 DEF IInv, NewAccountsClean, accountsVars, Out
<1>5. \A x \in Sids : Live(x)' => session'[x] = session[x]
  BY <1>2 DEF Live
<1> QED
  BY <1>2, <1>3, <1>4, <1>5, RevocationStep

LEMMA ResetPasswordStep ==
    ASSUME IInv, NEW t \in Threads, NEW a \in Accounts, ResetPassword(t, a)
    PROVE  IInv'
BY ThreadStep, SimpleRequests DEF ResetPassword, Turns

LEMMA EndSessionsStep ==
    ASSUME IInv, NEW t \in Threads, EndSessions(t)
    PROVE  IInv'
<1>1. thread[t].user \in Accounts
  BY RequestShape DEF IInv, EndSessions
<1> PICK a \in Accounts : a = thread[t].user
  BY <1>1
<1>2. /\ session' = Survivors(a, SessionsOf(a))
      /\ thread' = [[x \in Threads |-> Overtaken(a, x)] EXCEPT ![t] = [op |-> "idle"]]
      /\ UNCHANGED accountsVars
  BY DEF EndSessions
<1>3. thread' \in [Threads -> ThreadRecords]
  BY <1>2, OvertakenLate, SimpleRequests DEF IInv
<1>4. \A x \in Threads : thread'[x] = [op |-> "idle"] \/ thread'[x] = Overtaken(a, x)
  BY <1>2
<1>5. SessionsTypeOK'
  BY <1>2, <1>3, RevokedRows DEF IInv, SessionsTypeOK, accountsVars
<1>6. NewAccountsClean' /\ \A b \in Accounts : Out(b)' => Out(b)
  BY <1>2 DEF IInv, NewAccountsClean, accountsVars, Out
<1>7. \A s \in Sids : Live(s)' => session'[s] = session[s]
  BY <1>2, RevokedRows DEF IInv, Live
<1> QED
  BY <1>4, <1>5, <1>6, <1>7, RevocationStep

-----------------------------------------------------------------------------
LEMMA StepIInv == ASSUME IInv, [SessionsNext]_sessionsVars PROVE IInv'
<1>1. CASE AccountNext
  BY <1>1, RegisterStep, PurgeStep, CreateUserStep, AdminBanStep, AdminUnbanStep,
     DeleteAccountStep, AdminUpdateStep, RevokeAllStep, VerifyContactStep DEF AccountNext
<1>2. CASE SessionNext
  BY <1>2, SocialLoginStep, LinkAccountStep, CreateSessionStep, RotateStep, EndSessionsStep,
     LoginStep, ResetPasswordStep, RefreshTokensStep, LogoutStep, ChangePasswordStep,
     CleanUpStep DEF SessionNext
<1>3. CASE UNCHANGED sessionsVars
  BY <1>3, AccountStep DEF sessionsVars, IInv, SessionsTypeOK
<1> QED
  BY <1>1, <1>2, <1>3 DEF SessionsNext

\* One account at most has the address, and every request and session is about one
\* that was there.
THEOREM TypeCorrect == SessionsSpec => []SessionsTypeOK
<1>1. IInv => SessionsTypeOK
  BY DEF IInv
<1> QED
  BY <1>1, InitIInv, StepIInv, PTL DEF SessionsSpec

\* A revocation ends the sessions there are, and what a banned or deleted account
\* has afterwards was under way already, for any number of requests and sessions
\* (revokeAllSessions, ban, deleteAccount, resetPassword, changePassword).
THEOREM RevocationHolds == SessionsSpec => []RevokedSessionsEnd
<1>1. IInv => RevokedSessionsEnd
  BY DEF IInv
<1> QED
  BY <1>1, InitIInv, StepIInv, PTL DEF SessionsSpec

-----------------------------------------------------------------------------
(* One-time codes.  A request clears the count of attempts once: the        *)
(* guesses, those under way and those that the count and the clearings to   *)
(* come still allow never cost more than the requests have.                 *)

\* Requests whose next command is one of S.
At(S) == {t \in Askers : asker[t].op \in S}
Comparing == At({"compare"})
Renewing == At({"reset", "clear"})
Accepting == At({"accept"})

AskerCount == Cardinality(Askers)

\* Comparisons that the count still allows: none, if all requests are about to clear
\* it and none is left to guess.
Allowed ==
    IF Cardinality(Renewing) = AskerCount \/ attempts >= MaxOtpAttempts THEN 0
    ELSE MaxOtpAttempts - attempts

\* All comparisons that there can still be with the present code, and those there were.
Budget == guesses + Cardinality(Comparing) + MaxOtpAttempts * Cardinality(Renewing) + Allowed

CodesInv ==
    /\ CodesTypeOK
    /\ GuessesBounded
    /\ code # 0 => Budget <= AskerCount * MaxOtpAttempts + 1
    /\ AcceptedWhileThere
    /\ \A c \in Codes : c > codes => accepted[c] = 0
    /\ code # 0 => accepted[code] <= Cardinality(Accepting)

\* The requests at some point are finitely many.
LEMMA Sizes ==
    ASSUME NEW S PROVE IsFiniteSet(At(S)) /\ Cardinality(At(S)) \in 0..AskerCount /\ AskerCount \in Nat
<1>1. At(S) \subseteq Askers
  BY DEF At
<1> QED
  BY <1>1, CodesAssumption, FS_Subset, FS_CardinalityType DEF AskerCount

\* Two kinds of requests together are no more than all.
LEMMA Together == Cardinality(Comparing) + Cardinality(Renewing) <= AskerCount
<1>1. Comparing \cap Renewing = {} /\ Comparing \cup Renewing \subseteq Askers
  BY DEF At, Comparing, Renewing
<1>2. IsFiniteSet(Comparing) /\ IsFiniteSet(Renewing)
  BY Sizes DEF Comparing, Renewing
<1>3. Cardinality(Comparing \cup Renewing) = Cardinality(Comparing) + Cardinality(Renewing)
  <2>1. Cardinality(Comparing \cup Renewing) =
          Cardinality(Comparing) + Cardinality(Renewing) - Cardinality(Comparing \cap Renewing)
    BY <1>2, FS_Union
  <2>2. Cardinality(Comparing) \in Int /\ Cardinality(Renewing) \in Int
    BY <1>2, FS_CardinalityType
  <2>3. Cardinality(Comparing \cap Renewing) = 0
    BY <1>1, FS_EmptySet
  <2> QED
    BY <2>1, <2>2, <2>3
<1>4. Cardinality(Comparing \cup Renewing) <= Cardinality(Askers)
  BY <1>1, CodesAssumption, FS_Subset
<1> QED
  BY <1>3, <1>4 DEF AskerCount

\* What the step of one request does to the sizes of these sets.
LEMMA OneMoves ==
    ASSUME CodesTypeOK, NEW t \in Askers, NEW r, asker' = [asker EXCEPT ![t] = r], NEW S
    PROVE  Cardinality(At(S))' =
             Cardinality(At(S)) + (IF r.op \in S THEN 1 ELSE 0) - (IF asker[t].op \in S THEN 1 ELSE 0)
<1>1. At(S)' = IF r.op \in S THEN At(S) \cup {t} ELSE At(S) \ {t}
  BY DEF At, CodesTypeOK
<1>2. t \in At(S) <=> asker[t].op \in S
  BY DEF At
<1>3. IsFiniteSet(At(S)) /\ Cardinality(At(S)) \in Nat
  BY Sizes
<1>4. Cardinality(At(S) \cup {t}) = IF t \in At(S) THEN Cardinality(At(S)) ELSE Cardinality(At(S)) + 1
  BY <1>3, FS_AddElement
<1>5. Cardinality(At(S) \ {t}) = IF t \in At(S) THEN Cardinality(At(S)) - 1 ELSE Cardinality(At(S))
  BY <1>3, FS_RemoveElement
<1> QED
  BY <1>1, <1>2, <1>3, <1>4, <1>5

\* A request goes from one command to another.
MoveOf(was, now) ==
    /\ Cardinality(Comparing)' =
         Cardinality(Comparing) + (IF now = "compare" THEN 1 ELSE 0)
                                - (IF was = "compare" THEN 1 ELSE 0)
    /\ Cardinality(Renewing)' =
         Cardinality(Renewing) + (IF now \in {"reset", "clear"} THEN 1 ELSE 0)
                               - (IF was \in {"reset", "clear"} THEN 1 ELSE 0)
    /\ Cardinality(Accepting)' =
         Cardinality(Accepting) + (IF now = "accept" THEN 1 ELSE 0)
                                - (IF was = "accept" THEN 1 ELSE 0)

\* The same for the three that matter.
LEMMA CountsMove ==
    ASSUME CodesTypeOK, NEW t \in Askers, NEW r, Asks(t, r),
           NEW was, NEW now, asker[t].op = was, r.op = now
    PROVE  MoveOf(was, now)
<1>1. asker' = [asker EXCEPT ![t] = r]
  BY DEF Asks
<1>2. \A S : Cardinality(At(S))' =
               Cardinality(At(S)) + (IF now \in S THEN 1 ELSE 0) - (IF was \in S THEN 1 ELSE 0)
  BY <1>1, OneMoves
<1>3. Cardinality(At({"compare"}))' =
        Cardinality(At({"compare"})) + (IF now \in {"compare"} THEN 1 ELSE 0)
                                     - (IF was \in {"compare"} THEN 1 ELSE 0)
  BY <1>2
<1>4. Cardinality(At({"accept"}))' =
        Cardinality(At({"accept"})) + (IF now \in {"accept"} THEN 1 ELSE 0)
                                     - (IF was \in {"accept"} THEN 1 ELSE 0)
  BY <1>2
<1>5. Cardinality(At({"reset", "clear"}))' =
        Cardinality(At({"reset", "clear"})) + (IF now \in {"reset", "clear"} THEN 1 ELSE 0)
                                     - (IF was \in {"reset", "clear"} THEN 1 ELSE 0)
  BY <1>2
<1> QED
  BY <1>3, <1>4, <1>5 DEF MoveOf, Comparing, Renewing, Accepting

\* The sizes are numbers, and so is what they add up to.
LEMMA Numbers ==
    ASSUME CodesTypeOK
    PROVE  /\ AskerCount \in Nat /\ MaxOtpAttempts \in Nat /\ MaxOtpAttempts > 0
           /\ Cardinality(Comparing) \in 0..AskerCount
           /\ Cardinality(Renewing) \in 0..AskerCount
           /\ Cardinality(Accepting) \in 0..AskerCount
           /\ guesses \in Nat /\ attempts \in Nat /\ codes \in Nat /\ code \in Nat
           /\ Allowed \in 0..MaxOtpAttempts
<1>1. codes \in Nat /\ code \in Nat
  BY CodesAssumption, FS_CardinalityType DEF CodesTypeOK
<1>2. Allowed \in 0..MaxOtpAttempts
  BY CodesAssumption DEF Allowed, CodesTypeOK
<1> QED
  BY <1>1, <1>2, Sizes, CodesAssumption DEF CodesTypeOK, Comparing, Renewing, Accepting

\* Products by a number more or less.
LEMMA Products ==
    ASSUME NEW m \in Nat, NEW n \in Nat
    PROVE  m * n \in Nat /\ m * (n + 1) = m * n + m /\ m * (n - 1) = m * n - m /\ n * m = m * n
OBVIOUS

\* As long as some request may guess, those under way and those to come cost less
\* than all requests renewing the count.
LEMMA BudgetSuffices ==
    ASSUME NEW k \in Nat, NEW r \in Nat, NEW n \in Nat, NEW m \in Nat \ {0}, k + r <= n, r # n
    PROVE  k + m * r + m <= n * m + 1
<1>1. PICK a \in Nat : n = r + a + 1
  <2> WITNESS n - r - 1 \in Nat
  <2> QED
    OBVIOUS
<1>2. PICK b \in Nat : m = b + 1
  <2> WITNESS m - 1 \in Nat
  <2> QED
    OBVIOUS
<1>3. n * m = m * r + m * a + m
  <2>1. n * m = m * (r + a + 1)
    BY <1>1
  <2> QED
    BY <2>1
<1>4. m * a = b * a + a /\ b * a \in Nat
  <2>1. m * a = (b + 1) * a
    BY <1>2
  <2>2. b * a \in Nat
    OBVIOUS
  <2> QED
    BY <2>1, <2>2
<1>5. m * r \in Nat /\ m * a \in Nat
  OBVIOUS
<1> QED
  BY <1>1, <1>3, <1>4, <1>5

\* The same after a step: the facts above hold in every state.
LEMMA TogetherAfter == Cardinality(Comparing)' + Cardinality(Renewing)' <= AskerCount
<1>1. (Cardinality(Comparing) + Cardinality(Renewing) <= AskerCount)'
  BY Together, PTL
<1> QED
  BY <1>1 DEF AskerCount

\* What the count allows after a step.
LEMMA AllowedAfter ==
    ASSUME CodesTypeOK'
    PROVE  /\ Allowed' \in 0..MaxOtpAttempts
           /\ Cardinality(Renewing)' = AskerCount => Allowed' = 0
<1>1. PICK a \in Nat : a = attempts'
  BY DEF CodesTypeOK
<1>2. Allowed' = IF Cardinality(Renewing)' = AskerCount \/ a >= MaxOtpAttempts THEN 0
                 ELSE MaxOtpAttempts - a
  BY <1>1 DEF Allowed, AskerCount
<1>3. MaxOtpAttempts \in Nat
  BY CodesAssumption
<1> QED
  BY <1>2, <1>3

\* The sizes after a step are numbers.
LEMMA NumbersAfter ==
    ASSUME CodesTypeOK'
    PROVE  /\ Cardinality(Comparing)' \in 0..AskerCount
           /\ Cardinality(Renewing)' \in 0..AskerCount
           /\ Cardinality(Accepting)' \in 0..AskerCount
           /\ Allowed' \in 0..MaxOtpAttempts
           /\ Budget' \in Int
<1>1. \A S : (Cardinality(At(S)) \in 0..AskerCount)' /\ AskerCount \in Nat
  <2>1. \A S : At(S)' \subseteq Askers
    BY DEF At
  <2>2. ASSUME NEW S PROVE Cardinality(At(S)') \in 0..AskerCount /\ AskerCount \in Nat
    BY <2>1, CodesAssumption, FS_Subset, FS_CardinalityType DEF AskerCount
  <2> QED
    BY <2>2 DEF AskerCount
<1>2. Allowed' \in 0..MaxOtpAttempts
  BY AllowedAfter
<1>3. /\ Cardinality(Comparing)' \in 0..AskerCount
      /\ Cardinality(Renewing)' \in 0..AskerCount
      /\ Cardinality(Accepting)' \in 0..AskerCount
  BY <1>1 DEF Comparing, Renewing, Accepting, AskerCount
<1>4. Budget' \in Int
  <2>1. MaxOtpAttempts * Cardinality(Renewing)' \in Nat
    BY <1>1, <1>3, CodesAssumption, Products
  <2> QED
    BY <1>1, <1>2, <1>3, <2>1, CodesAssumption DEF Budget, CodesTypeOK
<1> QED
  BY <1>2, <1>3, <1>4

\* Nothing has been asked.
LEMMA CodesStart == ASSUME CodesInit PROVE CodesInv
<1>1. CodesTypeOK
  BY DEF CodesInit, CodesTypeOK, AskerRecords
<1>2. AskerCount \in Nat /\ AskerCount * MaxOtpAttempts \in Nat
  BY <1>1, Numbers, Products
<1> QED
  BY <1>1, <1>2 DEF CodesInit, CodesInv, GuessesBounded, AcceptedWhileThere, AskerCount

\* The code is gone, or was not there: nothing is compared or accepted.
LEMMA GoneStep ==
    ASSUME CodesInv, CodesTypeOK', code' = 0, UNCHANGED <<codes, guesses, accepted>>
    PROVE  CodesInv'
BY DEF CodesInv, GuessesBounded, AcceptedWhileThere, AskerCount

\* The code and what is accepted of it stay.
LEMMA KeptStep ==
    ASSUME CodesInv, CodesTypeOK', UNCHANGED <<code, codes, guesses, accepted>>,
           code # 0 => Budget' <= Budget,
           Cardinality(Accepting)' = Cardinality(Accepting)
    PROVE  CodesInv'
<1>1. Budget \in Int /\ AskerCount * MaxOtpAttempts \in Nat
  BY Numbers, Products DEF CodesInv, Budget
<1>2. Budget' \in Int
  BY NumbersAfter
<1> QED
  BY <1>1, <1>2 DEF CodesInv, GuessesBounded, AcceptedWhileThere, AskerCount

\* A comparison uses up one that was under way; what it takes for right is then
\* about to be removed.
LEMMA ComparedStep ==
    ASSUME CodesInv, CodesTypeOK', UNCHANGED <<code, attempts, codes>>,
           guesses' = IF code = 0 THEN guesses ELSE guesses + 1,
           Cardinality(Comparing)' = Cardinality(Comparing) - 1,
           Cardinality(Renewing)' = Cardinality(Renewing),
           \/ UNCHANGED accepted /\ Cardinality(Accepting)' = Cardinality(Accepting)
           \/ /\ code \in Codes /\ accepted' = [accepted EXCEPT ![code] = @ + 1]
              /\ Cardinality(Accepting)' = Cardinality(Accepting) + 1
    PROVE  CodesInv'
<1>0. CodesTypeOK /\ Allowed' = Allowed /\ code \in Nat /\ codes \in Nat
  BY Numbers DEF CodesInv, Allowed, AskerCount
<1>1. MaxOtpAttempts * Cardinality(Renewing) \in Nat /\ AskerCount * MaxOtpAttempts \in Nat
  BY <1>0, Numbers, Products
<1>2. code # 0 => Budget' = Budget
  <2>1. Budget' = guesses' + (Cardinality(Comparing) - 1)
                  + MaxOtpAttempts * Cardinality(Renewing) + Allowed
    BY <1>0 DEF Budget
  <2> QED
    BY <1>0, <1>1, <2>1, Numbers DEF Budget
<1>3. GuessesBounded'
  <2>1. CASE code = 0
    BY <2>1 DEF CodesInv, GuessesBounded
  <2>2. CASE code # 0
    <3>1. guesses + 1 <= Budget
      BY <1>0, <1>1, NumbersAfter, Numbers DEF Budget
    <3>2. Budget \in Int
      BY <1>0, <1>1, Numbers DEF Budget
    <3> QED
      BY <1>0, <1>1, <2>2, <3>1, <3>2, Numbers DEF CodesInv, GuessesBounded, AskerCount
  <2> QED
    BY <2>1, <2>2
<1>4. /\ AcceptedWhileThere'
      /\ (\A c \in Codes : c > codes => accepted[c] = 0)'
      /\ (code # 0 => accepted[code] <= Cardinality(Accepting))'
  <2>1. CASE UNCHANGED accepted /\ Cardinality(Accepting)' = Cardinality(Accepting)
    BY <2>1 DEF CodesInv, AcceptedWhileThere
  <2>2. CASE /\ code \in Codes /\ accepted' = [accepted EXCEPT ![code] = @ + 1]
             /\ Cardinality(Accepting)' = Cardinality(Accepting) + 1
    <3>1. /\ accepted[code] \in Nat /\ accepted[code] <= Cardinality(Accepting)
          /\ code = codes /\ \A c \in Codes : accepted'[c] = IF c = code THEN accepted[code] + 1 ELSE accepted[c]
      <4>1. code # 0 /\ code = codes
        <5>1. Cardinality(Codes) \in Nat /\ code \in 1..Cardinality(Codes)
          BY <2>2, CodesAssumption, FS_CardinalityType
        <5>2. code # 0
          BY <5>1
        <5> QED
          BY <1>0, <5>2 DEF CodesTypeOK
      <4>2. accepted \in [Codes -> Nat]
        BY <1>0 DEF CodesTypeOK
      <4>3. accepted[code] <= Cardinality(Accepting)
        BY <4>1 DEF CodesInv
      <4> QED
        BY <2>2, <4>1, <4>2, <4>3
    <3>2. Cardinality(Accepting) + 1 <= AskerCount /\ Cardinality(Accepting) \in Nat
      BY <1>0, <2>2, NumbersAfter, Numbers
    <3> QED
      BY <1>0, <2>2, <3>1, <3>2, Numbers DEF CodesInv, AcceptedWhileThere, AskerCount
  <2> QED
    BY <2>1, <2>2
<1> QED
  BY <1>0, <1>1, <1>2, <1>3, <1>4 DEF CodesInv, AskerCount

\* Every command keeps the invariant.
LEMMA CodesStep == ASSUME CodesInv, [CodesNext]_codesVars PROVE CodesInv'
<1> USE CodesAssumption
<1>0. CodesTypeOK /\ Cardinality(Codes) \in Nat
  BY FS_CardinalityType DEF CodesInv
<1>1. ASSUME NEW t \in Askers, RequestCode(t) PROVE CodesInv'
  <2>1. CodesTypeOK'
    BY <1>0, <1>1 DEF CodesTypeOK, AskerRecords, RequestCode, Asks
  <2>2. /\ Cardinality(Comparing)' = Cardinality(Comparing)
        /\ Cardinality(Renewing)' = Cardinality(Renewing)
        /\ Cardinality(Accepting)' = Cardinality(Accepting)
    <3>1. Asks(t, [op |-> "forget"]) /\ asker[t].op = "idle"
      BY <1>1 DEF RequestCode
    <3>2. MoveOf("idle", "forget")
      BY <1>0, <3>1, CountsMove
    <3> QED
      BY <1>0, <3>2, Numbers DEF MoveOf
  <2>3. Budget' = Budget
    BY <1>1, <2>2 DEF RequestCode, Budget, Allowed, AskerCount
  <2>4. Budget \in Int
    BY <1>0, Numbers, Products DEF Budget
  <2> QED
    BY <1>1, <2>1, <2>2, <2>3, <2>4, KeptStep DEF RequestCode
<1>2. ASSUME NEW t \in Askers, DeleteOtp(t) PROVE CodesInv'
  <2>1. CodesTypeOK'
    BY <1>0, <1>2 DEF CodesTypeOK, AskerRecords, DeleteOtp, Asks
  <2> QED
    BY <1>2, <2>1, GoneStep DEF DeleteOtp
<1>3. ASSUME NEW t \in Askers, SetOtp(t) PROVE CodesInv'
  <2>1. CodesTypeOK'
    BY <1>0, <1>3 DEF CodesTypeOK, AskerRecords, SetOtp, Asks
  <2>2. /\ Cardinality(Comparing)' = Cardinality(Comparing)
        /\ Cardinality(Renewing)' = Cardinality(Renewing) + 1
        /\ Cardinality(Accepting)' = Cardinality(Accepting)
    <3>1. Asks(t, [op |-> "reset"]) /\ asker[t].op = "set"
      BY <1>3 DEF SetOtp
    <3>2. MoveOf("set", "reset")
      BY <1>0, <3>1, CountsMove
    <3> QED
      BY <1>0, <3>2, Numbers DEF MoveOf
  <2>3. Cardinality(Comparing)' + Cardinality(Renewing)' <= AskerCount
    BY <1>3, TogetherAfter
  <2>4. Budget' <= AskerCount * MaxOtpAttempts + 1
    <3> DEFINE k == Cardinality(Comparing)'
               r == Cardinality(Renewing)'
    <3>1. k \in Nat /\ r \in Nat /\ AskerCount \in Nat /\ MaxOtpAttempts \in Nat \ {0}
      BY <1>0, <2>2, Numbers
    <3>2. Allowed' \in 0..MaxOtpAttempts /\ (r = AskerCount => Allowed' = 0)
      BY <2>1, AllowedAfter
    <3>3. Budget' = k + MaxOtpAttempts * r + Allowed'
      <4>1. Budget' = 0 + k + MaxOtpAttempts * r + Allowed'
        BY <1>3 DEF SetOtp, Budget
      <4>2. MaxOtpAttempts * r \in Nat
        BY <3>1, Products
      <4> HIDE DEF k, r
      <4> QED
        BY <4>1, <4>2, <3>1
    <3> HIDE DEF k, r
    <3>4. MaxOtpAttempts * r \in Nat /\ AskerCount * MaxOtpAttempts \in Nat
      BY <3>1, Products
    <3>5. CASE r = AskerCount
      <4>1. k = 0
        BY <2>3, <3>1, <3>5 DEF k, r
      <4> QED
        BY <4>1, <3>1, <3>2, <3>3, <3>4, <3>5, Products
    <3>6. CASE r # AskerCount
      <4>1. k + MaxOtpAttempts * r + MaxOtpAttempts <= AskerCount * MaxOtpAttempts + 1
        BY <2>3, <3>1, <3>6, BudgetSuffices DEF k, r
      <4>2. PICK w \in 0..MaxOtpAttempts : w = Allowed'
        BY <3>2
      <4>3. k + MaxOtpAttempts * r + w <= AskerCount * MaxOtpAttempts + 1
        BY <4>1, <3>1, <3>4
      <4> QED
        BY <4>2, <4>3, <3>3
    <3> QED
      BY <3>5, <3>6
  <2>5. code' = codes + 1 /\ codes' = codes + 1 /\ accepted' = accepted /\ guesses' = 0 /\ code' \in Codes
    BY <1>3 DEF SetOtp
  <2>6. accepted[codes + 1] = 0 /\ \A c \in Codes : c > codes' => accepted[c] = 0
    BY <1>0, <2>5 DEF CodesInv, CodesTypeOK
  <2>7. Cardinality(Accepting)' \in Nat
    BY <1>0, <2>2, Numbers
  <2>8. 0 <= AskerCount * MaxOtpAttempts + 1
    BY <1>0, Numbers, Products
  <2> QED
    BY <2>1, <2>4, <2>5, <2>6, <2>7, <2>8
       DEF CodesInv, GuessesBounded, AcceptedWhileThere, AskerCount
<1>4. ASSUME NEW t \in Askers, ResetAttempts(t) \/ ClearAttempts(t) PROVE CodesInv'
  <2>1. CodesTypeOK'
    BY <1>0, <1>4 DEF CodesTypeOK, AskerRecords, ResetAttempts, ClearAttempts, Answered, Asks
  <2>2. /\ Cardinality(Comparing)' = Cardinality(Comparing)
        /\ Cardinality(Renewing)' = Cardinality(Renewing) - 1
        /\ Cardinality(Accepting)' = Cardinality(Accepting)
    <3>1. Asks(t, [op |-> "idle"]) /\ asker[t].op \in {"reset", "clear"}
      BY <1>4 DEF ResetAttempts, ClearAttempts, Answered
    <3>2. MoveOf("reset", "idle") \/ MoveOf("clear", "idle")
      BY <1>0, <3>1, CountsMove
    <3> QED
      BY <1>0, <3>2, Numbers DEF MoveOf
  <2>3. Budget' <= Budget
    <3>1. MaxOtpAttempts * (Cardinality(Renewing) - 1) =
            MaxOtpAttempts * Cardinality(Renewing) - MaxOtpAttempts
          /\ MaxOtpAttempts * Cardinality(Renewing) \in Nat
      BY <1>0, Numbers, Products
    <3>2. Allowed' \in 0..MaxOtpAttempts
      BY <2>1, AllowedAfter
    <3>3. Budget' = guesses + Cardinality(Comparing)
                    + MaxOtpAttempts * (Cardinality(Renewing) - 1) + Allowed'
      BY <1>4, <2>2 DEF ResetAttempts, ClearAttempts, Budget
    <3> QED
      <4>1. PICK w \in 0..MaxOtpAttempts : w = Allowed'
        BY <3>2
      <4>2. Budget' = guesses + Cardinality(Comparing)
                      + (MaxOtpAttempts * Cardinality(Renewing) - MaxOtpAttempts) + w
        BY <3>1, <3>3, <4>1
      <4>3. Budget = guesses + Cardinality(Comparing)
                     + MaxOtpAttempts * Cardinality(Renewing) + Allowed
        BY DEF Budget
      <4>4. guesses + Cardinality(Comparing)
              + (MaxOtpAttempts * Cardinality(Renewing) - MaxOtpAttempts) + w
            <= guesses + Cardinality(Comparing) + MaxOtpAttempts * Cardinality(Renewing) + Allowed
        <5>1. PICK p \in Nat : p = MaxOtpAttempts * Cardinality(Renewing)
          BY <3>1
        <5>2. /\ guesses \in Nat /\ Cardinality(Comparing) \in Nat
              /\ Allowed \in Nat /\ MaxOtpAttempts \in Nat
          BY <1>0, Numbers
        <5>3. guesses + Cardinality(Comparing) + (p - MaxOtpAttempts) + w
              <= guesses + Cardinality(Comparing) + p + Allowed
          BY <4>1, <5>2
        <5> QED
          BY <5>1, <5>3
      <4> QED
        BY <4>2, <4>3, <4>4
  <2> QED
    BY <1>4, <2>1, <2>2, <2>3, KeptStep DEF ResetAttempts, ClearAttempts
<1>5. ASSUME NEW t \in Askers, NEW c \in 1..codes, NEW peek \in BOOLEAN, ValidateOtp(t, c, peek)
      PROVE  CodesInv'
  <2>1. CodesTypeOK'
    BY <1>0, <1>5 DEF CodesTypeOK, AskerRecords, ValidateOtp, Asks
  <2>2. CASE attempts' > MaxOtpAttempts
    <3>1. UNCHANGED asker /\ attempts \in Nat /\ attempts' = attempts + 1
      BY <1>0, <1>5, <2>2 DEF ValidateOtp, CodesTypeOK
    <3>2. Allowed = 0 /\ Allowed' = 0
      BY <2>2, <3>1, Numbers, <1>0 DEF Allowed
    <3>3. Budget' = Budget /\ Accepting' = Accepting /\ Budget \in Int
      <4>1. UNCHANGED <<Comparing, Renewing, Accepting>>
        BY <3>1 DEF Comparing, Renewing, Accepting, At
      <4> QED
        BY <1>0, <1>5, <3>2, <4>1, Numbers, Products DEF ValidateOtp, Budget
    <3> QED
      BY <1>5, <2>1, <3>3, KeptStep DEF ValidateOtp
  <2>3. CASE ~(attempts' > MaxOtpAttempts)
    <3>1. Asks(t, [op |-> "compare", code |-> c, peek |-> peek]) /\ attempts' = attempts + 1
      BY <1>5, <2>3 DEF ValidateOtp
    <3>2. /\ Cardinality(Comparing)' = Cardinality(Comparing) + 1
          /\ Cardinality(Renewing)' = Cardinality(Renewing)
          /\ Cardinality(Accepting)' = Cardinality(Accepting)
      <4>1. asker[t].op = "idle"
        BY <1>5 DEF ValidateOtp
      <4>2. MoveOf("idle", "compare")
        BY <1>0, <3>1, <4>1, CountsMove
      <4> QED
        BY <1>0, <4>2, Numbers DEF MoveOf
    <3>3. Cardinality(Renewing) # AskerCount
      BY <1>0, <3>2, TogetherAfter, Numbers
    <3>4. Allowed' = Allowed - 1
      <4>1. PICK a : a = attempts'
        OBVIOUS
      <4>2. a = attempts + 1 /\ a <= MaxOtpAttempts /\ attempts \in Nat /\ MaxOtpAttempts \in Nat
        BY <1>0, <2>3, <3>1, <4>1, Numbers
      <4>3. Allowed' = IF a >= MaxOtpAttempts THEN 0 ELSE MaxOtpAttempts - a
        BY <3>2, <3>3, <4>1 DEF Allowed, AskerCount
      <4>4. Allowed = MaxOtpAttempts - attempts
        BY <3>3, <4>2 DEF Allowed
      <4> QED
        BY <4>2, <4>3, <4>4
    <3>5. Budget' = Budget /\ Budget \in Int
      <4>1. MaxOtpAttempts * Cardinality(Renewing) \in Nat
        BY <1>0, Numbers, Products
      <4>2. Budget' = guesses + (Cardinality(Comparing) + 1)
                      + MaxOtpAttempts * Cardinality(Renewing) + (Allowed - 1)
        BY <1>5, <3>2, <3>4 DEF ValidateOtp, Budget
      <4> QED
        <5>1. Budget = guesses + Cardinality(Comparing)
                       + MaxOtpAttempts * Cardinality(Renewing) + Allowed
          BY DEF Budget
        <5>2. PICK p \in Nat : p = MaxOtpAttempts * Cardinality(Renewing)
          BY <4>1
        <5>3. guesses \in Nat /\ Cardinality(Comparing) \in Nat /\ Allowed \in Nat
          BY <1>0, Numbers
        <5>4. /\ guesses + (Cardinality(Comparing) + 1) + p + (Allowed - 1)
                 = guesses + Cardinality(Comparing) + p + Allowed
              /\ guesses + Cardinality(Comparing) + p + Allowed \in Int
          BY <5>3
        <5> QED
          BY <4>2, <5>1, <5>2, <5>4
    <3> QED
      BY <1>5, <2>1, <3>2, <3>5, KeptStep DEF ValidateOtp
  <2> QED
    BY <2>2, <2>3
<1>6. ASSUME NEW t \in Askers, CompareOtp(t) PROVE CodesInv'
  <2>0. asker[t].op = "compare" /\ UNCHANGED <<code, attempts, codes>> /\ code \in Nat
    BY <1>0, <1>6, Numbers DEF CompareOtp
  <2>1. CASE code # asker[t].code \/ asker[t].peek
    <3>1. Answered(t) /\ UNCHANGED accepted
      BY <1>6, <2>1 DEF CompareOtp
    <3>2. CodesTypeOK'
      BY <1>0, <1>6, <3>1 DEF CodesTypeOK, AskerRecords, CompareOtp, Answered, Asks
    <3>3. /\ Cardinality(Comparing)' = Cardinality(Comparing) - 1
          /\ Cardinality(Renewing)' = Cardinality(Renewing)
          /\ Cardinality(Accepting)' = Cardinality(Accepting)
      <4>1. MoveOf("compare", "idle")
        BY <1>0, <2>0, <3>1, CountsMove DEF Answered
      <4> QED
        BY <1>0, <4>1, Numbers DEF MoveOf
    <3> QED
      BY <1>6, <3>1, <3>2, <3>3, ComparedStep DEF CompareOtp
  <2>2. CASE ~(code # asker[t].code \/ asker[t].peek)
    <3>1. /\ accepted' = [accepted EXCEPT ![code] = @ + 1]
          /\ Asks(t, [op |-> "accept"]) /\ code = asker[t].code
      BY <1>6, <2>2 DEF CompareOtp
    <3>2. code \in Codes /\ code # 0
      BY <1>0, <2>0, <3>1 DEF CodesTypeOK, AskerRecords
    <3>3. CodesTypeOK'
      BY <1>0, <1>6, <3>1, <3>2 DEF CodesTypeOK, AskerRecords, CompareOtp, Asks
    <3>4. /\ Cardinality(Comparing)' = Cardinality(Comparing) - 1
          /\ Cardinality(Renewing)' = Cardinality(Renewing)
          /\ Cardinality(Accepting)' = Cardinality(Accepting) + 1
      <4>1. MoveOf("compare", "accept")
        BY <1>0, <2>0, <3>1, CountsMove
      <4> QED
        BY <1>0, <4>1, Numbers DEF MoveOf
    <3> QED
      BY <1>6, <3>1, <3>2, <3>3, <3>4, ComparedStep DEF CompareOtp
  <2> QED
    BY <2>1, <2>2
<1>7. ASSUME NEW t \in Askers, AcceptOtp(t) PROVE CodesInv'
  <2>1. CodesTypeOK'
    BY <1>0, <1>7 DEF CodesTypeOK, AskerRecords, AcceptOtp, Asks
  <2> QED
    BY <1>7, <2>1, GoneStep DEF AcceptOtp
<1>8. CASE ExpireOtp \/ ExpireAttempts
  <2>1. CodesTypeOK'
    BY <1>0, <1>8 DEF CodesTypeOK, ExpireOtp, ExpireAttempts
  <2> QED
    BY <1>8, <2>1, GoneStep DEF ExpireOtp, ExpireAttempts
<1>9. CASE UNCHANGED codesVars
  BY <1>9 DEF CodesInv, CodesTypeOK, GuessesBounded, AcceptedWhileThere, AskerCount, codesVars,
              Budget, Allowed, Comparing, Renewing, Accepting, At
<1> QED
  BY <1>1, <1>2, <1>3, <1>4, <1>5, <1>6, <1>7, <1>8, <1>9 DEF CodesNext

\* A code is compared, and taken for right, a bounded number of times, for any number
\* of requests and any maximum, although the count is kept apart from the code and
\* cleared by others (generateOtp, validateOtp, peekOtp).
THEOREM CodesHoldOut == CodesSpec => [](CodesTypeOK /\ GuessesBounded /\ AcceptedWhileThere)
<1>1. CodesInit => CodesInv
  BY CodesStart
<1>2. CodesInv /\ [CodesNext]_codesVars => CodesInv'
  BY CodesStep
<1>3. CodesInv => CodesTypeOK /\ GuessesBounded /\ AcceptedWhileThere
  BY DEF CodesInv
<1> QED
  BY <1>1, <1>2, <1>3, PTL DEF CodesSpec

-----------------------------------------------------------------------------
(* Memberships.  The rows of the vendors that somebody is about to leave    *)
(* are locked, so that the owner who was counted is still one.              *)

\* Who is about to take an owner from a vendor he holds leaves another one there,
\* or makes him one again.
Leaves(t, v) ==
    \/ \E u \in Owners(v) : u # removal[t].user
    \/ removal[t].op = "update" /\ removal[t].vendor = v /\ removal[t].role = "OWNER"

LocksHold ==
    \A t \in Removals : removal[t].op # "idle" =>
        \A v \in removal[t].locked \ slipped : Leaves(t, v)

OwnershipInv ==
    /\ OwnershipTypeOK
    /\ LocksHold
    /\ VendorKeepsOwner

LEMMA RemovalShape ==
    ASSUME OwnershipTypeOK, NEW t \in Removals, removal[t].op # "idle"
    PROVE  /\ removal[t] \in RemovalRecords
           /\ removal[t].op \in {"erase", "update"}
           /\ removal[t].user \in Members
           /\ removal[t].owned \subseteq Vendors
           /\ removal[t].locked \subseteq Vendors
           /\ removal[t].op = "update" => removal[t].role \in VendorMemberRole
BY DEF OwnershipTypeOK, RemovalRecords

LEMMA AnotherOwner ==
    ASSUME OwnershipTypeOK, NEW t \in Removals, NEW v \in Vendors,
           removal[t].op # "idle", LetGo(t, v)
    PROVE  Leaves(t, v)
<1>1. CASE Cardinality(Owners(v)) > 1
  <2>1. SUFFICES ASSUME Owners(v) \subseteq {removal[t].user} PROVE FALSE
    BY DEF Leaves
  <2>2. IsFiniteSet({removal[t].user}) /\ Cardinality({removal[t].user}) = 1
    BY FS_Singleton
  <2>3. Cardinality(Owners(v)) <= Cardinality({removal[t].user})
    BY <2>1, <2>2, FS_Subset
  <2>4. Cardinality(Owners(v)) \in Nat
    BY <2>1, <2>2, FS_Subset, FS_CardinalityType
  <2> QED
    BY <1>1, <2>2, <2>3, <2>4
<1> QED
  BY <1>1 DEF LetGo, Leaves

LEMMA OwnershipStart == ASSUME OwnershipInit PROVE OwnershipInv
<1>1. PICK o \in [Vendors -> Members] :
        \A v \in Vendors : role[v] = [u \in Members |-> IF u = o[v] THEN "OWNER" ELSE "NONE"]
  <2>1. \A v \in Vendors : \E x \in Members : role[v] = [u \in Members |-> IF u = x THEN "OWNER" ELSE "NONE"]
    BY DEF OwnershipInit
  <2> DEFINE o == [v \in Vendors |-> CHOOSE x \in Members : role[v] = [u \in Members |-> IF u = x THEN "OWNER" ELSE "NONE"]]
  <2>2. \A v \in Vendors : o[v] \in Members /\ role[v] = [u \in Members |-> IF u = o[v] THEN "OWNER" ELSE "NONE"]
    BY <2>1
  <2>3. o \in [Vendors -> Members]
    BY <2>2
  <2> HIDE DEF o
  <2> QED
    BY <2>2, <2>3
<1>2. role \in [Vendors -> [Members -> VendorMemberRole \cup {"NONE"}]]
  BY <1>1 DEF OwnershipInit, VendorMemberRole
<1>3. OwnershipTypeOK
  BY <1>2 DEF OwnershipInit, OwnershipTypeOK, RemovalRecords
<1>4. LocksHold
  BY DEF OwnershipInit, LocksHold
<1>5. VendorKeepsOwner
  BY <1>1 DEF VendorKeepsOwner, Owners
<1> QED
  BY <1>3, <1>4, <1>5 DEF OwnershipInv

-----------------------------------------------------------------------------
(* Members of a vendor *)

\* A change at one vendor that nobody holds, or that takes no owner from it.
LEMMA MembersStep ==
    ASSUME OwnershipInv, NEW w \in Vendors, NEW m \in Members,
           NEW r \in VendorMemberRole \cup {"NONE"},
           role' = [role EXCEPT ![w][m] = r],
           UNCHANGED <<erased, removal, slipped>>,
           role[w][m] = "OWNER" /\ r # "OWNER" =>
               /\ Unlocked(w)
               /\ \E u \in Members : role'[w][u] = "OWNER"
    PROVE  OwnershipInv'
<1> USE DEF OwnershipInv
<1>1. OwnershipTypeOK'
  BY DEF OwnershipTypeOK
<1>2. \A v \in Vendors, u \in Members :
        role'[v][u] = IF v = w /\ u = m THEN r ELSE role[v][u]
  BY DEF OwnershipTypeOK
<1>3. LocksHold'
  <2> SUFFICES ASSUME NEW t \in Removals, removal[t].op # "idle", NEW v \in removal[t].locked \ slipped
               PROVE  Leaves(t, v)'
    BY DEF LocksHold
  <2>1. v \in Vendors /\ Leaves(t, v)
    BY RemovalShape DEF LocksHold
  <2>2. CASE v = w /\ role[w][m] = "OWNER" /\ r # "OWNER"
    BY <2>2 DEF Unlocked
  <2>3. CASE ~(v = w /\ role[w][m] = "OWNER" /\ r # "OWNER")
    <3>1. Owners(v) \subseteq Owners(v)'
      BY <1>2, <2>1, <2>3 DEF Owners
    <3> QED
      BY <2>1, <3>1 DEF Leaves
  <2> QED
    BY <2>2, <2>3
<1>4. VendorKeepsOwner'
  <2> SUFFICES ASSUME NEW v \in Vendors \ slipped PROVE Owners(v)' # {}
    BY DEF VendorKeepsOwner
  <2>1. PICK u \in Owners(v) : TRUE
    BY DEF VendorKeepsOwner
  <2> QED
    BY <1>2, <2>1 DEF Owners
<1> QED
  BY <1>1, <1>3, <1>4

LEMMA UpdateRoleStep ==
    ASSUME OwnershipInv, NEW u \in Members, NEW v \in Vendors, NEW r \in VendorMemberRole,
           UpdateRole(u, v, r)
    PROVE  OwnershipInv'
BY MembersStep DEF UpdateRole, OwnerRequired

LEMMA RemoveMemberStep ==
    ASSUME OwnershipInv, NEW u \in Members, NEW v \in Vendors, RemoveMember(u, v)
    PROVE  OwnershipInv'
BY MembersStep DEF RemoveMember, OwnerRequired

LEMMA AddMemberStep ==
    ASSUME OwnershipInv, NEW u \in Members, NEW v \in Vendors, NEW r \in VendorMemberRole,
           AddMember(u, v, r)
    PROVE  OwnershipInv'
BY MembersStep DEF AddMember

-----------------------------------------------------------------------------
(* Transactions on a user's memberships *)

\* A transaction that begins, goes on or ends, while no row changes.
LEMMA RemovalStep ==
    ASSUME OwnershipInv, NEW t \in Removals, NEW x \in RemovalRecords,
           removal' = [removal EXCEPT ![t] = x], UNCHANGED role,
           slipped \subseteq slipped', slipped' \subseteq Vendors, erased' \subseteq Members,
           x.op # "idle" =>
               \A v \in x.locked :
                   /\ \A s \in Removals \ {t} : removal[s].op # "idle" => v \notin removal[s].locked
                   /\ v \notin slipped => Leaves(t, v)'
    PROVE  OwnershipInv'
<1> USE DEF OwnershipInv
<1>1. removal' \in [Removals -> RemovalRecords]
  BY DEF OwnershipTypeOK
<1>2. \A s \in Removals : removal'[s] = IF s = t THEN x ELSE removal[s]
  BY DEF OwnershipTypeOK
<1>3. OwnershipTypeOK'
  BY <1>1, <1>2 DEF OwnershipTypeOK
<1>4. LocksHold'
  <2> SUFFICES ASSUME NEW s \in Removals, removal'[s].op # "idle",
                      NEW v \in removal'[s].locked \ slipped'
               PROVE  Leaves(s, v)'
    BY DEF LocksHold
  <2>1. CASE s = t
    BY <1>2, <2>1
  <2>2. CASE s # t
    <3>1. Leaves(s, v)
      BY <1>2, <2>2 DEF LocksHold
    <3> QED
      BY <1>2, <2>2, <3>1 DEF Leaves, Owners
  <2> QED
    BY <2>1, <2>2
<1>5. VendorKeepsOwner'
  BY DEF VendorKeepsOwner, Owners
<1> QED
  BY <1>3, <1>4, <1>5

LEMMA BeginStep ==
    ASSUME OwnershipInv, NEW t \in Removals, NEW u \in Members,
           \/ AdminRemove(t, u)
           \/ \E v \in Vendors \cup {"none"}, r \in VendorMemberRole : AdminUpdateUser(t, u, v, r)
    PROVE  OwnershipInv'
<1>1. OwnedBy(u) \in SUBSET Vendors /\ erased \subseteq Members /\ slipped \subseteq Vendors
  BY DEF OwnershipInv, OwnershipTypeOK, OwnedBy
<1>2. CASE AdminRemove(t, u)
  <2> DEFINE x == [op |-> "erase", user |-> u, owned |-> OwnedBy(u), locked |-> {}]
  <2>1. x \in RemovalRecords /\ x.locked = {}
    BY <1>1 DEF RemovalRecords
  <2>2. removal' = [removal EXCEPT ![t] = x] /\ UNCHANGED <<role, slipped>>
        /\ slipped' \subseteq Vendors /\ erased' \subseteq Members
    BY <1>1, <1>2 DEF AdminRemove
  <2> HIDE DEF x
  <2> QED
    BY <2>1, <2>2, RemovalStep
<1>3. ASSUME NEW v \in Vendors \cup {"none"}, NEW r \in VendorMemberRole, AdminUpdateUser(t, u, v, r)
      PROVE  OwnershipInv'
  <2> DEFINE x == [op |-> "update", user |-> u, owned |-> OwnedBy(u), locked |-> {},
                   vendor |-> v, role |-> r]
  <2>1. x \in RemovalRecords /\ x.locked = {}
    BY <1>1, <1>3 DEF RemovalRecords
  <2>2. removal' = [removal EXCEPT ![t] = x] /\ UNCHANGED <<role, slipped>>
        /\ slipped' \subseteq Vendors /\ erased' \subseteq Members
    BY <1>1, <1>3 DEF AdminUpdateUser
  <2> HIDE DEF x
  <2> QED
    BY <2>1, <2>2, RemovalStep
<1> QED
  BY <1>2, <1>3

LEMMA EndStep ==
    ASSUME OwnershipInv, NEW t \in Removals, RemovalEnds(t),
           UNCHANGED role, slipped \subseteq slipped', slipped' \subseteq Vendors,
           erased' \subseteq Members
    PROVE  OwnershipInv'
<1>1. [op |-> "idle"] \in RemovalRecords /\ [op |-> "idle"].op = "idle"
  BY DEF RemovalRecords
<1> QED
  BY <1>1, RemovalStep DEF RemovalEnds

LEMMA CountOwnersStep ==
    ASSUME OwnershipInv, NEW t \in Removals, NEW v \in Vendors, CountOwners(t, v)
    PROVE  OwnershipInv'
<1>1. CASE ~LetGo(t, v)
  BY <1>1, EndStep DEF CountOwners, OwnershipInv, OwnershipTypeOK
<1>2. CASE LetGo(t, v)
  <2> DEFINE x == [removal[t] EXCEPT !.owned = @ \ {v}, !.locked = @ \cup {v}]
  <2>1. removal[t].op # "idle" /\ UNCHANGED <<role, slipped>>
        /\ slipped' \subseteq Vendors /\ erased' \subseteq Members
    BY DEF CountOwners, OwnershipInv, OwnershipTypeOK
  <2>2. removal' = [removal EXCEPT ![t] = x]
    BY <1>2 DEF CountOwners, OwnershipInv, OwnershipTypeOK
  <2>3. x \in RemovalRecords /\ x.locked = removal[t].locked \cup {v}
        /\ x.user = removal[t].user /\ x.op = removal[t].op
        /\ (x.op = "update" => x.vendor = removal[t].vendor /\ x.role = removal[t].role)
    <3>1. removal[t] \in RemovalRecords
      BY <2>1, RemovalShape DEF OwnershipInv
    <3>2. CASE removal[t].op = "erase"
      <4>1. removal[t] \in [op : {"erase"}, user : Members, owned : SUBSET Vendors,
                            locked : SUBSET Vendors]
        BY <3>1, <3>2 DEF RemovalRecords
      <4> QED
        BY <3>2, <4>1 DEF RemovalRecords
    <3>3. CASE removal[t].op = "update"
      <4>1. removal[t] \in [op : {"update"}, user : Members, owned : SUBSET Vendors,
                            locked : SUBSET Vendors, vendor : Vendors \cup {"none"},
                            role : VendorMemberRole]
        BY <3>1, <3>3 DEF RemovalRecords
      <4> QED
        BY <3>3, <4>1 DEF RemovalRecords
    <3> QED
      BY <2>1, <3>2, <3>3, RemovalShape DEF OwnershipInv
  <2>4. removal'[t] = x
    BY <2>2 DEF OwnershipInv, OwnershipTypeOK
  <2> HIDE DEF x
  <2>5. ASSUME NEW w \in x.locked
        PROVE  /\ \A s \in Removals \ {t} : removal[s].op # "idle" => w \notin removal[s].locked
               /\ w \notin slipped => Leaves(t, w)'
    <3>1. w = v \/ w \in removal[t].locked
      BY <2>3, <2>5
    <3>2. \A s \in Removals \ {t} : removal[s].op # "idle" => w \notin removal[s].locked
      <4>1. CASE w = v
        BY <4>1 DEF CountOwners, Unlocked
      <4>2. CASE w \in removal[t].locked
        BY <2>1, <4>2 DEF OwnershipInv, OwnershipTypeOK
      <4> QED
        BY <3>1, <4>1, <4>2
    <3>3. w \notin slipped => Leaves(t, w)
      BY <1>2, <2>1, <3>1, AnotherOwner DEF OwnershipInv, LocksHold
    <3>4. Leaves(t, w) => Leaves(t, w)'
      BY <2>1, <2>3, <2>4 DEF Leaves, Owners
    <3> QED
      BY <3>2, <3>3, <3>4
  <2> QED
    BY <2>1, <2>2, <2>3, <2>5, RemovalStep
<1> QED
  BY <1>1, <1>2

LEMMA EraseAccountStep ==
    ASSUME OwnershipInv, NEW t \in Removals, EraseAccount(t)
    PROVE  OwnershipInv'
<1>1. erased' \subseteq Members /\ slipped \subseteq slipped' /\ slipped' \subseteq Vendors
  BY RemovalShape DEF EraseAccount, OwnershipInv, OwnershipTypeOK, OwnedBy
<1> QED
  BY <1>1, EndStep DEF EraseAccount

\* At a vendor that is not held, it takes an owner only where it is said to.
LEMMA ReplaceMembershipsStep ==
    ASSUME OwnershipInv, NEW t \in Removals, ReplaceMemberships(t)
    PROVE  OwnershipInv'
<1> DEFINE m == removal[t].user
           w == removal[t].vendor
           r == removal[t].role
<1>1. removal[t].op = "update" /\ m \in Members /\ r \in VendorMemberRole
      /\ removal[t].locked \subseteq Vendors
  BY RemovalShape DEF ReplaceMemberships, OwnershipInv
<1>2. role' = [v \in Vendors |-> [role[v] EXCEPT ![m] = IF v = w THEN r ELSE "NONE"]]
      /\ slipped' = slipped \cup {v \in OwnedBy(m) \ removal[t].locked : role'[v][m] # "OWNER"}
      /\ RemovalEnds(t) /\ UNCHANGED erased
  BY DEF ReplaceMemberships
<1> HIDE DEF m, w, r
<1>3. \A v \in Vendors, u \in Members :
        role'[v][u] = IF u = m THEN (IF v = w THEN r ELSE "NONE") ELSE role[v][u]
  BY <1>1, <1>2 DEF OwnershipInv, OwnershipTypeOK
<1>4. role' \in [Vendors -> [Members -> VendorMemberRole \cup {"NONE"}]]
  BY <1>1, <1>2 DEF OwnershipInv, OwnershipTypeOK
<1>5. \A s \in Removals : removal'[s] = IF s = t THEN [op |-> "idle"] ELSE removal[s]
  BY <1>2 DEF RemovalEnds, OwnershipInv, OwnershipTypeOK
<1>6. removal' \in [Removals -> RemovalRecords]
  BY <1>2 DEF RemovalEnds, OwnershipInv, OwnershipTypeOK, RemovalRecords
<1>7. OwnershipTypeOK'
  <2>1. slipped' \subseteq Vendors
    BY <1>2 DEF OwnershipInv, OwnershipTypeOK, OwnedBy
  <2> QED
    BY <1>2, <1>4, <1>5, <1>6, <2>1 DEF OwnershipInv, OwnershipTypeOK
<1>8. ASSUME NEW v \in Vendors \ slipped', v \notin removal[t].locked
      PROVE  Owners(v) \subseteq Owners(v)'
  <2>1. role[v][m] = "OWNER" => role'[v][m] = "OWNER"
    BY <1>2, <1>8 DEF OwnedBy
  <2> QED
    BY <1>3, <1>8, <2>1 DEF Owners
<1>9. LocksHold'
  <2> SUFFICES ASSUME NEW s \in Removals, removal'[s].op # "idle",
                      NEW v \in removal'[s].locked \ slipped'
               PROVE  Leaves(s, v)'
    BY DEF LocksHold
  <2>1. s # t /\ removal'[s] = removal[s] /\ removal[s].op # "idle"
    BY <1>5
  <2>2. v \in Vendors /\ v \notin slipped /\ v \notin removal[t].locked
    BY <1>1, <1>2, <2>1, RemovalShape DEF OwnershipInv, OwnershipTypeOK
  <2>3. Leaves(s, v)
    BY <2>1, <2>2 DEF OwnershipInv, LocksHold
  <2>4. Owners(v) \subseteq Owners(v)'
    BY <1>8, <2>2
  <2> QED
    BY <2>1, <2>3, <2>4 DEF Leaves
<1>10. VendorKeepsOwner'
  <2> SUFFICES ASSUME NEW v \in Vendors \ slipped' PROVE Owners(v)' # {}
    BY DEF VendorKeepsOwner
  <2>1. v \notin slipped
    BY <1>2
  <2>2. CASE v \in removal[t].locked
    <3>1. Leaves(t, v)
      BY <1>1, <2>1, <2>2 DEF OwnershipInv, LocksHold
    <3>2. CASE \E u \in Owners(v) : u # m
      BY <1>3, <3>2 DEF Owners
    <3>3. CASE w = v /\ r = "OWNER"
      BY <1>1, <1>3, <3>3 DEF Owners
    <3> QED
      BY <3>1, <3>2, <3>3 DEF Leaves, m, w, r
  <2>3. CASE v \notin removal[t].locked
    BY <1>8, <2>1, <2>3 DEF OwnershipInv, VendorKeepsOwner
  <2> QED
    BY <2>2, <2>3
<1> QED
  BY <1>7, <1>9, <1>10 DEF OwnershipInv

LEMMA OwnershipStep ==
    ASSUME OwnershipInv, [OwnershipNext]_ownershipVars PROVE OwnershipInv'
<1>1. CASE UNCHANGED ownershipVars
  BY <1>1 DEF ownershipVars, OwnershipInv, OwnershipTypeOK, LocksHold, Leaves, Owners,
     VendorKeepsOwner
<1>2. ASSUME NEW t \in Removals, RollBack(t) PROVE OwnershipInv'
  BY <1>2, EndStep DEF RollBack, OwnershipInv, OwnershipTypeOK
<1> QED
  BY <1>1, <1>2, UpdateRoleStep, RemoveMemberStep, AddMemberStep, BeginStep, CountOwnersStep,
     EraseAccountStep, ReplaceMembershipsStep DEF OwnershipNext

\* One user's row at a vendor changes: a living owner who goes by it is that user,
\* and whoever else has an owner's row there is not living.
LEMMA OneRowChanges ==
    ASSUME NEW v \in Vendors, NEW m \in Members, UNCHANGED erased,
           \A u \in Members : u # m => role'[v][u] = role[v][u],
           Owners(v)' # {}, LivingOwners(v) # {}, LivingOwners(v)' = {}
    PROVE  Owners(v) \cap erased # {}
<1>1. PICK u \in Owners(v)' : TRUE
  OBVIOUS
<1>2. u \in Members /\ u \in erased /\ role'[v][u] = "OWNER"
  BY <1>1 DEF LivingOwners, Owners
<1>3. CASE u # m
  BY <1>2, <1>3 DEF Owners
<1>4. CASE u = m
  <2>1. PICK x \in LivingOwners(v) : TRUE
    OBVIOUS
  <2>2. x # m /\ x \in Members /\ role[v][x] = "OWNER" /\ x \notin erased
    BY <1>2, <1>4, <2>1 DEF LivingOwners, Owners
  <2>3. x \in LivingOwners(v)'
    BY <2>2 DEF LivingOwners, Owners
  <2> QED
    BY <2>3
<1> QED
  BY <1>3, <1>4

\* The deletion of an account lets a vendor go where it has counted another owner, or
\* never looked.
LEMMA EraseLeavesOwner ==
    ASSUME OwnershipInv, NEW t \in Removals, EraseAccount(t),
           NEW v \in Vendors \ slipped', LivingOwners(v) # {}, LivingOwners(v)' = {}
    PROVE  Owners(v) \cap erased # {}
<1> DEFINE m == removal[t].user
<1>1. /\ removal[t].op = "erase" /\ erased' = erased \cup {m} /\ UNCHANGED role
      /\ slipped' = slipped \cup (OwnedBy(m) \ removal[t].locked)
  BY DEF EraseAccount
<1>2. m \in Owners(v)
  BY <1>1 DEF LivingOwners, Owners
<1>3. v \in removal[t].locked /\ v \notin slipped
  BY <1>1, <1>2 DEF OwnedBy, Owners
<1>4. PICK u \in Owners(v) : u # m
  BY <1>1, <1>3 DEF OwnershipInv, LocksHold, Leaves
<1>5. u \in erased'
  BY <1>1, <1>4 DEF LivingOwners, Owners
<1> QED
  BY <1>1, <1>4, <1>5

LEMMA OwnersLeaveStep ==
    ASSUME OwnershipInv, [OwnershipNext]_ownershipVars, NEW v \in Vendors \ slipped',
           LivingOwners(v) # {}, LivingOwners(v)' = {}
    PROVE  Owners(v) \cap erased # {}
<1>1. Owners(v)' # {}
  BY OwnershipStep DEF OwnershipInv, VendorKeepsOwner
<1>2. ASSUME NEW t \in Removals, EraseAccount(t) PROVE Owners(v) \cap erased # {}
  BY <1>2, EraseLeavesOwner
<1>3. CASE UNCHANGED <<role, erased>>
  BY <1>3 DEF LivingOwners, Owners
<1>4. ASSUME NEW w \in Vendors, NEW m \in Members, NEW r,
             role' = [role EXCEPT ![w][m] = r], UNCHANGED erased
      PROVE  Owners(v) \cap erased # {}
  <2>1. \A u \in Members : u # m => role'[v][u] = role[v][u]
    BY <1>4 DEF OwnershipInv, OwnershipTypeOK
  <2> QED
    BY <1>1, <1>4, <2>1, OneRowChanges
<1>5. ASSUME NEW t \in Removals, ReplaceMemberships(t) PROVE Owners(v) \cap erased # {}
  <2> DEFINE m == removal[t].user
  <2>1. m \in Members
    BY <1>5, RemovalShape DEF ReplaceMemberships, OwnershipInv
  <2>2. \A u \in Members : u # m => role'[v][u] = role[v][u]
    BY <1>5, <2>1 DEF ReplaceMemberships, OwnershipInv, OwnershipTypeOK
  <2>3. UNCHANGED erased
    BY <1>5 DEF ReplaceMemberships
  <2> HIDE DEF m
  <2> QED
    BY <1>1, <2>1, <2>2, <2>3, OneRowChanges
<1>6. ASSUME NEW t \in Removals,
             \/ \E u \in Members :
                   \/ AdminRemove(t, u)
                   \/ \E w \in Vendors \cup {"none"}, r \in VendorMemberRole :
                         AdminUpdateUser(t, u, w, r)
             \/ \E w \in Vendors : CountOwners(t, w)
             \/ RollBack(t)
      PROVE  Owners(v) \cap erased # {}
  BY <1>3, <1>6 DEF AdminRemove, AdminUpdateUser, CountOwners, RollBack
<1>7. ASSUME NEW u \in Members, NEW w \in Vendors,
             RemoveMember(u, w) \/ \E r \in VendorMemberRole : AddMember(u, w, r) \/ UpdateRole(u, w, r)
      PROVE  Owners(v) \cap erased # {}
  BY <1>4, <1>7 DEF RemoveMember, AddMember, UpdateRole
<1>8. CASE UNCHANGED ownershipVars
  BY <1>3, <1>8 DEF ownershipVars
<1> QED
  BY <1>2, <1>5, <1>6, <1>7, <1>8 DEF OwnershipNext

\* For any number of vendors, members and transactions, the last owner of a vendor
\* whose account exists does not leave, but where an account deleted before is counted
\* for an owner or a transaction had not locked the vendor (deleteAccount, adminRemove,
\* adminUpdate, updateRole, removeMember).
THEOREM OwnersStay == OwnershipSpec => []VendorKeepsOwner /\ LastOwnerStays
<1>1. OwnershipInv => VendorKeepsOwner
  BY DEF OwnershipInv
<1>2. ASSUME OwnershipInv, [OwnershipNext]_ownershipVars
      PROVE  [\A v \in Vendors \ slipped' :
                 LivingOwners(v) # {} /\ LivingOwners(v)' = {}
                    => Owners(v) \cap erased # {}]_ownershipVars
  BY <1>2, OwnersLeaveStep
<1> QED
  BY <1>1, <1>2, OwnershipStart, OwnershipStep, PTL DEF OwnershipSpec, LastOwnerStays

-----------------------------------------------------------------------------
(* Tickets.  A row in which the assignee takes part is what every handler   *)
(* makes of such a row.                                                     *)

TicketsInv == TicketsTypeOK /\ AssigneeParticipates

\* A row that can be there: somebody assigned takes part.
GoodRows == {r \in TicketRows : Cardinality(r.assignee) <= 1 /\ r.assignee \subseteq r.members}

LEMMA GoodRow ==
    ASSUME TicketsInv, NEW k \in TicketIds, There(k)
    PROVE  ticket[k] \in GoodRows
<1>1. ticket[k] # NoTicket /\ ticket[k] # GoneTicket
  BY DEF There, NoTicket, GoneTicket, TicketStatus
<1>2. ticket[k] \in TicketRows
  BY <1>1 DEF TicketsInv, TicketsTypeOK
<1> QED
  BY <1>2 DEF TicketsInv, TicketsTypeOK, AssigneeParticipates, There, GoodRows

LEMMA Assignees ==
    /\ Cardinality({}) = 0
    /\ \A u \in Agents : Cardinality({u}) = 1
BY FS_EmptySet, FS_Singleton

\* What changes a row keeps it good.
LEMMA RowsStep ==
    ASSUME TicketsInv,
           ticket' \in [TicketIds -> TicketRows \cup {NoTicket, GoneTicket}],
           \A k \in TicketIds :
               ticket'[k] \in GoodRows \cup {NoTicket, GoneTicket} \/ ticket'[k] = ticket[k],
           creating' \in 0..MaxCreates,
           watchdog' \in [op : {"idle", "escalate?", "waiting", "resolved"}]
              \cup [op : {"start", "escalate", "started", "escalated"}, ids : SUBSET TicketIds]
    PROVE  TicketsInv'
<1> SUFFICES ASSUME NEW k \in TicketIds, There(k)'
             PROVE  Cardinality(ticket'[k].assignee) <= 1 /\ ticket'[k].assignee \subseteq ticket'[k].members
  BY DEF TicketsInv, TicketsTypeOK, AssigneeParticipates, There
<1>1. CASE ticket'[k] \in GoodRows
  BY <1>1 DEF GoodRows
<1>2. CASE ticket'[k] \in {NoTicket, GoneTicket}
  BY <1>2 DEF There, NoTicket, GoneTicket, TicketStatus
<1>3. CASE ticket'[k] = ticket[k]
  BY <1>3 DEF TicketsInv, TicketsTypeOK, AssigneeParticipates, There
<1> QED
  BY <1>1, <1>2, <1>3

\* One row becomes another, and nothing else happens.
LEMMA RowStep ==
    ASSUME TicketsInv, NEW k \in TicketIds, NEW r \in GoodRows \cup {NoTicket, GoneTicket},
           ticket' = [ticket EXCEPT ![k] = r], creating' \in 0..MaxCreates, UNCHANGED watchdog
    PROVE  TicketsInv'
<1>1. ticket' \in [TicketIds -> TicketRows \cup {NoTicket, GoneTicket}]
  BY DEF TicketsInv, TicketsTypeOK, GoodRows
<1>2. \A j \in TicketIds : ticket'[j] = IF j = k THEN r ELSE ticket[j]
  BY DEF TicketsInv, TicketsTypeOK
<1> QED
  BY <1>1, <1>2, RowsStep DEF TicketsInv, TicketsTypeOK

LEMMA TicketsStart == ASSUME TicketsInit PROVE TicketsInv
BY TicketsAssumption DEF TicketsInit, TicketsInv, TicketsTypeOK, AssigneeParticipates, There,
   NoTicket, TicketStatus

LEMMA CreateTicketStep == ASSUME TicketsInv, CreateTicket PROVE TicketsInv'
<1>1. creating' \in 0..MaxCreates
  BY TicketsAssumption DEF CreateTicket, TicketsInv, TicketsTypeOK
<1> QED
  BY <1>1, RowsStep DEF CreateTicket, TicketsInv, TicketsTypeOK

LEMMA CommitTicketStep == ASSUME TicketsInv, CommitTicket PROVE TicketsInv'
<1>1. creating' \in 0..MaxCreates
  BY TicketsAssumption DEF CommitTicket, TicketsInv, TicketsTypeOK
<1>2. PICK k \in TicketIds, A \in {{}} \cup {{u} : u \in Agents} :
        ticket' = [ticket EXCEPT ![k] =
          [status |-> "OPEN", stale |-> FALSE, assignee |-> A, talk |-> TRUE, members |-> A]]
  BY DEF CommitTicket
<1>3. A \subseteq Agents /\ Cardinality(A) <= 1
  BY Assignees
<1>4. [status |-> "OPEN", stale |-> FALSE, assignee |-> A, talk |-> TRUE, members |-> A] \in GoodRows
  BY <1>3 DEF GoodRows, TicketRows, TicketStatus
<1> QED
  BY <1>1, <1>2, <1>4, RowStep DEF CommitTicket

LEMMA PeopleStep ==
    ASSUME TicketsInv, NEW k \in TicketIds, There(k),
           \/ CloseByAuthor(k) \/ RemoveTicket(k) \/ CloseConversation(k) \/ GrowStale(k)
           \/ \E s \in TicketStatus : UpdateTicket(k, s)
           \/ \E u \in Agents : Assign(k, u) \/ Transfer(k, u) \/ SendMessage(k, u)
    PROVE  TicketsInv'
<1> DEFINE x == ticket[k]
<1>1. x \in GoodRows
  BY GoodRow
<1>2. creating \in 0..MaxCreates
  BY DEF TicketsInv, TicketsTypeOK
<1>3. \A s \in TicketStatus : WithStatus(x, s) \in GoodRows
  BY <1>1 DEF WithStatus, GoodRows, TicketRows
<1>4. \A u \in Agents :
        /\ [x EXCEPT !.assignee = {u}, !.members = @ \cup {u}] \in GoodRows
        /\ [x EXCEPT !.assignee = {}, !.members = @ \ {u}] \in GoodRows
        /\ [x EXCEPT !.members = @ \cup {u}] \in GoodRows
  <2> TAKE u \in Agents
  <2>1. x \in TicketRows /\ Cardinality(x.assignee) <= 1 /\ x.assignee \subseteq x.members
    BY <1>1 DEF GoodRows
  <2>2. Cardinality({u}) <= 1 /\ Cardinality({}) <= 1
    BY Assignees
  <2>3. [x EXCEPT !.assignee = {u}, !.members = @ \cup {u}] \in TicketRows
    BY <2>1 DEF TicketRows
  <2>4. [x EXCEPT !.assignee = {}, !.members = @ \ {u}] \in TicketRows
    BY <2>1 DEF TicketRows
  <2>5. [x EXCEPT !.members = @ \cup {u}] \in TicketRows
    BY <2>1 DEF TicketRows
  <2>6. /\ [x EXCEPT !.assignee = {u}, !.members = @ \cup {u}].assignee = {u}
        /\ [x EXCEPT !.assignee = {u}, !.members = @ \cup {u}].members = x.members \cup {u}
        /\ [x EXCEPT !.assignee = {}, !.members = @ \ {u}].assignee = {}
        /\ [x EXCEPT !.members = @ \cup {u}].assignee = x.assignee
        /\ [x EXCEPT !.members = @ \cup {u}].members = x.members \cup {u}
    BY <2>1 DEF TicketRows
  <2> QED
    BY <2>1, <2>2, <2>3, <2>4, <2>5, <2>6 DEF GoodRows
<1>5. [x EXCEPT !.talk = FALSE] \in GoodRows /\ [x EXCEPT !.stale = TRUE] \in GoodRows
  BY <1>1 DEF GoodRows, TicketRows
<1>6. \E r \in GoodRows \cup {NoTicket, GoneTicket} : ticket' = [ticket EXCEPT ![k] = r]
  <2>1. CASE CloseByAuthor(k)
    BY <1>3, <2>1 DEF CloseByAuthor, TicketStatus
  <2>2. CASE RemoveTicket(k)
    BY <2>2 DEF RemoveTicket
  <2>3. CASE CloseConversation(k)
    BY <1>5, <2>3 DEF CloseConversation
  <2>4. CASE GrowStale(k)
    BY <1>5, <2>4 DEF GrowStale
  <2>5. ASSUME NEW s \in TicketStatus, UpdateTicket(k, s)
        PROVE  \E r \in GoodRows : ticket' = [ticket EXCEPT ![k] = r]
    BY <1>3, <2>5 DEF UpdateTicket
  <2>6. ASSUME NEW u \in Agents, Assign(k, u) \/ Transfer(k, u) \/ SendMessage(k, u)
        PROVE  \E r \in GoodRows : ticket' = [ticket EXCEPT ![k] = r]
    <3>1. CASE Assign(k, u)
      <4>1. ticket' = [ticket EXCEPT ![k] = [x EXCEPT !.assignee = {u}, !.members = @ \cup {u}]]
        BY <3>1 DEF Assign, TicketsInv, TicketsTypeOK
      <4> QED
        BY <1>4, <4>1
    <3>2. CASE Transfer(k, u)
      <4>1. ticket' = [ticket EXCEPT ![k] = [x EXCEPT !.assignee = {}, !.members = @ \ {u}]]
        BY <3>2 DEF Transfer, TicketsInv, TicketsTypeOK
      <4> QED
        BY <1>4, <4>1
    <3>3. CASE SendMessage(k, u)
      BY <1>4, <3>3 DEF SendMessage
    <3> QED
      BY <2>6, <3>1, <3>2, <3>3
  <2> QED
    BY <2>1, <2>2, <2>3, <2>4, <2>5, <2>6
<1>7. UNCHANGED <<creating, watchdog>>
  BY DEF CloseByAuthor, RemoveTicket, CloseConversation, GrowStale, UpdateTicket, Assign,
     Transfer, SendMessage
<1> QED
  BY <1>2, <1>6, <1>7, RowStep

\* The job moves tickets on and leaves everything else of them alone.
LEMMA MoveStep ==
    ASSUME TicketsInv, NEW ids, NEW s \in TicketStatus, Move(ids, s),
           UNCHANGED creating,
           watchdog' \in [op : {"idle", "escalate?", "waiting", "resolved"}]
              \cup [op : {"start", "escalate", "started", "escalated"}, ids : SUBSET TicketIds]
    PROVE  TicketsInv'
<1>1. \A k \in TicketIds :
        ticket'[k] = IF k \in ids /\ There(k) THEN [ticket[k] EXCEPT !.status = s, !.stale = FALSE]
                     ELSE ticket[k]
  BY DEF Move
<1>2. \A k \in TicketIds : There(k) => [ticket[k] EXCEPT !.status = s, !.stale = FALSE] \in GoodRows
  BY GoodRow DEF GoodRows, TicketRows
<1>3. \A k \in TicketIds : ticket'[k] \in GoodRows \/ ticket'[k] = ticket[k]
  BY <1>1, <1>2
<1>4. \A k \in TicketIds : ticket'[k] \in TicketRows \cup {NoTicket, GoneTicket}
  BY <1>3 DEF TicketsInv, TicketsTypeOK, GoodRows
<1>5. ticket' \in [TicketIds -> TicketRows \cup {NoTicket, GoneTicket}]
  BY <1>4 DEF Move
<1> QED
  BY <1>3, <1>5, RowsStep DEF TicketsInv, TicketsTypeOK

LEMMA WatchdogStep == ASSUME TicketsInv, Watchdog PROVE TicketsInv'
<1> DEFINE W == [op : {"idle", "escalate?", "waiting", "resolved"}]
              \cup [op : {"start", "escalate", "started", "escalated"}, ids : SUBSET TicketIds]
<1>1. watchdog \in W
  BY DEF TicketsInv, TicketsTypeOK
<1>2. \A s \in TicketStatus : StaleRows(s) \subseteq TicketIds
  BY DEF StaleRows
<1>3. CASE ReadOpen \/ ReadInProgress
  <2>1. watchdog' \in W
    BY <1>2, <1>3 DEF ReadOpen, ReadInProgress, TicketStatus
  <2>2. UNCHANGED <<ticket, creating>>
    BY <1>3 DEF ReadOpen, ReadInProgress
  <2> QED
    BY <2>1, <2>2, RowsStep DEF TicketsInv, TicketsTypeOK
<1>4. CASE AnnounceProgress \/ AnnounceEscalation
  <2>1. watchdog' \in W
    BY <1>4 DEF AnnounceProgress, AnnounceEscalation, Announce
  <2>2. UNCHANGED <<ticket, creating>>
    BY <1>4 DEF AnnounceProgress, AnnounceEscalation, Announce
  <2> QED
    BY <2>1, <2>2, RowsStep DEF TicketsInv, TicketsTypeOK
<1>5. CASE StartProgress
  <2>1. watchdog' \in W
    BY <1>1, <1>5 DEF StartProgress
  <2> QED
    BY <1>5, <2>1, MoveStep DEF StartProgress, TicketStatus
<1>6. CASE Escalate
  <2>1. watchdog' \in W
    BY <1>1, <1>6 DEF Escalate
  <2> QED
    BY <1>6, <2>1, MoveStep DEF Escalate, TicketStatus
<1>7. CASE CloseWaiting \/ CloseResolved
  <2>1. watchdog' \in W
    BY <1>7 DEF CloseWaiting, CloseResolved
  <2> QED
    BY <1>7, <2>1, MoveStep DEF CloseWaiting, CloseResolved, TicketStatus
<1> QED
  BY <1>3, <1>4, <1>5, <1>6, <1>7 DEF Watchdog

LEMMA TicketsStep == ASSUME TicketsInv, [TicketsNext]_ticketsVars PROVE TicketsInv'
<1>1. CASE UNCHANGED ticketsVars
  BY <1>1, RowsStep DEF ticketsVars, TicketsInv, TicketsTypeOK
<1>2. CASE PeopleNext
  BY <1>2, CreateTicketStep, CommitTicketStep, PeopleStep DEF PeopleNext, CloseByAuthor,
     RemoveTicket, CloseConversation, GrowStale, UpdateTicket, Assign, Transfer, SendMessage
<1> QED
  BY <1>1, <1>2, WatchdogStep DEF TicketsNext

\* For any number of tickets and agents: whoever a ticket is assigned to takes part in
\* its conversation (create, update, handleSlaWatchdog).
THEOREM AssigneesTakePart == TicketsSpec => []AssigneeParticipates
<1>1. TicketsInv => AssigneeParticipates
  BY DEF TicketsInv
<1> QED
  BY <1>1, TicketsStart, TicketsStep, PTL DEF TicketsSpec

-----------------------------------------------------------------------------
(* All of them, as they are explored together.                              *)

allVars == <<part, sessionsVars, codesVars, ownershipVars, ticketsVars>>

\* A step is one of the part that is explored, or none.
LEMMA OnePartMoves ==
    ASSUME [MCNext]_allVars
    PROVE  /\ [SessionsNext]_sessionsVars /\ [CodesNext]_codesVars
           /\ [OwnershipNext]_ownershipVars /\ [TicketsNext]_ticketsVars
<1>1. CASE MCSessionsNext
  <2>1. SessionsNext /\ UNCHANGED <<codesVars, ownershipVars, ticketsVars>>
    BY <1>1 DEF MCSessionsNext, InSessions, SessionsNext, SessionNext, AccountNext
  <2> QED
    BY <2>1
<1>2. CASE MCCodesNext
  <2>1. CodesNext /\ UNCHANGED <<sessionsVars, ownershipVars, ticketsVars>>
    BY <1>2 DEF MCCodesNext, InCodes, CodesNext
  <2> QED
    BY <2>1
<1>3. CASE MCVendorsNext
  <2>1. OwnershipNext /\ UNCHANGED <<sessionsVars, codesVars, ticketsVars>>
    BY <1>3 DEF MCVendorsNext, InVendors, OwnershipNext
  <2> QED
    BY <2>1
<1>4. CASE MCTicketsNext
  <2>1. TicketsNext /\ UNCHANGED <<sessionsVars, codesVars, ownershipVars>>
    BY <1>4 DEF MCTicketsNext, InTickets, TicketsNext, PeopleNext
  <2> QED
    BY <2>1
<1>5. CASE UNCHANGED allVars
  BY <1>5 DEF allVars
<1> QED
  BY <1>1, <1>2, <1>3, <1>4, <1>5 DEF MCNext

AccessInv == IInv /\ CodesInv /\ OwnershipInv /\ TicketsInv

LEMMA EveryPartKeeps == MCSpec => []AccessInv
<1>1. MCInit => AccessInv
  BY InitIInv, CodesStart, OwnershipStart, TicketsStart DEF MCInit, AccessInv
<1>2. AccessInv /\ [MCNext]_allVars => AccessInv'
  BY OnePartMoves, StepIInv, CodesStep, OwnershipStep, TicketsStep DEF AccessInv
<1> QED
  BY <1>1, <1>2, PTL DEF MCSpec, allVars

\* Every variable of the four parts keeps its range.
THEOREM AccessTyped == MCSpec => []AccessTypeOK
<1>1. AccessInv => AccessTypeOK
  BY DEF AccessInv, AccessTypeOK, IInv, CodesInv, OwnershipInv, TicketsInv
<1> QED
  BY <1>1, EveryPartKeeps, PTL

\* A code is compared and accepted a bounded number of times, whatever requests come
\* between each other (validateOtp, peekOtp, generateOtp).
THEOREM CodesSafe == MCSpec => []CodesHold
<1>1. AccessInv => CodesHold
  BY DEF AccessInv, CodesHold, CodesInv
<1> QED
  BY <1>1, EveryPartKeeps, PTL

\* The last living owner of a vendor stays as LastOwnerStays says, and the assignee of
\* a ticket takes part in its conversation (deleteAccount, adminUpdate; update of
\* tickets.service).
THEOREM MembersSafe == MCSpec => MembersKept
<1>1. AccessInv => VendorKeepsOwner /\ AssigneeParticipates
  BY DEF AccessInv, OwnershipInv, TicketsInv
<1>2. ASSUME AccessInv, [MCNext]_allVars
      PROVE  [\A v \in Vendors \ slipped' :
                 LivingOwners(v) # {} /\ LivingOwners(v)' = {}
                    => Owners(v) \cap erased # {}]_ownershipVars
  BY <1>2, OnePartMoves, OwnersLeaveStep DEF AccessInv
<1> QED
  BY <1>1, <1>2, EveryPartKeeps, PTL DEF MCSpec, allVars, MembersKept, LastOwnerStays
-----------------------------------------------------------------------------
(* Opening hours.  A pass that nobody overtook still knows that the schedule *)
(* is in force, for whoever takes it out of force is a change by hand.      *)

PassKnows == pass.op = "write" /\ ~pass.overtaken => vendor.scheduled /\ ~vendor.deleted

StorefrontInv == StorefrontTypeOK /\ PassKnows

ReaderStates == {[op |-> "idle"]} \cup [op : {"fill"}, key : Keys, shows : VendorStatus]

LEMMA StorefrontStart == ASSUME StorefrontInit PROVE StorefrontInv
<1>1. 0 \in Days /\ 0 \in Minutes
  BY StorefrontAssumption, FS_CardinalityType
<1> QED
  BY <1>1 DEF StorefrontInit, StorefrontInv, StorefrontTypeOK, PassKnows, VendorRows, VendorStatus,
     SchedulePasses

LEMMA TickStep == ASSUME StorefrontInv, Tick PROVE StorefrontInv'
<1>1. PICK n \in Nat \ {0} : n = Cardinality(Days) /\ Days = 0..(n - 1)
  BY StorefrontAssumption, FS_CardinalityType
<1>2. PICK d \in Days, m \in Minutes : clock = <<d, m>>
  BY DEF StorefrontInv, StorefrontTypeOK
<1>3. 0 \in Minutes
  BY StorefrontAssumption, FS_CardinalityType
<1>4. (d + 1) % n \in Days
  <2>1. d \in Int /\ d + 1 \in Int
    BY <1>1
  <2>2. PICK k \in Int : k = d + 1
    BY <2>1
  <2>3. k % n \in 0..(n - 1)
    OBVIOUS
  <2> QED
    BY <1>1, <2>2, <2>3
<1>5. clock' \in Days \X Minutes
  BY <1>1, <1>2, <1>3, <1>4 DEF Tick
<1> QED
  BY <1>5 DEF Tick, StorefrontInv, StorefrontTypeOK, PassKnows

LEMMA ScheduleStep == ASSUME StorefrontInv, ReadSchedule \/ WriteSchedule PROVE StorefrontInv'
<1>1. CASE ReadSchedule
  <2>1. pass' \in SchedulePasses
    BY <1>1 DEF ReadSchedule, SchedulePasses
  <2> QED
    BY <1>1, <2>1 DEF ReadSchedule, Followed, StorefrontInv, StorefrontTypeOK, PassKnows
<1>2. CASE WriteSchedule
  <2>1. pass.to \in VendorStatus
    BY <1>2 DEF WriteSchedule, StorefrontInv, StorefrontTypeOK, SchedulePasses, VendorStatus
  <2>2. vendor' \in VendorRows
    BY <1>2, <2>1 DEF WriteSchedule, StorefrontInv, StorefrontTypeOK, VendorRows
  <2>3. pass' \in SchedulePasses /\ pass'.op = "idle"
    BY <1>2 DEF WriteSchedule, SchedulePasses
  <2> QED
    BY <1>2, <2>2, <2>3 DEF WriteSchedule, StorefrontInv, StorefrontTypeOK, PassKnows
<1> QED
  BY <1>1, <1>2

\* Whoever changes the row overtakes the pass.
LEMMA ChangeStep ==
    ASSUME StorefrontInv, NEW w \in Staff, NEW row \in VendorRows, NEW K \in SUBSET Keys,
           Change(w, row, K)
    PROVE  StorefrontInv'
<1>1. pass' = PassOvertaken /\ pass \in SchedulePasses
  BY DEF Change, StorefrontInv, StorefrontTypeOK
<1>2. pass' \in SchedulePasses /\ (pass'.op = "write" => pass'.overtaken)
  <2>1. CASE pass.op = "write"
    <3>1. pass \in [op : {"write"}, to : {"OPEN", "CLOSED"}, overtaken : BOOLEAN]
      BY <1>1, <2>1 DEF SchedulePasses
    <3>2. pass' = [pass EXCEPT !.overtaken = TRUE]
      BY <1>1, <2>1 DEF PassOvertaken
    <3>3. pass' \in [op : {"write"}, to : {"OPEN", "CLOSED"}, overtaken : BOOLEAN] /\ pass'.overtaken
      BY <3>1, <3>2
    <3> QED
      BY <3>3 DEF SchedulePasses
  <2>2. CASE pass.op # "write"
    BY <1>1, <2>2 DEF PassOvertaken
  <2> QED
    BY <2>1, <2>2
<1>3. vendor' \in VendorRows /\ staff' \in [Staff -> SUBSET Keys]
  BY DEF Change, StorefrontInv, StorefrontTypeOK
<1> QED
  BY <1>2, <1>3 DEF Change, StorefrontInv, StorefrontTypeOK, PassKnows

LEMMA HandStep ==
    ASSUME StorefrontInv, NEW w \in Staff,
           \/ \E h \in Schedules, b \in BOOLEAN : Update(w, h, b)
           \/ \E s \in VendorStatus : UpdateStatus(w, s)
           \/ UploadLogo(w) \/ Remove(w)
    PROVE  StorefrontInv'
<1>1. vendor \in VendorRows /\ Keys \in SUBSET Keys /\ {"id"} \in SUBSET Keys /\ {} \in SUBSET Keys
  BY DEF StorefrontInv, StorefrontTypeOK, Keys
<1>2. \A h \in Schedules, b \in BOOLEAN : [vendor EXCEPT !.hours = h, !.scheduled = b] \in VendorRows
  BY <1>1 DEF VendorRows
<1>3. \A s \in VendorStatus : [vendor EXCEPT !.status = s, !.scheduled = FALSE] \in VendorRows
  BY <1>1 DEF VendorRows
<1>4. [vendor EXCEPT !.deleted = TRUE] \in VendorRows
  BY <1>1 DEF VendorRows
<1>5. ASSUME NEW h \in Schedules, NEW b \in BOOLEAN, Update(w, h, b) PROVE StorefrontInv'
  <2>1. PICK row \in VendorRows : row = [vendor EXCEPT !.hours = h, !.scheduled = b]
    BY <1>2
  <2> QED
    BY <1>1, <1>5, <2>1, ChangeStep DEF Update
<1>6. ASSUME NEW s \in VendorStatus, UpdateStatus(w, s) PROVE StorefrontInv'
  <2>1. PICK row \in VendorRows : row = [vendor EXCEPT !.status = s, !.scheduled = FALSE]
    BY <1>3
  <2> QED
    BY <1>1, <1>6, <2>1, ChangeStep DEF UpdateStatus
<1>7. CASE UploadLogo(w)
  BY <1>1, <1>7, ChangeStep DEF UploadLogo
<1>8. CASE Remove(w)
  <2>1. PICK row \in VendorRows : row = [vendor EXCEPT !.deleted = TRUE]
    BY <1>4
  <2> QED
    BY <1>1, <1>8, <2>1, ChangeStep DEF Remove
<1> QED
  BY <1>5, <1>6, <1>7, <1>8

\* The pages show a status, or are not there.
LEMMA PagesStep ==
    ASSUME StorefrontInv,
           \/ \E w \in Staff, k \in Keys : ForgetPage(w, k)
           \/ \E r \in Readers : FillPage(r) \/ \E k \in Keys : ReadVendor(r, k)
           \/ \E k \in Keys : ExpirePage(k)
    PROVE  StorefrontInv'
<1>1. UNCHANGED <<vendor, clock, pass>>
  BY DEF ForgetPage, FillPage, ReadVendor, ExpirePage
<1>2. /\ page \in [Keys -> VendorStatus \cup {NoPage}] /\ staff \in [Staff -> SUBSET Keys]
      /\ reader \in [Readers -> ReaderStates] /\ vendor.status \in VendorStatus
  BY DEF StorefrontInv, StorefrontTypeOK, VendorRows, ReaderStates
<1>3. [op |-> "idle"] \in ReaderStates
  BY DEF ReaderStates
<1>4. ASSUME NEW w \in Staff, NEW k \in Keys, ForgetPage(w, k)
      PROVE  /\ page' \in [Keys -> VendorStatus \cup {NoPage}] /\ staff' \in [Staff -> SUBSET Keys]
             /\ reader' \in [Readers -> ReaderStates]
  BY <1>2, <1>4 DEF ForgetPage
<1>5. ASSUME NEW r \in Readers, FillPage(r)
      PROVE  /\ page' \in [Keys -> VendorStatus \cup {NoPage}] /\ staff' \in [Staff -> SUBSET Keys]
             /\ reader' \in [Readers -> ReaderStates]
  <2>1. reader[r].key \in Keys /\ reader[r].shows \in VendorStatus
    BY <1>2, <1>5 DEF FillPage, ReaderStates
  <2>2. page' \in [Keys -> VendorStatus \cup {NoPage}]
    BY <1>2, <1>5, <2>1 DEF FillPage
  <2>3. reader' \in [Readers -> ReaderStates]
    BY <1>2, <1>3, <1>5 DEF FillPage
  <2> QED
    BY <1>2, <1>5, <2>2, <2>3 DEF FillPage
<1>6. ASSUME NEW r \in Readers, NEW k \in Keys, ReadVendor(r, k)
      PROVE  /\ page' \in [Keys -> VendorStatus \cup {NoPage}] /\ staff' \in [Staff -> SUBSET Keys]
             /\ reader' \in [Readers -> ReaderStates]
  <2>1. Shown \in VendorStatus
    BY <1>2 DEF Shown, VendorStatus
  <2>2. PICK x \in ReaderStates : x = [op |-> "fill", key |-> k, shows |-> Shown]
    BY <2>1 DEF ReaderStates
  <2>3. reader' = [reader EXCEPT ![r] = x]
    BY <1>6, <2>2 DEF ReadVendor
  <2> QED
    BY <1>2, <1>6, <2>3 DEF ReadVendor
<1>7. ASSUME NEW k \in Keys, ExpirePage(k)
      PROVE  /\ page' \in [Keys -> VendorStatus \cup {NoPage}] /\ staff' \in [Staff -> SUBSET Keys]
             /\ reader' \in [Readers -> ReaderStates]
  BY <1>2, <1>7 DEF ExpirePage
<1>8. /\ page' \in [Keys -> VendorStatus \cup {NoPage}] /\ staff' \in [Staff -> SUBSET Keys]
      /\ reader' \in [Readers -> ReaderStates]
  BY <1>4, <1>5, <1>6, <1>7
<1> QED
  BY <1>1, <1>8 DEF StorefrontInv, StorefrontTypeOK, PassKnows, ReaderStates

LEMMA StorefrontStep == ASSUME StorefrontInv, [StorefrontNext]_storefrontVars PROVE StorefrontInv'
<1>1. CASE UNCHANGED storefrontVars
  BY <1>1 DEF storefrontVars, StorefrontInv, StorefrontTypeOK, PassKnows
<1>2. CASE StorefrontNext
  BY <1>2, TickStep, ScheduleStep, HandStep, PagesStep DEF StorefrontNext
<1> QED
  BY <1>1, <1>2

\* What the job writes without having been overtaken is what the schedule of a vendor in
\* its care asks for.
LEMMA WriteKnows ==
    ASSUME StorefrontInv, [StorefrontNext]_storefrontVars
    PROVE  [pass.op = "write" /\ pass'.op = "idle" /\ ~pass.overtaken
              => vendor.scheduled /\ ~vendor.deleted]_storefrontVars
BY DEF StorefrontInv, PassKnows

\* For any clock, hours and number of requests: the status that was set by hand is
\* overwritten only by a pass that was under way (updateStatus, handleVendorWorkingHours).
THEOREM HandWinsOverHours == StorefrontSpec => StatusByHandStays
BY StorefrontStart, StorefrontStep, WriteKnows, PTL DEF StorefrontSpec, StatusByHandStays

-----------------------------------------------------------------------------
(* Settings.  Whoever is about to store or read again has found a row.      *)

SettingsInv ==
    /\ SettingsTypeOK
    /\ \A r \in Consumers : consumer[r].op \in {"reread", "store"} => settingsRow # NoRow

Consumings == {[op |-> "idle"], [op |-> "seed"], [op |-> "reread"]} \cup [op : {"store"}, version : Versions]

LEMMA SettingsStart == ASSUME SettingsInit PROVE SettingsInv
BY DEF SettingsInit, SettingsInv, SettingsTypeOK

\* A reader goes on; the row stays or comes to be.
LEMMA ConsumerStep ==
    ASSUME SettingsInv, NEW r \in Consumers, NEW s \in Consumings, Consumer(r, s),
           settingsRow' \in Versions \cup {NoRow}, copied' \in Versions \cup {NoCopy}, UNCHANGED admin,
           settingsRow # NoRow => settingsRow' # NoRow,
           s.op \in {"reread", "store"} => settingsRow' # NoRow,
           copied' # NoCopy => settingsRow' # NoRow
    PROVE  SettingsInv'
<1>1. consumer \in [Consumers -> Consumings]
  BY DEF SettingsInv, SettingsTypeOK, Consumings
<1>2. consumer' = [consumer EXCEPT ![r] = s]
  BY DEF Consumer
<1>3. consumer' \in [Consumers -> Consumings]
  BY <1>1, <1>2
<1>4. \A q \in Consumers : consumer'[q] = s \/ consumer'[q] = consumer[q]
  BY <1>1, <1>2
<1> QED
  BY <1>3, <1>4 DEF SettingsInv, SettingsTypeOK, Consumings

LEMMA ReaderStep ==
    ASSUME SettingsInv, NEW r \in Consumers,
           GetSettings(r) \/ SeedDefaults(r) \/ ReadSeeded(r) \/ StoreCopy(r)
    PROVE  SettingsInv'
<1>1. /\ settingsRow \in Versions \cup {NoRow} /\ copied \in Versions \cup {NoCopy}
      /\ copied # NoCopy => settingsRow # NoRow
      /\ consumer[r] \in Consumings /\ 1 \in Versions /\ 1 # NoRow
      /\ consumer[r].op \in {"reread", "store"} => settingsRow # NoRow
  BY SettingsAssumption DEF SettingsInv, SettingsTypeOK, Consumings, Versions, NoRow
<1>2. /\ [op |-> "idle"] \in Consumings /\ [op |-> "seed"] \in Consumings /\ [op |-> "reread"] \in Consumings
      /\ \A v \in Versions : [op |-> "store", version |-> v] \in Consumings
  BY DEF Consumings
<1>3. CASE GetSettings(r)
  <2>1. PICK s : s = IF settingsRow = NoRow THEN [op |-> "seed"] ELSE [op |-> "store", version |-> settingsRow]
    OBVIOUS
  <2>2. s \in Consumings /\ (s.op \in {"reread", "store"} => settingsRow # NoRow)
    BY <1>1, <1>2, <2>1
  <2>3. Consumer(r, s) /\ UNCHANGED <<settingsRow, copied, admin>>
    BY <1>3, <2>1 DEF GetSettings
  <2> QED
    BY <1>1, <2>2, <2>3, ConsumerStep
<1>4. CASE SeedDefaults(r)
  <2>1. CASE settingsRow = NoRow
    <3>1. PICK s \in Consumings : s = [op |-> "store", version |-> 1]
      BY <1>1, <1>2
    <3>2. settingsRow' = 1 /\ Consumer(r, s) /\ UNCHANGED <<copied, admin>>
      BY <1>4, <2>1, <3>1 DEF SeedDefaults
    <3> QED
      BY <1>1, <3>2, ConsumerStep
  <2>2. CASE settingsRow # NoRow
    <3>1. PICK s \in Consumings : s = [op |-> "reread"]
      BY <1>2
    <3>2. Consumer(r, s) /\ UNCHANGED <<settingsRow, copied, admin>>
      BY <1>4, <2>2, <3>1 DEF SeedDefaults
    <3> QED
      BY <1>1, <2>2, <3>2, ConsumerStep
  <2> QED
    BY <2>1, <2>2
<1>5. CASE ReadSeeded(r)
  <2>1. settingsRow # NoRow /\ settingsRow \in Versions
    BY <1>1, <1>5 DEF ReadSeeded
  <2>2. PICK s \in Consumings : s = [op |-> "store", version |-> settingsRow]
    BY <1>2, <2>1
  <2>3. Consumer(r, s) /\ UNCHANGED <<settingsRow, copied, admin>>
    BY <1>5, <2>2 DEF ReadSeeded
  <2> QED
    BY <1>1, <2>1, <2>3, ConsumerStep
<1>6. CASE StoreCopy(r)
  <2>1. PICK s \in Consumings : s = [op |-> "idle"]
    BY <1>2
  <2>2. Consumer(r, s) /\ UNCHANGED <<settingsRow, admin>> /\ copied' \in Versions /\ settingsRow # NoRow
    BY <1>1, <1>6, <2>1 DEF StoreCopy, Consumings
  <2>3. s.op = "idle"
    BY <2>1
  <2> QED
    BY <1>1, <2>2, <2>3, ConsumerStep
<1> QED
  BY <1>3, <1>4, <1>5, <1>6

LEMMA SettingsStep == ASSUME SettingsInv, [SettingsNext]_settingsVars PROVE SettingsInv'
<1>1. CASE UNCHANGED settingsVars
  BY <1>1 DEF settingsVars, SettingsInv, SettingsTypeOK
<1>2. CASE ExpireCopy
  BY <1>2 DEF ExpireCopy, SettingsInv, SettingsTypeOK
<1>3. ASSUME NEW a \in Admins, UpdateSettings(a) \/ ForgetCopy(a) PROVE SettingsInv'
  <2>1. admin' \in [Admins -> {"idle", "forget"}]
    BY <1>3 DEF UpdateSettings, ForgetCopy, SettingsInv, SettingsTypeOK
  <2>2. UNCHANGED consumer
    BY <1>3 DEF UpdateSettings, ForgetCopy
  <2>3. /\ settingsRow' \in Versions \cup {NoRow} /\ copied' \in Versions \cup {NoCopy}
        /\ (settingsRow # NoRow => settingsRow' # NoRow) /\ (settingsRow' = NoRow => copied' = NoCopy)
    BY <1>3, SettingsAssumption DEF UpdateSettings, ForgetCopy, SettingsInv, SettingsTypeOK, Versions, NoRow, NoCopy
  <2> QED
    BY <2>1, <2>2, <2>3 DEF SettingsInv, SettingsTypeOK
<1> QED
  BY <1>1, <1>2, <1>3, ReaderStep DEF SettingsNext

-----------------------------------------------------------------------------
(* Live tracking *)

LEMMA TrackingStart == ASSUME TrackingInit PROVE TrackingTypeOK
BY TrackingAssumption DEF TrackingInit, TrackingTypeOK, States, Moves, Handlers

\* The handling of a change that was made goes on.
LEMMA GoStep ==
    ASSUME TrackingTypeOK, NEW e \in 1..MaxChanges, handler[e].op # "none", NEW h \in Handlers, Go(e, h),
           claimed' \subseteq States, tracked' \subseteq Carriers, UNCHANGED <<state, courier, changes>>
    PROVE  TrackingTypeOK'
<1>1. handler' = [handler EXCEPT ![e] = h] /\ handler \in [1..MaxChanges -> Handlers]
  BY DEF Go, TrackingTypeOK
<1>2. handler' \in [1..MaxChanges -> Handlers] /\ \A i \in 1..MaxChanges : i # e => handler'[i] = handler[i]
  BY <1>1
<1> QED
  BY <1>2 DEF TrackingTypeOK

LEMMA EmitStep ==
    ASSUME TrackingTypeOK, NEW s \in States, NEW d \in Carriers \cup {NoCourier}, Emit(s, d)
    PROVE  TrackingTypeOK'
<1>1. PICK n \in Nat : n = changes /\ n + 1 \in 1..MaxChanges
  BY TrackingAssumption DEF TrackingTypeOK, Emit
<1>2. PICK h \in Handlers : h = [op |-> "claim", status |-> s, driver |-> d]
  BY DEF Handlers
<1>3. handler' = [handler EXCEPT ![n + 1] = h] /\ handler \in [1..MaxChanges -> Handlers]
  BY <1>1, <1>2 DEF Emit, TrackingTypeOK
<1>4. handler' \in [1..MaxChanges -> Handlers] /\ \A i \in 1..MaxChanges : i # n + 1 => handler'[i] = handler[i]
  BY <1>1, <1>3
<1>5. changes' = n + 1 /\ n + 1 \in 0..MaxChanges /\ UNCHANGED <<claimed, tracked>> /\ state' = s /\ courier' = d
  BY <1>1 DEF Emit
<1>6. \A i \in 1..MaxChanges : handler'[i].op # "none" => i <= n + 1
  BY <1>1, <1>4 DEF TrackingTypeOK
<1> QED
  BY <1>4, <1>5, <1>6 DEF TrackingTypeOK

LEMMA HandlingStep ==
    ASSUME TrackingTypeOK, NEW e \in 1..MaxChanges, Claim(e) \/ Track(e) \/ HandlerDies(e)
    PROVE  TrackingTypeOK'
<1>1. handler[e] \in Handlers /\ claimed \subseteq States /\ tracked \subseteq Carriers
  BY DEF TrackingTypeOK
<1>2. PICK none \in Handlers : none = [op |-> "none"]
  BY DEF Handlers
<1>3. CASE Claim(e)
  <2>1. /\ handler[e].op # "none" /\ handler[e].status \in States
        /\ [handler[e] EXCEPT !.op = "track"] \in Handlers
    BY <1>1, <1>3 DEF Claim, Handlers
  <2>2. PICK h \in Handlers : h = [handler[e] EXCEPT !.op = "track"]
    BY <2>1
  <2>3. /\ Go(e, none) \/ Go(e, h)
        /\ claimed' \subseteq States /\ UNCHANGED <<state, courier, changes, tracked>>
    BY <1>1, <1>2, <1>3, <2>1, <2>2 DEF Claim
  <2> QED
    BY <1>1, <2>1, <2>3, GoStep
<1>4. CASE Track(e)
  <2>1. handler[e].op # "none" /\ handler[e].driver \in Carriers \cup {NoCourier}
    BY <1>1, <1>4 DEF Track, Handlers
  <2>2. tracked' \subseteq Carriers
    BY <1>1, <1>4, <2>1 DEF Track
  <2>3. Go(e, none) /\ UNCHANGED <<state, courier, changes, claimed>>
    BY <1>2, <1>4 DEF Track
  <2> QED
    BY <1>1, <2>1, <2>2, <2>3, GoStep
<1>5. CASE HandlerDies(e)
  BY <1>1, <1>2, <1>5, GoStep DEF HandlerDies
<1> QED
  BY <1>3, <1>4, <1>5

LEMMA TrackingStep == ASSUME TrackingTypeOK, [TrackingNext]_trackingVars PROVE TrackingTypeOK'
<1>1. CASE UNCHANGED trackingVars
  BY <1>1 DEF trackingVars, TrackingTypeOK
<1>2. ASSUME NEW s \in States, ChangeStatus(s) PROVE TrackingTypeOK'
  BY <1>2, EmitStep DEF ChangeStatus, TrackingTypeOK
<1>3. ASSUME NEW d \in Carriers, AssignCourier(d) PROVE TrackingTypeOK'
  <2>1. "DRIVER_ASSIGNED" \in States
    BY DEF States, Moves
  <2> QED
    BY <1>3, <2>1, EmitStep DEF AssignCourier
<1>4. CASE (\E s \in States : ExpireClaim(s)) \/ (\E d \in Carriers : ExpireTracked(d))
  BY <1>4 DEF ExpireClaim, ExpireTracked, TrackingTypeOK
<1> QED
  BY <1>1, <1>2, <1>3, <1>4, HandlingStep DEF TrackingNext

-----------------------------------------------------------------------------
(* Opening hours, tickets, settings and live tracking, as explored together. *)

UpkeepInv == StorefrontInv /\ TicketsInv /\ SettingsInv /\ TrackingTypeOK

LEMMA OneUpkeepMoves ==
    ASSUME [UpkeepNext]_upkeepVars
    PROVE  /\ [StorefrontNext]_storefrontVars /\ [TicketsNext]_ticketsVars
           /\ [SettingsNext]_settingsVars /\ [TrackingNext]_trackingVars
<1>1. CASE StorefrontMoves
  <2>1. StorefrontNext /\ UNCHANGED <<ticketsVars, settingsVars, trackingVars>>
    BY <1>1 DEF StorefrontMoves, OfStorefront, StorefrontNext
  <2> QED
    BY <2>1
<1>2. CASE WatchedTicketsMove
  <2>1. TicketsNext /\ UNCHANGED <<storefrontVars, settingsVars, trackingVars>>
    BY <1>2 DEF WatchedTicketsMove, OfTickets, TicketsNext, PeopleNext, Watchdog
  <2> QED
    BY <2>1
<1>3. CASE SettingsMove
  <2>1. SettingsNext /\ UNCHANGED <<storefrontVars, ticketsVars, trackingVars>>
    BY <1>3 DEF SettingsMove, OfSettings, SettingsNext
  <2> QED
    BY <2>1
<1>4. CASE TrackingMoves
  <2>1. TrackingNext /\ UNCHANGED <<storefrontVars, ticketsVars, settingsVars>>
    BY <1>4 DEF TrackingMoves, OfTracking, TrackingNext
  <2> QED
    BY <2>1
<1>5. CASE UNCHANGED upkeepVars
  BY <1>5 DEF upkeepVars
<1> QED
  BY <1>1, <1>2, <1>3, <1>4, <1>5 DEF UpkeepNext

LEMMA UpkeepKeeps == UpkeepSpec => []UpkeepInv
<1>1. UpkeepInit => UpkeepInv
  BY StorefrontStart, TicketsStart, SettingsStart, TrackingStart DEF UpkeepInit, UpkeepInv
<1>2. UpkeepInv /\ [UpkeepNext]_upkeepVars => UpkeepInv'
  BY OneUpkeepMoves, StorefrontStep, TicketsStep, SettingsStep, TrackingStep DEF UpkeepInv
<1> QED
  BY <1>1, <1>2, PTL DEF UpkeepSpec

\* Opening hours, tickets, settings and live tracking keep their ranges, for any number
\* of tickets, requests and changes; no copy of the settings comes before their row.
THEOREM UpkeepTyped == UpkeepSpec => []UpkeepTypeOK
<1>1. UpkeepInv => UpkeepTypeOK
  BY DEF UpkeepInv, UpkeepTypeOK, StorefrontInv, TicketsInv, SettingsInv
<1> QED
  BY <1>1, UpkeepKeeps, PTL

\* The half of ScheduleKept that is about steps, where all are explored together.
THEOREM HandWins == UpkeepSpec => StatusByHandStays
<1>1. UpkeepInv /\ [UpkeepNext]_upkeepVars =>
        [pass.op = "write" /\ pass'.op = "idle" /\ ~pass.overtaken
           => vendor.scheduled /\ ~vendor.deleted]_storefrontVars
  BY OneUpkeepMoves, WriteKnows DEF UpkeepInv
<1> QED
  BY <1>1, UpkeepKeeps, PTL DEF UpkeepSpec, StatusByHandStays
=============================================================================
