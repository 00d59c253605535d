------------------------------ MODULE Sessions ------------------------------
(***************************************************************************)
(* Accounts of one e-mail address and their sessions.                      *)
(*                                                                         *)
(* A session is created last, by requests that decided long before that    *)
(* they may: a log-in or a refresh reads the account, and then a ban, a    *)
(* deletion or a password reset may end every session there is before the  *)
(* new one is there.  The codes sent to the address are of OneTimeCodes.   *)
(***************************************************************************)
EXTENDS Integers, FiniteSets

CONSTANTS
    Accounts,           \* users rows the address can ever have, in this order
    Sids,               \* sessions that can ever be created, in this order
    Threads             \* requests in flight

ASSUME SessionsAssumption ==
    /\ IsFiniteSet(Accounts) /\ Accounts = 1..Cardinality(Accounts)
    /\ IsFiniteSet(Sids) /\ Sids = 1..Cardinality(Sids)
    /\ IsFiniteSet(Threads)

VARIABLES
    user,       \* users rows: LIVE, ERASED (deletedAt, the address is free), GONE
    verified,   \* isEmailVerified
    banned,     \* isBanned
    linked,     \* the account a provider's identity belongs to (accounts row)
    session,    \* sessions rows
    thread      \* requests in flight

sessionsVars == <<user, verified, banned, linked, session, thread>>
accountsVars == <<user, verified, banned, linked>>

Nobody == 0

\* late: the account was revoked while the request that created it was under
\* way.  old: it survived a revocation.
SessionRows ==
    {[state |-> "NONE"], [state |-> "GONE"]}
    \cup [state : {"LIVE"}, user : Accounts, late : BOOLEAN, old : BOOLEAN]

ThreadRecords ==
    {[op |-> "idle"]}
    \cup [op : {"purge"}, user : Accounts]
    \cup [op : {"create"}, social : BOOLEAN]
    \cup [op : {"link"}, user : Accounts, banned : BOOLEAN, late : BOOLEAN]
    \cup [op : {"open"}, user : Accounts, late : BOOLEAN]
    \cup [op : {"rotate"}, user : Accounts, sid : Sids, late : BOOLEAN]
    \cup [op : {"endSessions"}, user : Accounts]

SessionsTypeOK ==
    /\ user \in [Accounts -> {"NONE", "LIVE", "ERASED", "GONE"}]
    /\ verified \subseteq Accounts
    /\ banned \subseteq Accounts
    /\ linked \in Accounts \cup {Nobody}
    /\ session \in [Sids -> SessionRows]
    /\ thread \in [Threads -> ThreadRecords]
    /\ \A a, b \in Accounts : user[a] = "LIVE" /\ user[b] = "LIVE" => a = b

SessionsInit ==
    /\ user = [a \in Accounts |-> "NONE"]
    /\ verified = {}
    /\ banned = {}
    /\ linked = Nobody
    /\ session = [s \in Sids |-> [state |-> "NONE"]]
    /\ thread = [t \in Threads |-> [op |-> "idle"]]

Holder(a) == user[a] = "LIVE"
Row(a) == user[a] \in {"LIVE", "ERASED"}
Live(s) == session[s].state = "LIVE"
Free(t) == thread[t].op = "idle"
Turns(t, r) == thread' = [thread EXCEPT ![t] = r]
Finishes(t) == Turns(t, [op |-> "idle"])

SessionsOf(a) == {s \in Sids : Live(s) /\ session[s].user = a}

\* Ends the sessions of S; what else the account has, is old from now on, and
\* the sessions being created for it are late.
Survivors(a, S) ==
    [s \in Sids |-> IF s \in S THEN [state |-> "GONE"]
                    ELSE IF s \in SessionsOf(a) THEN [session[s] EXCEPT !.old = TRUE]
                    ELSE session[s]]

Overtaken(a, t) ==
    IF thread[t].op \in {"open", "link", "rotate"} /\ thread[t].user = a
    THEN [thread[t] EXCEPT !.late = TRUE] ELSE thread[t]

Revoke(a, S) ==
    /\ session' = Survivors(a, S)
    /\ thread' = [t \in Threads |-> Overtaken(a, t)]

-----------------------------------------------------------------------------
(* Registration *)

Register(t) ==
    /\ Free(t)
    /\ \/ /\ ~\E a \in Accounts : Holder(a)
          /\ Turns(t, [op |-> "create", social |-> FALSE])
       \/ \E a \in Accounts \ verified :
             Holder(a) /\ Turns(t, [op |-> "purge", user |-> a])
    /\ UNCHANGED <<accountsVars, session>>

\* By id: the account may have been verified since.  Its sessions go with it, and
\* what links it to a provider.
PurgeUnverified(t) ==
    /\ thread[t].op = "purge"
    /\ LET a == thread[t].user IN
          IF Row(a)
          THEN /\ user' = [user EXCEPT ![a] = "GONE"]
               /\ session' = [s \in Sids |->
                     IF s \in SessionsOf(a) THEN [state |-> "GONE"] ELSE session[s]]
               /\ linked' = IF linked = a THEN Nobody ELSE linked
               /\ Turns(t, [op |-> "create", social |-> FALSE])
          ELSE Finishes(t) /\ UNCHANGED <<user, linked, session>>
    /\ UNCHANGED <<verified, banned>>

NewAccount(a) == user[a] = "NONE" /\ \A b \in 1..(a - 1) : user[b] # "NONE"

\* An admin's registration makes the account verified, as a provider does.
Insert(t, a) ==
    /\ user' = [user EXCEPT ![a] = "LIVE"]
    /\ verified' \in (IF thread[t].social THEN {} ELSE {verified}) \cup {verified \cup {a}}
    /\ linked' = IF thread[t].social THEN a ELSE linked
    /\ Turns(t, [op |-> "open", user |-> a, late |-> FALSE])

\* Mistake: the account that was looked for before is not there now, either.
CreateUserUnchecked(t) ==
    /\ thread[t].op = "create"
    /\ \E a \in Accounts : NewAccount(a) /\ Insert(t, a)
    /\ UNCHANGED <<banned, session>>

\* register, and the registration a social log-in makes: fails on the address, or
\* on the provider's identity, if somebody has it by now.
CreateUser(t) ==
    /\ thread[t].op = "create"
    /\ IF (\E a \in Accounts : Holder(a)) \/ (thread[t].social /\ linked # Nobody)
       THEN Finishes(t) /\ UNCHANGED <<user, verified, linked>>
       ELSE \E a \in Accounts : NewAccount(a) /\ Insert(t, a)
    /\ UNCHANGED <<banned, session>>

-----------------------------------------------------------------------------
(* Sessions *)

\* With the password.
Login(t, a) ==
    /\ Free(t)
    /\ Holder(a)
    /\ a \in verified \ banned
    /\ Turns(t, [op |-> "open", user |-> a, late |-> FALSE])
    /\ UNCHANGED <<accountsVars, session>>

\* With an identity of the provider: the account it belongs to, deleted or not;
\* else the one of the address, verified or not; else a new one.
SocialLogin(t) ==
    /\ Free(t)
    /\ \/ /\ linked # Nobody /\ linked \notin banned
          /\ Turns(t, [op |-> "open", user |-> linked, late |-> FALSE])
       \/ /\ linked = Nobody
          /\ \E a \in Accounts : Holder(a) /\ Turns(t, [op |-> "link", user |-> a, banned |-> a \in banned, late |-> FALSE])
       \/ /\ linked = Nobody /\ ~\E a \in Accounts : Holder(a)
          /\ Turns(t, [op |-> "create", social |-> TRUE])
    /\ UNCHANGED <<accountsVars, session>>

\* A banned account, as read before, is linked but gets no session.
LinkAccount(t) ==
    /\ thread[t].op = "link"
    /\ LET a == thread[t].user IN
          IF Row(a) /\ linked = Nobody
          THEN /\ linked' = a
               /\ IF thread[t].banned THEN Finishes(t)
                  ELSE Turns(t, [op |-> "open", user |-> a, late |-> thread[t].late])
          ELSE Finishes(t) /\ UNCHANGED linked
    /\ UNCHANGED <<user, verified, banned, session>>

NextSid == Cardinality({s \in Sids : session[s].state # "NONE"}) + 1

\* The row refers to the account, which must still be there, deleted softly or not.
CreateSession(t) ==
    /\ thread[t].op = "open"
    /\ LET a == thread[t].user IN
          IF Row(a)
          THEN /\ NextSid \in Sids
               /\ session' = [session EXCEPT ![NextSid] =
                     [state |-> "LIVE", user |-> a, late |-> thread[t].late, old |-> FALSE]]
          ELSE UNCHANGED session
    /\ Finishes(t)
    /\ UNCHANGED accountsVars

RefreshTokens(t, s) ==
    /\ Free(t)
    /\ Live(s)
    /\ session[s].user \notin banned
    /\ Turns(t, [op |-> "rotate", user |-> session[s].user, sid |-> s,
                 late |-> session[s].late])
    /\ UNCHANGED <<accountsVars, session>>

\* That there was still something to delete is not looked at.
Rotate(t) ==
    /\ thread[t].op = "rotate"
    /\ session' = [session EXCEPT ![thread[t].sid] = [state |-> "GONE"]]
    /\ Turns(t, [op |-> "open", user |-> thread[t].user, late |-> thread[t].late])
    /\ UNCHANGED accountsVars

\* logout, and a refresh with a session that has expired.
Logout(s) ==
    /\ Live(s)
    /\ session' = [session EXCEPT ![s] = [state |-> "GONE"]]
    /\ UNCHANGED <<accountsVars, thread>>

\* handleExpiredSessionsCleanup: those that expired long ago.
CleanUpSessions(S) ==
    /\ S # {} /\ \A s \in S : Live(s)
    /\ session' = [s \in Sids |-> IF s \in S THEN [state |-> "GONE"] ELSE session[s]]
    /\ UNCHANGED <<accountsVars, thread>>

\* Mistake: a session that came late is left out.
RevokeAllButLate(a) ==
    /\ Row(a)
    /\ Revoke(a, {s \in SessionsOf(a) : ~session[s].late})
    /\ UNCHANGED accountsVars

\* logoutAll, adminRevokeAllSessions.
RevokeAll(a) ==
    /\ Row(a)
    /\ Revoke(a, SessionsOf(a))
    /\ UNCHANGED accountsVars

ChangePassword(s) ==
    /\ Live(s)
    /\ LET a == session[s].user IN
          /\ session' = [x \in Sids |->
                IF x \in SessionsOf(a) \ {s} THEN [state |-> "GONE"] ELSE session[x]]
          /\ thread' = [t \in Threads |-> Overtaken(a, t)]
    /\ UNCHANGED accountsVars

AdminBan(a) ==
    /\ Row(a)
    /\ banned' = banned \cup {a}
    /\ Revoke(a, SessionsOf(a))
    /\ UNCHANGED <<user, verified, linked>>

AdminUnban(a) ==
    /\ a \in banned
    /\ banned' = banned \ {a}
    /\ UNCHANGED <<user, verified, linked, session, thread>>

\* deleteAccount, adminRemove: whether the account may go is of Ownership.
DeleteAccount(a) ==
    /\ Row(a)
    /\ user' = [user EXCEPT ![a] = "ERASED"]
    /\ Revoke(a, SessionsOf(a))
    /\ UNCHANGED <<verified, banned, linked>>

\* adminUpdate; a change of the own address takes the mark away, too.
AdminUpdate(a) ==
    /\ Row(a)
    /\ verified' \in {verified \cup {a}, verified \ {a}}
    /\ UNCHANGED <<user, banned, linked, session, thread>>

-----------------------------------------------------------------------------
(* What a right code is good for *)

\* verifyContact: whoever has the address by now.
VerifyContact(a) ==
    /\ Holder(a)
    /\ verified' = verified \cup {a}
    /\ UNCHANGED <<user, banned, linked, session, thread>>

\* The new password; the sessions follow.
ResetPassword(t, a) ==
    /\ Free(t)
    /\ Holder(a)
    /\ Turns(t, [op |-> "endSessions", user |-> a])
    /\ UNCHANGED <<accountsVars, session>>

\* The last write of resetPassword.
EndSessions(t) ==
    /\ thread[t].op = "endSessions"
    /\ LET a == thread[t].user IN
          /\ session' = Survivors(a, SessionsOf(a))
          /\ thread' = [[x \in Threads |-> Overtaken(a, x)] EXCEPT ![t] = [op |-> "idle"]]
    /\ UNCHANGED accountsVars

-----------------------------------------------------------------------------

AccountNext ==
    \/ \E t \in Threads : Register(t) \/ PurgeUnverified(t) \/ CreateUser(t)
    \/ \E a \in Accounts :
          AdminBan(a) \/ AdminUnban(a) \/ DeleteAccount(a) \/ AdminUpdate(a)
          \/ RevokeAll(a) \/ VerifyContact(a)

SessionNext ==
    \/ \E t \in Threads :
          \/ SocialLogin(t) \/ LinkAccount(t)
          \/ CreateSession(t) \/ Rotate(t) \/ EndSessions(t)
          \/ \E a \in Accounts : Login(t, a) \/ ResetPassword(t, a)
          \/ \E s \in Sids : RefreshTokens(t, s)
    \/ \E s \in Sids : Logout(s) \/ ChangePassword(s)
    \/ \E S \in SUBSET Sids : CleanUpSessions(S)

SessionsNext == AccountNext \/ SessionNext

SessionsSpec == SessionsInit /\ [][SessionsNext]_sessionsVars

-----------------------------------------------------------------------------
(* Properties *)

\* A revocation (log-out everywhere, password change or reset, ban, deletion)
\* ends the sessions there are, however they came about; what a banned or
\* deleted account has afterwards was under way already.  A deleted account that
\* a provider's identity belongs to is not out: socialLogin does not look.
RevokedSessionsEnd ==
    \A s \in Sids : Live(s) =>
        LET a == session[s].user IN
        /\ ~session[s].old
        /\ a \in banned \/ (user[a] = "ERASED" /\ a # linked) => session[s].late
=============================================================================
