------------------------------ MODULE Settings ------------------------------
(***************************************************************************)
(* The row of platform settings and its copy in the cache of Redis, which  *)
(* nearly every service reads.  The row is written and the copy removed one *)
(* after the other, while readers of an older row may be about to store it. *)
(***************************************************************************)
EXTENDS Integers

CONSTANTS
    Consumers,          \* requests that read the settings
    Admins,             \* requests that change them
    MaxVersions         \* bound: changes of the row

ASSUME SettingsAssumption == MaxVersions \in Nat \ {0}

VARIABLES
    settingsRow,    \* version of the row, NoRow before the first boot
    copied,         \* the copy in the cache
    consumer, admin \* requests under way

settingsVars == <<settingsRow, copied, consumer, admin>>

NoRow == 0
NoCopy == 0
Versions == 1..MaxVersions

SettingsTypeOK ==
    /\ settingsRow \in Versions \cup {NoRow}
    /\ copied \in Versions \cup {NoCopy}
    /\ consumer \in [Consumers -> {[op |-> "idle"], [op |-> "seed"], [op |-> "reread"]}
                                  \cup [op : {"store"}, version : Versions]]
    /\ admin \in [Admins -> {"idle", "forget"}]
    /\ settingsRow = NoRow => copied = NoCopy

SettingsInit ==
    /\ settingsRow = NoRow
    /\ copied = NoCopy
    /\ consumer = [r \in Consumers |-> [op |-> "idle"]]
    /\ admin = [a \in Admins |-> "idle"]

Consumer(r, s) == consumer' = [consumer EXCEPT ![r] = s]

\* A copy there is what getSettings answers, without a step.
GetSettings(r) ==
    /\ consumer[r].op = "idle"
    /\ copied = NoCopy
    /\ Consumer(r, IF settingsRow = NoRow THEN [op |-> "seed"]
                   ELSE [op |-> "store", version |-> settingsRow])
    /\ UNCHANGED <<settingsRow, copied, admin>>

\* Where another reader or a change was first, P2002: the row is read again.
SeedDefaults(r) ==
    /\ consumer[r].op = "seed"
    /\ IF settingsRow = NoRow
       THEN settingsRow' = 1 /\ Consumer(r, [op |-> "store", version |-> 1])
       ELSE Consumer(r, [op |-> "reread"]) /\ UNCHANGED settingsRow
    /\ UNCHANGED <<copied, admin>>

ReadSeeded(r) ==
    /\ consumer[r].op = "reread"
    /\ Consumer(r, [op |-> "store", version |-> settingsRow])
    /\ UNCHANGED <<settingsRow, copied, admin>>

\* For an hour.
StoreCopy(r) ==
    /\ consumer[r].op = "store"
    /\ copied' = consumer[r].version
    /\ Consumer(r, [op |-> "idle"])
    /\ UNCHANGED <<settingsRow, admin>>

\* Mistake: a copy lives until a change removes it.
ExpireNever == FALSE /\ UNCHANGED settingsVars

ExpireCopy ==
    /\ copied # NoCopy
    /\ copied' = NoCopy
    /\ UNCHANGED <<settingsRow, consumer, admin>>

\* Also uploadHomeCover and its like; a request that fails or dies after the row
\* was written leaves the copy.
UpdateSettings(a) ==
    /\ admin[a] = "idle"
    /\ settingsRow < MaxVersions
    /\ settingsRow' = settingsRow + 1
    /\ \E next \in {"idle", "forget"} : admin' = [admin EXCEPT ![a] = next]
    /\ UNCHANGED <<copied, consumer>>

ForgetCopy(a) ==
    /\ admin[a] = "forget"
    /\ copied' = NoCopy
    /\ admin' = [admin EXCEPT ![a] = "idle"]
    /\ UNCHANGED <<settingsRow, consumer>>

SettingsNext ==
    \/ \E r \in Consumers : GetSettings(r) \/ SeedDefaults(r) \/ ReadSeeded(r) \/ StoreCopy(r)
    \/ \E a \in Admins : UpdateSettings(a) \/ ForgetCopy(a)
    \/ ExpireCopy

SettingsSpec == SettingsInit /\ [][SettingsNext]_settingsVars

\* A copy lives for an hour, and a request that has read the row goes on.
SettingsFairness ==
    /\ WF_settingsVars(ExpireCopy)
    /\ \A r \in Consumers : WF_settingsVars(SeedDefaults(r) \/ ReadSeeded(r) \/ StoreCopy(r))

SettingsFairSpec == SettingsSpec /\ SettingsFairness

-----------------------------------------------------------------------------
(* Properties *)

\* Once the settings change no more, no service works with an older version for
\* good, although a reader of the older row may store it after the copy was
\* removed (getSettings, updateSettings).
SettingsSettle == <>[](copied \in {NoCopy, settingsRow})
=============================================================================
