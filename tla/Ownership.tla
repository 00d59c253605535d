------------------------------ MODULE Ownership ------------------------------
(***************************************************************************)
(* Who is a member of which vendor, and in which role.  The members of a   *)
(* vendor are changed with its row locked; the deletion of an account and  *)
(* an admin's edit of a user read the memberships of the user first, and   *)
(* lock the vendors of those he owns one after the other.                  *)
(***************************************************************************)
EXTENDS Integers, FiniteSets

CONSTANTS
    Vendors,
    Members,            \* users that can be members of a vendor
    Removals            \* transactions on a user's memberships

ASSUME OwnershipAssumption == IsFiniteSet(Vendors) /\ IsFiniteSet(Members)

VARIABLES
    role,       \* vendor_members rows: the role of each user at each vendor
    erased,     \* users with a deletedAt
    removal,    \* transactions under way
    slipped     \* vendors an owner was taken from by a transaction that had not locked them

ownershipVars == <<role, erased, removal, slipped>>

VendorMemberRole == {"OWNER", "MANAGER", "STAFF"}

\* owned: vendors whose count of owners is still to be looked at.
RemovalRecords ==
    {[op |-> "idle"]}
    \cup [op : {"erase"}, user : Members, owned : SUBSET Vendors, locked : SUBSET Vendors]
    \cup [op : {"update"}, user : Members, owned : SUBSET Vendors, locked : SUBSET Vendors,
          vendor : Vendors \cup {"none"}, role : VendorMemberRole]

OwnershipTypeOK ==
    /\ role \in [Vendors -> [Members -> VendorMemberRole \cup {"NONE"}]]
    /\ erased \subseteq Members
    /\ slipped \subseteq Vendors
    /\ removal \in [Removals -> RemovalRecords]
    /\ \A t, x \in Removals :
          t # x /\ removal[t].op # "idle" /\ removal[x].op # "idle"
             => removal[t].locked \cap removal[x].locked = {}

\* The first owner of a vendor is added by an admin.
OwnershipInit ==
    /\ role \in [Vendors -> {[u \in Members |-> IF u = o THEN "OWNER" ELSE "NONE"] : o \in Members}]
    /\ erased = {}
    /\ slipped = {}
    /\ removal = [t \in Removals |-> [op |-> "idle"]]

Owners(v) == {u \in Members : role[v][u] = "OWNER"}
LivingOwners(v) == Owners(v) \ erased

\* Mistake: nobody waits for the vendor.
UnlockedAlways(v) == TRUE

\* SELECT ... FOR UPDATE gets the row.
Unlocked(v) == \A t \in Removals : removal[t].op # "idle" => v \notin removal[t].locked

RemovalEnds(t) == removal' = [removal EXCEPT ![t] = [op |-> "idle"]]

-----------------------------------------------------------------------------
(* Members of a vendor *)

\* The vendor is not locked, and the account may be a deleted one.
AddMember(u, v, r) ==
    /\ role[v][u] = "NONE"
    /\ role' = [role EXCEPT ![v][u] = r]
    /\ UNCHANGED <<erased, removal, slipped>>

\* Mistake: the owners are counted before the change.
OwnerRequiredBefore(v) == Owners(v) # {}

\* The change is rolled back when it leaves no owner.
OwnerRequired(v) == \E u \in Members : role'[v][u] = "OWNER"

UpdateRole(u, v, r) ==
    /\ Unlocked(v)
    /\ role[v][u] # "NONE"
    /\ role' = [role EXCEPT ![v][u] = r]
    /\ role[v][u] = "OWNER" /\ r # "OWNER" => OwnerRequired(v)
    /\ UNCHANGED <<erased, removal, slipped>>

\* Nobody removes himself, but an admin removes anybody.
RemoveMember(u, v) ==
    /\ Unlocked(v)
    /\ role[v][u] # "NONE"
    /\ role' = [role EXCEPT ![v][u] = "NONE"]
    /\ role[v][u] = "OWNER" => OwnerRequired(v)
    /\ UNCHANGED <<erased, removal, slipped>>

-----------------------------------------------------------------------------
(* Transactions on a user's memberships *)

OwnedBy(u) == {v \in Vendors : role[v][u] = "OWNER"}

\* deleteAccount as well; neither asks whether the account is deleted already.
AdminRemove(t, u) ==
    /\ removal[t].op = "idle"
    /\ removal' = [removal EXCEPT ![t] =
          [op |-> "erase", user |-> u, owned |-> OwnedBy(u), locked |-> {}]]
    /\ UNCHANGED <<role, erased, slipped>>

\* To a role other than VENDOR_MEMBER, vendor = "none", or to a vendor.
AdminUpdateUser(t, u, v, r) ==
    /\ removal[t].op = "idle"
    /\ removal' = [removal EXCEPT ![t] =
          [op |-> "update", user |-> u, owned |-> OwnedBy(u), locked |-> {},
           vendor |-> v, role |-> r]]
    /\ UNCHANGED <<role, erased, slipped>>

\* Mistake: the owner who leaves is counted for another one.
LetGoLast(t, v) == Cardinality(Owners(v)) > 0

\* Rows of deleted accounts count.
LetGo(t, v) ==
    \/ Cardinality(Owners(v)) > 1
    \/ removal[t].op = "update" /\ removal[t].vendor = v /\ removal[t].role = "OWNER"

\* The vendor's row is held until the transaction ends; one without another
\* owner ends it: LAST_OWNER_OF_VENDOR.
CountOwners(t, v) ==
    /\ removal[t].op # "idle"
    /\ v \in removal[t].owned
    /\ Unlocked(v)
    /\ IF LetGo(t, v)
       THEN removal' = [removal EXCEPT ![t].owned = @ \ {v}, ![t].locked = @ \cup {v}]
       ELSE RemovalEnds(t)
    /\ UNCHANGED <<role, erased, slipped>>

\* The row of the user at the vendor stays what it was.
EraseAccount(t) ==
    /\ removal[t].op = "erase" /\ removal[t].owned = {}
    /\ erased' = erased \cup {removal[t].user}
    /\ slipped' = slipped \cup (OwnedBy(removal[t].user) \ removal[t].locked)
    /\ RemovalEnds(t)
    /\ UNCHANGED role

\* Every membership there is by now, those of adminUpdate's first read or not.
ReplaceMemberships(t) ==
    /\ removal[t].op = "update" /\ removal[t].owned = {}
    /\ role' = [v \in Vendors |-> [role[v] EXCEPT ![removal[t].user] =
          IF v = removal[t].vendor THEN removal[t].role ELSE "NONE"]]
    /\ slipped' = slipped \cup
          {v \in OwnedBy(removal[t].user) \ removal[t].locked : role'[v][removal[t].user] # "OWNER"}
    /\ RemovalEnds(t)
    /\ UNCHANGED erased

\* Two that wait for each other's vendor, or the limit of a transaction.
RollBack(t) ==
    /\ removal[t].op # "idle"
    /\ RemovalEnds(t)
    /\ UNCHANGED <<role, erased, slipped>>

OwnershipNext ==
    \/ \E u \in Members, v \in Vendors :
          \/ RemoveMember(u, v)
          \/ \E r \in VendorMemberRole : AddMember(u, v, r) \/ UpdateRole(u, v, r)
    \/ \E t \in Removals :
          \/ \E u \in Members :
                \/ AdminRemove(t, u)
                \/ \E v \in Vendors \cup {"none"}, r \in VendorMemberRole :
                      AdminUpdateUser(t, u, v, r)
          \/ \E v \in Vendors : CountOwners(t, v)
          \/ EraseAccount(t) \/ ReplaceMemberships(t) \/ RollBack(t)

OwnershipSpec == OwnershipInit /\ [][OwnershipNext]_ownershipVars

-----------------------------------------------------------------------------
(* Properties *)

\* Nobody is the last to have an owner's row at a vendor and loses it, whoever
\* leaves together with whom.  This and the next property leave out the vendors an
\* owner was taken from who had become one after his memberships were read
\* (users.service adminUpdate; vendor-members.service updateRole, removeMember).
VendorKeepsOwner == \A v \in Vendors \ slipped : Owners(v) # {}

\* Nor does the last owner whose account exists leave a vendor, neither together with
\* another nor by the deletion of his account, but where an account deleted earlier
\* still has an owner's row there and is counted for him (deleteAccount, adminRemove,
\* adminUpdate, updateRole, removeMember).
LastOwnerStays ==
    [][\A v \in Vendors \ slipped' :
          LivingOwners(v) # {} /\ LivingOwners(v)' = {}
             => Owners(v) \cap erased # {}]_ownershipVars
=============================================================================
