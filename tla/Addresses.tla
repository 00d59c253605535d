------------------------------ MODULE Addresses ------------------------------
(***************************************************************************)
(* The addresses and the favourites of a customer, who may have several    *)
(* requests in flight.  An address becomes the default in a transaction    *)
(* that first clears what its statement sees; a favourite is toggled by    *)
(* the id of the row that was found, if one was.                           *)
(***************************************************************************)
EXTENDS Integers, FiniteSets

CONSTANTS
    Addresses,          \* rows that can ever be created
    Favourites,         \* favorite_vendors rows, in the order they are created
    Taps                \* requests in flight

ASSUME AddressesAssumption ==
    /\ IsFiniteSet(Taps) /\ IsFiniteSet(Addresses)
    /\ IsFiniteSet(Favourites) /\ Favourites = 1..Cardinality(Favourites)

VARIABLES
    address,        \* addresses rows
    favourite,      \* id of the favorite_vendors row of a vendor, 0 without one
    created,        \* rows created for it so far
    tap,            \* requests in flight
    toggles         \* toggles that were answered, modulo 2

addressesVars == <<address, favourite, created, tap, toggles>>

\* cleared: addresses that the transaction clears when it commits.
TapRecords == {[op |-> "idle"]}
    \cup [op : {"insert"}, cleared : SUBSET Addresses]
    \cup [op : {"update"}, address : Addresses, cleared : SUBSET Addresses]
    \cup [op : {"toggle"}, found : Favourites \cup {0}]

AddressesTypeOK ==
    /\ address \in [Addresses -> {"NONE", "plain", "default", "GONE"}]
    /\ favourite \in Favourites \cup {0}
    /\ created \in Favourites \cup {0}
    /\ tap \in [Taps -> TapRecords]
    /\ toggles \in {0, 1}

AddressesInit ==
    /\ address = [a \in Addresses |-> "NONE"]
    /\ favourite = 0
    /\ created = 0
    /\ tap = [t \in Taps |-> [op |-> "idle"]]
    /\ toggles = 0

Ready(t) == tap[t].op = "idle"
Tap(t, r) == tap' = [tap EXCEPT ![t] = r]
Answer(t) == Tap(t, [op |-> "idle"])

Kept == {a \in Addresses : address[a] \in {"plain", "default"}}

-----------------------------------------------------------------------------
(* Addresses *)

AddAddress(a) ==
    /\ address[a] = "NONE"
    /\ address' = [address EXCEPT ![a] = "plain"]
    /\ UNCHANGED <<favourite, created, tap, toggles>>

\* Mistake: only the address itself is written.
ClearedNone(t) == {}

\* updateMany: the rows that are there when the statement begins.
Cleared(t) == Kept

\* createAddress with isDefault
CreateDefault(t) ==
    /\ Ready(t)
    /\ Tap(t, [op |-> "insert", cleared |-> Cleared(t)])
    /\ UNCHANGED <<address, favourite, created, toggles>>

\* updateAddress with isDefault
MakeDefault(t, a) ==
    /\ Ready(t) /\ a \in Kept
    /\ Tap(t, [op |-> "update", address |-> a, cleared |-> Cleared(t) \ {a}])
    /\ UNCHANGED <<address, favourite, created, toggles>>

ClearedBy(t) == [x \in Addresses |-> IF x \in tap[t].cleared \cap Kept THEN "plain" ELSE address[x]]

CommitInsert(t, a) ==
    /\ tap[t].op = "insert" /\ address[a] = "NONE"
    /\ address' = [ClearedBy(t) EXCEPT ![a] = "default"]
    /\ Answer(t)
    /\ UNCHANGED <<favourite, created, toggles>>

\* An address that is gone is not written, and what was cleared stays so.
CommitUpdate(t) ==
    /\ tap[t].op = "update"
    /\ address' = [ClearedBy(t) EXCEPT ![tap[t].address] = IF @ = "GONE" THEN @ ELSE "default"]
    /\ Answer(t)
    /\ UNCHANGED <<favourite, created, toggles>>

\* The transaction fails, as where two wait for one another.
AddressFails(t) ==
    /\ tap[t].op \in {"insert", "update"}
    /\ Answer(t)
    /\ UNCHANGED <<address, favourite, created, toggles>>

\* updateAddress with isDefault = FALSE
ClearDefault(a) ==
    /\ address[a] = "default"
    /\ address' = [address EXCEPT ![a] = "plain"]
    /\ UNCHANGED <<favourite, created, tap, toggles>>

DeleteAddress(a) ==
    /\ a \in Kept
    /\ address' = [address EXCEPT ![a] = "GONE"]
    /\ UNCHANGED <<favourite, created, tap, toggles>>

-----------------------------------------------------------------------------
(* Favourites *)

ToggleFavourite(t) ==
    /\ Ready(t)
    /\ Tap(t, [op |-> "toggle", found |-> favourite])
    /\ UNCHANGED <<address, favourite, created, toggles>>

\* Fails where the row that was found is gone, or another one was created.
WriteFavourite(t) ==
    /\ tap[t].op = "toggle"
    /\ IF tap[t].found # favourite THEN UNCHANGED <<favourite, created, toggles>>
       ELSE /\ toggles' = 1 - toggles
            /\ \/ favourite # 0 /\ favourite' = 0 /\ UNCHANGED created
               \/ /\ favourite = 0
                  /\ created + 1 \in Favourites
                  /\ created' = created + 1
                  /\ favourite' = created'
    /\ Answer(t)
    /\ UNCHANGED address

AddressesNext ==
    \/ \E a \in Addresses : AddAddress(a) \/ ClearDefault(a) \/ DeleteAddress(a)
    \/ \E t \in Taps :
          \/ CreateDefault(t) \/ CommitUpdate(t) \/ AddressFails(t)
          \/ ToggleFavourite(t) \/ WriteFavourite(t)
          \/ \E a \in Addresses : MakeDefault(t, a) \/ CommitInsert(t, a)

AddressesSpec == AddressesInit /\ [][AddressesNext]_addressesVars

-----------------------------------------------------------------------------
(* Properties *)

\* There are no more default addresses than the customer had requests in flight at
\* once; one, if they come one by one (createAddress, updateAddress).
DefaultsBounded == Cardinality({a \in Addresses : address[a] = "default"}) <= Cardinality(Taps)

\* Every answered toggle toggled: two taps at once never count as one
\* (toggleFavoriteVendor, toggleFavoriteProduct).
TogglesCount == (favourite # 0) <=> (toggles = 1)
=============================================================================
