------------------------------- MODULE Places -------------------------------
(***************************************************************************)
(* Zones on the map and the branches of a vendor in them.  An edit of a    *)
(* branch reads it, looks for the zone, and writes position and zone with  *)
(* two statements; nothing is held in between.                             *)
(***************************************************************************)
EXTENDS Integers, FiniteSets

CONSTANTS
    Zones, Branches,    \* rows that can ever be created
    Spots,              \* positions, pairs of latitude and longitude
    Areas,              \* sets of spots that a boundary may enclose
    Planners            \* requests in flight

Mirror(s) == <<s[2], s[1]>>

ASSUME PlacesAssumption ==
    /\ Spots \subseteq Nat \X Nat /\ IsFiniteSet(Spots)
    /\ \A s \in Spots : Mirror(s) \in Spots
    /\ Areas \subseteq SUBSET Spots

VARIABLES
    zone,       \* zones rows
    branch,     \* vendor_branches rows
    plan,       \* requests in flight; alone: nobody changes the branch or a zone meanwhile
    unsure      \* branches changed by two at once, in part or by naming only a
                \* zone, or whose zone was changed

placesVars == <<zone, branch, plan, unsure>>

None == [state |-> "NONE"]
Nowhere == <<>>
NoZone == "none"

\* What an edit asks for and the branch it read; then the zone found for it, whether
\* a second statement is to come, and what of the place was named.
Edits ==
    [op : {"resolve"}, branch : Branches, spot : Spots \cup {Nowhere}, asked : Zones \cup {NoZone},
     other : BOOLEAN, was : [spot : Spots, zone : Zones], alone : BOOLEAN]
    \cup [op : {"move"}, branch : Branches, spot : Spots, found : Zones, again : BOOLEAN,
          alone : BOOLEAN]
    \cup [op : {"write"}, branch : Branches, named : {"spot", "zone", "none"}, found : Zones,
          alone : BOOLEAN]

PlacesTypeOK ==
    /\ zone \in [Zones -> {None} \cup [state : {"THERE"}, area : Areas, active : BOOLEAN]]
    /\ branch \in [Branches -> {None, [state |-> "GONE"]}
          \cup [state : {"THERE"}, spot : Spots, zone : Zones]]
    /\ plan \in [Planners -> {[op |-> "idle"]}
          \cup [op : {"insert"}, spot : Spots, found : Zones, alone : BOOLEAN]
          \cup [op : {"fields"}, zone : Zones, active : BOOLEAN]
          \cup Edits]
    /\ unsure \subseteq Branches

PlacesInit ==
    /\ zone = [z \in Zones |-> None]
    /\ branch = [b \in Branches |-> None]
    /\ plan = [e \in Planners |-> [op |-> "idle"]]
    /\ unsure = {}

Unplanned(e) == plan[e].op = "idle"
Plan(e, r) == plan' = [plan EXCEPT ![e] = r]
EndPlan(e) == Plan(e, [op |-> "idle"])

Standing(b) == branch[b].state = "THERE"
EditsOf(b) == {e \in Planners : plan[e].op \in {"resolve", "move", "write"} /\ plan[e].branch = b}

-----------------------------------------------------------------------------
(* Zones *)

Contains(z, s) == zone[z] # None /\ zone[z].active /\ s \in zone[z].area

\* What was found for the branches of a zone may not be so any more.
Disturbed(p) ==
    [e \in Planners |-> IF "alone" \in DOMAIN p[e] THEN [p[e] EXCEPT !.alone = FALSE] ELSE p[e]]
BranchesIn(z) == {b \in Branches : Standing(b) /\ branch[b].zone = z}

CreateZone(z, a, on) ==
    /\ zone[z] = None
    /\ zone' = [zone EXCEPT ![z] = [state |-> "THERE", area |-> a, active |-> on]]
    /\ UNCHANGED <<branch, plan, unsure>>

\* The boundary first, then the other fields, if there are any.
UpdateBoundary(e, z, a) ==
    /\ Unplanned(e) /\ zone[z] # None
    /\ zone' = [zone EXCEPT ![z].area = a]
    /\ unsure' = unsure \cup BranchesIn(z)
    /\ \E next \in {[op |-> "idle"]} \cup [op : {"fields"}, zone : {z}, active : BOOLEAN] :
          plan' = Disturbed([plan EXCEPT ![e] = next])
    /\ UNCHANGED branch

UpdateZoneFields(e, z, on) ==
    /\ Unplanned(e) /\ zone[z] # None
    /\ Plan(e, [op |-> "fields", zone |-> z, active |-> on])
    /\ UNCHANGED <<zone, branch, unsure>>

\* Fails where the zone is gone.
WriteZoneFields(e) ==
    /\ plan[e].op = "fields"
    /\ LET z == plan[e].zone IN
          /\ zone' = IF zone[z] = None THEN zone ELSE [zone EXCEPT ![z].active = plan[e].active]
          /\ unsure' = unsure \cup BranchesIn(z)
    /\ plan' = Disturbed([plan EXCEPT ![e] = [op |-> "idle"]])
    /\ UNCHANGED branch

\* The branches of a zone hold it.
DeleteZone(z) ==
    /\ zone[z] # None /\ BranchesIn(z) = {}
    /\ zone' = [zone EXCEPT ![z] = None]
    /\ plan' = Disturbed(plan)
    /\ UNCHANGED <<branch, unsure>>

\* ORDER BY ST_Area(boundary) ASC LIMIT 1
SmallestAround(s) ==
    {z \in Zones : Contains(z, s) /\ \A y \in Zones :
        Contains(y, s) => Cardinality(zone[z].area) <= Cardinality(zone[y].area)}

\* Mistake: the zone that is asked for is only looked up.
ResolveRequested(s, asked) ==
    IF asked # NoZone /\ zone[asked] # None /\ zone[asked].active THEN {asked} ELSE SmallestAround(s)

\* The zone that is asked for, if it contains the position, or another one.
ResolveValidZone(s, asked) ==
    IF asked # NoZone /\ Contains(asked, s) THEN {asked} ELSE SmallestAround(s)

-----------------------------------------------------------------------------
(* Branches *)

CreateBranch(e, s, asked) ==
    /\ Unplanned(e)
    /\ \E z \in ResolveValidZone(s, asked) :
          Plan(e, [op |-> "insert", spot |-> s, found |-> z, alone |-> TRUE])
    /\ UNCHANGED <<zone, branch, unsure>>

\* Fails where the zone is gone.
InsertBranch(e, b) ==
    /\ plan[e].op = "insert" /\ branch[b] = None
    /\ IF zone[plan[e].found] = None THEN UNCHANGED <<branch, unsure>>
       ELSE /\ branch' = [branch EXCEPT ![b] =
                 [state |-> "THERE", spot |-> plan[e].spot, zone |-> plan[e].found]]
            /\ unsure' = IF plan[e].alone THEN unsure ELSE unsure \cup {b}
    /\ EndPlan(e)
    /\ UNCHANGED zone

\* other: fields that have nothing to do with the place are given.
UpdateBranch(e, b, s, asked, other) ==
    /\ Unplanned(e) /\ Standing(b)
    /\ s # Nowhere \/ asked # NoZone \/ other
    /\ LET was == [spot |-> branch[b].spot, zone |-> branch[b].zone]
           met == EditsOf(b)
           edit == IF s = Nowhere /\ asked = NoZone
                   THEN [op |-> "write", branch |-> b, named |-> "none", found |-> was.zone,
                         alone |-> met = {}]
                   ELSE [op |-> "resolve", branch |-> b, spot |-> s, asked |-> asked,
                         other |-> other, was |-> was, alone |-> met = {}]
       IN  plan' = [f \in Planners |->
                      IF f = e THEN edit
                      ELSE IF f \in met THEN [plan[f] EXCEPT !.alone = FALSE] ELSE plan[f]]
    /\ UNCHANGED <<zone, branch, unsure>>

\* The position of a row comes with the longitude first, and is taken for one
\* with the latitude first.  A second statement follows if there is another field
\* or another zone.
ResolvePlace(e) ==
    /\ plan[e].op = "resolve"
    /\ LET r == plan[e]
           found == ResolveValidZone(IF r.spot # Nowhere THEN r.spot ELSE Mirror(r.was.spot),
                                     IF r.asked # NoZone THEN r.asked ELSE r.was.zone)
           again(z) == r.other \/ r.asked # NoZone \/ z # r.was.zone
       IN  \/ found = {} /\ EndPlan(e)
           \/ \E z \in found :
                 Plan(e, IF r.spot # Nowhere
                         THEN [op |-> "move", branch |-> r.branch, spot |-> r.spot, found |-> z,
                               again |-> again(z), alone |-> r.alone]
                         ELSE [op |-> "write", branch |-> r.branch, named |-> "zone", found |-> z,
                               alone |-> r.alone])
    /\ UNCHANGED <<zone, branch, unsure>>

\* What is known of the branch after an edit.
Settled(r, named) ==
    IF r.alone /\ named = "spot" THEN unsure \ {r.branch}
    ELSE IF ~r.alone \/ named = "zone" THEN unsure \cup {r.branch}
    ELSE unsure

MoveBranch(e) ==
    /\ plan[e].op = "move"
    /\ LET r == plan[e] IN
          /\ branch' = IF Standing(r.branch) THEN [branch EXCEPT ![r.branch].spot = r.spot] ELSE branch
          /\ IF r.again
             THEN /\ Plan(e, [op |-> "write", branch |-> r.branch, named |-> "spot",
                              found |-> r.found, alone |-> r.alone])
                  /\ UNCHANGED unsure
             ELSE EndPlan(e) /\ unsure' = Settled(r, "spot")
    /\ UNCHANGED zone

\* The zone is always among the fields.  Fails where the branch or the zone is gone.
WriteBranch(e) ==
    /\ plan[e].op = "write"
    /\ LET r == plan[e] IN
          /\ branch' = IF Standing(r.branch) /\ zone[r.found] # None
                       THEN [branch EXCEPT ![r.branch].zone = r.found] ELSE branch
          /\ unsure' = Settled(r, r.named)
    /\ EndPlan(e)
    /\ UNCHANGED zone

\* The database fails, or the process dies.
EditFails(e) ==
    /\ plan[e].op = "write"
    /\ unsure' = IF plan[e].named = "spot" THEN unsure \cup {plan[e].branch} ELSE unsure
    /\ EndPlan(e)
    /\ UNCHANGED <<zone, branch>>

RemoveBranch(b) ==
    /\ Standing(b)
    /\ branch' = [branch EXCEPT ![b] = [state |-> "GONE"]]
    /\ UNCHANGED <<zone, plan, unsure>>

PlacesNext ==
    \/ \E z \in Zones :
          \/ \E a \in Areas, on \in BOOLEAN : CreateZone(z, a, on)
          \/ DeleteZone(z)
          \/ \E e \in Planners :
                \/ \E a \in Areas : UpdateBoundary(e, z, a)
                \/ \E on \in BOOLEAN : UpdateZoneFields(e, z, on)
    \/ \E b \in Branches :
          \/ RemoveBranch(b)
          \/ \E e \in Planners :
                \/ InsertBranch(e, b)
                \/ \E s \in Spots \cup {Nowhere}, y \in Zones \cup {NoZone}, other \in BOOLEAN :
                      UpdateBranch(e, b, s, y, other)
    \/ \E e \in Planners :
          \/ \E s \in Spots, y \in Zones \cup {NoZone} : CreateBranch(e, s, y)
          \/ WriteZoneFields(e) \/ ResolvePlace(e) \/ MoveBranch(e) \/ WriteBranch(e) \/ EditFails(e)

PlacesSpec == PlacesInit /\ [][PlacesNext]_placesVars

-----------------------------------------------------------------------------
(* Properties *)

\* A branch lies in an active zone whose boundary contains it, whatever its edits
\* name (update, resolveValidZoneForLocation).  It may not after two edits at once,
\* one broken off between its statements, one that names a zone and no position,
\* or a change of the zone.
PlacedInZone ==
    \A b \in Branches \ unsure :
        Standing(b) /\ EditsOf(b) = {} => Contains(branch[b].zone, branch[b].spot)
=============================================================================
