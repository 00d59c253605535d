------------------------------- MODULE Choices -------------------------------
(***************************************************************************)
(* What there is to choose of a product: groups of options, of the product *)
(* itself or of one of its variants, and the lines of carts that chose     *)
(* some.  A line is checked against what was read, and written later.      *)
(***************************************************************************)
EXTENDS FiniteSets

CONSTANTS
    Bearers,            \* products without variants, and variants
    Family,             \* the product of each
    OptionGroups, Options, Picks,   \* rows that can ever be created
    Buyers              \* requests in flight

ASSUME ChoicesAssumption ==
    /\ Family \in [Bearers -> STRING]
    /\ {"NONE", "GONE", "custom"} \cap (Bearers \cup OptionGroups) = {}

VARIABLES
    bearer,     \* whether it is offered
    group,      \* what each productOptionGroups row is about
    option,     \* productOptions rows
    pick,       \* cart_items rows with their options
    buyer       \* lines about to be written

choicesVars == <<bearer, group, option, pick, buyer>>

Absent == [group |-> "NONE"]
Removed == [group |-> "GONE"]

ChoicesTypeOK ==
    /\ bearer \in [Bearers -> {"active", "inactive", "gone"}]
    /\ group \in [OptionGroups -> Bearers \cup {"NONE", "GONE"}]
    /\ option \in [Options -> {Absent, Removed} \cup [group : OptionGroups, active : BOOLEAN]]
    /\ pick \in [Picks -> {[state |-> "NONE"], [state |-> "GONE"]}
          \cup [state : {"IN"}, of : Bearers \cup {"custom"}, options : SUBSET Options, edited : BOOLEAN]]
    /\ buyer \in [Buyers -> {[op |-> "idle"]}
          \cup [op : {"add"}, of : Bearers, options : SUBSET Options]]

ChoicesInit ==
    /\ bearer = [x \in Bearers |-> "active"]
    /\ group = [g \in OptionGroups |-> "NONE"]
    /\ option = [o \in Options |-> Absent]
    /\ pick = [l \in Picks |-> [state |-> "NONE"]]
    /\ buyer = [b \in Buyers |-> [op |-> "idle"]]

Present == {o \in Options : option[o].group \in OptionGroups}

-----------------------------------------------------------------------------
(* The vendor: what a handler asserts first, the database asserts again. *)

\* With its options, in one transaction (addOptionGroup, createOptionGroups).
AddOptionGroup(x, g, O) ==
    /\ bearer[x] # "gone" /\ group[g] = "NONE"
    /\ \A o \in O : option[o] = Absent
    /\ group' = [group EXCEPT ![g] = x]
    /\ option' = [o \in Options |-> IF o \in O THEN [group |-> g, active |-> TRUE] ELSE option[o]]
    /\ UNCHANGED <<bearer, pick, buyer>>

AddOption(g, o, on) ==
    /\ group[g] \in Bearers /\ option[o] = Absent
    /\ option' = [option EXCEPT ![o] = [group |-> g, active |-> on]]
    /\ UNCHANGED <<bearer, group, pick, buyer>>

UpdateOption(o, on) ==
    /\ o \in Present
    /\ option' = [option EXCEPT ![o].active = on]
    /\ UNCHANGED <<bearer, group, pick, buyer>>

\* Lines lose the options that go.
WithoutOptions(O) ==
    /\ option' = [o \in Options |-> IF o \in O THEN Removed ELSE option[o]]
    /\ pick' = [l \in Picks |-> IF pick[l].state = "IN"
                                THEN [pick[l] EXCEPT !.options = @ \ O] ELSE pick[l]]

OptionsIn(G) == {o \in Present : option[o].group \in G}

RemoveOption(o) ==
    /\ o \in Present
    /\ WithoutOptions({o})
    /\ UNCHANGED <<bearer, group, buyer>>

RemoveOptionGroup(g) ==
    /\ group[g] \in Bearers
    /\ WithoutOptions(OptionsIn({g}))
    /\ group' = [group EXCEPT ![g] = "GONE"]
    /\ UNCHANGED <<bearer, buyer>>

OfferBearer(x, on) ==
    /\ bearer[x] # "gone"
    /\ bearer' = [bearer EXCEPT ![x] = IF on THEN "active" ELSE "inactive"]
    /\ UNCHANGED <<group, option, pick, buyer>>

\* With its groups, their options and the lines that have it.
RemoveBearer(x) ==
    /\ bearer[x] # "gone"
    /\ bearer' = [bearer EXCEPT ![x] = "gone"]
    /\ LET G == {g \in OptionGroups : group[g] = x} IN
          /\ group' = [g \in OptionGroups |-> IF g \in G THEN "GONE" ELSE group[g]]
          /\ option' = [o \in Options |-> IF o \in OptionsIn(G) THEN Removed ELSE option[o]]
          /\ pick' = [l \in Picks |->
                IF pick[l].state # "IN" THEN pick[l]
                ELSE IF pick[l].of = x THEN [state |-> "GONE"]
                ELSE [pick[l] EXCEPT !.options = @ \ OptionsIn(G)]]
    /\ UNCHANGED buyer

-----------------------------------------------------------------------------
(* Carts *)

OptionsUnder(X) == OptionsIn({g \in OptionGroups : group[g] \in X})

\* Mistake: those of the whole product.
ValidOptionsUnderProduct(x) == {o \in OptionsUnder({y \in Bearers : Family[y] = Family[x]}) : option[o].active}

\* validateOptions
ValidOptions(x) == {o \in OptionsUnder({x}) : option[o].active}

CheckPick(b, x, O) ==
    /\ buyer[b].op = "idle"
    /\ bearer[x] = "active" /\ O \subseteq ValidOptions(x)
    /\ buyer' = [buyer EXCEPT ![b] = [op |-> "add", of |-> x, options |-> O]]
    /\ UNCHANGED <<bearer, group, option, pick>>

\* Fails where something that the line refers to is gone.
WritePick(b, l) ==
    /\ buyer[b].op = "add" /\ pick[l].state = "NONE"
    /\ pick' = IF bearer[buyer[b].of] # "gone" /\ buyer[b].options \subseteq Present
               THEN [pick EXCEPT ![l] = [state |-> "IN", of |-> buyer[b].of,
                                         options |-> buyer[b].options, edited |-> FALSE]]
               ELSE pick
    /\ buyer' = [buyer EXCEPT ![b] = [op |-> "idle"]]
    /\ UNCHANGED <<bearer, group, option>>

\* The offer of a message that names no product: no option is looked at (addItem).
AddOffered(l, O) ==
    /\ pick[l].state = "NONE" /\ O \subseteq Present
    /\ pick' = [pick EXCEPT ![l] = [state |-> "IN", of |-> "custom", options |-> O, edited |-> FALSE]]
    /\ UNCHANGED <<bearer, group, option, buyer>>

\* updateItem takes any options that there are.
UpdatePick(l, O) ==
    /\ pick[l].state = "IN" /\ O \subseteq Present
    /\ pick' = [pick EXCEPT ![l].options = O, ![l].edited = TRUE]
    /\ UNCHANGED <<bearer, group, option, buyer>>

ChoicesNext ==
    \/ \E x \in Bearers :
          \/ RemoveBearer(x)
          \/ \E on \in BOOLEAN : OfferBearer(x, on)
          \/ \E g \in OptionGroups, O \in SUBSET Options : AddOptionGroup(x, g, O)
          \/ \E b \in Buyers, O \in SUBSET Options : CheckPick(b, x, O)
    \/ \E g \in OptionGroups : RemoveOptionGroup(g)
    \/ \E o \in Options :
          \/ RemoveOption(o)
          \/ \E on \in BOOLEAN :
                \/ UpdateOption(o, on)
                \/ \E g \in OptionGroups : AddOption(g, o, on)
    \/ \E l \in Picks :
          \/ \E b \in Buyers : WritePick(b, l)
          \/ \E O \in SUBSET Options : UpdatePick(l, O) \/ AddOffered(l, O)

ChoicesSpec == ChoicesInit /\ [][ChoicesNext]_choicesVars

-----------------------------------------------------------------------------
(* Properties *)

\* A line has no option but of the product or the variant it is about, whatever the
\* vendor removes while it is being added (addItem, validateOptions).  Two lines may have
\* others: one that was edited, where nothing is checked (updateItem), and one of an
\* offer without a product, whatever options came with it.
ChosenOptionsFit ==
    \A l \in Picks : pick[l].state = "IN" /\ ~pick[l].edited /\ pick[l].of # "custom" =>
        \A o \in pick[l].options : o \in Present /\ group[option[o].group] = pick[l].of
=============================================================================
