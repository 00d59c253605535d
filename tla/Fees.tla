-------------------------------- MODULE Fees --------------------------------
(***************************************************************************)
(* The delivery fee of an order: priced at checkout, priced again when a   *)
(* driver takes it, divided between driver and platform at settlement,     *)
(* each with the settings of its own time.  Whole kilometres and whole     *)
(* pounds; a zone's own base fee is left out.                              *)
(***************************************************************************)
EXTENDS Integers

CONSTANTS
    Kms,                \* distances of orders
    Positive,           \* values tried for what the settings require to be positive
    Counted,            \* ... to be at least 0
    Whole               \* ... to be an integer

ASSUME FeesAssumption ==
    /\ Kms \subseteq Nat
    /\ Positive \subseteq Nat \ {0} /\ Counted \subseteq Nat /\ Whole \subseteq Int
    /\ {} \notin {Positive, Counted, Whole}

VARIABLES
    rates,          \* the settings that fees depend on
    delivery        \* an order

feesVars == <<rates, delivery>>

Tiers == {"GOLD", "SILVER", "BRONZE"}

\* What UpdatePlatformSettingsDto lets through.
Ranges == [baseDeliveryFee |-> Positive, pricePerKm |-> Positive,
           maxDeliveryFee |-> Counted, minOrderKm |-> Counted, minDistanceFixedPrice |-> Counted,
           deliveryCommissionRate |-> Whole]
Bonuses == [Tiers -> Counted]

\* rest: what the order costs but for the delivery.
Deliveries == {[op |-> "none"]}
    \cup [op : {"looking", "taken"}, standard : BOOLEAN, km : Kms \cup {0}, fee : Int, total : Int, rest : Nat]
    \cup [op : {"settled"}, charged : Int, earned : Int, rate : Whole]

FeesTypeOK ==
    /\ \A f \in DOMAIN Ranges : rates.set[f] \in Ranges[f]
    /\ rates.bonus \in Bonuses
    /\ rates.driverShiftsEnabled \in BOOLEAN
    /\ delivery \in Deliveries

FeesInit ==
    /\ rates = [set |-> [f \in DOMAIN Ranges |-> CHOOSE v \in Ranges[f] : TRUE],
                bonus |-> [t \in Tiers |-> CHOOSE v \in Counted : TRUE],
                driverShiftsEnabled |-> FALSE]
    /\ delivery = [op |-> "none"]

-----------------------------------------------------------------------------
(* Prices and shares *)

\* calculateDeliveryFee
DeliveryFeeOf(km, pricePerKm, withBonus) ==
    LET s == rates.set
        bonus == IF rates.driverShiftsEnabled /\ withBonus THEN rates.bonus["GOLD"] ELSE 0
        fee == s["baseDeliveryFee"] + km * (pricePerKm + bonus)
        capped == s["maxDeliveryFee"] > 0 /\ fee > s["maxDeliveryFee"]
    IN  IF s["minOrderKm"] > 0 /\ km < s["minOrderKm"] THEN s["minDistanceFixedPrice"]
        ELSE IF capped THEN s["maxDeliveryFee"] ELSE fee

\* Math.round of n / 100.
RoundPerCent(n) == (n + 50) \div 100

\* Mistake: a driver below gold is paid the bonus of the tier on top.
DriverDeliveryFeeAdded(d, tier) ==
    IF rates.driverShiftsEnabled /\ d.standard
    THEN d.fee + rates.bonus[tier] * d.km ELSE d.fee

\* The customer paid the bonus of a gold driver.
DriverDeliveryFee(d, tier) ==
    LET difference == rates.bonus["GOLD"] - rates.bonus[tier]
        left == d.fee - difference * d.km
    IN  IF rates.driverShiftsEnabled /\ d.standard /\ difference > 0
        THEN (IF left < 0 THEN 0 ELSE left) ELSE d.fee

-----------------------------------------------------------------------------
(* Steps *)

UpdateRates ==
    /\ \/ \E f \in DOMAIN Ranges : \E v \in Ranges[f] : rates' = [rates EXCEPT !.set[f] = v]
       \/ \E t \in Tiers : \E v \in Counted : rates' = [rates EXCEPT !.bonus[t] = v]
       \/ \E b \in BOOLEAN : rates' = [rates EXCEPT !.driverShiftsEnabled = b]
    /\ UNCHANGED delivery

\* placeOrder, placeCustomOrder: the bonus is for standard orders.  The others are
\* priced by the kind of vehicle, each of which has a positive price of its own.
PricesPerKm(standard) == IF standard THEN {rates.set["pricePerKm"]} ELSE Positive

PriceOrder(km, price, standard) ==
    LET fee == DeliveryFeeOf(km, price, standard) IN
    /\ delivery.op = "none"
    /\ delivery' = [op |-> "looking", standard |-> standard, km |-> km, fee |-> fee,
                    total |-> fee + 1, rest |-> 1]
    /\ UNCHANGED rates

\* adminPlaceDirectOrder: no distance and no fee yet.
PriceDirectOrder ==
    /\ delivery.op = "none"
    /\ delivery' = [op |-> "looking", standard |-> TRUE, km |-> 0, fee |-> 0, total |-> 1, rest |-> 1]
    /\ UNCHANGED rates

\* finalizeAcceptance: over the way to the pickup too (km), with the bonus whatever
\* the order is, while the distance of the order stays.
PriceAcceptance(km) ==
    /\ delivery.op = "looking"
    /\ \E price \in PricesPerKm(delivery.standard) :
          LET fee == DeliveryFeeOf(km, price, TRUE) IN
              delivery' = [op |-> "taken", standard |-> delivery.standard, km |-> delivery.km,
                           fee |-> fee, total |-> delivery.total + fee - delivery.fee,
                           rest |-> delivery.rest]
    /\ UNCHANGED rates

\* adminForceAssign: at the price it has.
AssignAtPrice ==
    /\ delivery.op = "looking"
    /\ delivery' = [delivery EXCEPT !.op = "taken"]
    /\ UNCHANGED rates

\* The tier is that of the driver by then.
ShareFee(tier) ==
    /\ delivery.op = "taken"
    /\ LET rate == rates.set["deliveryCommissionRate"] IN
          delivery' = [op |-> "settled", charged |-> delivery.total - delivery.rest,
                       earned |-> RoundPerCent(DriverDeliveryFee(delivery, tier) * (100 - rate)),
                       rate |-> rate]
    /\ UNCHANGED rates

FeesNext ==
    \/ UpdateRates
    \/ \E km \in Kms, b \in BOOLEAN : \E p \in PricesPerKm(b) : PriceOrder(km, p, b)
    \/ \E km \in Kms : PriceAcceptance(km)
    \/ PriceDirectOrder
    \/ AssignAtPrice
    \/ \E t \in Tiers : ShareFee(t)

FeesSpec == FeesInit /\ [][FeesNext]_feesVars

-----------------------------------------------------------------------------
(* Properties *)

\* However the settings and the driver's tier change between checkout, acceptance
\* and settlement: the driver earns no more than the customer was charged for the
\* delivery, and pays nothing for it, as long as the commission is a percentage,
\* which the settings do not ask (calculateDeliveryFee, settleOrder).
DeliveryPaysForItself ==
    delivery.op = "settled" =>
        /\ delivery.rate >= 0 => delivery.earned <= delivery.charged
        /\ delivery.rate <= 100 => delivery.earned >= 0
=============================================================================
