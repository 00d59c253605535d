------------------------------ MODULE Checkout ------------------------------
(***************************************************************************)
(* A customer's cart at one vendor, the orders placed from it, his coins   *)
(* and the vendor's stock.  Placing an order reads the cart, counts the    *)
(* active orders, prices what was read and writes the order, with nothing  *)
(* held in between; the cart is cleared by a listener afterwards.  Coins   *)
(* are returned after the cancellation, in a transaction of their own, and *)
(* an edit writes the order by its id, whatever has become of it.          *)
(***************************************************************************)
EXTENDS Integers, FiniteSets, FiniteSetsExt

CONSTANTS
    Wares,            \* what can be put into the cart: a variant with options
    VariantOf, OptionsOf, UnitPrice,    \* of each choice
    Lines,              \* cart_items rows that can ever be created, in this order
    Orders,             \* orders that can ever be placed, in this order
    Requests,           \* requests in flight
    MaxQuantity,        \* bound on what a line holds
    MaxEdited,          \* bound: no edit begins once so many orders were edited
    MaxActiveOrders,    \* maxActiveOrdersPerCustomer
    PriorDelivery,      \* requirePriorDeliveryForMultipleOrders
    Coins, MinCoins, CoinValue, CoinOffers,     \* CoinOffers: values of coinsToUse
    CommissionRate, TaxRate,                    \* per cent
    Distances, BaseFee, PerKm, MaxFee, MinKm, FixedFee, MinOrder

ASSUME CheckoutAssumption ==
    /\ IsFiniteSet(Wares) /\ IsFiniteSet(Requests)
    /\ MaxEdited \in Nat
    /\ VariantOf = [c \in Wares |-> VariantOf[c]] /\ UnitPrice \in [Wares -> Nat]
    /\ MaxQuantity \in Nat \ {0}
    /\ IsFiniteSet(Lines) /\ Lines = 1..Cardinality(Lines)
    /\ IsFiniteSet(Orders) /\ Orders = 1..Cardinality(Orders)
    /\ MaxActiveOrders \in Nat /\ PriorDelivery \in BOOLEAN
    /\ Coins \in Nat /\ CoinOffers \subseteq Nat /\ CoinValue \in Nat \ {0}
    \* What the settings and the vendor's row let through.
    /\ CommissionRate \in Nat /\ TaxRate \in Nat /\ Distances \subseteq Nat
    /\ {BaseFee, PerKm, MaxFee, MinKm, FixedFee} \subseteq Nat

VARIABLES
    line,       \* cart_items rows; the cart is there while one of them is
    order,      \* orders placed
    balance,    \* coinBalance
    stock,      \* of each choice's variant
    request     \* requests in flight

checkoutVars == <<line, order, balance, stock, request>>

Basket == [Wares -> 0..(MaxQuantity * Cardinality(Lines))]

LineRows == {[state |-> "NONE"], [state |-> "GONE"]}
    \cup [state : {"IN"}, choice : Wares, quantity : 1..MaxQuantity]

\* "CHANGES" is CHANGES_REQUESTED, and "ACTIVE" every other status before the end.
OrderStates == {"ACTIVE", "CHANGES", "DELIVERED", "CANCELLED"}

OrderRows == {[state |-> "NONE"]}
    \cup [state : OrderStates, items : Basket,
          full : Nat, total : Int, coins : Nat, km : Distances, edited : BOOLEAN,
          \* Times that its coins were returned, and that it came back when it had ended.
          returns : Nat, revived : Nat]

RequestRecords == {[op |-> "idle"]}
    \cup [op : {"count", "price"}, items : Basket, balance : Int]
    \cup [op : {"clear", "remaining", "empty"}]
    \cup [op : {"refund", "edit"}, order : Orders]

CheckoutTypeOK ==
    /\ line \in [Lines -> LineRows]
    /\ order \in [Orders -> OrderRows]
    /\ balance \in Nat
    /\ stock \in [Range(VariantOf) -> Int]
    /\ request \in [Requests -> RequestRecords]

CheckoutInit ==
    /\ line = [l \in Lines |-> [state |-> "NONE"]]
    /\ order = [o \in Orders |-> [state |-> "NONE"]]
    /\ balance = Coins
    /\ stock = [v \in Range(VariantOf) |-> 1]
    /\ request = [t \in Requests |-> [op |-> "idle"]]

In(l) == line[l].state = "IN"
InCart == {l \in Lines : In(l)}
Idle(t) == request[t].op = "idle"
Becomes(t, r) == request' = [request EXCEPT ![t] = r]
Done(t) == Becomes(t, [op |-> "idle"])

-----------------------------------------------------------------------------
(* The cart *)

\* optionHash: without options, every variant has the empty one.
OptionHash(c) == IF OptionsOf[c] = {} THEN {} ELSE {<<VariantOf[c], OptionsOf[c]>>}

\* Offers in the chat put custom lines of their own there, which is left out.
SameLine(l, c) == In(l) /\ OptionHash(line[l].choice) = OptionHash(c)

NextLine == Cardinality({l \in Lines : line[l].state # "NONE"}) + 1

\* The line that is found keeps its variant.
AddItem(c) ==
    /\ \/ \E l \in Lines :
             /\ SameLine(l, c)
             /\ line[l].quantity < MaxQuantity \* bound
             /\ line' = [line EXCEPT ![l].quantity = @ + 1]
       \/ /\ ~\E l \in Lines : SameLine(l, c)
          /\ NextLine \in Lines
          /\ line' = [line EXCEPT ![NextLine] =
                [state |-> "IN", choice |-> c, quantity |-> 1]]
    /\ UNCHANGED <<order, balance, stock, request>>

\* Another choice of options for the same variant, whatever other lines have.
UpdateItem(l, c, q) ==
    /\ In(l)
    /\ VariantOf[c] = VariantOf[line[l].choice]
    /\ line' = [line EXCEPT ![l] = [state |-> "IN", choice |-> c, quantity |-> q]]
    /\ UNCHANGED <<order, balance, stock, request>>

Drop(L) == line' = [l \in Lines |-> IF l \in L THEN [state |-> "GONE"] ELSE line[l]]

RemoveItem(t, l) ==
    /\ Idle(t)
    /\ In(l)
    /\ Drop({l})
    /\ Becomes(t, [op |-> "remaining"])
    /\ UNCHANGED <<order, balance, stock>>

CountRemaining(t) ==
    /\ request[t].op = "remaining"
    /\ IF InCart = {} THEN Becomes(t, [op |-> "empty"]) ELSE Done(t)
    /\ UNCHANGED <<line, order, balance, stock>>

\* By the id of the cart, with what was added to it since.
DeleteCart(t) ==
    /\ request[t].op = "empty"
    /\ Drop(InCart)
    /\ Done(t)
    /\ UNCHANGED <<order, balance, stock>>

ClearCart ==
    /\ InCart # {}
    /\ Drop(InCart)
    /\ UNCHANGED <<order, balance, stock, request>>

\* By its updatedAt, which only addItem touches: a cart whose items are changed or
\* removed may count as abandoned.
AbandonedCartsCleanup == ClearCart

-----------------------------------------------------------------------------
(* Prices *)

Lesser(a, b) == IF a < b THEN a ELSE b

\* Math.round of a percentage
PerCent(x, rate) == (2 * x * rate + 100) \div 200

DeliveryFee(km) ==
    IF MinKm > 0 /\ km < MinKm THEN FixedFee
    ELSE IF MaxFee > 0 THEN Lesser(BaseFee + km * PerKm, MaxFee)
    ELSE BaseFee + km * PerKm

Subtotal(items) == SumFunction([c \in Wares |-> UnitPrice[c] * items[c]])

\* The vendor is not contracted: its commission is a fee of the customer.
PreDiscountTotal(items, km) ==
    LET subtotal == Subtotal(items)
        serviceFee == PerCent(subtotal, CommissionRate)
    IN  subtotal + DeliveryFee(km) + serviceFee + PerCent(subtotal + serviceFee, TaxRate)

\* Mistake: the coins that a capped discount takes are rounded down.
CoinsUsedFloor(coins, full) ==
    IF coins * CoinValue > full THEN full \div CoinValue ELSE coins

CoinsUsed(coins, full) ==
    IF coins * CoinValue > full THEN (full + CoinValue - 1) \div CoinValue ELSE coins

Discount(coins, full) == Lesser(coins * CoinValue, full)

\* editOrderItems: the rate is not one of per cent here, the fee is not taxed,
\* and there is no discount.
EditedTotal(items, km) ==
    LET subtotal == Subtotal(items)
    IN  subtotal + DeliveryFee(km) + PerCent(subtotal, CommissionRate) + subtotal * TaxRate

-----------------------------------------------------------------------------
(* Placing an order *)

Ordered(c) == SumFunction([l \in InCart |-> IF line[l].choice = c THEN line[l].quantity ELSE 0])

ValidateForCheckout(t) ==
    /\ Idle(t)
    /\ InCart # {}
    /\ Becomes(t, [op |-> "count", items |-> [c \in Wares |-> Ordered(c)], balance |-> balance])
    /\ UNCHANGED <<line, order, balance, stock>>

Open(o) == order[o].state \in {"ACTIVE", "CHANGES"}
Active == {o \in Orders : Open(o)}

\* Mistake: the limit is looked at only if there is something else to ask.
MayOrderUnlimited == Active = {} \/ ~PriorDelivery \/ \E o \in Orders : order[o].state = "DELIVERED"

\* validateActiveOrderLimit
MayOrder ==
    \/ Active = {}
    \/ /\ Cardinality(Active) < MaxActiveOrders
       /\ PriorDelivery => \E o \in Orders : order[o].state = "DELIVERED"

CheckLimit(t) ==
    /\ request[t].op = "count"
    /\ IF MayOrder THEN Becomes(t, [request[t] EXCEPT !.op = "price"]) ELSE Done(t)
    /\ UNCHANGED <<line, order, balance, stock>>

Placed == {o \in Orders : order[o].state # "NONE"}
NextOrder == Cardinality(Placed) + 1

\* Mistake: the balance that was read with the cart is enough.
AffordableAsRead(t, used) == used <= request[t].balance

\* updateMany where coinBalance >= coinsUsed
Affordable(t, used) == used <= balance

TakenOf(items, v) ==
    SumFunction([c \in Wares |-> IF VariantOf[c] = v THEN items[c] ELSE 0])

\* createOrder; the stock is not asked whether it is there.
CreateOrder(t, coins, km) ==
    /\ request[t].op = "price"
    /\ NextOrder \in Orders
    /\ LET items == request[t].items
           full == PreDiscountTotal(items, km)
           used == CoinsUsed(coins, full)
       IN  /\ Subtotal(items) >= MinOrder
           /\ coins > 0 => request[t].balance >= MinCoins /\ request[t].balance >= coins
           /\ used > 0 => Affordable(t, used)
           /\ balance' = balance - used
           /\ stock' = [v \in DOMAIN stock |-> stock[v] - TakenOf(items, v)]
           /\ order' = [order EXCEPT ![NextOrder] =
                 [state |-> "ACTIVE", items |-> items, full |-> full, coins |-> used,
                  total |-> full - Discount(coins, full), km |-> km, edited |-> FALSE,
                  returns |-> 0, revived |-> 0]]
    /\ Becomes(t, [op |-> "clear"])
    /\ UNCHANGED line

\* A check or a transaction says no, or the process dies: what the request has not
\* written yet is never written.
RequestFails(t) ==
    /\ ~Idle(t)
    /\ Done(t)
    /\ UNCHANGED <<line, order, balance, stock>>

\* The listener: a failure is logged, and the cart stays.
OnOrderCreated(t) ==
    /\ request[t].op = "clear"
    /\ Drop(InCart) \/ UNCHANGED line
    /\ Done(t)
    /\ UNCHANGED <<order, balance, stock>>

-----------------------------------------------------------------------------
(* Afterwards: of OrderLifecycle what moves coins, or the count of the active *)

Deliver(o) ==
    /\ order[o].state = "ACTIVE"
    /\ order' = [order EXCEPT ![o].state = "DELIVERED"]
    /\ UNCHANGED <<line, balance, stock, request>>

\* Mistake: updateStatus without expectedOldStatus.
CancellableAsRead(o) == order[o].state # "NONE"

\* The status that was read is compared when it is written.
Cancellable(o) == Open(o)

\* cancelOrder up to its first write; the coins are another one.
CancelOrder(t, o) ==
    /\ Idle(t)
    /\ Cancellable(o)
    /\ order' = [order EXCEPT ![o].state = "CANCELLED"]
    /\ IF order[o].coins > 0 THEN Becomes(t, [op |-> "refund", order |-> o]) ELSE UNCHANGED request
    /\ UNCHANGED <<line, balance, stock>>

RefundCoins(t) ==
    /\ request[t].op = "refund"
    /\ LET o == request[t].order IN
          /\ balance' = balance + order[o].coins
          /\ order' = [order EXCEPT ![o].returns = @ + 1]
    /\ Done(t)
    /\ UNCHANGED <<line, stock>>

\* editOrderItems up to its transaction.
CheckEdit(t, o) ==
    /\ Idle(t)
    /\ order[o].state = "ACTIVE"
    /\ Cardinality({x \in Placed : order[x].edited}) < MaxEdited \* bound
    /\ Becomes(t, [op |-> "edit", order |-> o])
    /\ UNCHANGED <<line, order, balance, stock>>

\* By the id of the order, which may have ended since; the stock stays what it was.
CommitEdit(t, items) ==
    /\ request[t].op = "edit"
    /\ LET o == request[t].order IN
          order' = [order EXCEPT ![o] = [order[o] EXCEPT
              !.state = "CHANGES", !.items = items, !.edited = TRUE,
              !.total = EditedTotal(items, order[o].km),
              !.revived = IF Open(o) THEN @ ELSE @ + 1]]
    /\ Done(t)
    /\ UNCHANGED <<line, balance, stock>>

\* acceptOrderChanges and rejectOrderChanges; the latter returns no coins.
AnswerChanges(o, s) ==
    /\ order[o].state = "CHANGES"
    /\ order' = [order EXCEPT ![o].state = s]
    /\ UNCHANGED <<line, balance, stock, request>>

CheckoutNext ==
    \/ \E c \in Wares : AddItem(c)
    \/ \E l \in Lines, c \in Wares, q \in 1..MaxQuantity : UpdateItem(l, c, q)
    \/ ClearCart \/ AbandonedCartsCleanup
    \/ \E t \in Requests :
          \/ \E l \in Lines : RemoveItem(t, l)
          \/ CountRemaining(t) \/ DeleteCart(t)
          \/ ValidateForCheckout(t) \/ CheckLimit(t) \/ RequestFails(t) \/ OnOrderCreated(t)
          \/ \E coins \in CoinOffers, km \in Distances : CreateOrder(t, coins, km)
          \/ RefundCoins(t)
          \/ \E o \in Orders : CancelOrder(t, o) \/ CheckEdit(t, o)
          \/ request[t].op = "edit" /\ CommitEdit(t, order[request[t].order].items)
    \/ \E o \in Orders :
          \/ Deliver(o)
          \/ \E s \in {"ACTIVE", "CANCELLED"} : AnswerChanges(o, s)

CheckoutSpec == CheckoutInit /\ [][CheckoutNext]_checkoutVars

-----------------------------------------------------------------------------
(* Properties *)

Returning(o) == {t \in Requests : request[t] = [op |-> "refund", order |-> o]}

\* Every coin is in the balance or was taken for an order once, but for those that were
\* returned; and they are returned once at most, and only of an order that is
\* cancelled (createOrder, cancelOrder).  An edit that is written when the order has
\* ended brings it back, to be cancelled another time.  A rejected change, and a
\* process that dies after the cancellation, return nothing.
CoinsAccounted ==
    /\ balance >= 0
    /\ balance + SumFunction([o \in Placed |-> order[o].coins])
         = Coins + SumFunction([o \in Placed |-> order[o].coins * order[o].returns])
    /\ \A o \in Placed :
          order[o].returns + Cardinality(Returning(o))
            <= order[o].revived + (IF order[o].state = "CANCELLED" THEN 1 ELSE 0)

\* The coins taken for an order are worth the discount, and one less would not
\* be (placeOrder): nobody pays below nothing, or with a coin too many.
CoinsWorthDiscount ==
    \A o \in Placed : ~order[o].edited =>
        LET discount == order[o].full - order[o].total IN
            /\ order[o].total >= 0
            /\ order[o].coins * CoinValue >= discount
            /\ discount > 0 => (order[o].coins - 1) * CoinValue < discount

\* Requests that count at the same time pass the limit of active orders by one
\* each, and by no more (validateActiveOrderLimit, createOrder), orders aside that an
\* edit brought back (editOrderItems).
ActiveOrdersBounded ==
    Cardinality({o \in Active : order[o].revived = 0})
        < Max({MaxActiveOrders, 1}) + Cardinality(Requests)
=============================================================================
