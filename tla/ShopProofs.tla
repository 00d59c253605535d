------------------------------- MODULE ShopProofs -------------------------------
(***************************************************************************)
(* The shop, for any number of rows and requests: the orders placed from a *)
(* cart, the catalogue, the options of a cart's line, the pictures rows    *)
(* refer to, the division of the delivery fee, where branches lie and the  *)
(* addresses of a customer; then all parts together.                       *)
(***************************************************************************)
EXTENDS MCShop, Sums

-----------------------------------------------------------------------------
(* Checkout: every order placed took its coins once, and every order that  *)
(* may yet be placed had its place below the limit when it was counted.    *)

Limit == Max({MaxActiveOrders, 1})
Pricing == {t \in Requests : request[t].op = "price"}

Taken == [o \in Placed |-> order[o].coins]
Returned == [o \in Placed |-> order[o].coins * order[o].returns]
Fresh == {o \in Active : order[o].revived = 0}

OrdersInARow == \E k \in Nat : Placed = 1..k
Balanced == balance + SumFunctionOnSet(Taken, Placed) = Coins + SumFunctionOnSet(Returned, Placed)
ReturnedOnce ==
    \A o \in Placed :
        order[o].returns + Cardinality(Returning(o))
          <= order[o].revived + (IF order[o].state = "CANCELLED" THEN 1 ELSE 0)
RequestsRefer == \A t \in Requests : request[t].op \in {"refund", "edit"} => request[t].order \in Placed
FewActive == Cardinality(Fresh) + Cardinality(Pricing) <= Limit - 1 + Cardinality(Requests)

CheckoutIInv ==
    /\ CheckoutTypeOK
    /\ OrdersInARow
    /\ Balanced
    /\ ReturnedOnce
    /\ RequestsRefer
    /\ CoinsWorthDiscount
    /\ FewActive

PlacedRows == [state : OrderStates, items : Basket,
               full : Nat, total : Int, coins : Nat, km : Distances, edited : BOOLEAN,
               returns : Nat, revived : Nat]

LEMMA LineForms ==
    /\ [state |-> "NONE"] \in LineRows /\ [state |-> "GONE"] \in LineRows
    /\ \A c \in Wares, q \in 1..MaxQuantity : [state |-> "IN", choice |-> c, quantity |-> q] \in LineRows
    /\ \A r \in LineRows : r.state = "IN" =>
          /\ r.choice \in Wares /\ r.quantity \in 1..MaxQuantity
          /\ \A q \in 1..MaxQuantity : [r EXCEPT !.quantity = q] \in LineRows
<1>1. [state |-> "NONE"] \in LineRows /\ [state |-> "GONE"] \in LineRows
  BY DEF LineRows
<1>2. \A c \in Wares, q \in 1..MaxQuantity : [state |-> "IN", choice |-> c, quantity |-> q] \in LineRows
  BY DEF LineRows
<1>3. ASSUME NEW r \in LineRows, r.state = "IN"
      PROVE  r \in [state : {"IN"}, choice : Wares, quantity : 1..MaxQuantity]
  BY <1>3 DEF LineRows
<1>4. ASSUME NEW r \in [state : {"IN"}, choice : Wares, quantity : 1..MaxQuantity], NEW q \in 1..MaxQuantity
      PROVE  [r EXCEPT !.quantity = q] \in LineRows
  BY DEF LineRows
<1> QED
  BY <1>1, <1>2, <1>3, <1>4

LEMMA RowForms ==
    /\ [state |-> "NONE"] \in OrderRows /\ PlacedRows \subseteq OrderRows
    /\ \A r \in OrderRows : r.state # "NONE" => r \in PlacedRows
    /\ \A r \in PlacedRows :
          /\ r.state \in {"ACTIVE", "CHANGES", "DELIVERED", "CANCELLED"} /\ r.items \in Basket
          /\ r.full \in Nat /\ r.total \in Int /\ r.coins \in Nat /\ r.km \in Distances
          /\ r.edited \in BOOLEAN /\ r.returns \in Nat /\ r.revived \in Nat
<1>1. [state |-> "NONE"] \in OrderRows /\ PlacedRows \subseteq OrderRows
  BY DEF OrderRows, PlacedRows
<1>2. \A r \in OrderRows : r.state # "NONE" => r \in PlacedRows
  BY DEF OrderRows, PlacedRows
<1>3. \A r \in PlacedRows :
          /\ r.state \in {"ACTIVE", "CHANGES", "DELIVERED", "CANCELLED"} /\ r.items \in Basket
          /\ r.full \in Nat /\ r.total \in Int /\ r.coins \in Nat /\ r.km \in Distances
          /\ r.edited \in BOOLEAN /\ r.returns \in Nat /\ r.revived \in Nat
  BY DEF PlacedRows, OrderStates
<1> QED
  BY <1>1, <1>2, <1>3

LEMMA RequestShape ==
    /\ \A o \in {"idle", "clear", "remaining", "empty"} : [op |-> o] \in RequestRecords
    /\ \A i \in Basket, b \in Int, o \in {"count", "price"} :
          [op |-> o, items |-> i, balance |-> b] \in RequestRecords
    /\ \A x \in Orders, o \in {"refund", "edit"} : [op |-> o, order |-> x] \in RequestRecords
    /\ \A r \in RequestRecords : r.op \in {"refund", "edit"} =>
          r.order \in Orders /\ r = [op |-> r.op, order |-> r.order]
    /\ \A r \in RequestRecords : r.op \in {"count", "price"} =>
          /\ r.items \in Basket /\ r.balance \in Int
          /\ [r EXCEPT !.op = "price"] \in RequestRecords
          /\ [r EXCEPT !.op = "price"].op = "price"
<1>1. \A o \in {"idle", "clear", "remaining", "empty"} : [op |-> o] \in RequestRecords
  BY DEF RequestRecords
<1>2. \A i \in Basket, b \in Int, o \in {"count", "price"} :
          [op |-> o, items |-> i, balance |-> b] \in RequestRecords
  BY DEF RequestRecords
<1>3. ASSUME NEW r \in RequestRecords, r.op \in {"count", "price"}
      PROVE  r \in [op : {"count", "price"}, items : Basket, balance : Int]
  BY <1>3 DEF RequestRecords
<1>4. ASSUME NEW r \in [op : {"count", "price"}, items : Basket, balance : Int]
      PROVE  /\ r.items \in Basket /\ r.balance \in Int
             /\ [r EXCEPT !.op = "price"] \in [op : {"count", "price"}, items : Basket, balance : Int]
             /\ [r EXCEPT !.op = "price"].op = "price"
  OBVIOUS
<1>5. [op : {"count", "price"}, items : Basket, balance : Int] \subseteq RequestRecords
  BY DEF RequestRecords
<1>6. \A x \in Orders, o \in {"refund", "edit"} : [op |-> o, order |-> x] \in RequestRecords
  BY DEF RequestRecords
<1>7. ASSUME NEW r \in RequestRecords, r.op \in {"refund", "edit"}
      PROVE  r.order \in Orders /\ r = [op |-> r.op, order |-> r.order]
  <2>1. r \in [op : {"refund", "edit"}, order : Orders]
    BY <1>7 DEF RequestRecords
  <2> QED
    BY <2>1
<1> QED
  BY <1>1, <1>2, <1>3, <1>4, <1>5, <1>6, <1>7

LEMMA ProductNat == ASSUME NEW a \in Nat, NEW b \in Nat PROVE a * b \in Nat
OBVIOUS

LEMMA LinesCounted == Cardinality(Lines) \in Nat /\ MaxQuantity * Cardinality(Lines) \in Nat
<1>1. Cardinality(Lines) \in Nat /\ MaxQuantity \in Nat
  BY CheckoutAssumption, FS_CardinalityType
<1> QED
  BY <1>1, ProductNat

LEMMA LimitIs == Limit \in Nat \ {0} /\ MaxActiveOrders <= Limit
<1>1. \A a \in Nat : \E x \in {a, 1} : \A y \in {a, 1} : x >= y
  OBVIOUS
<1>2. Limit \in {MaxActiveOrders, 1} /\ \A y \in {MaxActiveOrders, 1} : Limit >= y
  BY <1>1, CheckoutAssumption DEF Limit, Max
<1> QED
  BY <1>2, CheckoutAssumption

-----------------------------------------------------------------------------
(* Prices *)

LEMMA BasketIsNatural == ASSUME NEW i \in Basket, NEW c \in Wares PROVE i[c] \in Nat
BY LinesCounted DEF Basket

LEMMA SubtotalIsNatural == ASSUME NEW i \in Basket PROVE Subtotal(i) \in Nat
<1> DEFINE f == [c \in Wares |-> UnitPrice[c] * i[c]]
<1>1. \A c \in Wares : f[c] \in Nat
  BY CheckoutAssumption, BasketIsNatural, ProductNat
<1> HIDE DEF f
<1>2. SumFunctionOnSet(f, Wares) \in Nat
  BY <1>1, CheckoutAssumption, SumType
<1> QED
  BY <1>2 DEF Subtotal, SumFunction, f

LEMMA TakenIsNatural == ASSUME NEW i \in Basket, NEW v PROVE TakenOf(i, v) \in Nat
<1> DEFINE f == [c \in Wares |-> IF VariantOf[c] = v THEN i[c] ELSE 0]
<1>1. \A c \in Wares : f[c] \in Nat
  BY BasketIsNatural
<1> HIDE DEF f
<1>2. SumFunctionOnSet(f, Wares) \in Nat
  BY <1>1, CheckoutAssumption, SumType
<1> QED
  BY <1>2 DEF TakenOf, SumFunction, f

LEMMA PerCentIsNatural == ASSUME NEW x \in Nat, NEW rate \in Nat PROVE PerCent(x, rate) \in Nat
<1>1. PICK n \in Nat : n = 2 * x * rate + 100
  BY ProductNat
<1>2. n \div 200 \in Nat
  OBVIOUS
<1> QED
  BY <1>1, <1>2 DEF PerCent

LEMMA DeliveryFeeIsNatural == ASSUME NEW km \in Distances PROVE DeliveryFee(km) \in Nat
<1>1. km \in Nat /\ BaseFee \in Nat /\ PerKm \in Nat /\ MaxFee \in Nat /\ FixedFee \in Nat
  BY CheckoutAssumption
<1>2. km * PerKm \in Nat
  BY <1>1, ProductNat
<1>3. BaseFee + km * PerKm \in Nat
  BY <1>1, <1>2
<1> QED
  BY <1>1, <1>3 DEF DeliveryFee, Lesser

LEMMA FullPriceIsNatural ==
    ASSUME NEW i \in Basket, NEW km \in Distances
    PROVE  PreDiscountTotal(i, km) \in Nat
<1> DEFINE s == Subtotal(i)
           f == PerCent(s, CommissionRate)
<1>1. s \in Nat /\ CommissionRate \in Nat /\ TaxRate \in Nat
  BY SubtotalIsNatural, CheckoutAssumption
<1> HIDE DEF s
<1>2. f \in Nat
  BY <1>1, PerCentIsNatural
<1> HIDE DEF f
<1>3. PICK m \in Nat : m = s + f
  BY <1>1, <1>2
<1>4. PerCent(m, TaxRate) \in Nat
  BY <1>1, PerCentIsNatural
<1>5. s + DeliveryFee(km) + f + PerCent(s + f, TaxRate) \in Nat
  BY <1>1, <1>2, <1>3, <1>4, DeliveryFeeIsNatural
<1> QED
  BY <1>5 DEF PreDiscountTotal, s, f

LEMMA EditedPriceIsInteger ==
    ASSUME NEW i \in Basket, NEW km \in Distances
    PROVE  EditedTotal(i, km) \in Int
<1> DEFINE s == Subtotal(i)
<1>1. s \in Nat /\ CommissionRate \in Nat /\ TaxRate \in Nat
  BY SubtotalIsNatural, CheckoutAssumption
<1> HIDE DEF s
<1>2. PerCent(s, CommissionRate) \in Nat /\ s * TaxRate \in Nat
  BY <1>1, PerCentIsNatural, ProductNat
<1>3. s + DeliveryFee(km) + PerCent(s, CommissionRate) + s * TaxRate \in Int
  BY <1>1, <1>2, DeliveryFeeIsNatural
<1> QED
  BY <1>3 DEF EditedTotal, s

\* As many coins as the discount is worth.
LEMMA CoinsMatchDiscount ==
    ASSUME NEW coins \in Nat, NEW full \in Nat
    PROVE  /\ CoinsUsed(coins, full) \in Nat
           /\ Discount(coins, full) \in Nat /\ Discount(coins, full) <= full
           /\ CoinsUsed(coins, full) * CoinValue >= Discount(coins, full)
           /\ Discount(coins, full) > 0 => (CoinsUsed(coins, full) - 1) * CoinValue < Discount(coins, full)
<1>1. PICK v \in Nat \ {0} : v = CoinValue
  BY CheckoutAssumption
<1>2. PICK w \in Nat : w = coins * v
  BY <1>1, ProductNat
<1>3. CASE w > full
  <2>1. PICK n \in Nat : n = full + v - 1
    BY <1>1
  <2>2. PICK u \in Nat : u = n \div v
    BY <1>1
  <2>3. u * v <= n /\ n < u * v + v
    BY <1>1, <2>2
  <2>4. u * v \in Nat
    BY <1>1, ProductNat
  <2>5. u * v >= full /\ u * v - v < full
    BY <1>1, <2>1, <2>3, <2>4
  <2>6. (u - 1) * v = u * v - v
    BY <1>1
  <2>7. CoinsUsed(coins, full) = u /\ Discount(coins, full) = full
    BY <1>1, <1>2, <1>3, <2>1, <2>2 DEF CoinsUsed, Discount, Lesser
  <2> QED
    BY <1>1, <2>5, <2>6, <2>7
<1>4. CASE ~(w > full)
  <2>1. CoinsUsed(coins, full) = coins /\ Discount(coins, full) = w
    BY <1>1, <1>2, <1>4 DEF CoinsUsed, Discount, Lesser
  <2>2. (coins - 1) * v = w - v
    BY <1>1, <1>2
  <2> QED
    BY <1>1, <1>2, <1>4, <2>1, <2>2
<1> QED
  BY <1>3, <1>4

\* Of one choice, all lines together have no more than all lines can hold.
LEMMA OrderedIsBasket ==
    ASSUME CheckoutTypeOK
    PROVE  [c \in Wares |-> Ordered(c)] \in Basket
<1> SUFFICES ASSUME NEW c \in Wares PROVE Ordered(c) \in 0..(MaxQuantity * Cardinality(Lines))
  BY DEF Basket
<1> DEFINE f == [l \in InCart |-> IF line[l].choice = c THEN line[l].quantity ELSE 0]
<1>1. IsFiniteSet(InCart) /\ Cardinality(InCart) <= Cardinality(Lines)
  BY CheckoutAssumption, FS_Subset DEF InCart
<1>2. \A l \in InCart : f[l] \in 0..MaxQuantity
  BY LineForms, CheckoutAssumption DEF CheckoutTypeOK, InCart, In
<1>3. \A l \in InCart : f[l] \in Nat
  BY <1>2
<1> HIDE DEF f
<1>4. SumFunctionOnSet(f, InCart) \in Nat
  BY <1>1, <1>3, SumType
<1>5. SumFunctionOnSet(f, InCart) <= MaxQuantity * Cardinality(InCart)
  BY <1>1, <1>2, CheckoutAssumption, SumBounded
<1>6. MaxQuantity * Cardinality(InCart) <= MaxQuantity * Cardinality(Lines)
  <2>1. \A q, a, b \in Nat : a <= b => q * a <= q * b
    OBVIOUS
  <2> QED
    BY <1>1, <2>1, CheckoutAssumption, FS_CardinalityType
<1>7. Cardinality(InCart) \in Nat /\ MaxQuantity * Cardinality(InCart) \in Nat
  BY <1>1, CheckoutAssumption, FS_CardinalityType, ProductNat
<1>8. SumFunctionOnSet(f, InCart) \in 0..(MaxQuantity * Cardinality(Lines))
  BY <1>4, <1>5, <1>6, <1>7, LinesCounted
<1>9. Ordered(c) = SumFunctionOnSet(f, InCart)
  BY DEF Ordered, SumFunction, f
<1> QED
  BY <1>8, <1>9

-----------------------------------------------------------------------------
(* Steps *)

LEMMA NumbersOfOrders ==
    /\ IsFiniteSet(Fresh) /\ Cardinality(Fresh) \in Nat
    /\ IsFiniteSet(Active) /\ Cardinality(Active) \in Nat /\ Cardinality(Fresh) <= Cardinality(Active)
    /\ IsFiniteSet(Pricing) /\ Cardinality(Pricing) \in Nat /\ Cardinality(Pricing) <= Cardinality(Requests)
    /\ IsFiniteSet(Placed) /\ Cardinality(Requests) \in Nat
    /\ \A o : IsFiniteSet(Returning(o)) /\ Cardinality(Returning(o)) \in Nat
<1>1. /\ Active \subseteq Orders /\ Pricing \subseteq Requests /\ Placed \subseteq Orders
      /\ Fresh \subseteq Active /\ \A o : Returning(o) \subseteq Requests
  BY DEF Active, Pricing, Placed, Fresh, Returning
<1> QED
  BY <1>1, CheckoutAssumption, FS_Subset, FS_CardinalityType

\* No refund begins.
LEMMA RefundsGo ==
    ASSUME \A t \in Requests : request'[t].op = "refund" => request'[t] = request[t], NEW o
    PROVE  Cardinality(Returning(o)') <= Cardinality(Returning(o)) /\ Cardinality(Returning(o)') \in Nat
<1>1. PICK R : R = Returning(o)'
  OBVIOUS
<1>2. R \subseteq Returning(o)
  BY <1>1 DEF Returning
<1>3. Cardinality(R) <= Cardinality(Returning(o)) /\ Cardinality(R) \in Nat
  BY <1>2, NumbersOfOrders, FS_Subset, FS_CardinalityType
<1> QED
  BY <1>1, <1>3

\* Only the order o is written; its coins stay, and are returned or not.
LEMMA OrderWritten ==
    ASSUME CheckoutIInv, NEW o \in Orders, order[o] \in PlacedRows,
           NEW r \in PlacedRows, order' = [order EXCEPT ![o] = r],
           r.coins = order[o].coins,
           \/ /\ r.returns = order[o].returns
              /\ balance' = balance
           \/ /\ r.returns = order[o].returns + 1
              /\ balance' = balance + order[o].coins,
           r.edited \/ (r.edited = order[o].edited /\ r.full = order[o].full /\ r.total = order[o].total),
           r.state \in {"ACTIVE", "CHANGES"} /\ r.revived = 0 => Open(o) /\ order[o].revived = 0,
           UNCHANGED <<line, stock>>, request' \in [Requests -> RequestRecords],
           \A t \in Requests : request'[t].op = "price" => request[t].op = "price",
           \A t \in Requests : request'[t].op \in {"refund", "edit"} =>
               request'[t] = request[t] \/ request'[t].order = o,
           r.returns + Cardinality(Returning(o)') <= r.revived + (IF r.state = "CANCELLED" THEN 1 ELSE 0)
    PROVE  CheckoutIInv'
<1>1. /\ CheckoutTypeOK /\ order \in [Orders -> OrderRows] /\ line \in [Lines -> LineRows]
      /\ o \in Placed
  BY RowForms DEF CheckoutIInv, CheckoutTypeOK, Placed
<1>2. /\ order' \in [Orders -> OrderRows] /\ order'[o] = r
      /\ \A x \in Orders \ {o} : order'[x] = order[x]
  BY <1>1, RowForms
<1>3. PICK c \in Nat, m \in Nat, n \in Nat :
        /\ c = order[o].coins /\ m = order[o].returns /\ n = r.returns
        /\ \/ n = m /\ balance' = balance
           \/ n = m + 1 /\ balance' = balance + c
  <2>1. order[o].coins \in Nat /\ order[o].returns \in Nat /\ r.returns \in Nat
    BY RowForms
  <2> QED
    BY <2>1
<1>4. CheckoutTypeOK'
  <2>1. balance' \in Nat
    BY <1>1, <1>3 DEF CheckoutTypeOK
  <2> QED
    BY <1>1, <1>2, <2>1 DEF CheckoutTypeOK
<1>5. Placed' = Placed
  BY <1>1, <1>2, RowForms DEF Placed
<1>6. OrdersInARow'
  BY <1>5 DEF CheckoutIInv, OrdersInARow
<1>7. Balanced'
  <2> DEFINE f == Returned
             g == [x \in Placed |-> order'[x].coins * order'[x].returns]
  <2>1. Taken' = Taken
    BY <1>2, <1>5 DEF Taken, Placed
  <2>2. Returned' = g
    BY <1>5 DEF Returned
  <2>3. f[o] = c * m /\ g[o] = c * n
    BY <1>1, <1>2, <1>3 DEF Returned
  <2>4. \A x \in Placed \ {o} : g[x] = f[x]
    BY <1>2 DEF Returned, Placed
  <2>5. ASSUME NEW x \in Placed PROVE f[x] \in Nat
    <3>1. PICK a \in Nat, b \in Nat : a = order[x].coins /\ b = order[x].returns
      BY <1>1, RowForms DEF Placed
    <3> QED
      BY <3>1, ProductNat DEF Returned
  <2>6. \A x \in Placed : f[x] \in Nat /\ g[x] \in Nat
    BY <1>3, <2>3, <2>4, <2>5, ProductNat
  <2>7. \A x \in Placed : Taken[x] \in Nat
    BY <1>1, RowForms DEF Taken, Placed
  <2> HIDE DEF f, g
  <2>8. SumFunctionOnSet(g, Placed) = SumFunctionOnSet(f, Placed) + g[o] - f[o]
    BY <1>1, <2>4, <2>6, NumbersOfOrders, SumChanges
  <2>9. PICK a \in Nat, b \in Nat : a = SumFunctionOnSet(Taken, Placed) /\ b = SumFunctionOnSet(f, Placed)
    BY <2>6, <2>7, NumbersOfOrders, SumType
  <2>10. balance + a = Coins + b
    BY <2>9 DEF CheckoutIInv, Balanced, f
  <2>11. c * (m + 1) = c * m + c /\ c * m \in Nat
    <3>1. \A x, y \in Nat : x * (y + 1) = x * y + x /\ x * y \in Nat
      OBVIOUS
    <3> QED
      BY <3>1
  <2>12. PICK u \in Nat, v \in Nat :
           /\ u = c * m /\ v = c * n
           /\ \/ v = u /\ balance' = balance
              \/ v = u + c /\ balance' = balance + c
    BY <1>3, <2>11
  <2>13. PICK d : d = SumFunctionOnSet(g, Placed)
    OBVIOUS
  <2>14. d = b + v - u
    BY <2>3, <2>8, <2>9, <2>12, <2>13
  <2>15. balance' + a = Coins + d
    <3>1. PICK w \in Nat, k \in Nat : w = balance /\ k = Coins
      BY <1>1, CheckoutAssumption DEF CheckoutTypeOK
    <3>2. w + a = k + b
      BY <2>10, <3>1
    <3>3. (v = u /\ balance' = w) \/ (v = u + c /\ balance' = w + c)
      BY <2>12, <3>1
    <3>4. d = b + v - u
      BY <2>14
    <3>5. balance' + a = k + d
      BY <3>2, <3>3, <3>4
    <3> QED
      BY <3>1, <3>5
  <2> QED
    BY <1>5, <2>1, <2>2, <2>9, <2>13, <2>15 DEF Balanced
<1>8. ReturnedOnce'
  <2> SUFFICES ASSUME NEW x \in Placed
               PROVE  order'[x].returns + Cardinality(Returning(x)')
                        <= order'[x].revived + (IF order'[x].state = "CANCELLED" THEN 1 ELSE 0)
    BY <1>5 DEF ReturnedOnce
  <2>1. CASE x = o
    BY <1>2, <2>1
  <2>2. CASE x # o
    <3>1. PICK R : R = Returning(x)'
      OBVIOUS
    <3>2. R \subseteq Returning(x)
      BY <2>2, <3>1 DEF Returning
    <3>3. Cardinality(R) <= Cardinality(Returning(x)) /\ Cardinality(R) \in Nat
      BY <3>2, NumbersOfOrders, FS_Subset, FS_CardinalityType
    <3>4. order'[x] = order[x] /\ order[x] \in PlacedRows
      BY <1>1, <1>2, <2>2, RowForms DEF Placed
    <3>5. PICK a \in Nat, b \in Nat, e \in {0, 1} :
            a = order[x].returns /\ b = order[x].revived /\ e = IF order[x].state = "CANCELLED" THEN 1 ELSE 0
      BY <3>4, RowForms
    <3>6. a + Cardinality(Returning(x)) <= b + e
      BY <3>5 DEF CheckoutIInv, ReturnedOnce
    <3>7. a + Cardinality(R) <= b + e
      BY <3>3, <3>6, NumbersOfOrders
    <3> QED
      BY <3>1, <3>4, <3>5, <3>7
  <2> QED
    BY <2>1, <2>2
<1>9. RequestsRefer'
  BY <1>1, <1>5 DEF CheckoutIInv, RequestsRefer
<1>10. CoinsWorthDiscount'
  <2> SUFFICES ASSUME NEW x \in Placed, ~order'[x].edited
               PROVE  /\ order'[x].total = order[x].total /\ order'[x].full = order[x].full
                      /\ order'[x].coins = order[x].coins /\ ~order[x].edited
    BY <1>5 DEF CheckoutIInv, CoinsWorthDiscount
  <2> QED
    BY <1>2 DEF Placed
<1>11. FewActive'
  <2>1. PICK A, P : A = Fresh' /\ P = Pricing'
    OBVIOUS
  <2>2. A \subseteq Fresh /\ P \subseteq Pricing
    BY <1>2, <2>1 DEF Fresh, Active, Open, Pricing
  <2>3. /\ Cardinality(A) <= Cardinality(Fresh) /\ Cardinality(A) \in Nat
        /\ Cardinality(P) <= Cardinality(Pricing) /\ Cardinality(P) \in Nat
    BY <2>2, NumbersOfOrders, FS_Subset, FS_CardinalityType
  <2> QED
    BY <2>1, <2>3, NumbersOfOrders, LimitIs DEF CheckoutIInv, FewActive
<1> QED
  BY <1>4, <1>6, <1>7, <1>8, <1>9, <1>10, <1>11 DEF CheckoutIInv

\* No order is touched, and no request gets to the price or to a refund.
LEMMA OrdersAside ==
    ASSUME CheckoutIInv, UNCHANGED <<order, balance, stock>>, line' \in [Lines -> LineRows],
           request' \in [Requests -> RequestRecords],
           \A t \in Requests : request'[t].op \in {"price", "refund"} => request'[t] = request[t],
           \A t \in Requests : request'[t].op = "edit" => request'[t].order \in Placed
    PROVE  CheckoutIInv'
<1>1. CheckoutTypeOK'
  BY DEF CheckoutIInv, CheckoutTypeOK
<1>2. /\ OrdersInARow' /\ CoinsWorthDiscount' /\ Fresh' = Fresh /\ Placed' = Placed
      /\ Taken' = Taken /\ Returned' = Returned
  BY DEF CheckoutIInv, OrdersInARow, CoinsWorthDiscount, Placed, Active, Open, Fresh, Taken, Returned
<1>3. Balanced'
  BY <1>2 DEF CheckoutIInv, Balanced
<1>4. FewActive'
  <2>1. PICK P : P = Pricing'
    OBVIOUS
  <2>2. P \subseteq Pricing
    BY <2>1 DEF Pricing
  <2>3. Cardinality(P) <= Cardinality(Pricing) /\ Cardinality(P) \in Nat
    BY <2>2, NumbersOfOrders, FS_Subset, FS_CardinalityType
  <2> QED
    BY <1>2, <2>1, <2>3, NumbersOfOrders, LimitIs DEF CheckoutIInv, FewActive
<1>5. ReturnedOnce'
  <2> SUFFICES ASSUME NEW x \in Placed
               PROVE  order[x].returns + Cardinality(Returning(x)')
                        <= order[x].revived + (IF order[x].state = "CANCELLED" THEN 1 ELSE 0)
    BY <1>2 DEF ReturnedOnce
  <2>1. order[x] \in PlacedRows
    BY RowForms DEF CheckoutIInv, CheckoutTypeOK, Placed
  <2>2. PICK a \in Nat, b \in Nat, e \in {0, 1} :
          a = order[x].returns /\ b = order[x].revived /\ e = IF order[x].state = "CANCELLED" THEN 1 ELSE 0
    BY <2>1, RowForms
  <2>3. a + Cardinality(Returning(x)) <= b + e
    BY <2>2 DEF CheckoutIInv, ReturnedOnce
  <2>4. Cardinality(Returning(x)') <= Cardinality(Returning(x)) /\ Cardinality(Returning(x)') \in Nat
    BY RefundsGo
  <2>5. a + Cardinality(Returning(x)') <= b + e
    BY <2>3, <2>4, NumbersOfOrders
  <2> QED
    BY <2>2, <2>5
<1>6. RequestsRefer'
  BY <1>2 DEF CheckoutIInv, RequestsRefer
<1> QED
  BY <1>1, <1>2, <1>3, <1>4, <1>5, <1>6 DEF CheckoutIInv

LEMMA LinesGo ==
    ASSUME CheckoutTypeOK, NEW L, Drop(L)
    PROVE  line' \in [Lines -> LineRows]
BY LineForms DEF CheckoutTypeOK, Drop

LEMMA RequestsGo ==
    ASSUME CheckoutIInv, NEW t \in Requests, NEW r \in RequestRecords,
           r.op \notin {"price", "refund", "edit"}, Becomes(t, r)
    PROVE  /\ request' \in [Requests -> RequestRecords]
           /\ \A x \in Requests : request'[x].op \in {"price", "refund", "edit"} => request'[x] = request[x] /\ x # t
           /\ \A x \in Requests : request'[x].op = "edit" => request'[x].order \in Placed
BY DEF CheckoutIInv, CheckoutTypeOK, Becomes, RequestsRefer

LEMMA CartStep ==
    ASSUME CheckoutIInv,
           \/ \E c \in Wares : AddItem(c)
           \/ \E l \in Lines, c \in Wares, q \in 1..MaxQuantity : UpdateItem(l, c, q)
           \/ ClearCart
    PROVE  CheckoutIInv'
<1>1. UNCHANGED <<order, balance, stock, request>> /\ CheckoutTypeOK
  BY DEF AddItem, UpdateItem, ClearCart, CheckoutIInv
<1>2. line' \in [Lines -> LineRows]
  <2>1. CASE \E c \in Wares : AddItem(c)
    <3>1. PICK c \in Wares : AddItem(c)
      BY <2>1
    <3>2. CASE \E l \in Lines : /\ SameLine(l, c) /\ line[l].quantity < MaxQuantity
                                /\ line' = [line EXCEPT ![l].quantity = @ + 1]
      <4>1. PICK l \in Lines : /\ SameLine(l, c) /\ line[l].quantity < MaxQuantity
                               /\ line' = [line EXCEPT ![l].quantity = @ + 1]
        BY <3>2
      <4>2. line[l] \in LineRows /\ line[l].state = "IN"
        BY <1>1, <4>1 DEF SameLine, In, CheckoutTypeOK
      <4>3. PICK q \in 1..MaxQuantity : q = line[l].quantity + 1
        <5>1. PICK n \in 1..MaxQuantity : n = line[l].quantity
          BY <4>2, LineForms
        <5>2. n < MaxQuantity /\ MaxQuantity \in Nat
          BY <4>1, <5>1, CheckoutAssumption
        <5>3. n + 1 \in 1..MaxQuantity
          BY <5>2
        <5> QED
          BY <5>1, <5>3
      <4>4. [line[l] EXCEPT !.quantity = q] \in LineRows
        BY <4>2, LineForms
      <4>5. line' = [line EXCEPT ![l] = [line[l] EXCEPT !.quantity = q]]
        BY <1>1, <4>1, <4>3 DEF CheckoutTypeOK
      <4> QED
        BY <1>1, <4>4, <4>5 DEF CheckoutTypeOK
    <3>3. CASE /\ NextLine \in Lines
               /\ line' = [line EXCEPT ![NextLine] = [state |-> "IN", choice |-> c, quantity |-> 1]]
      <4>1. [state |-> "IN", choice |-> c, quantity |-> 1] \in LineRows
        BY LineForms, CheckoutAssumption
      <4> QED
        BY <1>1, <3>3, <4>1 DEF CheckoutTypeOK
    <3> QED
      BY <3>1, <3>2, <3>3 DEF AddItem
  <2>2. CASE \E l \in Lines, c \in Wares, q \in 1..MaxQuantity : UpdateItem(l, c, q)
    BY <1>1, <2>2, LineForms DEF UpdateItem, CheckoutTypeOK
  <2>3. CASE ClearCart
    BY <1>1, <2>3, LinesGo DEF ClearCart
  <2> QED
    BY <2>1, <2>2, <2>3
<1> QED
  BY <1>1, <1>2, OrdersAside DEF CheckoutIInv, CheckoutTypeOK, RequestsRefer

LEMMA RequestStep ==
    ASSUME CheckoutIInv, NEW t \in Requests,
           \/ \E l \in Lines : RemoveItem(t, l)
           \/ CountRemaining(t) \/ DeleteCart(t) \/ ValidateForCheckout(t)
           \/ RequestFails(t) \/ OnOrderCreated(t)
    PROVE  CheckoutIInv'
<1>1. CheckoutTypeOK /\ UNCHANGED <<order, balance, stock>>
  BY DEF CheckoutIInv, RemoveItem, CountRemaining, DeleteCart, ValidateForCheckout, RequestFails,
     OnOrderCreated
<1>2. line' \in [Lines -> LineRows]
  <2>1. UNCHANGED line \/ \E L : Drop(L)
    BY DEF RemoveItem, CountRemaining, DeleteCart, ValidateForCheckout, RequestFails, OnOrderCreated
  <2> QED
    BY <1>1, <2>1, LinesGo DEF CheckoutTypeOK
<1>3. \E r \in RequestRecords : r.op \notin {"price", "refund", "edit"} /\ Becomes(t, r)
  <2>1. CASE ValidateForCheckout(t)
    <3>1. PICK i \in Basket : i = [c \in Wares |-> Ordered(c)]
      BY <1>1, OrderedIsBasket
    <3>2. PICK b \in Int : b = balance
      BY <1>1 DEF CheckoutTypeOK
    <3>3. [op |-> "count", items |-> i, balance |-> b] \in RequestRecords
      BY RequestShape
    <3>4. Becomes(t, [op |-> "count", items |-> i, balance |-> b])
      BY <2>1, <3>1, <3>2 DEF ValidateForCheckout
    <3> QED
      BY <3>3, <3>4
  <2>2. CASE ~ValidateForCheckout(t)
    <3>1. \E o \in {"idle", "remaining", "empty"} : Becomes(t, [op |-> o])
      BY <2>2 DEF RemoveItem, CountRemaining, DeleteCart, RequestFails, OnOrderCreated, Done
    <3>2. \A o \in {"idle", "remaining", "empty"} : [op |-> o] \in RequestRecords /\ [op |-> o].op \notin {"price", "refund", "edit"}
      BY RequestShape
    <3> QED
      BY <3>1, <3>2
  <2> QED
    BY <2>1, <2>2
<1> QED
  BY <1>1, <1>2, <1>3, RequestsGo, OrdersAside

\* With those that passed before it at the limit, at most all requests have passed.
LEMMA CheckLimitStep ==
    ASSUME CheckoutIInv, NEW t \in Requests, CheckLimit(t)
    PROVE  CheckoutIInv'
<1>1. /\ CheckoutTypeOK /\ UNCHANGED <<line, order, balance, stock>> /\ request[t] \in RequestRecords
      /\ line \in [Lines -> LineRows]
  BY DEF CheckoutIInv, CheckoutTypeOK, CheckLimit
<1>2. CASE ~MayOrder
  <2>1. Becomes(t, [op |-> "idle"])
    BY <1>2 DEF CheckLimit, Done
  <2>2. [op |-> "idle"] \in RequestRecords /\ [op |-> "idle"].op \notin {"price", "refund", "edit"}
    BY RequestShape
  <2> QED
    BY <1>1, <2>1, <2>2, RequestsGo, OrdersAside
<1>3. CASE MayOrder
  <2> DEFINE r == [request[t] EXCEPT !.op = "price"]
  <2>1. r \in RequestRecords /\ request' = [request EXCEPT ![t] = r] /\ r.op = "price"
    BY <1>1, <1>3, RequestShape DEF CheckLimit, Becomes
  <2> HIDE DEF r
  <2>2. request' \in [Requests -> RequestRecords]
    BY <1>1, <2>1 DEF CheckoutTypeOK
  <2>3. CheckoutTypeOK'
    BY <1>1, <2>2 DEF CheckoutTypeOK
  <2>4. /\ OrdersInARow' /\ CoinsWorthDiscount' /\ Fresh' = Fresh /\ Placed' = Placed
        /\ Taken' = Taken /\ Returned' = Returned
    BY <1>1 DEF CheckoutIInv, OrdersInARow, CoinsWorthDiscount, Placed, Active, Open, Fresh, Taken, Returned
  <2>5. Balanced' /\ RequestsRefer' /\ ReturnedOnce'
    <3>1. request[t].op = "count" /\ request'[t].op = "price" /\ \A x \in Requests \ {t} : request'[x] = request[x]
      BY <1>1, <2>1 DEF CheckoutTypeOK, CheckLimit
    <3>2. \A o \in Placed : Returning(o)' = Returning(o)
      BY <3>1 DEF Returning
    <3>3. ReturnedOnce'
      BY <1>1, <2>4, <3>2 DEF CheckoutIInv, ReturnedOnce
    <3>4. RequestsRefer'
      BY <2>4, <3>1 DEF CheckoutIInv, RequestsRefer
    <3>5. Balanced'
      BY <1>1, <2>4 DEF CheckoutIInv, Balanced
    <3> QED
      BY <3>3, <3>4, <3>5
  <2>6. Cardinality(Fresh) <= Limit - 1
    <3>1. CASE Active = {}
      BY <3>1, NumbersOfOrders, FS_EmptySet, LimitIs
    <3>2. CASE Cardinality(Active) < MaxActiveOrders
      BY <3>2, NumbersOfOrders, LimitIs, CheckoutAssumption
    <3> QED
      BY <1>3, <3>1, <3>2 DEF MayOrder
  <2>7. FewActive'
    <3>1. PICK P : P = Pricing'
      OBVIOUS
    <3>2. P \subseteq Requests
      BY <3>1 DEF Pricing
    <3>3. Cardinality(P) <= Cardinality(Requests) /\ Cardinality(P) \in Nat
      BY <3>2, CheckoutAssumption, FS_Subset, FS_CardinalityType
    <3> QED
      BY <2>4, <2>6, <3>1, <3>3, NumbersOfOrders, LimitIs DEF FewActive
  <2> QED
    BY <2>3, <2>4, <2>5, <2>7 DEF CheckoutIInv
<1> QED
  BY <1>2, <1>3

LEMMA CreateOrderStep ==
    ASSUME CheckoutIInv, NEW t \in Requests, NEW coins \in CoinOffers, NEW km \in Distances,
           CreateOrder(t, coins, km)
    PROVE  CheckoutIInv'
<1>1. /\ CheckoutTypeOK /\ request[t] \in RequestRecords /\ request[t].op = "price"
      /\ order \in [Orders -> OrderRows] /\ line \in [Lines -> LineRows] /\ UNCHANGED line
      /\ NextOrder \in Orders
  BY DEF CheckoutIInv, CheckoutTypeOK, CreateOrder
<1>2. PICK items \in Basket : items = request[t].items
  BY <1>1, RequestShape
<1>3. PICK full \in Nat : full = PreDiscountTotal(items, km)
  BY FullPriceIsNatural
<1>4. PICK used \in Nat, discount \in Nat :
        /\ used = CoinsUsed(coins, full) /\ discount = Discount(coins, full) /\ discount <= full
        /\ used * CoinValue >= discount
        /\ discount > 0 => (used - 1) * CoinValue < discount
  BY CheckoutAssumption, CoinsMatchDiscount
<1>5. PICK n \in Orders : n = NextOrder
  BY <1>1
<1> DEFINE r == [state |-> "ACTIVE", items |-> items, full |-> full, coins |-> used,
                 total |-> full - discount, km |-> km, edited |-> FALSE,
                 returns |-> 0, revived |-> 0]
<1>6. /\ order' = [order EXCEPT ![n] = r]
      /\ used > 0 => used <= balance
      /\ balance' = balance - used
      /\ stock' = [v \in DOMAIN stock |-> stock[v] - TakenOf(items, v)]
  BY <1>2, <1>3, <1>4, <1>5 DEF CreateOrder, Affordable
<1>7. /\ r \in PlacedRows /\ r.state = "ACTIVE" /\ r.coins = used /\ ~r.edited
      /\ r.full = full /\ r.total = full - discount /\ r.returns = 0 /\ r.revived = 0
  BY <1>4 DEF PlacedRows, OrderStates
<1> HIDE DEF r
<1>8. Becomes(t, [op |-> "clear"]) /\ [op |-> "clear"] \in RequestRecords /\ [op |-> "clear"].op \notin {"price", "refund", "edit"}
  BY RequestShape DEF CreateOrder
<1>9. PICK k \in Nat : Placed = 1..k
  BY DEF CheckoutIInv, OrdersInARow
<1>10. n = k + 1 /\ n \notin Placed
  <2>1. Cardinality(1..k) = k
    BY FS_Interval
  <2>2. n = Cardinality(Placed) + 1
    BY <1>5 DEF NextOrder
  <2> QED
    BY <1>9, <2>1, <2>2
<1>11. /\ order' \in [Orders -> OrderRows] /\ order'[n] = r
       /\ \A o \in Orders \ {n} : order'[o] = order[o]
       /\ order[n].state = "NONE"
  BY <1>1, <1>6, <1>7, <1>10, RowForms DEF Placed
<1>20. /\ request' \in [Requests -> RequestRecords]
       /\ \A x \in Requests : request'[x].op \in {"price", "refund", "edit"} => request'[x] = request[x] /\ x # t
  BY <1>8, RequestsGo
<1>21. Placed' = Placed \cup {n}
  BY <1>7, <1>11 DEF Placed
<1>12. CheckoutTypeOK'
  <2>1. balance' \in Nat
    BY <1>1, <1>6 DEF CheckoutTypeOK
  <2>2. stock' \in [Range(VariantOf) -> Int]
    BY <1>1, <1>6, TakenIsNatural DEF CheckoutTypeOK
  <2>3. request' \in [Requests -> RequestRecords]
    BY <1>20
  <2> QED
    BY <1>1, <1>11, <2>1, <2>2, <2>3 DEF CheckoutTypeOK
<1>13. OrdersInARow'
  <2>2. Placed' = 1..(k + 1)
    BY <1>9, <1>10, <1>21
  <2> QED
    BY <2>2 DEF OrdersInARow
<1>14. Balanced'
  <2> DEFINE U == Placed \cup {n}
             g == [o \in U |-> order'[o].coins]
             h == [o \in U |-> order'[o].coins * order'[o].returns]
  <2>1. Taken' = g /\ Returned' = h
    BY <1>21 DEF Taken, Returned
  <2>2. \A o \in Placed : g[o] = Taken[o] /\ h[o] = Returned[o]
    BY <1>10, <1>11 DEF Taken, Returned, Placed
  <2>3. g[n] = used
    BY <1>7, <1>11
  <2>4. h[n] = used * 0
    BY <1>7, <1>11
  <2>5. ASSUME NEW o \in Placed PROVE Taken[o] \in Nat /\ Returned[o] \in Nat
    <3>1. PICK a \in Nat, b \in Nat : a = order[o].coins /\ b = order[o].returns
      BY <1>1, RowForms DEF Placed
    <3> QED
      BY <3>1, ProductNat DEF Taken, Returned
  <2>6. IsFiniteSet(U) /\ U \ {n} = Placed /\ n \in U
    BY <1>10, NumbersOfOrders, FS_AddElement
  <2> HIDE DEF g, h
  <2>7. \A o \in U : g[o] \in Nat /\ h[o] \in Nat
    BY <1>4, <2>2, <2>3, <2>4, <2>5
  <2>8. SumFunctionOnSet(g, U) = used + SumFunctionOnSet(g, Placed)
    BY <2>3, <2>6, <2>7, SumSplit
  <2>9. SumFunctionOnSet(h, U) = used * 0 + SumFunctionOnSet(h, Placed)
    BY <2>4, <2>6, <2>7, SumSplit
  <2>10. SumFunctionOnSet(g, Placed) = SumFunctionOnSet(Taken, Placed)
    BY <2>2, <2>5, NumbersOfOrders, SumSame
  <2>11. SumFunctionOnSet(h, Placed) = SumFunctionOnSet(Returned, Placed)
    BY <2>2, <2>5, NumbersOfOrders, SumSame
  <2>12. PICK a \in Nat, b \in Nat : a = SumFunctionOnSet(Taken, Placed) /\ b = SumFunctionOnSet(Returned, Placed)
    BY <2>5, NumbersOfOrders, SumType
  <2>13. balance + a = Coins + b
    BY <2>12 DEF CheckoutIInv, Balanced
  <2>14. SumFunctionOnSet(g, U) = used + a /\ SumFunctionOnSet(h, U) = b
    BY <1>4, <2>8, <2>9, <2>10, <2>11, <2>12
  <2>15. balance' + (used + a) = Coins + b
    <3>1. PICK w \in Nat, m \in Nat : w = balance /\ m = Coins
      BY <1>1, CheckoutAssumption DEF CheckoutTypeOK
    <3>2. w + a = m + b /\ balance' = w - used
      BY <1>6, <2>13, <3>1
    <3>3. balance' + (used + a) = m + b
      BY <1>4, <3>2
    <3> QED
      BY <3>1, <3>3
  <2> HIDE DEF U
  <2>16. Placed' = U
    BY <1>21 DEF U
  <2> QED
    BY <2>1, <2>14, <2>15, <2>16 DEF Balanced
<1>22. RequestsRefer'
  BY <1>20, <1>21 DEF CheckoutIInv, RequestsRefer
<1>23. ReturnedOnce'
  <2> SUFFICES ASSUME NEW x \in Placed \cup {n}
               PROVE  order'[x].returns + Cardinality(Returning(x)')
                        <= order'[x].revived + (IF order'[x].state = "CANCELLED" THEN 1 ELSE 0)
    BY <1>21 DEF ReturnedOnce
  <2>1. CASE x = n
    <3>1. Returning(x)' = {}
      BY <1>10, <1>20, <2>1 DEF CheckoutIInv, RequestsRefer, Returning
    <3>2. Cardinality(Returning(x)') = 0
      BY <3>1, FS_EmptySet
    <3> QED
      BY <1>7, <1>11, <2>1, <3>2
  <2>2. CASE x \in Placed
    <3>1. order'[x] = order[x] /\ order[x] \in PlacedRows
      BY <1>1, <1>10, <1>11, <2>2, RowForms DEF Placed
    <3>2. PICK a \in Nat, b \in Nat, e \in {0, 1} :
            a = order[x].returns /\ b = order[x].revived /\ e = IF order[x].state = "CANCELLED" THEN 1 ELSE 0
      BY <3>1, RowForms
    <3>3. a + Cardinality(Returning(x)) <= b + e
      BY <2>2, <3>2 DEF CheckoutIInv, ReturnedOnce
    <3>4. Cardinality(Returning(x)') <= Cardinality(Returning(x)) /\ Cardinality(Returning(x)') \in Nat
      BY <1>20, RefundsGo
    <3>5. a + Cardinality(Returning(x)') <= b + e
      BY <3>3, <3>4, NumbersOfOrders
    <3> QED
      BY <3>1, <3>2, <3>5
  <2> QED
    BY <2>1, <2>2
<1>15. CoinsWorthDiscount'
  <2> SUFFICES ASSUME NEW o \in Orders, order'[o].state # "NONE", ~order'[o].edited
               PROVE  /\ order'[o].total >= 0
                      /\ order'[o].coins * CoinValue >= order'[o].full - order'[o].total
                      /\ order'[o].full - order'[o].total > 0
                         => (order'[o].coins - 1) * CoinValue < order'[o].full - order'[o].total
    BY DEF CoinsWorthDiscount, Placed
  <2>1. CASE o = n
    <3>1. full - (full - discount) = discount /\ full - discount >= 0
      BY <1>4
    <3> QED
      BY <1>4, <1>7, <1>11, <2>1, <3>1
  <2>2. CASE o # n
    <3>1. order'[o] = order[o] /\ o \in Placed
      BY <1>11, <2>2 DEF Placed
    <3> QED
      BY <3>1 DEF CheckoutIInv, CoinsWorthDiscount
  <2> QED
    BY <2>1, <2>2
<1>16. FewActive'
  <2>1. PICK A, P : A = Fresh' /\ P = Pricing'
    OBVIOUS
  <2>2. A = Fresh \cup {n} /\ n \notin Fresh
    BY <1>7, <1>11, <2>1 DEF Fresh, Active, Open
  <2>3. Cardinality(A) = Cardinality(Fresh) + 1
    BY <2>2, NumbersOfOrders, FS_AddElement
  <2>4. P \subseteq Pricing \ {t} /\ t \in Pricing
    BY <1>1, <1>20, <2>1 DEF Pricing
  <2>5. IsFiniteSet(Pricing \ {t}) /\ Cardinality(Pricing \ {t}) = Cardinality(Pricing) - 1
    BY <2>4, NumbersOfOrders, FS_RemoveElement
  <2>6. Cardinality(P) <= Cardinality(Pricing) - 1 /\ Cardinality(P) \in Nat
    BY <2>4, <2>5, FS_Subset, FS_CardinalityType
  <2> QED
    BY <2>1, <2>3, <2>6, NumbersOfOrders, LimitIs DEF CheckoutIInv, FewActive
<1> QED
  BY <1>12, <1>13, <1>14, <1>15, <1>16, <1>22, <1>23 DEF CheckoutIInv

LEMMA OrderAndItsReturns ==
    ASSUME CheckoutIInv, NEW o \in Placed
    PROVE  /\ o \in Orders /\ order[o] \in PlacedRows
           /\ order[o].returns \in Nat /\ order[o].revived \in Nat
           /\ order[o].returns + Cardinality(Returning(o))
                <= order[o].revived + (IF order[o].state = "CANCELLED" THEN 1 ELSE 0)
<1>1. o \in Orders /\ order[o] \in PlacedRows
  BY RowForms DEF CheckoutIInv, CheckoutTypeOK, Placed
<1> QED
  BY <1>1, RowForms DEF CheckoutIInv, ReturnedOnce

\* An open order that gets another status.
LEMMA StateStep ==
    ASSUME CheckoutIInv, NEW o \in Orders,
           \/ Deliver(o) \/ \E s \in {"ACTIVE", "CANCELLED"} : AnswerChanges(o, s)
           \/ \E t \in Requests : CancelOrder(t, o)
    PROVE  CheckoutIInv'
<1>1. PICK s \in {"ACTIVE", "DELIVERED", "CANCELLED"} :
        /\ order' = [order EXCEPT ![o].state = s] /\ UNCHANGED <<line, balance, stock>>
        /\ \/ UNCHANGED request
           \/ s = "CANCELLED" /\ \E t \in Requests : Idle(t) /\ Becomes(t, [op |-> "refund", order |-> o])
  BY DEF Deliver, AnswerChanges, CancelOrder
<1>2. Open(o)
  BY DEF Deliver, AnswerChanges, CancelOrder, Cancellable, Open
<1>3. o \in Placed
  BY <1>2 DEF Open, Placed
<1>4. order[o] \in PlacedRows /\ CheckoutTypeOK
  BY <1>3, OrderAndItsReturns DEF CheckoutIInv
<1> DEFINE r == [order[o] EXCEPT !.state = s]
<1>5. /\ r \in PlacedRows /\ r.state = s /\ r.coins = order[o].coins /\ r.returns = order[o].returns
      /\ r.edited = order[o].edited /\ r.full = order[o].full /\ r.total = order[o].total
      /\ r.revived = order[o].revived
  BY <1>1, <1>4 DEF PlacedRows, OrderStates
<1>6. order' = [order EXCEPT ![o] = r]
  BY <1>1, <1>4 DEF CheckoutTypeOK
<1> HIDE DEF r
<1>7. /\ request' \in [Requests -> RequestRecords]
      /\ \A t \in Requests : request'[t].op = "price" => request[t].op = "price"
      /\ \A t \in Requests : request'[t].op \in {"refund", "edit"} =>
            request'[t] = request[t] \/ request'[t].order = o
  <2>1. CASE UNCHANGED request
    BY <1>4, <2>1 DEF CheckoutTypeOK
  <2>2. ASSUME NEW t \in Requests, Becomes(t, [op |-> "refund", order |-> o])
        PROVE  /\ request' \in [Requests -> RequestRecords]
               /\ request'[t] = [op |-> "refund", order |-> o]
               /\ \A x \in Requests \ {t} : request'[x] = request[x]
    BY <1>4, <2>2, RequestShape DEF CheckoutTypeOK, Becomes
  <2> QED
    BY <1>1, <2>1, <2>2
<1>8. r.returns + Cardinality(Returning(o)') <= r.revived + (IF r.state = "CANCELLED" THEN 1 ELSE 0)
  <2>1. PICK a \in Nat, b \in Nat : a = order[o].returns /\ b = order[o].revived
    BY <1>3, OrderAndItsReturns
  <2>2. a + Cardinality(Returning(o)) <= b
    BY <1>2, <1>3, <2>1, OrderAndItsReturns DEF Open
  <2>3. CASE UNCHANGED request
    <3>1. Returning(o)' = Returning(o)
      BY <2>3 DEF Returning
    <3> QED
      BY <1>5, <2>1, <2>2, <3>1, NumbersOfOrders
  <2>4. CASE s = "CANCELLED" /\ \E t \in Requests : Idle(t) /\ Becomes(t, [op |-> "refund", order |-> o])
    <3>1. PICK t \in Requests : Becomes(t, [op |-> "refund", order |-> o])
      BY <2>4
    <3>2. PICK R : R = Returning(o)'
      OBVIOUS
    <3>3. R \subseteq Returning(o) \cup {t}
      BY <1>4, <3>1, <3>2 DEF Returning, Becomes, CheckoutTypeOK
    <3>4. /\ IsFiniteSet(Returning(o) \cup {t})
          /\ Cardinality(Returning(o) \cup {t}) <= Cardinality(Returning(o)) + 1
          /\ Cardinality(Returning(o) \cup {t}) \in Nat
      <4>1. CASE t \in Returning(o)
        <5>1. Returning(o) \cup {t} = Returning(o)
          BY <4>1
        <5>2. PICK n \in Nat : n = Cardinality(Returning(o)) /\ IsFiniteSet(Returning(o))
          BY NumbersOfOrders
        <5>3. n <= n + 1
          OBVIOUS
        <5> QED
          BY <5>1, <5>2, <5>3
      <4>2. CASE t \notin Returning(o)
        BY <4>2, NumbersOfOrders, FS_AddElement
      <4> QED
        BY <4>1, <4>2
    <3>5. Cardinality(R) <= Cardinality(Returning(o) \cup {t}) /\ Cardinality(R) \in Nat
      BY <3>3, <3>4, FS_Subset, FS_CardinalityType
    <3>6. a + Cardinality(R) <= b + 1
      BY <2>2, <3>4, <3>5, NumbersOfOrders
    <3> QED
      BY <1>5, <2>1, <2>4, <3>2, <3>6
  <2> QED
    BY <1>1, <2>3, <2>4
<1>9. r.state \in {"ACTIVE", "CHANGES"} /\ r.revived = 0 => Open(o) /\ order[o].revived = 0
  BY <1>2, <1>5
<1> QED
  BY <1>1, <1>4, <1>5, <1>6, <1>7, <1>8, <1>9, OrderWritten

LEMMA RefundStep ==
    ASSUME CheckoutIInv, NEW t \in Requests, RefundCoins(t)
    PROVE  CheckoutIInv'
<1>1. CheckoutTypeOK /\ request[t] \in RequestRecords /\ request[t].op = "refund"
  BY DEF CheckoutIInv, CheckoutTypeOK, RefundCoins
<1>2. PICK o \in Orders : o = request[t].order /\ o \in Placed /\ request[t] = [op |-> "refund", order |-> o]
  BY <1>1, RequestShape DEF CheckoutIInv, RequestsRefer
<1>3. order[o] \in PlacedRows
  BY <1>2, OrderAndItsReturns
<1>4. PICK a \in Nat, b \in Nat : a = order[o].returns /\ b = order[o].revived
  BY <1>2, OrderAndItsReturns
<1> DEFINE r == [order[o] EXCEPT !.returns = a + 1]
<1>5. /\ r \in PlacedRows /\ r.state = order[o].state /\ r.coins = order[o].coins /\ r.returns = a + 1
      /\ r.edited = order[o].edited /\ r.full = order[o].full /\ r.total = order[o].total
      /\ r.revived = b
  BY <1>3, <1>4 DEF PlacedRows
<1>6. /\ order' = [order EXCEPT ![o] = r] /\ balance' = balance + order[o].coins
      /\ UNCHANGED <<line, stock>> /\ Becomes(t, [op |-> "idle"])
  BY <1>1, <1>2, <1>3, <1>4 DEF CheckoutTypeOK, RefundCoins, Done
<1> HIDE DEF r
<1>7. /\ request' \in [Requests -> RequestRecords]
      /\ \A x \in Requests : request'[x].op \in {"price", "refund", "edit"} => request'[x] = request[x] /\ x # t
  <2>1. [op |-> "idle"] \in RequestRecords /\ [op |-> "idle"].op \notin {"price", "refund", "edit"}
    BY RequestShape
  <2> QED
    BY <1>6, <2>1, RequestsGo
<1>8. r.returns + Cardinality(Returning(o)') <= r.revived + (IF r.state = "CANCELLED" THEN 1 ELSE 0)
  <2>1. PICK e \in {0, 1} : e = IF order[o].state = "CANCELLED" THEN 1 ELSE 0
    OBVIOUS
  <2>2. a + Cardinality(Returning(o)) <= b + e
    BY <1>2, <1>4, <2>1, OrderAndItsReturns
  <2>3. PICK R : R = Returning(o)'
    OBVIOUS
  <2>4. R \subseteq Returning(o) \ {t} /\ t \in Returning(o)
    <3>1. t \in Returning(o)
      BY <1>2 DEF Returning
    <3>2. ASSUME NEW x \in R PROVE x \in Returning(o) /\ x # t
      <4>1. x \in Requests /\ request'[x] = [op |-> "refund", order |-> o]
        BY <2>3 DEF Returning
      <4>2. request'[x].op = "refund"
        BY <4>1
      <4> QED
        BY <1>7, <4>1, <4>2 DEF Returning
    <3> QED
      BY <3>1, <3>2
  <2>5. IsFiniteSet(Returning(o) \ {t}) /\ Cardinality(Returning(o) \ {t}) = Cardinality(Returning(o)) - 1
    BY <2>4, NumbersOfOrders, FS_RemoveElement
  <2>6. Cardinality(R) <= Cardinality(Returning(o)) - 1 /\ Cardinality(R) \in Nat
    BY <2>4, <2>5, FS_Subset, FS_CardinalityType
  <2>7. a + 1 + Cardinality(R) <= b + e
    BY <2>2, <2>6, NumbersOfOrders
  <2> QED
    BY <1>5, <2>1, <2>3, <2>7
<1>9. /\ r.returns = order[o].returns + 1
      /\ r.state \in {"ACTIVE", "CHANGES"} /\ r.revived = 0 => Open(o) /\ order[o].revived = 0
  BY <1>4, <1>5 DEF Open
<1> QED
  BY <1>3, <1>5, <1>6, <1>7, <1>8, <1>9, OrderWritten

LEMMA CheckEditStep ==
    ASSUME CheckoutIInv, NEW t \in Requests, NEW o \in Orders, CheckEdit(t, o)
    PROVE  CheckoutIInv'
<1>1. /\ CheckoutTypeOK /\ UNCHANGED <<line, order, balance, stock>> /\ o \in Placed
      /\ Becomes(t, [op |-> "edit", order |-> o])
  BY DEF CheckoutIInv, CheckEdit, Placed
<1>2. [op |-> "edit", order |-> o] \in RequestRecords
  BY RequestShape
<1>3. /\ request' \in [Requests -> RequestRecords] /\ request'[t] = [op |-> "edit", order |-> o]
      /\ \A x \in Requests \ {t} : request'[x] = request[x]
  BY <1>1, <1>2 DEF CheckoutTypeOK, Becomes
<1>4. \A x \in Requests : request'[x].op = "edit" => request'[x].order \in Placed
  BY <1>1, <1>3 DEF CheckoutIInv, RequestsRefer
<1>5. \A x \in Requests : request'[x].op \in {"price", "refund"} => request'[x] = request[x]
  BY <1>3
<1>6. line' \in [Lines -> LineRows]
  BY <1>1 DEF CheckoutTypeOK
<1> QED
  BY <1>1, <1>3, <1>4, <1>5, <1>6, OrdersAside

LEMMA CommitEditStep ==
    ASSUME CheckoutIInv, NEW t \in Requests, request[t].op = "edit",
           CommitEdit(t, order[request[t].order].items)
    PROVE  CheckoutIInv'
<1>1. CheckoutTypeOK /\ request[t] \in RequestRecords
  BY DEF CheckoutIInv, CheckoutTypeOK
<1>2. PICK o \in Orders : o = request[t].order /\ o \in Placed
  BY <1>1, RequestShape DEF CheckoutIInv, RequestsRefer
<1>3. order[o] \in PlacedRows
  BY <1>2, OrderAndItsReturns
<1>4. PICK i \in Basket, km \in Distances : i = order[o].items /\ km = order[o].km
  BY <1>3, RowForms
<1>5. PICK x \in Int : x = EditedTotal(i, km)
  BY <1>4, EditedPriceIsInteger
<1>6. PICK b \in Nat, n \in Nat :
        /\ b = order[o].revived /\ n = IF Open(o) THEN b ELSE b + 1
  BY <1>2, OrderAndItsReturns
<1> DEFINE r == [order[o] EXCEPT !.state = "CHANGES", !.items = i, !.edited = TRUE, !.total = x, !.revived = n]
<1>7. /\ r \in PlacedRows /\ r.state = "CHANGES" /\ r.coins = order[o].coins /\ r.returns = order[o].returns
      /\ r.edited /\ r.revived = n
  <2>1. order[o] \in [state : OrderStates, items : Basket,
               full : Nat, total : Int, coins : Nat, km : Distances, edited : BOOLEAN,
               returns : Nat, revived : Nat]
    BY <1>3 DEF PlacedRows
  <2>2. "CHANGES" \in OrderStates
    BY DEF OrderStates
  <2>3. /\ r \in [state : OrderStates, items : Basket,
               full : Nat, total : Int, coins : Nat, km : Distances, edited : BOOLEAN,
               returns : Nat, revived : Nat]
        /\ r.state = "CHANGES" /\ r.coins = order[o].coins /\ r.returns = order[o].returns
        /\ r.edited /\ r.revived = n
    BY <1>4, <1>5, <1>6, <2>1, <2>2
  <2> QED
    BY <2>3 DEF PlacedRows
<1>8. /\ order' = [order EXCEPT ![o] = r] /\ UNCHANGED <<line, balance, stock>> /\ Becomes(t, [op |-> "idle"])
  <2>1. order' = [order EXCEPT ![o] = [order[o] EXCEPT !.state = "CHANGES", !.items = order[o].items,
            !.edited = TRUE, !.total = EditedTotal(order[o].items, order[o].km),
            !.revived = IF Open(o) THEN order[o].revived ELSE order[o].revived + 1]]
    BY <1>1, <1>2 DEF CommitEdit, CheckoutTypeOK
  <2>2. (IF Open(o) THEN order[o].revived ELSE order[o].revived + 1) = n
    BY <1>6
  <2>3. EditedTotal(order[o].items, order[o].km) = x
    BY <1>4, <1>5
  <2>4. order' = [order EXCEPT ![o] = r]
    BY <1>4, <2>1, <2>2, <2>3
  <2> QED
    BY <2>4 DEF CommitEdit, Done
<1> HIDE DEF r
<1>9. /\ request' \in [Requests -> RequestRecords]
      /\ \A y \in Requests : request'[y].op \in {"price", "refund", "edit"} => request'[y] = request[y] /\ y # t
  <2>1. [op |-> "idle"] \in RequestRecords /\ [op |-> "idle"].op \notin {"price", "refund", "edit"}
    BY RequestShape
  <2> QED
    BY <1>8, <2>1, RequestsGo
<1>10. r.returns + Cardinality(Returning(o)') <= r.revived + (IF r.state = "CANCELLED" THEN 1 ELSE 0)
  <2>1. PICK a \in Nat, e \in {0, 1} : a = order[o].returns /\ e = IF order[o].state = "CANCELLED" THEN 1 ELSE 0
    BY <1>2, OrderAndItsReturns
  <2>2. a + Cardinality(Returning(o)) <= b + e
    BY <1>2, <1>6, <2>1, OrderAndItsReturns
  <2>3. b + e <= n
    BY <1>6, <2>1 DEF Open
  <2>4. Cardinality(Returning(o)') <= Cardinality(Returning(o)) /\ Cardinality(Returning(o)') \in Nat
    BY <1>9, RefundsGo
  <2>5. a + Cardinality(Returning(o)') <= n + 0
    BY <2>2, <2>3, <2>4, NumbersOfOrders
  <2> QED
    BY <1>7, <2>1, <2>5
<1>11. r.state \in {"ACTIVE", "CHANGES"} /\ r.revived = 0 => Open(o) /\ order[o].revived = 0
  <2>1. n = 0 => Open(o) /\ b = 0
    BY <1>6
  <2> QED
    BY <1>6, <1>7, <2>1
<1> QED
  BY <1>3, <1>7, <1>8, <1>9, <1>10, <1>11, OrderWritten

LEMMA CheckoutInitIInv == ASSUME CheckoutInit PROVE CheckoutIInv
<1>1. CheckoutTypeOK
  <2>1. [op |-> "idle"] \in RequestRecords
    BY RequestShape
  <2> QED
    BY <2>1, LineForms, RowForms, CheckoutAssumption DEF CheckoutInit, CheckoutTypeOK
<1>2. Placed = {} /\ Fresh = {} /\ Pricing = {} /\ \A t \in Requests : request[t].op = "idle"
  BY DEF CheckoutInit, Placed, Fresh, Active, Open, Pricing
<1>3. OrdersInARow
  <2>1. 0 \in Nat /\ 1..0 = {}
    OBVIOUS
  <2> QED
    BY <1>2, <2>1 DEF OrdersInARow
<1>4. Balanced
  <2>1. SumFunctionOnSet(Taken, {}) = 0 /\ SumFunctionOnSet(Returned, {}) = 0
    BY SumEmpty
  <2>2. balance = Coins
    BY DEF CheckoutInit
  <2> QED
    BY <1>2, <2>1, <2>2 DEF Balanced
<1>7. ReturnedOnce /\ RequestsRefer
  BY <1>2 DEF ReturnedOnce, RequestsRefer
<1>5. CoinsWorthDiscount
  BY <1>2 DEF CoinsWorthDiscount
<1>6. FewActive
  <2>1. Cardinality({}) = 0
    BY FS_EmptySet
  <2> QED
    BY <1>2, <2>1, NumbersOfOrders, LimitIs DEF FewActive
<1> QED
  BY <1>1, <1>3, <1>4, <1>5, <1>6, <1>7 DEF CheckoutIInv

LEMMA CheckoutStepIInv == ASSUME CheckoutIInv, [CheckoutNext]_checkoutVars PROVE CheckoutIInv'
<1>1. CASE UNCHANGED checkoutVars
  BY <1>1, OrdersAside DEF checkoutVars, CheckoutIInv, CheckoutTypeOK, RequestsRefer
<1>2. CASE \/ \E c \in Wares : AddItem(c)
           \/ \E l \in Lines, c \in Wares, q \in 1..MaxQuantity : UpdateItem(l, c, q)
           \/ ClearCart \/ AbandonedCartsCleanup
  BY <1>2, CartStep DEF AbandonedCartsCleanup
<1>3. CASE \E t \in Requests :
              \/ \E l \in Lines : RemoveItem(t, l)
              \/ CountRemaining(t) \/ DeleteCart(t)
              \/ ValidateForCheckout(t) \/ CheckLimit(t) \/ RequestFails(t) \/ OnOrderCreated(t)
              \/ \E coins \in CoinOffers, km \in Distances : CreateOrder(t, coins, km)
  BY <1>3, RequestStep, CheckLimitStep, CreateOrderStep
<1>4. CASE \E t \in Requests :
              \/ RefundCoins(t)
              \/ \E o \in Orders : CancelOrder(t, o) \/ CheckEdit(t, o)
              \/ request[t].op = "edit" /\ CommitEdit(t, order[request[t].order].items)
  BY <1>4, StateStep, RefundStep, CheckEditStep, CommitEditStep
<1>5. CASE \E o \in Orders :
              \/ Deliver(o)
              \/ \E s \in {"ACTIVE", "CANCELLED"} : AnswerChanges(o, s)
  BY <1>5, StateStep
<1> QED
  BY <1>1, <1>2, <1>3, <1>4, <1>5 DEF CheckoutNext

LEMMA CheckoutSafe ==
    ASSUME CheckoutIInv
    PROVE  CoinsAccounted /\ CoinsWorthDiscount /\ ActiveOrdersBounded
<1>1. Cardinality(Fresh) < Limit + Cardinality(Requests)
  BY NumbersOfOrders, LimitIs DEF CheckoutIInv, FewActive
<1>2. CoinsAccounted
  <2>1. balance >= 0
    BY DEF CheckoutIInv, CheckoutTypeOK
  <2>2. balance + SumFunction(Taken) = Coins + SumFunction(Returned)
    BY DEF CheckoutIInv, Balanced, SumFunction, Taken, Returned
  <2>3. balance + SumFunction([o \in Placed |-> order[o].coins])
          = Coins + SumFunction([o \in Placed |-> order[o].coins * order[o].returns])
    BY <2>2 DEF Taken, Returned
  <2> QED
    BY <2>1, <2>3 DEF CheckoutIInv, ReturnedOnce, CoinsAccounted
<1> QED
  BY <1>1, <1>2 DEF CheckoutIInv, ActiveOrdersBounded, Limit, Fresh

-----------------------------------------------------------------------------
(* Catalogue                                                               *)

\* What is written to a product that was found is written to a row.
ProductsFound ==
    \A e \in Editors : editor[e].op \in {"updateProduct", "removeProduct", "flag", "addVariant"} =>
        product[editor[e].product] # NoProduct

CatalogIInv == CatalogTypeOK /\ ProductsFound

\* What a step does of what the two step properties are about.
HiddenStay ==
    \A p \in Products :
        product[p].state = "REMOVED" /\ ~product[p].active /\ UpdatesOf(p) = {}
        => ~product'[p].active /\ UpdatesOf(p)' = {}
LiveStay == \A v \in Stores : store[v] = "LIVE" => store'[v] \in {"LIVE", "DELETED"}
CatalogStepSound == CatalogIInv' /\ LiveStay /\ HiddenStay

StoreStates == {"NONE", "LIVE", "DELETED", "GONE"}
Catalogued == {NoProduct} \cup ProductRows
Commissions ==
    {[op |-> "idle"]} \cup [op : {"createCategory"}, at : SortOrders]
    \cup [op : {"createProduct", "updateProduct"}, product : Products, row : ProductRows]
    \cup [op : {"removeProduct", "flag", "addVariant"}, product : Products]

LEMMA CatalogTypes ==
    CatalogTypeOK <=>
        /\ vertical \in {"there", "destroy", "delete", "gone"} /\ store \in [Stores -> StoreStates]
        /\ category \in [Categories -> SortOrders \cup {NoCategory}]
        /\ product \in [Products -> Catalogued]
        /\ variant \in [Variants -> Products \cup {"none"}]
        /\ editor \in [Editors -> Commissions]
BY DEF CatalogTypeOK, StoreStates, Catalogued, Commissions

LEMMA CatalogTypesKept ==
    ASSUME vertical' \in {"there", "destroy", "delete", "gone"}, store' \in [Stores -> StoreStates],
           category' \in [Categories -> SortOrders \cup {NoCategory}],
           product' \in [Products -> Catalogued], variant' \in [Variants -> Products \cup {"none"}],
           editor' \in [Editors -> Commissions]
    PROVE  CatalogTypeOK'
BY DEF CatalogTypeOK, StoreStates, Catalogued, Commissions

LEMMA CommissionForms ==
    /\ [op |-> "idle"] \in Commissions
    /\ \A n \in SortOrders : [op |-> "createCategory", at |-> n] \in Commissions
    /\ \A p \in Products, r \in ProductRows, o \in {"createProduct", "updateProduct"} :
          [op |-> o, product |-> p, row |-> r] \in Commissions
    /\ \A p \in Products, o \in {"removeProduct", "flag", "addVariant"} : [op |-> o, product |-> p] \in Commissions
<1>1. [op |-> "idle"] \in Commissions
  BY DEF Commissions
<1>2. \A n \in SortOrders : [op |-> "createCategory", at |-> n] \in Commissions
  BY DEF Commissions
<1>3. \A p \in Products, r \in ProductRows, o \in {"createProduct", "updateProduct"} :
          [op |-> o, product |-> p, row |-> r] \in Commissions
  BY DEF Commissions
<1>4. \A p \in Products, o \in {"removeProduct", "flag", "addVariant"} : [op |-> o, product |-> p] \in Commissions
  BY DEF Commissions
<1> QED
  BY <1>1, <1>2, <1>3, <1>4

LEMMA CommissionShape ==
    ASSUME NEW r \in Commissions
    PROVE  /\ r.op = "createCategory" => r.at \in SortOrders
           /\ r.op \in {"createProduct", "updateProduct"} => r.product \in Products /\ r.row \in ProductRows
           /\ r.op \in {"removeProduct", "flag", "addVariant"} => r.product \in Products
<1>1. CASE r = [op |-> "idle"]
  BY <1>1
<1>2. CASE r \in [op : {"createCategory"}, at : SortOrders]
  BY <1>2
<1>3. CASE r \in [op : {"createProduct", "updateProduct"}, product : Products, row : ProductRows]
  BY <1>3
<1>4. CASE r \in [op : {"removeProduct", "flag", "addVariant"}, product : Products]
  BY <1>4
<1> QED
  BY <1>1, <1>2, <1>3, <1>4 DEF Commissions

LEMMA ProductShape ==
    ASSUME CatalogTypeOK, NEW p \in Products
    PROVE  /\ product[p] # NoProduct => product[p] \in ProductRows
           /\ Live(p) => product[p] \in ProductRows /\ product[p] # NoProduct
           /\ \A r \in ProductRows : r # NoProduct /\ r.state \in {"LIVE", "REMOVED"} /\ r.active \in BOOLEAN
<1>1. product[p] \in Catalogued
  BY CatalogTypes
<1>2. \A r \in ProductRows : r # NoProduct /\ r.state \in {"LIVE", "REMOVED"} /\ r.active \in BOOLEAN
  BY DEF ProductRows, NoProduct
<1>3. NoProduct.state # "LIVE"
  BY DEF NoProduct
<1> QED
  BY <1>1, <1>2, <1>3 DEF Catalogued, Live

\* Neither products nor requests change.
LEMMA ProductsAside ==
    ASSUME CatalogIInv, CatalogTypeOK', UNCHANGED <<product, editor>>, LiveStay
    PROVE  CatalogStepSound
<1>1. ProductsFound'
  BY DEF CatalogIInv, ProductsFound
<1>2. HiddenStay
  BY DEF HiddenStay, UpdatesOf
<1> QED
  BY <1>1, <1>2 DEF CatalogStepSound, CatalogIInv

LEMMA StoreSteps ==
    ASSUME CatalogIInv,
           \/ \E v \in Stores : CreateStore(v) \/ RemoveStore(v)
           \/ RemoveVertical \/ DestroyDeleted \/ DeleteVertical
    PROVE  CatalogStepSound
<1>1. /\ CatalogTypeOK /\ UNCHANGED <<category, product, variant, editor>>
      /\ store \in [Stores -> StoreStates]
  BY CatalogTypes DEF CatalogIInv, CreateStore, RemoveStore, RemoveVertical, DestroyDeleted, DeleteVertical
<1>2. store' \in [Stores -> StoreStates] /\ LiveStay /\ vertical' \in {"there", "destroy", "delete", "gone"}
  <2>1. ASSUME NEW v \in Stores, CreateStore(v)
        PROVE  store' \in [Stores -> StoreStates] /\ LiveStay /\ vertical' \in {"there", "destroy", "delete", "gone"}
    BY <1>1, <2>1, CatalogTypes DEF CreateStore, LiveStay, StoreStates
  <2>2. ASSUME NEW v \in Stores, RemoveStore(v)
        PROVE  store' \in [Stores -> StoreStates] /\ LiveStay /\ vertical' \in {"there", "destroy", "delete", "gone"}
    BY <1>1, <2>2, CatalogTypes DEF RemoveStore, LiveStay, StoreStates
  <2>3. CASE RemoveVertical \/ DeleteVertical
    BY <1>1, <2>3 DEF RemoveVertical, DeleteVertical, LiveStay, StoreStates
  <2>4. CASE DestroyDeleted
    BY <1>1, <2>4 DEF DestroyDeleted, LiveStay, StoreStates
  <2> QED
    BY <2>1, <2>2, <2>3, <2>4
<1>3. CatalogTypeOK'
  BY <1>1, <1>2, CatalogTypes, CatalogTypesKept
<1> QED
  BY <1>1, <1>2, <1>3, ProductsAside

LEMMA ReorderStep ==
    ASSUME CatalogIInv, NEW S \in SUBSET Categories, NEW f \in [S -> SortOrders], Reorder(f)
    PROVE  CatalogStepSound
<1>1. CatalogTypeOK /\ UNCHANGED <<vertical, store, product, variant, editor>>
  BY DEF CatalogIInv, Reorder
<1>2. category' \in [Categories -> SortOrders \cup {NoCategory}]
  BY <1>1, CatalogTypes DEF Reorder
<1>3. CatalogTypeOK'
  BY <1>1, <1>2, CatalogTypes, CatalogTypesKept
<1>4. LiveStay
  BY <1>1 DEF LiveStay
<1> QED
  BY <1>1, <1>3, <1>4, ProductsAside

LEMMA RemoveVariantStep ==
    ASSUME CatalogIInv, NEW x \in Variants, RemoveVariant(x)
    PROVE  CatalogStepSound
<1>1. CatalogTypeOK /\ UNCHANGED <<vertical, store, category, product, editor>>
  BY DEF CatalogIInv, RemoveVariant
<1>2. variant' \in [Variants -> Products \cup {"none"}]
  BY <1>1, CatalogTypes DEF RemoveVariant
<1>3. CatalogTypeOK'
  BY <1>1, <1>2, CatalogTypes, CatalogTypesKept
<1>4. LiveStay
  BY <1>1 DEF LiveStay
<1> QED
  BY <1>1, <1>3, <1>4, ProductsAside

\* Products stay where they are, and hidden where nobody updates them.
ProductsStay(U) ==
    \A p \in Products :
        /\ product[p] # NoProduct => product'[p] # NoProduct
        /\ product[p].state = "REMOVED" /\ ~product[p].active /\ p \notin U => ~product'[p].active

\* A request goes on to r: an update of a live product only.
LEMMA RequestGoesOn ==
    ASSUME CatalogIInv, NEW e \in Editors, NEW r \in Commissions, Go(e, r), UNCHANGED store,
           vertical' \in {"there", "destroy", "delete", "gone"},
           category' \in [Categories -> SortOrders \cup {NoCategory}],
           product' \in [Products -> Catalogued], variant' \in [Variants -> Products \cup {"none"}],
           ProductsStay(IF editor[e].op = "updateProduct" THEN {editor[e].product} ELSE {}),
           r.op \in {"updateProduct", "removeProduct", "flag", "addVariant"} => product'[r.product] # NoProduct,
           r.op = "updateProduct" => Live(r.product)
    PROVE  CatalogStepSound
<1>1. /\ CatalogTypeOK /\ editor \in [Editors -> Commissions] /\ store \in [Stores -> StoreStates]
  BY CatalogTypes DEF CatalogIInv
<1>2. editor' \in [Editors -> Commissions] /\ editor'[e] = r /\ \A f \in Editors \ {e} : editor'[f] = editor[f]
  BY <1>1 DEF Go
<1>3. CatalogTypeOK'
  BY <1>1, <1>2, CatalogTypesKept
<1>4. ProductsFound'
  <2> SUFFICES ASSUME NEW f \in Editors,
                      editor'[f].op \in {"updateProduct", "removeProduct", "flag", "addVariant"}
               PROVE  product'[editor'[f].product] # NoProduct
    BY DEF ProductsFound
  <2>1. CASE f = e
    BY <1>2, <2>1
  <2>2. CASE f # e
    <3>1. editor'[f] = editor[f] /\ editor[f] \in Commissions
      BY <1>1, <1>2, <2>2
    <3>2. editor[f].product \in Products /\ product[editor[f].product] # NoProduct
      BY <3>1, CommissionShape DEF CatalogIInv, ProductsFound
    <3> QED
      BY <3>1, <3>2 DEF ProductsStay
  <2> QED
    BY <2>1, <2>2
<1>5. HiddenStay
  <2> SUFFICES ASSUME NEW p \in Products, product[p].state = "REMOVED", ~product[p].active, UpdatesOf(p) = {}
               PROVE  ~product'[p].active /\ UpdatesOf(p)' = {}
    BY DEF HiddenStay
  <2>1. ~(editor[e].op = "updateProduct" /\ editor[e].product = p)
    BY DEF UpdatesOf
  <2>2. ~product'[p].active
    BY <2>1 DEF ProductsStay
  <2>3. UpdatesOf(p)' = {}
    BY <1>2 DEF UpdatesOf, Live
  <2> QED
    BY <2>2, <2>3
<1>6. LiveStay
  BY DEF LiveStay
<1> QED
  BY <1>3, <1>4, <1>5, <1>6 DEF CatalogStepSound, CatalogIInv

LEMMA BeginRequestStep ==
    ASSUME CatalogIInv, NEW e \in Editors,
           \/ FindEnd(e)
           \/ \E p \in Products, r \in ProductRows : CheckCreate(e, p, r) \/ CheckUpdate(e, p, r)
           \/ \E p \in Products : CheckRemove(e, p) \/ FindProduct(e, p)
    PROVE  CatalogStepSound
<1>1. CatalogTypeOK /\ UNCHANGED <<vertical, store, category, product, variant>> /\ editor[e].op = "idle"
  BY DEF CatalogIInv, FindEnd, CheckCreate, CheckUpdate, CheckRemove, FindProduct, Free
<1> DEFINE Fits(r) ==
             r.op \in {"updateProduct", "removeProduct", "flag", "addVariant"} =>
                 r.product \in Products /\ Live(r.product)
<1>2. PICK r \in Commissions : Go(e, r) /\ Fits(r)
  <2>1. CASE FindEnd(e)
    <3>1. PICK n \in SortOrders : Go(e, [op |-> "createCategory", at |-> n])
      BY <2>1 DEF FindEnd
    <3> DEFINE r == [op |-> "createCategory", at |-> n]
    <3>2. r \in Commissions /\ Fits(r) /\ Go(e, r)
      BY <3>1, CommissionForms
    <3> HIDE DEF r, Fits
    <3> QED
      BY <3>2
  <2>2. ASSUME NEW p \in Products, NEW row \in ProductRows, CheckCreate(e, p, row)
        PROVE  \E r \in Commissions : Go(e, r) /\ Fits(r)
    <3> DEFINE r == [op |-> "createProduct", product |-> p, row |-> row]
    <3>1. r \in Commissions /\ Fits(r) /\ Go(e, r)
      BY <2>2, CommissionForms DEF CheckCreate
    <3> HIDE DEF r, Fits
    <3> QED
      BY <3>1
  <2>3. ASSUME NEW p \in Products, NEW row \in ProductRows, CheckUpdate(e, p, row)
        PROVE  \E r \in Commissions : Go(e, r) /\ Fits(r)
    <3> DEFINE r == [op |-> "updateProduct", product |-> p, row |-> row]
    <3>1. r \in Commissions /\ r.product = p /\ Live(p) /\ Go(e, r)
      BY <2>3, CommissionForms DEF CheckUpdate
    <3> HIDE DEF r
    <3> QED
      BY <3>1
  <2>4. ASSUME NEW p \in Products, CheckRemove(e, p) \/ FindProduct(e, p)
        PROVE  \E r \in Commissions : Go(e, r) /\ Fits(r)
    <3>1. PICK o \in {"removeProduct", "flag", "addVariant"} : Go(e, [op |-> o, product |-> p])
      BY <2>4 DEF CheckRemove, FindProduct
    <3> DEFINE r == [op |-> o, product |-> p]
    <3>2. r \in Commissions /\ r.product = p /\ Live(p) /\ Go(e, r)
      BY <2>4, <3>1, CommissionForms DEF CheckRemove, FindProduct
    <3> HIDE DEF r
    <3> QED
      BY <3>2
  <2> QED
    BY <2>1, <2>2, <2>3, <2>4
<1>3. /\ r.op \in {"updateProduct", "removeProduct", "flag", "addVariant"} => product'[r.product] # NoProduct
      /\ r.op = "updateProduct" => Live(r.product)
  BY <1>1, <1>2, ProductShape
<1>4. ProductsStay(IF editor[e].op = "updateProduct" THEN {editor[e].product} ELSE {})
  BY <1>1 DEF ProductsStay
<1> HIDE DEF Fits
<1> QED
  BY <1>1, <1>2, <1>3, <1>4, CatalogTypes, RequestGoesOn

\* A row is written.
LEMMA RowWritten ==
    ASSUME CatalogTypeOK, NEW p \in Products, NEW r \in ProductRows, product' = [product EXCEPT ![p] = r],
           NEW U, p \in U \/ product[p] = NoProduct \/ (~product[p].active => ~r.active)
    PROVE  product' \in [Products -> Catalogued] /\ ProductsStay(U)
<1>1. product \in [Products -> Catalogued]
  BY CatalogTypes
<1>2. /\ product' \in [Products -> Catalogued] /\ product'[p] = r
      /\ \A q \in Products \ {p} : product'[q] = product[q]
  BY <1>1 DEF Catalogued
<1>3. r # NoProduct
  BY ProductShape
<1>4. NoProduct.state # "REMOVED"
  BY DEF NoProduct
<1> QED
  BY <1>2, <1>3, <1>4 DEF ProductsStay

\* One field of a row at a time.
LEMMA RowFields ==
    ASSUME NEW r \in ProductRows, NEW a \in BOOLEAN, NEW k \in BOOLEAN, NEW c \in Categories \cup {0}
    PROVE  /\ [r EXCEPT !.active = a] \in ProductRows
           /\ [r EXCEPT !.sku = k] \in ProductRows
           /\ [r EXCEPT !.category = c] \in ProductRows
           /\ [r EXCEPT !.state = "REMOVED"] \in ProductRows
           /\ [r EXCEPT !.hasVariants = TRUE] \in ProductRows
           /\ [r EXCEPT !.active = a].active = a
           /\ [r EXCEPT !.sku = k].active = r.active
           /\ [r EXCEPT !.hasVariants = TRUE].active = r.active
BY DEF ProductRows

LEMMA WriteRequestStep ==
    ASSUME CatalogIInv, NEW e \in Editors,
           CreateProduct(e) \/ UpdateProduct(e) \/ RemoveProduct(e) \/ FlagVariants(e) \/ AddVariant(e)
           \/ \E c \in Categories : CreateCategory(e, c)
    PROVE  CatalogStepSound
<1>1. /\ CatalogTypeOK /\ editor[e] \in Commissions /\ UNCHANGED <<vertical, store>>
      /\ product \in [Products -> Catalogued] /\ category \in [Categories -> SortOrders \cup {NoCategory}]
      /\ variant \in [Variants -> Products \cup {"none"}] /\ vertical \in {"there", "destroy", "delete", "gone"}
  BY CatalogTypes DEF CatalogIInv, CreateProduct, UpdateProduct, RemoveProduct, FlagVariants, AddVariant,
     CreateCategory
<1> DEFINE U == IF editor[e].op = "updateProduct" THEN {editor[e].product} ELSE {}
<1>2. UNCHANGED product => ProductsStay(U)
  BY DEF ProductsStay
<1>3. [op |-> "idle"] \in Commissions /\ [op |-> "idle"].op = "idle"
  BY CommissionForms
<1>4. CASE \E c \in Categories : CreateCategory(e, c)
  <2>1. PICK c \in Categories : CreateCategory(e, c)
    BY <1>4
  <2>2. editor[e].at \in SortOrders /\ UNCHANGED <<product, variant>> /\ Go(e, [op |-> "idle"])
    BY <1>1, <2>1, CommissionShape DEF CreateCategory, Finish
  <2>3. category' \in [Categories -> SortOrders \cup {NoCategory}]
    BY <1>1, <2>1, <2>2 DEF CreateCategory
  <2> QED
    BY <1>1, <1>2, <1>3, <2>2, <2>3, RequestGoesOn
<1>5. CASE AddVariant(e)
  <2>1. editor[e].op = "addVariant" /\ UNCHANGED <<product, category>> /\ Go(e, [op |-> "idle"])
    BY <1>5 DEF AddVariant, Finish
  <2>2. editor[e].product \in Products
    BY <1>1, <2>1, CommissionShape
  <2>3. variant' \in [Variants -> Products \cup {"none"}]
    BY <1>1, <1>5, <2>2 DEF AddVariant
  <2> QED
    BY <1>1, <1>2, <1>3, <2>1, <2>3, RequestGoesOn
<1>6. CASE CreateProduct(e)
  <2>1. editor[e].op = "createProduct" /\ UNCHANGED <<category, variant>> /\ Go(e, [op |-> "idle"])
    BY <1>6 DEF CreateProduct, Finish
  <2>2. PICK p \in Products, r \in ProductRows : p = editor[e].product /\ r = editor[e].row
    BY <1>1, <2>1, CommissionShape
  <2>3. UNCHANGED product \/ (product[p] = NoProduct /\ product' = [product EXCEPT ![p] = r])
    BY <1>6, <2>2 DEF CreateProduct
  <2>4. product' \in [Products -> Catalogued] /\ ProductsStay(U)
    BY <1>1, <1>2, <2>3, RowWritten
  <2> QED
    BY <1>1, <1>3, <2>1, <2>4, RequestGoesOn
<1>7. CASE UpdateProduct(e)
  <2>1. editor[e].op = "updateProduct" /\ UNCHANGED <<category, variant>> /\ Go(e, [op |-> "idle"])
    BY <1>7 DEF UpdateProduct, Finish
  <2>2. PICK p \in Products, r \in ProductRows : p = editor[e].product /\ r = editor[e].row
    BY <1>1, <2>1, CommissionShape
  <2>3. product[p] \in ProductRows
    BY <1>1, <2>1, <2>2, ProductShape DEF CatalogIInv, ProductsFound
  <2>4. UNCHANGED product \/ \E q \in ProductRows : product' = [product EXCEPT ![p] = q]
    <3>1. PICK a, k \in BOOLEAN, c \in Categories \cup {0} : a = r.active /\ k = r.sku /\ c = r.category
      BY DEF ProductRows
    <3> DEFINE q == [[[product[p] EXCEPT !.active = a] EXCEPT !.sku = k] EXCEPT !.category = c]
    <3>3. q \in ProductRows
      BY <2>3, <3>1, RowFields
    <3>4. [product EXCEPT ![p].active = a, ![p].sku = k, ![p].category = c] = [product EXCEPT ![p] = q]
      BY <1>1
    <3>5. UNCHANGED product \/ product' = [product EXCEPT ![p].active = a, ![p].sku = k, ![p].category = c]
      BY <1>7, <2>2, <3>1 DEF UpdateProduct
    <3> QED
      BY <3>3, <3>4, <3>5
  <2>5. p \in U
    BY <2>1, <2>2
  <2>6. product' \in [Products -> Catalogued] /\ ProductsStay(U)
    BY <1>1, <1>2, <2>4, <2>5, RowWritten
  <2> QED
    BY <1>1, <1>3, <2>1, <2>6, RequestGoesOn
<1>8. CASE RemoveProduct(e)
  <2>1. editor[e].op = "removeProduct" /\ UNCHANGED <<category, variant>> /\ Go(e, [op |-> "idle"])
    BY <1>8 DEF RemoveProduct, Finish
  <2>2. PICK p \in Products : p = editor[e].product
    BY <1>1, <2>1, CommissionShape
  <2>3. product[p] \in ProductRows
    BY <1>1, <2>1, <2>2, ProductShape DEF CatalogIInv, ProductsFound
  <2> DEFINE q == [[[product[p] EXCEPT !.state = "REMOVED"] EXCEPT !.active = FALSE] EXCEPT !.sku = FALSE]
  <2>5. q \in ProductRows /\ ~q.active
    BY <2>3, RowFields
  <2>6. product' = [product EXCEPT ![p] = q]
    <3>1. product' = [product EXCEPT ![p].state = "REMOVED", ![p].active = FALSE, ![p].sku = FALSE]
      BY <1>8, <2>2 DEF RemoveProduct
    <3> QED
      BY <1>1, <3>1
  <2> HIDE DEF q
  <2>7. product' \in [Products -> Catalogued] /\ ProductsStay(U)
    BY <1>1, <2>5, <2>6, RowWritten
  <2> QED
    BY <1>1, <1>3, <2>1, <2>7, RequestGoesOn
<1>9. CASE FlagVariants(e)
  <2>1. editor[e].op = "flag" /\ UNCHANGED <<category, variant>>
    BY <1>9 DEF FlagVariants
  <2>2. PICK p \in Products : p = editor[e].product
    BY <1>1, <2>1, CommissionShape
  <2>3. product[p] \in ProductRows
    BY <1>1, <2>1, <2>2, ProductShape DEF CatalogIInv, ProductsFound
  <2> DEFINE q == [product[p] EXCEPT !.hasVariants = TRUE]
             r == [op |-> "addVariant", product |-> p]
  <2>5. q \in ProductRows /\ (q.active <=> product[p].active)
    BY <2>3, RowFields
  <2>6. product' = [product EXCEPT ![p] = q]
    <3>1. product' = [product EXCEPT ![p].hasVariants = TRUE]
      BY <1>9, <2>2 DEF FlagVariants
    <3> QED
      BY <1>1, <3>1
  <2>7. Go(e, r)
    <3>1. editor[e] \in [op : {"removeProduct", "flag", "addVariant"}, product : Products]
      BY <1>1, <2>1 DEF Commissions
    <3>2. [editor[e] EXCEPT !.op = "addVariant"] = r
      BY <2>2, <3>1
    <3> QED
      BY <1>9, <3>2 DEF FlagVariants
  <2>8. r \in Commissions /\ r.op = "addVariant" /\ r.product = p
    BY CommissionForms
  <2> HIDE DEF q, r
  <2>9. product' \in [Products -> Catalogued] /\ ProductsStay(U)
    BY <1>1, <2>5, <2>6, RowWritten
  <2>10. product'[p] # NoProduct
    BY <1>1, <2>3, <2>5, <2>6, ProductShape
  <2> QED
    BY <1>1, <2>1, <2>7, <2>8, <2>9, <2>10, RequestGoesOn
<1> QED
  BY <1>4, <1>5, <1>6, <1>7, <1>8, <1>9

LEMMA RemoveCategoryStep ==
    ASSUME CatalogIInv, NEW c \in Categories, RemoveCategory(c)
    PROVE  CatalogStepSound
<1>1. CatalogTypeOK /\ UNCHANGED <<vertical, store, variant, editor>> /\ product \in [Products -> Catalogued]
  BY CatalogTypes DEF CatalogIInv, RemoveCategory
<1>2. category' \in [Categories -> SortOrders \cup {NoCategory}]
  BY <1>1, CatalogTypes DEF RemoveCategory
<1>3. ASSUME NEW p \in Products
      PROVE  /\ product'[p] \in Catalogued
             /\ product[p] # NoProduct => product'[p] # NoProduct
             /\ product[p].state = "REMOVED" /\ ~product[p].active => ~product'[p].active
  <2>1. CASE product'[p] = product[p]
    BY <1>1, <2>1
  <2>2. CASE product[p] # NoProduct /\ product'[p] = [product[p] EXCEPT !.category = 0]
    <3>1. product[p] \in ProductRows
      BY <1>1, <2>2, ProductShape
    <3>2. [product[p] EXCEPT !.category = 0] \in ProductRows
          /\ ([product[p] EXCEPT !.category = 0].active <=> product[p].active)
      BY <3>1 DEF ProductRows
    <3> QED
      BY <1>1, <2>2, <3>2, ProductShape DEF Catalogued
  <2> QED
    BY <2>1, <2>2 DEF RemoveCategory
<1>4. product' \in [Products -> Catalogued]
  BY <1>3 DEF RemoveCategory
<1>5. CatalogTypeOK'
  BY <1>1, <1>2, <1>4, CatalogTypes, CatalogTypesKept
<1>6. ProductsFound'
  <2> SUFFICES ASSUME NEW f \in Editors,
                      editor[f].op \in {"updateProduct", "removeProduct", "flag", "addVariant"}
               PROVE  product'[editor[f].product] # NoProduct
    BY <1>1 DEF ProductsFound
  <2>1. editor[f] \in Commissions
    BY <1>1, CatalogTypes
  <2>2. editor[f].product \in Products /\ product[editor[f].product] # NoProduct
    BY <2>1, CommissionShape DEF CatalogIInv, ProductsFound
  <2> QED
    BY <1>3, <2>2
<1>7. HiddenStay
  BY <1>1, <1>3 DEF HiddenStay, UpdatesOf
<1>8. LiveStay
  BY <1>1 DEF LiveStay
<1> QED
  BY <1>5, <1>6, <1>7, <1>8 DEF CatalogStepSound, CatalogIInv

LEMMA CatalogAside == ASSUME CatalogIInv, UNCHANGED catalogVars PROVE CatalogStepSound
<1>1. CatalogTypeOK'
  BY DEF catalogVars, CatalogIInv, CatalogTypeOK, ProductRows
<1>2. LiveStay /\ UNCHANGED <<product, editor>>
  BY DEF catalogVars, LiveStay
<1> QED
  BY <1>1, <1>2, ProductsAside

LEMMA CatalogInitIInv == ASSUME CatalogInit PROVE CatalogIInv
<1>1. CatalogTypeOK
  BY CatalogTypes, CommissionForms DEF CatalogInit, StoreStates, Catalogued
<1>2. ProductsFound
  BY DEF CatalogInit, ProductsFound
<1> QED
  BY <1>1, <1>2 DEF CatalogIInv

-----------------------------------------------------------------------------
(* Pictures: a file is new to one upload, then shown by one slot, then old. *)

Busy(u) == upload[u].op # "idle"
Writes(u) == upload[u].op = "write"

FreshPictures ==
    \A u \in Uploads : Writes(u) =>
        /\ upload[u].new \in files
        /\ \A s \in Slots : shown[s] # upload[u].new
        /\ \A v \in Uploads : Busy(v) => upload[v].old # upload[u].new
        /\ \A v \in Uploads \ {u} : Writes(v) => upload[v].new # upload[u].new

OldPictures ==
    \A u \in Uploads : Busy(u) =>
        /\ upload[u].old \in 0..stored
        /\ upload[u].op \in {"discardFirst", "discard"} => upload[u].old # 0
        /\ upload[u].op = "discardFirst" => upload[u].slot \in Early
        /\ upload[u].old # 0 =>
              \A s \in Slots : shown[s] = upload[u].old =>
                  upload[u].op # "discard" /\ s = upload[u].slot

ShownPictures ==
    /\ \A s \in Slots : shown[s] \in 0..stored
    /\ \A s, r \in Slots : shown[s] = shown[r] /\ shown[s] # 0 => s = r

PictureInv ==
    /\ PicturesTypeOK
    /\ FreshPictures
    /\ OldPictures
    /\ ShownPictures
    /\ PictureThere

LEMMA FilesAreNumbers == Files \subseteq Nat \ {0}
BY PicturesAssumption, FS_CardinalityType

LEMMA UploadShape ==
    ASSUME PicturesTypeOK, NEW u \in Uploads, Busy(u)
    PROVE  /\ upload[u] \in UploadRecords
           /\ upload[u].slot \in Slots
           /\ upload[u].old \in Files \cup {0}
           /\ Writes(u) => upload[u].new \in Files
           /\ upload[u].op \in {"discardFirst", "store", "write", "discard"}
BY DEF PicturesTypeOK, UploadRecords, Busy, Writes

LEMMA UploadForms ==
    /\ [op |-> "idle"] \in UploadRecords
    /\ \A s \in Slots, f \in Files \cup {0} :
          /\ [op |-> "discardFirst", slot |-> s, old |-> f] \in UploadRecords
          /\ [op |-> "store", slot |-> s, old |-> f] \in UploadRecords
          /\ \A g \in Files : [op |-> "write", slot |-> s, old |-> f, new |-> g] \in UploadRecords
    /\ \A s \in Slots, f \in Files : [op |-> "discard", slot |-> s, old |-> f] \in UploadRecords
BY DEF UploadRecords

LEMMA PicturesStart == ASSUME PicturesInit PROVE PictureInv
<1>1. PicturesTypeOK
  BY UploadForms DEF PicturesInit, PicturesTypeOK
<1>2. FreshPictures /\ OldPictures
  BY DEF PicturesInit, FreshPictures, OldPictures, Busy, Writes
<1>3. ShownPictures /\ PictureThere
  BY DEF PicturesInit, ShownPictures, PictureThere
<1> QED
  BY <1>1, <1>2, <1>3 DEF PictureInv

LEMMA UploadStep ==
    ASSUME PictureInv, NEW u \in Uploads, NEW s \in Slots, Upload(u, s)
    PROVE  PictureInv'
<1>1. shown[s] \in Files \cup {0} /\ shown[s] \in 0..stored
  BY DEF PictureInv, PicturesTypeOK, ShownPictures
<1>2. PICK r \in UploadRecords :
         /\ upload' = [upload EXCEPT ![u] = r]
         /\ r.op \in {"discardFirst", "store"} /\ r.slot = s /\ r.old = shown[s]
         /\ r.op = "discardFirst" => s \in Early /\ shown[s] # 0
  BY <1>1, UploadForms DEF Upload, Step
<1>3. /\ upload'[u] = r
      /\ \A v \in Uploads \ {u} : upload'[v] = upload[v]
      /\ UNCHANGED <<shown, files, stored, broken>>
      /\ upload[u].op = "idle"
  BY <1>2 DEF Upload, PictureInv, PicturesTypeOK
<1>4. PicturesTypeOK'
  BY <1>2, <1>3 DEF PictureInv, PicturesTypeOK
<1>5. FreshPictures'
  BY <1>2, <1>3 DEF PictureInv, FreshPictures, Busy, Writes
<1>6. OldPictures'
  BY <1>1, <1>2, <1>3 DEF PictureInv, OldPictures, ShownPictures, Busy
<1>7. ShownPictures'
  BY <1>3 DEF PictureInv, ShownPictures
<1>8. PictureThere'
  BY <1>3 DEF PictureInv, PictureThere
<1> QED
  BY <1>4, <1>5, <1>6, <1>7, <1>8 DEF PictureInv

LEMMA DiscardFirstStep ==
    ASSUME PictureInv, NEW u \in Uploads, DiscardFirst(u)
    PROVE  PictureInv'
<1> DEFINE s == upload[u].slot
           f == upload[u].old
<1>1. s \in Slots /\ f \in Files \cup {0} /\ Busy(u) /\ f # 0 /\ s \in Early
  BY UploadShape DEF DiscardFirst, PictureInv, OldPictures, Busy
<1>2. /\ upload[u].op = "discardFirst"
      /\ upload[u] \in [op : {"discardFirst", "store"}, slot : Slots, old : Files \cup {0}]
  BY DEF DiscardFirst, PictureInv, PicturesTypeOK, UploadRecords
<1>3. PICK r \in UploadRecords :
         upload' = [upload EXCEPT ![u] = r] /\ r.op = "store" /\ r.slot = s /\ r.old = f
  <2> DEFINE r == [upload[u] EXCEPT !.op = "store"]
  <2>1. /\ r \in [op : {"discardFirst", "store"}, slot : Slots, old : Files \cup {0}]
        /\ r.op = "store" /\ r.slot = s /\ r.old = f
    BY <1>2
  <2>2. r \in UploadRecords
    BY <2>1 DEF UploadRecords
  <2> QED
    BY <2>1, <2>2 DEF DiscardFirst, Step
<1>4. /\ upload'[u] = r
      /\ \A v \in Uploads \ {u} : upload'[v] = upload[v]
      /\ files' = files \ {f}
      /\ UNCHANGED <<shown, stored, broken>>
  BY <1>3 DEF DiscardFirst, PictureInv, PicturesTypeOK
<1>5. PicturesTypeOK'
  BY <1>3, <1>4 DEF PictureInv, PicturesTypeOK
<1>6. FreshPictures'
  BY <1>1, <1>3, <1>4 DEF PictureInv, FreshPictures, Busy, Writes
<1>7. OldPictures'
  BY <1>1, <1>2, <1>3, <1>4 DEF PictureInv, OldPictures, Busy
<1>8. ShownPictures'
  BY <1>4 DEF PictureInv, ShownPictures
<1>9. PictureThere'
  <2> SUFFICES ASSUME NEW x \in Slots \ broken, shown[x] \notin files' \cup {0}
               PROVE  x \in Early /\ \E v \in Uploads : upload'[v].op \in {"store", "write"} /\ upload'[v].slot = x
    BY <1>4 DEF PictureThere
  <2>1. CASE shown[x] = f
    <3>1. x = s
      BY <1>1, <2>1 DEF PictureInv, OldPictures
    <3> QED
      BY <1>1, <1>3, <1>4, <3>1
  <2>2. CASE shown[x] # f
    <3>1. x \in Early /\ \E v \in Uploads : upload[v].op \in {"store", "write"} /\ upload[v].slot = x
      BY <1>4, <2>2 DEF PictureInv, PictureThere
    <3> QED
      BY <1>2, <1>4, <3>1
  <2> QED
    BY <2>1, <2>2
<1> QED
  BY <1>5, <1>6, <1>7, <1>8, <1>9 DEF PictureInv

LEMMA StoreFileStep ==
    ASSUME PictureInv, NEW u \in Uploads, StoreFile(u)
    PROVE  PictureInv'
<1> DEFINE s == upload[u].slot
           f == upload[u].old
<1>1. /\ s \in Slots /\ f \in Files \cup {0} /\ Busy(u) /\ f \in 0..stored
      /\ upload[u].op = "store"
      /\ stored \in Nat /\ stored + 1 \in Files
      /\ f # 0 => \A x \in Slots : shown[x] = f => x = s
  BY UploadShape, FilesAreNumbers DEF StoreFile, PictureInv, PicturesTypeOK, OldPictures, Busy
<1>2. PICK r \in UploadRecords :
         /\ upload' = [upload EXCEPT ![u] = r]
         /\ r.op = "write" /\ r.slot = s /\ r.old = f /\ r.new = stored + 1
  BY <1>1, UploadForms DEF StoreFile, Step
<1>3. /\ upload'[u] = r
      /\ \A v \in Uploads \ {u} : upload'[v] = upload[v]
      /\ stored' = stored + 1
      /\ files' = files \cup {stored + 1}
      /\ UNCHANGED <<shown, broken>>
  BY <1>2 DEF StoreFile, PictureInv, PicturesTypeOK
<1>4. PicturesTypeOK'
  BY <1>1, <1>2, <1>3 DEF PictureInv, PicturesTypeOK
<1>5. FreshPictures'
  <2>1. /\ \A x \in Slots : shown[x] \in 0..stored
        /\ \A v \in Uploads : Busy(v) => upload[v].old \in 0..stored
        /\ \A v \in Uploads : Writes(v) => upload[v].new \in 1..stored
    BY DEF PictureInv, ShownPictures, OldPictures, FreshPictures, PicturesTypeOK
  <2>2. ASSUME NEW v \in Uploads, Writes(v)'
        PROVE  /\ upload'[v].new \in files'
               /\ \A x \in Slots : shown'[x] # upload'[v].new
               /\ \A w \in Uploads : Busy(w)' => upload'[w].old # upload'[v].new
               /\ \A w \in Uploads \ {v} : Writes(w)' => upload'[w].new # upload'[v].new
    <3>1. CASE v = u
      BY <1>1, <1>2, <1>3, <2>1, <3>1 DEF Busy, Writes
    <3>2. CASE v # u
      <4>1. Writes(v) /\ upload'[v] = upload[v]
        BY <1>3, <2>2, <3>2 DEF Writes
      <4> QED
        BY <1>1, <1>2, <1>3, <2>1, <3>2, <4>1 DEF PictureInv, FreshPictures, Busy, Writes
    <3> QED
      BY <3>1, <3>2
  <2> QED
    BY <2>2 DEF FreshPictures
<1>6. OldPictures'
  BY <1>1, <1>2, <1>3 DEF PictureInv, OldPictures, Busy
<1>7. ShownPictures'
  BY <1>1, <1>3 DEF PictureInv, ShownPictures
<1>8. PictureThere'
  BY <1>1, <1>2, <1>3 DEF PictureInv, PictureThere
<1> QED
  BY <1>4, <1>5, <1>6, <1>7, <1>8 DEF PictureInv

LEMMA WriteSlotStep ==
    ASSUME PictureInv, NEW u \in Uploads, WriteSlot(u)
    PROVE  PictureInv'
<1> DEFINE s == upload[u].slot
           f == upload[u].old
           g == upload[u].new
<1>1. /\ s \in Slots /\ f \in Files \cup {0} /\ g \in Files /\ g \in files
      /\ Busy(u) /\ Writes(u) /\ f # g
      /\ upload[u].op = "write" /\ g # 0
  BY UploadShape, FilesAreNumbers DEF WriteSlot, PictureInv, FreshPictures, Busy, Writes
<1>2. /\ \A x \in Slots : shown[x] # g
      /\ \A v \in Uploads : Busy(v) => upload[v].old # g
      /\ \A v \in Uploads \ {u} : Writes(v) => upload[v].new # g
      /\ f # 0 => \A x \in Slots : shown[x] = f => x = s
      /\ f \in 0..stored /\ g \in 0..stored
  <2>1. /\ \A x \in Slots : shown[x] # g
        /\ \A v \in Uploads : Busy(v) => upload[v].old # g
        /\ \A v \in Uploads \ {u} : Writes(v) => upload[v].new # g
    BY <1>1 DEF PictureInv, FreshPictures
  <2>2. /\ f # 0 => \A x \in Slots : shown[x] = f => x = s
        /\ f \in 0..stored
    BY <1>1 DEF PictureInv, OldPictures
  <2>3. g \in 0..stored
    <3>1. upload[u].new \in files /\ files \subseteq 1..stored /\ stored \in Nat
      BY <1>1, FilesAreNumbers DEF PictureInv, PicturesTypeOK
    <3>2. upload[u].new \in 1..stored
      BY <3>1
    <3> QED
      BY <3>1, <3>2
  <2> QED
    BY <2>1, <2>2, <2>3
<1>3. PICK r \in UploadRecords :
         /\ upload' = [upload EXCEPT ![u] = r]
         /\ r.op \in {"idle", "discard"}
         /\ r.op = "discard" => r.slot = s /\ r.old = f /\ f # 0
  BY <1>1, UploadForms DEF WriteSlot, Step, Stop
<1>4. /\ upload'[u] = r
      /\ \A v \in Uploads \ {u} : upload'[v] = upload[v]
      /\ shown' = [shown EXCEPT ![s] = g]
      /\ broken' = broken \ {s}
      /\ UNCHANGED <<files, stored>>
  BY <1>3 DEF WriteSlot, PictureInv, PicturesTypeOK
<1>5. shown'[s] = g /\ \A x \in Slots \ {s} : shown'[x] = shown[x]
  BY <1>1, <1>4 DEF PictureInv, PicturesTypeOK
<1>6. PicturesTypeOK'
  BY <1>1, <1>3, <1>4 DEF PictureInv, PicturesTypeOK
<1>7. FreshPictures'
  <2> SUFFICES ASSUME NEW v \in Uploads, Writes(v)'
               PROVE  /\ upload'[v].new \in files'
                      /\ \A x \in Slots : shown'[x] # upload'[v].new
                      /\ \A w \in Uploads : Busy(w)' => upload'[w].old # upload'[v].new
                      /\ \A w \in Uploads \ {v} : Writes(w)' => upload'[w].new # upload'[v].new
    BY DEF FreshPictures
  <2>1. v # u /\ upload'[v] = upload[v] /\ Writes(v)
    BY <1>3, <1>4 DEF Writes
  <2>2. /\ upload[v].new \in files
        /\ \A x \in Slots : shown[x] # upload[v].new
        /\ \A w \in Uploads : Busy(w) => upload[w].old # upload[v].new
        /\ \A w \in Uploads \ {v} : Writes(w) => upload[w].new # upload[v].new
    BY <2>1 DEF PictureInv, FreshPictures
  <2>3. \A x \in Slots : shown'[x] # upload[v].new
    BY <1>2, <1>5, <2>1, <2>2
  <2>4. \A w \in Uploads : Busy(w)' => upload'[w].old # upload[v].new
    BY <1>1, <1>3, <1>4, <2>2 DEF Busy
  <2>5. \A w \in Uploads \ {v} : Writes(w)' => upload'[w].new # upload[v].new
    BY <1>3, <1>4, <2>2 DEF Writes
  <2> QED
    BY <1>4, <2>1, <2>2, <2>3, <2>4, <2>5
<1> HIDE DEF s, f, g
<1>8. OldPictures'
  BY <1>1, <1>2, <1>3, <1>4, <1>5 DEF PictureInv, OldPictures, Busy
<1>9. ShownPictures'
  BY <1>2, <1>4, <1>5 DEF PictureInv, ShownPictures
<1>10. PictureThere'
  BY <1>1, <1>4, <1>5 DEF PictureInv, PictureThere, s
<1> QED
  BY <1>6, <1>7, <1>8, <1>9, <1>10 DEF PictureInv

\* An upload ends; a file that no slot shows and nobody waits to show may go.
LEMMA EndStep ==
    ASSUME PictureInv, NEW u \in Uploads, Discard(u) \/ UploadFails(u)
    PROVE  PictureInv'
<1>1. Busy(u) /\ upload' = [upload EXCEPT ![u] = [op |-> "idle"]] /\ UNCHANGED <<shown, stored>>
  BY DEF Discard, UploadFails, Step, Stop, Busy
<1>2. /\ upload'[u].op = "idle"
      /\ \A v \in Uploads \ {u} : upload'[v] = upload[v]
  BY <1>1 DEF PictureInv, PicturesTypeOK
<1>3. /\ files' \subseteq files
      /\ \A s \in Slots : shown[s] \in files => shown'[s] \in files'
      /\ \A v \in Uploads : Writes(v) => upload[v].new \in files'
  <2>1. CASE Discard(u)
    <3>1. /\ \A s \in Slots : shown[s] # upload[u].old
          /\ \A v \in Uploads : Writes(v) => upload[v].new \in files /\ upload[v].new # upload[u].old
      BY <1>1, <2>1 DEF Discard, PictureInv, OldPictures, FreshPictures
    <3> QED
      BY <1>1, <2>1, <3>1 DEF Discard
  <2>2. CASE UploadFails(u)
    BY <1>1, <2>2 DEF UploadFails, PictureInv, FreshPictures
  <2> QED
    BY <2>1, <2>2
<1>4. broken' \in {broken, broken \cup {upload[u].slot}} /\ broken' \subseteq Early
  BY DEF Discard, UploadFails, PictureInv, PicturesTypeOK
<1>5. PicturesTypeOK'
  BY <1>1, <1>3, <1>4, UploadForms DEF PictureInv, PicturesTypeOK
<1>6. FreshPictures'
  BY <1>1, <1>2, <1>3 DEF PictureInv, FreshPictures, Busy, Writes
<1>7. OldPictures'
  BY <1>1, <1>2 DEF PictureInv, OldPictures, Busy
<1>8. ShownPictures'
  BY <1>1 DEF PictureInv, ShownPictures
<1>9. PictureThere'
  <2> SUFFICES ASSUME NEW x \in Slots \ broken', shown[x] \notin files' \cup {0}
               PROVE  x \in Early /\ \E v \in Uploads : upload'[v].op \in {"store", "write"} /\ upload'[v].slot = x
    BY <1>1 DEF PictureThere
  <2>1. PICK v \in Uploads : x \in Early /\ upload[v].op \in {"store", "write"} /\ upload[v].slot = x
    BY <1>1, <1>3, <1>4 DEF PictureInv, PictureThere
  <2>2. v # u
    BY <2>1 DEF Discard, UploadFails
  <2> QED
    BY <1>2, <2>1, <2>2
<1> QED
  BY <1>5, <1>6, <1>7, <1>8, <1>9 DEF PictureInv

LEMMA PicturesStep == ASSUME PictureInv, [PicturesNext]_picturesVars PROVE PictureInv'
<1>1. CASE PicturesNext
  BY <1>1, UploadStep, DiscardFirstStep, StoreFileStep, WriteSlotStep, EndStep DEF PicturesNext
<1>2. CASE UNCHANGED picturesVars
  BY <1>2 DEF picturesVars, PictureInv, PicturesTypeOK, FreshPictures, OldPictures,
     ShownPictures, PictureThere, Busy, Writes
<1> QED
  BY <1>1, <1>2

\* The picture that a row refers to is in the store, for any number of uploads and
\* however they overtake one another or fail; but where the old one is deleted
\* first, while one is under way or has broken off (uploadLogo, uploadImage).
THEOREM PicturesStay == PicturesSpec => []PictureThere
<1>1. PictureInv => PictureThere
  BY DEF PictureInv
<1> QED
  BY <1>1, PicturesStart, PicturesStep, PTL DEF PicturesSpec

-----------------------------------------------------------------------------
(* Fees: the customer is charged the fee the order has, whatever it becomes. *)

SettingNames ==
    {"baseDeliveryFee", "pricePerKm", "maxDeliveryFee", "minOrderKm",
     "minDistanceFixedPrice", "deliveryCommissionRate"}

RatesKnown ==
    /\ rates \in [set : [SettingNames -> Int], bonus : [Tiers -> Nat], driverShiftsEnabled : BOOLEAN]
    /\ rates.set["baseDeliveryFee"] \in Nat
    /\ rates.set["pricePerKm"] \in Nat
    /\ rates.set["maxDeliveryFee"] \in Nat
    /\ rates.set["minDistanceFixedPrice"] \in Nat
    /\ rates.set["deliveryCommissionRate"] \in Whole

OpenDeliveries ==
    [op : {"looking", "taken"}, standard : BOOLEAN, km : Kms \cup {0}, fee : Int, total : Int, rest : Nat]

FeeCharged ==
    delivery.op \in {"looking", "taken"} =>
        delivery.fee >= 0 /\ delivery.total = delivery.fee + delivery.rest

FeeInv ==
    /\ RatesKnown
    /\ delivery \in Deliveries
    /\ FeeCharged
    /\ DeliveryPaysForItself

LEMMA RangesKnown ==
    /\ DOMAIN Ranges = SettingNames
    /\ Ranges["baseDeliveryFee"] \subseteq Nat
    /\ Ranges["pricePerKm"] \subseteq Nat
    /\ Ranges["maxDeliveryFee"] \subseteq Nat
    /\ Ranges["minDistanceFixedPrice"] \subseteq Nat
    /\ Ranges["deliveryCommissionRate"] = Whole
    /\ \A f \in SettingNames : Ranges[f] \subseteq Int /\ Ranges[f] # {}
<1>1. DOMAIN Ranges = SettingNames
  BY DEF Ranges, SettingNames
<1>2. /\ Ranges["baseDeliveryFee"] = Positive /\ Ranges["pricePerKm"] = Positive
      /\ Ranges["maxDeliveryFee"] = Counted /\ Ranges["minOrderKm"] = Counted
      /\ Ranges["minDistanceFixedPrice"] = Counted
      /\ Ranges["deliveryCommissionRate"] = Whole
  BY DEF Ranges
<1>3. \A S \in {Positive, Counted, Whole} : S \subseteq Int /\ S # {}
  BY FeesAssumption
<1> QED
  BY <1>1, <1>2, <1>3, FeesAssumption DEF SettingNames

LEMMA ProductOfNaturals == ASSUME NEW a \in Nat, NEW b \in Nat PROVE a * b \in Nat
OBVIOUS

LEMMA FeeIsNatural ==
    ASSUME RatesKnown, NEW km \in Nat, NEW price \in Nat, NEW b \in BOOLEAN
    PROVE  DeliveryFeeOf(km, price, b) \in Nat
<1> DEFINE s == rates.set
           bonus == IF rates.driverShiftsEnabled /\ b THEN rates.bonus["GOLD"] ELSE 0
           fee == s["baseDeliveryFee"] + km * (price + bonus)
<1>1. bonus \in Nat
  BY DEF RatesKnown, Tiers
<1>2. km * (price + bonus) \in Nat
  <2> HIDE DEF bonus
  <2> QED
    BY <1>1, ProductOfNaturals
<1>3. fee \in Nat
  BY <1>2 DEF RatesKnown
<1>4. DeliveryFeeOf(km, price, b) \in {fee, s["maxDeliveryFee"], s["minDistanceFixedPrice"]}
  BY DEF DeliveryFeeOf
<1> HIDE DEF fee
<1> QED
  BY <1>3, <1>4 DEF RatesKnown

LEMMA ShareWithin ==
    ASSUME RatesKnown, NEW tier \in Tiers,
           NEW d, d.standard \in BOOLEAN, d.km \in Nat, d.fee \in Nat
    PROVE  DriverDeliveryFee(d, tier) \in 0..d.fee
<1> DEFINE difference == rates.bonus["GOLD"] - rates.bonus[tier]
<1>1. difference \in Int
  BY DEF RatesKnown, Tiers
<1>2. CASE rates.driverShiftsEnabled /\ d.standard /\ difference > 0
  <2>1. difference * d.km \in Nat
    <3> HIDE DEF difference
    <3> QED
      BY <1>1, <1>2, ProductOfNaturals
  <2>2. DriverDeliveryFee(d, tier) =
           IF d.fee - difference * d.km < 0 THEN 0 ELSE d.fee - difference * d.km
    BY <1>2 DEF DriverDeliveryFee
  <2> HIDE DEF difference
  <2> QED
    BY <2>1, <2>2
<1>3. CASE ~(rates.driverShiftsEnabled /\ d.standard /\ difference > 0)
  BY <1>3 DEF DriverDeliveryFee
<1> QED
  BY <1>2, <1>3

LEMMA RoundedShare ==
    ASSUME NEW fee \in Nat, NEW e \in 0..fee, NEW rate \in Int
    PROVE  /\ RoundPerCent(e * (100 - rate)) \in Int
           /\ rate >= 0 => RoundPerCent(e * (100 - rate)) <= fee
           /\ rate <= 100 => RoundPerCent(e * (100 - rate)) >= 0
<1>1. \A n \in Int : /\ (n + 50) \div 100 \in Int
                     /\ n <= 100 * fee => (n + 50) \div 100 <= fee
                     /\ n >= 0 => (n + 50) \div 100 >= 0
  BY SMT
<1>2. e * (100 - rate) \in Int
  OBVIOUS
<1>3. ASSUME rate >= 0 PROVE e * (100 - rate) <= 100 * fee
  <2>1. e * rate \in Nat
    BY <1>3, ProductOfNaturals
  <2>2. e * (100 - rate) = 100 * e - e * rate
    OBVIOUS
  <2> QED
    BY <2>1, <2>2
<1>4. ASSUME rate <= 100 PROVE e * (100 - rate) >= 0
  <2>1. 100 - rate \in Nat
    BY <1>4
  <2> QED
    BY <2>1, ProductOfNaturals
<1> DEFINE n == e * (100 - rate)
<1>5. n \in Int /\ (rate >= 0 => n <= 100 * fee) /\ (rate <= 100 => n >= 0)
  BY <1>2, <1>3, <1>4
<1> HIDE DEF n
<1>6. /\ (n + 50) \div 100 \in Int
      /\ rate >= 0 => (n + 50) \div 100 <= fee
      /\ rate <= 100 => (n + 50) \div 100 >= 0
  BY <1>1, <1>5
<1> QED
  BY <1>6 DEF RoundPerCent, n

LEMMA FeesStart == ASSUME FeesInit PROVE FeeInv
<1>1. \A f \in SettingNames : (CHOOSE v \in Ranges[f] : TRUE) \in Ranges[f]
  BY RangesKnown
<1>2. rates = [set |-> [f \in SettingNames |-> CHOOSE v \in Ranges[f] : TRUE],
               bonus |-> [t \in Tiers |-> CHOOSE v \in Counted : TRUE],
               driverShiftsEnabled |-> FALSE]
  BY RangesKnown DEF FeesInit
<1>3. (CHOOSE v \in Counted : TRUE) \in Nat
  BY FeesAssumption
<1>4. /\ \A f \in SettingNames : rates.set[f] \in Ranges[f]
      /\ rates \in [set : [SettingNames -> Int], bonus : [Tiers -> Nat], driverShiftsEnabled : BOOLEAN]
  BY <1>1, <1>2, <1>3, RangesKnown
<1>5. RatesKnown
  BY <1>4, RangesKnown DEF RatesKnown, SettingNames
<1>6. delivery \in Deliveries /\ FeeCharged /\ DeliveryPaysForItself
  BY DEF FeesInit, Deliveries, FeeCharged, DeliveryPaysForItself
<1> QED
  BY <1>5, <1>6 DEF FeeInv

LEMMA UpdateRatesStep == ASSUME FeeInv, UpdateRates PROVE FeeInv'
<1>1. FeeCharged' /\ DeliveryPaysForItself' /\ (delivery \in Deliveries)'
  BY DEF FeeInv, UpdateRates, FeeCharged, DeliveryPaysForItself, Deliveries
<1>2. ASSUME NEW f \in DOMAIN Ranges, NEW v \in Ranges[f], rates' = [rates EXCEPT !.set[f] = v]
      PROVE  RatesKnown'
  <2>1. f \in SettingNames /\ v \in Int
    BY RangesKnown
  <2>2. /\ rates' \in [set : [SettingNames -> Int], bonus : [Tiers -> Nat], driverShiftsEnabled : BOOLEAN]
        /\ rates'.set = [rates.set EXCEPT ![f] = v]
    BY <1>2, <2>1 DEF FeeInv, RatesKnown
  <2>3. \A g \in SettingNames : rates'.set[g] = IF g = f THEN v ELSE rates.set[g]
    BY <2>2 DEF FeeInv, RatesKnown
  <2> QED
    BY <2>2, <2>3, RangesKnown DEF FeeInv, RatesKnown, SettingNames
<1>3. ASSUME NEW t \in Tiers, NEW v \in Counted, rates' = [rates EXCEPT !.bonus[t] = v]
      PROVE  RatesKnown'
  BY <1>3, FeesAssumption DEF FeeInv, RatesKnown
<1>4. ASSUME NEW b \in BOOLEAN, rates' = [rates EXCEPT !.driverShiftsEnabled = b]
      PROVE  RatesKnown'
  BY <1>4 DEF FeeInv, RatesKnown
<1> QED
  BY <1>1, <1>2, <1>3, <1>4 DEF UpdateRates, FeeInv

LEMMA OrderForms ==
    \A op \in {"looking", "taken"}, b \in BOOLEAN, km \in Kms \cup {0}, fee, total \in Int, rest \in Nat :
        [op |-> op, standard |-> b, km |-> km, fee |-> fee, total |-> total, rest |-> rest] \in Deliveries
BY DEF Deliveries

LEMMA DifferenceOfIntegers == \A a, b, c \in Int : a + b - c \in Int
OBVIOUS

LEMMA DistancesAreNatural == \A km \in Kms \cup {0} : km \in Nat
BY FeesAssumption

LEMMA OpenDelivery ==
    ASSUME FeeInv, delivery.op \in {"looking", "taken"}
    PROVE  /\ delivery \in OpenDeliveries
           /\ delivery.standard \in BOOLEAN /\ delivery.km \in Nat /\ delivery.fee \in Nat
           /\ delivery.total \in Int /\ delivery.rest \in Nat
           /\ delivery.total = delivery.fee + delivery.rest
<1>1. delivery \in OpenDeliveries
  BY DEF FeeInv, Deliveries, OpenDeliveries
<1>2. /\ delivery.standard \in BOOLEAN /\ delivery.km \in Kms \cup {0} /\ delivery.fee \in Int
      /\ delivery.total \in Int /\ delivery.rest \in Nat
  BY <1>1 DEF OpenDeliveries
<1>3. delivery.fee >= 0 /\ delivery.total = delivery.fee + delivery.rest
  BY DEF FeeInv, FeeCharged
<1>4. delivery.km \in Nat
  BY <1>2, DistancesAreNatural
<1>5. delivery.fee \in Nat
  BY <1>2, <1>3
<1> QED
  BY <1>1, <1>2, <1>3, <1>4, <1>5

\* The driver takes the order, at a fee of the moment.
LEMMA TakenDelivery ==
    ASSUME FeeInv, delivery.op = "looking", NEW fee \in Nat,
           delivery' \in OpenDeliveries,
           delivery'.op = "taken",
           delivery'.fee = fee,
           delivery'.total = delivery.total + fee - delivery.fee,
           delivery'.rest = delivery.rest
    PROVE  (delivery \in Deliveries)' /\ FeeCharged' /\ DeliveryPaysForItself'
<1>1. delivery.fee \in Nat /\ delivery.rest \in Nat /\ delivery.total = delivery.fee + delivery.rest
  BY OpenDelivery
<1>2. delivery' \in Deliveries
  BY DEF Deliveries, OpenDeliveries
<1>3. FeeCharged'
  BY <1>1 DEF FeeCharged
<1> QED
  BY <1>2, <1>3 DEF DeliveryPaysForItself

LEMMA PricesAreNatural == \A b \in BOOLEAN : RatesKnown => PricesPerKm(b) \subseteq Nat
BY FeesAssumption DEF RatesKnown, PricesPerKm

LEMMA PriceOrderStep ==
    ASSUME FeeInv, NEW km \in Kms, NEW b \in BOOLEAN, NEW p \in PricesPerKm(b), PriceOrder(km, p, b)
    PROVE  FeeInv'
<1>1. DeliveryFeeOf(km, p, b) \in Nat
  BY FeeIsNatural, PricesAreNatural, FeesAssumption DEF FeeInv
<1> PICK fee \in Nat : fee = DeliveryFeeOf(km, p, b)
  BY <1>1
<1>2. delivery' = [op |-> "looking", standard |-> b, km |-> km, fee |-> fee,
                   total |-> fee + 1, rest |-> 1]
      /\ UNCHANGED rates
  BY DEF PriceOrder
<1>3. delivery' \in Deliveries
  BY <1>2, OrderForms
<1>4. FeeCharged' /\ DeliveryPaysForItself'
  BY <1>2 DEF FeeCharged, DeliveryPaysForItself
<1>5. RatesKnown'
  BY <1>2 DEF FeeInv, RatesKnown
<1> QED
  BY <1>3, <1>4, <1>5 DEF FeeInv

LEMMA PriceDirectOrderStep == ASSUME FeeInv, PriceDirectOrder PROVE FeeInv'
<1>1. delivery' \in Deliveries
  <2>1. [op |-> "looking", standard |-> TRUE, km |-> 0, fee |-> 0, total |-> 1, rest |-> 1] \in Deliveries
    BY DEF Deliveries
  <2> QED
    BY <2>1 DEF PriceDirectOrder
<1> QED
  BY <1>1 DEF PriceDirectOrder, FeeInv, RatesKnown, FeeCharged, DeliveryPaysForItself

\* What finalizeAcceptance makes of an order.
Repriced(fee) ==
    [op |-> "taken", standard |-> delivery.standard, km |-> delivery.km, fee |-> fee,
     total |-> delivery.total + fee - delivery.fee, rest |-> delivery.rest]

LEMMA RepricedStep ==
    ASSUME FeeInv, delivery.op = "looking", NEW fee \in Nat, delivery' = Repriced(fee)
    PROVE  (delivery \in Deliveries)' /\ FeeCharged' /\ DeliveryPaysForItself'
<1>1. /\ delivery.standard \in BOOLEAN /\ delivery.km \in Kms \cup {0}
      /\ delivery.fee \in Nat /\ delivery.total \in Int /\ delivery.rest \in Nat
      /\ delivery.total = delivery.fee + delivery.rest
  BY OpenDelivery DEF OpenDeliveries
<1>2. PICK b \in BOOLEAN, km \in Kms \cup {0}, was \in Nat, rest \in Nat :
         /\ b = delivery.standard /\ km = delivery.km /\ was = delivery.fee /\ rest = delivery.rest
         /\ delivery.total = was + rest
  BY <1>1
<1>3. PICK total \in Int : total = delivery.total + fee - delivery.fee /\ total = fee + rest
  BY <1>2
<1>4. delivery' = [op |-> "taken", standard |-> b, km |-> km, fee |-> fee, total |-> total, rest |-> rest]
  BY <1>2, <1>3 DEF Repriced
<1>5. delivery' \in Deliveries
  BY <1>4, OrderForms
<1>6. FeeCharged' /\ DeliveryPaysForItself'
  BY <1>3, <1>4 DEF FeeCharged, DeliveryPaysForItself
<1> QED
  BY <1>5, <1>6

LEMMA PriceAcceptanceStep ==
    ASSUME FeeInv, NEW km \in Kms, PriceAcceptance(km)
    PROVE  FeeInv'
<1>1. delivery.op = "looking" /\ UNCHANGED rates
  BY DEF PriceAcceptance
<1>2. PICK price \in PricesPerKm(delivery.standard) :
         delivery' = Repriced(DeliveryFeeOf(km, price, TRUE))
  BY DEF PriceAcceptance, Repriced
<1>3. DeliveryFeeOf(km, price, TRUE) \in Nat
  BY <1>1, OpenDelivery, FeeIsNatural, PricesAreNatural, FeesAssumption DEF FeeInv
<1>4. (delivery \in Deliveries)' /\ FeeCharged' /\ DeliveryPaysForItself'
  BY <1>1, <1>2, <1>3, RepricedStep
<1> QED
  BY <1>1, <1>4 DEF FeeInv, RatesKnown

LEMMA AssignAtPriceStep == ASSUME FeeInv, AssignAtPrice PROVE FeeInv'
<1>1. delivery.op = "looking" /\ UNCHANGED rates /\ delivery' = [delivery EXCEPT !.op = "taken"]
  BY DEF AssignAtPrice
<1>2. delivery \in OpenDeliveries /\ delivery.fee \in Nat /\ delivery.total \in Int
  BY <1>1, OpenDelivery
<1>3. /\ delivery' \in OpenDeliveries
      /\ delivery'.op = "taken" /\ delivery'.fee = delivery.fee
      /\ delivery'.total = delivery.total /\ delivery'.rest = delivery.rest
  BY <1>1, <1>2 DEF OpenDeliveries
<1>4. delivery.total = delivery.total + delivery.fee - delivery.fee
  BY <1>2
<1>5. (delivery \in Deliveries)' /\ FeeCharged' /\ DeliveryPaysForItself'
  BY <1>1, <1>2, <1>3, <1>4, TakenDelivery
<1> QED
  BY <1>1, <1>5 DEF FeeInv, RatesKnown

LEMMA ShareFeeStep ==
    ASSUME FeeInv, NEW tier \in Tiers, ShareFee(tier)
    PROVE  FeeInv'
<1> DEFINE rate == rates.set["deliveryCommissionRate"]
           e == DriverDeliveryFee(delivery, tier)
           earned == RoundPerCent(e * (100 - rate))
<1>1. delivery.op = "taken" /\ UNCHANGED rates
  BY DEF ShareFee
<1>2. /\ delivery.standard \in BOOLEAN /\ delivery.km \in Nat /\ delivery.fee \in Nat
      /\ delivery.total - delivery.rest = delivery.fee
  BY <1>1, OpenDelivery
<1>3. rate \in Whole /\ rate \in Int
  BY FeesAssumption DEF FeeInv, RatesKnown
<1>4. e \in 0..delivery.fee
  BY <1>2, ShareWithin DEF FeeInv
<1> HIDE DEF e, rate
<1>5. /\ earned \in Int
      /\ rate >= 0 => earned <= delivery.fee
      /\ rate <= 100 => earned >= 0
  BY <1>2, <1>3, <1>4, RoundedShare
<1>6. delivery' = [op |-> "settled", charged |-> delivery.fee, earned |-> earned, rate |-> rate]
  BY <1>2 DEF ShareFee, e, rate
<1> HIDE DEF earned
<1>7. (delivery \in Deliveries)' /\ FeeCharged' /\ DeliveryPaysForItself'
  BY <1>2, <1>3, <1>5, <1>6 DEF Deliveries, FeeCharged, DeliveryPaysForItself
<1> QED
  BY <1>1, <1>7 DEF FeeInv, RatesKnown

LEMMA FeesStep == ASSUME FeeInv, [FeesNext]_feesVars PROVE FeeInv'
<1>1. CASE FeesNext
  BY <1>1, UpdateRatesStep, PriceOrderStep, PriceAcceptanceStep, PriceDirectOrderStep,
     AssignAtPriceStep, ShareFeeStep DEF FeesNext
<1>2. CASE UNCHANGED feesVars
  BY <1>2 DEF feesVars, FeeInv, RatesKnown, FeeCharged, DeliveryPaysForItself
<1> QED
  BY <1>1, <1>2

\* For any settings, distances, bonuses and tiers, changed at any time: the driver
\* earns no more than the customer was charged for the delivery, and nothing is
\* taken from him, while the commission is a percentage (calculateDeliveryFee,
\* calculateDriverDeliveryFee).
THEOREM DeliveriesPayForThemselves == FeesSpec => []DeliveryPaysForItself
<1>1. FeeInv => DeliveryPaysForItself
  BY DEF FeeInv
<1> QED
  BY <1>1, FeesStart, FeesStep, PTL DEF FeesSpec

-----------------------------------------------------------------------------
(* Options: an option that was checked is still what it was, or gone. *)

\* A group goes with its options.
OptionsGrouped == \A o \in Present : group[option[o].group] \in Bearers

BuyersFit ==
    \A b \in Buyers : buyer[b].op = "add" =>
        \A o \in buyer[b].options :
            /\ option[o] # Absent
            /\ o \in Present => group[option[o].group] = buyer[b].of

ChoicesInv ==
    /\ ChoicesTypeOK
    /\ OptionsGrouped
    /\ BuyersFit
    /\ ChosenOptionsFit

LEMMA ChoicesStart == ASSUME ChoicesInit PROVE ChoicesInv
<1>1. ChoicesTypeOK
  BY DEF ChoicesInit, ChoicesTypeOK
<1>2. OptionsGrouped
  BY ChoicesAssumption DEF ChoicesInit, OptionsGrouped, Present, Absent
<1>3. BuyersFit /\ ChosenOptionsFit
  BY DEF ChoicesInit, BuyersFit, ChosenOptionsFit
<1> QED
  BY <1>1, <1>2, <1>3 DEF ChoicesInv

LEMMA OptionShape ==
    ASSUME ChoicesTypeOK
    PROVE  /\ \A o \in Options : o \in Present => option[o] \in [group : OptionGroups, active : BOOLEAN]
           /\ \A o \in Options : option[o] = Absent \/ option[o] = Removed => o \notin Present
           /\ \A l \in Picks : pick[l].state = "IN" =>
                 /\ pick[l] \in [state : {"IN"}, of : Bearers \cup {"custom"}, options : SUBSET Options, edited : BOOLEAN]
                 /\ pick[l].options \subseteq Options
           /\ \A b \in Buyers : buyer[b].op = "add" =>
                 buyer[b].of \in Bearers /\ buyer[b].options \subseteq Options
BY ChoicesAssumption DEF ChoicesTypeOK, Present, Absent, Removed

\* The vendor changes what there is to choose.  An option goes on being what it
\* was, or it is new, or gone, and then every line has lost it.
LEMMA VendorStep ==
    ASSUME ChoicesInv,
           ChoicesTypeOK',
           UNCHANGED buyer,
           OptionsGrouped',
           \A o \in Options : option[o] # Absent => option'[o] # Absent,
           \A o \in Options : option[o] # Absent /\ o \in Present' =>
               o \in Present /\ group'[option'[o].group] = group[option[o].group],
           \A l \in Picks : pick'[l].state = "IN" =>
               /\ pick[l].state = "IN" /\ pick'[l].of = pick[l].of /\ pick'[l].edited = pick[l].edited
               /\ pick'[l].options \subseteq pick[l].options
               /\ \A o \in pick'[l].options : o \in Present => o \in Present'
    PROVE  ChoicesInv'
<1>1. BuyersFit'
  <2> SUFFICES ASSUME NEW b \in Buyers, buyer[b].op = "add", NEW o \in buyer[b].options
               PROVE  /\ option'[o] # Absent
                      /\ o \in Present' => group'[option'[o].group] = buyer[b].of
    BY DEF BuyersFit, Absent
  <2>1. /\ o \in Options /\ option[o] # Absent
        /\ o \in Present => group[option[o].group] = buyer[b].of
    BY OptionShape DEF ChoicesInv, BuyersFit
  <2> QED
    BY <2>1
<1>2. ChosenOptionsFit'
  <2> SUFFICES ASSUME NEW l \in Picks, pick'[l].state = "IN", ~pick'[l].edited, pick'[l].of # "custom",
                      NEW o \in pick'[l].options
               PROVE  o \in Present' /\ group'[option'[o].group] = pick'[l].of
    BY DEF ChosenOptionsFit
  <2>1. /\ o \in Options
        /\ o \in Present /\ group[option[o].group] = pick[l].of
    BY OptionShape DEF ChoicesInv, ChosenOptionsFit
  <2>2. option[o] # Absent
    BY <2>1, OptionShape DEF ChoicesInv
  <2> QED
    BY <2>1, <2>2
<1> QED
  BY <1>1, <1>2 DEF ChoicesInv

LEMMA AddOptionGroupStep ==
    ASSUME ChoicesInv, NEW x \in Bearers, NEW g \in OptionGroups, NEW O \in SUBSET Options,
           AddOptionGroup(x, g, O)
    PROVE  ChoicesInv'
<1>1. /\ group[g] = "NONE" /\ group' = [group EXCEPT ![g] = x]
      /\ \A o \in O : option[o] = Absent
      /\ option' = [o \in Options |-> IF o \in O THEN [group |-> g, active |-> TRUE] ELSE option[o]]
      /\ UNCHANGED <<pick, buyer, bearer>>
  BY DEF AddOptionGroup
<1>2. ChoicesTypeOK'
  BY <1>1 DEF ChoicesInv, ChoicesTypeOK
<1>3. \A o \in Options \ O : option'[o] = option[o]
  BY <1>1
<1>4. \A o \in Options \ O : o \in Present' <=> o \in Present
  BY <1>3 DEF Present
<1>5. \A o \in Present : option[o].group # g
  BY <1>1, ChoicesAssumption DEF ChoicesInv, OptionsGrouped
<1>6. \A o \in Present : o \notin O
  BY <1>1, OptionShape DEF ChoicesInv, Present
<1>7. \A o \in O : option'[o] = [group |-> g, active |-> TRUE]
  BY <1>1
<1>8. \A o \in Present : group'[option'[o].group] = group[option[o].group]
  BY <1>1, <1>3, <1>5, <1>6 DEF ChoicesInv, ChoicesTypeOK, Present
<1>9. OptionsGrouped'
  <2> SUFFICES ASSUME NEW o \in Options, o \in Present'
               PROVE  group'[option'[o].group] \in Bearers
    BY DEF OptionsGrouped, Present
  <2>1. CASE o \in O
    BY <1>1, <1>7, <2>1 DEF ChoicesInv, ChoicesTypeOK
  <2>2. CASE o \notin O
    BY <1>4, <1>8, <2>2 DEF ChoicesInv, OptionsGrouped
  <2> QED
    BY <2>1, <2>2
<1>10. \A o \in Options : option[o] # Absent => option'[o] # Absent
  BY <1>1, <1>3
<1>11. \A o \in Options : option[o] # Absent /\ o \in Present' =>
          o \in Present /\ group'[option'[o].group] = group[option[o].group]
  BY <1>1, <1>4, <1>8
<1>12. \A l \in Picks : pick'[l].state = "IN" =>
          \A o \in pick'[l].options : o \in Present => o \in Present'
  BY <1>4, <1>6 DEF Present
<1> QED
  BY <1>1, <1>2, <1>9, <1>10, <1>11, <1>12, VendorStep

LEMMA AddOptionStep ==
    ASSUME ChoicesInv, NEW g \in OptionGroups, NEW o \in Options, NEW on \in BOOLEAN,
           AddOption(g, o, on)
    PROVE  ChoicesInv'
<1>1. /\ group[g] \in Bearers /\ option[o] = Absent
      /\ option' = [option EXCEPT ![o] = [group |-> g, active |-> on]]
      /\ UNCHANGED <<bearer, group, pick, buyer>>
  BY DEF AddOption
<1>2. ChoicesTypeOK'
  BY <1>1 DEF ChoicesInv, ChoicesTypeOK
<1>3. /\ option'[o] = [group |-> g, active |-> on]
      /\ \A p \in Options \ {o} : option'[p] = option[p]
      /\ o \notin Present
  BY <1>1, OptionShape DEF ChoicesInv, ChoicesTypeOK
<1>4. \A p \in Options \ {o} : p \in Present' <=> p \in Present
  BY <1>3 DEF Present
<1>5. OptionsGrouped'
  BY <1>1, <1>3, <1>4 DEF ChoicesInv, OptionsGrouped, Present
<1>6. \A p \in Options : option[p] # Absent => p # o /\ option'[p] = option[p]
  BY <1>1, <1>3
<1>7. \A p \in Present : p \in Present'
  BY <1>3, <1>4 DEF Present
<1> QED
  BY <1>1, <1>2, <1>4, <1>5, <1>6, <1>7, VendorStep

LEMMA UpdateOptionStep ==
    ASSUME ChoicesInv, NEW o \in Options, NEW on \in BOOLEAN, UpdateOption(o, on)
    PROVE  ChoicesInv'
<1>1. /\ o \in Present
      /\ option' = [option EXCEPT ![o].active = on]
      /\ UNCHANGED <<bearer, group, pick, buyer>>
  BY DEF UpdateOption
<1>2. option[o] \in [group : OptionGroups, active : BOOLEAN]
  BY <1>1, OptionShape DEF ChoicesInv
<1>3. /\ option'[o] \in [group : OptionGroups, active : BOOLEAN]
      /\ option'[o].group = option[o].group
      /\ \A p \in Options \ {o} : option'[p] = option[p]
  BY <1>1, <1>2 DEF ChoicesInv, ChoicesTypeOK
<1>4. ChoicesTypeOK'
  <2>1. option' \in [Options -> {Absent, Removed} \cup [group : OptionGroups, active : BOOLEAN]]
    BY <1>1, <1>3 DEF ChoicesInv, ChoicesTypeOK
  <2> QED
    BY <1>1, <2>1 DEF ChoicesInv, ChoicesTypeOK
<1>5. \A p \in Options : option'[p].group = option[p].group
  BY <1>3
<1>6. \A p \in Options : p \in Present' <=> p \in Present
  BY <1>5 DEF Present
<1>7. OptionsGrouped'
  BY <1>1, <1>5, <1>6 DEF ChoicesInv, OptionsGrouped, Present
<1>8. \A p \in Options : option[p] # Absent => option'[p] # Absent
  BY <1>3, ChoicesAssumption DEF Absent
<1> QED
  BY <1>1, <1>4, <1>5, <1>6, <1>7, <1>8, VendorStep DEF Present

\* Options go, perhaps with their groups, and lines with them or without them.
LEMMA OptionsGoStep ==
    ASSUME ChoicesInv,
           NEW O \in SUBSET Options, NEW G \in SUBSET OptionGroups,
           OptionsIn(G) \subseteq O,
           option' = [o \in Options |-> IF o \in O THEN Removed ELSE option[o]],
           group' = [g \in OptionGroups |-> IF g \in G THEN "GONE" ELSE group[g]],
           \A l \in Picks :
               \/ pick[l].state # "IN" /\ pick'[l] = pick[l]
               \/ pick'[l] = [state |-> "GONE"]
               \/ pick[l].state = "IN" /\ pick'[l] = [pick[l] EXCEPT !.options = @ \ O],
           pick' \in [Picks -> {[state |-> "NONE"], [state |-> "GONE"]}
               \cup [state : {"IN"}, of : Bearers \cup {"custom"}, options : SUBSET Options, edited : BOOLEAN]],
           bearer' \in [Bearers -> {"active", "inactive", "gone"}],
           UNCHANGED buyer
    PROVE  ChoicesInv'
<1>1. /\ \A o \in O : option'[o] = Removed
      /\ \A o \in Options \ O : option'[o] = option[o]
  OBVIOUS
<1>2. \A o \in Options : o \in Present' <=> o \in Present /\ o \notin O
  BY <1>1, ChoicesAssumption DEF Present, Removed
<1>3. \A o \in Present' : option[o].group \notin G /\ option[o].group \in OptionGroups
  BY <1>2 DEF OptionsIn, Present
<1>4. \A o \in Present' : group'[option'[o].group] = group[option[o].group]
  BY <1>1, <1>2, <1>3 DEF Present
<1>5. ChoicesTypeOK'
  BY DEF ChoicesInv, ChoicesTypeOK
<1>6. OptionsGrouped'
  BY <1>2, <1>4 DEF ChoicesInv, OptionsGrouped, Present
<1>7. \A o \in Options : option[o] # Absent => option'[o] # Absent
  BY <1>1, ChoicesAssumption DEF Absent, Removed
<1>8. ASSUME NEW l \in Picks, pick'[l].state = "IN"
      PROVE  /\ pick[l].state = "IN" /\ pick'[l].of = pick[l].of /\ pick'[l].edited = pick[l].edited
             /\ pick'[l].options = pick[l].options \ O
  <2>1. pick[l].state = "IN" /\ pick'[l] = [pick[l] EXCEPT !.options = @ \ O]
    BY <1>8
  <2>2. pick[l] \in [state : {"IN"}, of : Bearers \cup {"custom"}, options : SUBSET Options, edited : BOOLEAN]
    BY <2>1, OptionShape DEF ChoicesInv
  <2> QED
    BY <2>1, <2>2
<1>9. \A l \in Picks : pick'[l].state = "IN" =>
         \A o \in pick'[l].options : o \in Present => o \in Present'
  BY <1>2, <1>8 DEF Present
<1> QED
  BY <1>2, <1>4, <1>5, <1>6, <1>7, <1>8, <1>9, VendorStep

\* A line without the options of O is a line.
LEMMA LinesWithout ==
    ASSUME ChoicesTypeOK, NEW O \in SUBSET Options, NEW l \in Picks, pick[l].state = "IN"
    PROVE  [pick[l] EXCEPT !.options = @ \ O]
               \in [state : {"IN"}, of : Bearers \cup {"custom"}, options : SUBSET Options, edited : BOOLEAN]
<1>1. pick[l] \in [state : {"IN"}, of : Bearers \cup {"custom"}, options : SUBSET Options, edited : BOOLEAN]
  BY OptionShape
<1> QED
  BY <1>1

LEMMA WithoutOptionsStep ==
    ASSUME ChoicesInv, NEW O \in SUBSET Options, NEW G \in SUBSET OptionGroups,
           OptionsIn(G) \subseteq O,
           WithoutOptions(O),
           group' = [g \in OptionGroups |-> IF g \in G THEN "GONE" ELSE group[g]],
           UNCHANGED <<bearer, buyer>>
    PROVE  ChoicesInv'
<1>1. pick' \in [Picks -> {[state |-> "NONE"], [state |-> "GONE"]}
          \cup [state : {"IN"}, of : Bearers \cup {"custom"}, options : SUBSET Options, edited : BOOLEAN]]
  BY LinesWithout DEF WithoutOptions, ChoicesInv, ChoicesTypeOK
<1>2. \A l \in Picks : \/ pick[l].state # "IN" /\ pick'[l] = pick[l]
                       \/ pick[l].state = "IN" /\ pick'[l] = [pick[l] EXCEPT !.options = @ \ O]
  BY DEF WithoutOptions
<1> QED
  BY <1>1, <1>2, OptionsGoStep DEF WithoutOptions, ChoicesInv, ChoicesTypeOK

LEMMA RemoveOptionStep ==
    ASSUME ChoicesInv, NEW o \in Options, RemoveOption(o)
    PROVE  ChoicesInv'
<1>1. group' = [g \in OptionGroups |-> IF g \in {} THEN "GONE" ELSE group[g]]
  BY DEF RemoveOption, ChoicesInv, ChoicesTypeOK
<1>2. OptionsIn({}) \subseteq {o}
  BY DEF OptionsIn
<1> QED
  BY <1>1, <1>2, WithoutOptionsStep DEF RemoveOption

LEMMA RemoveOptionGroupStep ==
    ASSUME ChoicesInv, NEW g \in OptionGroups, RemoveOptionGroup(g)
    PROVE  ChoicesInv'
<1>1. group' = [h \in OptionGroups |-> IF h \in {g} THEN "GONE" ELSE group[h]]
  BY DEF RemoveOptionGroup, ChoicesInv, ChoicesTypeOK
<1>2. OptionsIn({g}) \in SUBSET Options
  BY DEF OptionsIn, Present
<1> QED
  BY <1>1, <1>2, WithoutOptionsStep DEF RemoveOptionGroup

LEMMA RemoveBearerStep ==
    ASSUME ChoicesInv, NEW x \in Bearers, RemoveBearer(x)
    PROVE  ChoicesInv'
<1> DEFINE G == {g \in OptionGroups : group[g] = x}
           O == OptionsIn(G)
<1>1. G \in SUBSET OptionGroups /\ O \in SUBSET Options
  BY DEF OptionsIn, Present
<1>2. /\ bearer' = [bearer EXCEPT ![x] = "gone"]
      /\ group' = [g \in OptionGroups |-> IF g \in G THEN "GONE" ELSE group[g]]
      /\ option' = [o \in Options |-> IF o \in O THEN Removed ELSE option[o]]
      /\ pick' = [l \in Picks |->
             IF pick[l].state # "IN" THEN pick[l]
             ELSE IF pick[l].of = x THEN [state |-> "GONE"]
             ELSE [pick[l] EXCEPT !.options = @ \ O]]
      /\ UNCHANGED buyer
  BY DEF RemoveBearer
<1> HIDE DEF G, O
<1>3. pick' \in [Picks -> {[state |-> "NONE"], [state |-> "GONE"]}
          \cup [state : {"IN"}, of : Bearers \cup {"custom"}, options : SUBSET Options, edited : BOOLEAN]]
  BY <1>1, <1>2, LinesWithout DEF ChoicesInv, ChoicesTypeOK
<1>4. bearer' \in [Bearers -> {"active", "inactive", "gone"}]
  BY <1>2 DEF ChoicesInv, ChoicesTypeOK
<1>5. \A l \in Picks : \/ pick[l].state # "IN" /\ pick'[l] = pick[l]
                       \/ pick'[l] = [state |-> "GONE"]
                       \/ pick[l].state = "IN" /\ pick'[l] = [pick[l] EXCEPT !.options = @ \ O]
  BY <1>2
<1>6. OptionsIn(G) \subseteq O
  BY DEF O
<1> QED
  BY <1>1, <1>2, <1>3, <1>4, <1>5, <1>6, OptionsGoStep

LEMMA OfferBearerStep ==
    ASSUME ChoicesInv, NEW x \in Bearers, NEW on \in BOOLEAN, OfferBearer(x, on)
    PROVE  ChoicesInv'
BY DEF OfferBearer, ChoicesInv, ChoicesTypeOK, OptionsGrouped, BuyersFit, ChosenOptionsFit, Present

LEMMA CheckPickStep ==
    ASSUME ChoicesInv, NEW b \in Buyers, NEW x \in Bearers, NEW O \in SUBSET Options,
           CheckPick(b, x, O)
    PROVE  ChoicesInv'
<1>1. /\ buyer' = [buyer EXCEPT ![b] = [op |-> "add", of |-> x, options |-> O]]
      /\ O \subseteq ValidOptions(x)
      /\ UNCHANGED <<bearer, group, option, pick>>
  BY DEF CheckPick
<1>2. /\ buyer'[b] = [op |-> "add", of |-> x, options |-> O]
      /\ \A c \in Buyers \ {b} : buyer'[c] = buyer[c]
  BY <1>1 DEF ChoicesInv, ChoicesTypeOK
<1>3. \A o \in O : o \in Present /\ group[option[o].group] = x
  BY <1>1 DEF ValidOptions, OptionsUnder, OptionsIn
<1>4. \A o \in O : option[o] # Absent
  BY <1>3, OptionShape DEF ChoicesInv
<1>5. BuyersFit'
  <2> SUFFICES ASSUME NEW c \in Buyers, buyer'[c].op = "add", NEW o \in buyer'[c].options
               PROVE  /\ option[o] # Absent
                      /\ o \in Present => group[option[o].group] = buyer'[c].of
    BY <1>1 DEF BuyersFit, Present
  <2>1. CASE c = b
    BY <1>2, <1>3, <1>4, <2>1
  <2>2. CASE c # b
    BY <1>2, <2>2 DEF ChoicesInv, BuyersFit
  <2> QED
    BY <2>1, <2>2
<1> QED
  BY <1>1, <1>5 DEF ChoicesInv, ChoicesTypeOK, OptionsGrouped, ChosenOptionsFit, Present

LEMMA WritePickStep ==
    ASSUME ChoicesInv, NEW b \in Buyers, NEW l \in Picks, WritePick(b, l)
    PROVE  ChoicesInv'
<1> DEFINE new == [state |-> "IN", of |-> buyer[b].of, options |-> buyer[b].options, edited |-> FALSE]
<1>1. /\ buyer[b].op = "add" /\ buyer[b].of \in Bearers /\ buyer[b].options \subseteq Options
      /\ buyer' = [buyer EXCEPT ![b] = [op |-> "idle"]]
      /\ UNCHANGED <<bearer, group, option>>
  BY OptionShape DEF WritePick, ChoicesInv
<1>2. /\ buyer'[b].op = "idle"
      /\ \A c \in Buyers \ {b} : buyer'[c] = buyer[c]
  BY <1>1 DEF ChoicesInv, ChoicesTypeOK
<1>3. BuyersFit' /\ OptionsGrouped'
  BY <1>1, <1>2 DEF ChoicesInv, BuyersFit, OptionsGrouped, Present
<1>4. CASE pick' = pick
  BY <1>1, <1>3, <1>4 DEF ChoicesInv, ChoicesTypeOK, ChosenOptionsFit, Present
<1>5. CASE pick' = [pick EXCEPT ![l] = new] /\ buyer[b].options \subseteq Present
  <2>1. /\ pick'[l] = new
        /\ \A k \in Picks \ {l} : pick'[k] = pick[k]
        /\ new \in [state : {"IN"}, of : Bearers \cup {"custom"}, options : SUBSET Options, edited : BOOLEAN]
    BY <1>1, <1>5 DEF ChoicesInv, ChoicesTypeOK
  <2>2. ChoicesTypeOK'
    BY <1>1, <1>5, <2>1 DEF ChoicesInv, ChoicesTypeOK
  <2>3. \A o \in buyer[b].options : o \in Present /\ group[option[o].group] = buyer[b].of
    BY <1>1, <1>5 DEF ChoicesInv, BuyersFit
  <2>4. ChosenOptionsFit'
    <3> SUFFICES ASSUME NEW k \in Picks, pick'[k].state = "IN", ~pick'[k].edited, pick'[k].of # "custom",
                        NEW o \in pick'[k].options
                 PROVE  o \in Present /\ group[option[o].group] = pick'[k].of
      BY <1>1 DEF ChosenOptionsFit, Present
    <3>1. CASE k = l
      BY <2>1, <2>3, <3>1
    <3>2. CASE k # l
      BY <2>1, <3>2 DEF ChoicesInv, ChosenOptionsFit
    <3> QED
      BY <3>1, <3>2
  <2> QED
    BY <1>3, <2>2, <2>4 DEF ChoicesInv
<1> QED
  BY <1>4, <1>5 DEF WritePick

LEMMA UpdatePickStep ==
    ASSUME ChoicesInv, NEW l \in Picks, NEW O \in SUBSET Options, UpdatePick(l, O)
    PROVE  ChoicesInv'
<1>1. /\ pick' = [pick EXCEPT ![l].options = O, ![l].edited = TRUE]
      /\ pick[l] \in [state : {"IN"}, of : Bearers \cup {"custom"}, options : SUBSET Options, edited : BOOLEAN]
      /\ UNCHANGED <<bearer, group, option, buyer>>
  BY OptionShape DEF UpdatePick, ChoicesInv
<1>2. /\ pick'[l] \in [state : {"IN"}, of : Bearers \cup {"custom"}, options : SUBSET Options, edited : BOOLEAN]
      /\ pick'[l].edited
      /\ \A k \in Picks \ {l} : pick'[k] = pick[k]
  BY <1>1 DEF ChoicesInv, ChoicesTypeOK
<1>3. pick' \in [Picks -> {[state |-> "NONE"], [state |-> "GONE"]}
          \cup [state : {"IN"}, of : Bearers \cup {"custom"}, options : SUBSET Options, edited : BOOLEAN]]
  BY <1>1, <1>2 DEF ChoicesInv, ChoicesTypeOK
<1>4. ChoicesTypeOK'
  BY <1>1, <1>3 DEF ChoicesInv, ChoicesTypeOK
<1>5. OptionsGrouped'
  BY <1>1 DEF ChoicesInv, OptionsGrouped, Present
<1>6. BuyersFit'
  BY <1>1 DEF ChoicesInv, BuyersFit, Present
<1>7. ASSUME NEW k \in Picks, pick'[k].state = "IN", ~pick'[k].edited, pick'[k].of # "custom",
             NEW o \in pick'[k].options
      PROVE  o \in Present /\ group[option[o].group] = pick'[k].of
  <2>1. k # l
    BY <1>2, <1>7
  <2>2. pick'[k] = pick[k]
    BY <1>2, <2>1
  <2> QED
    BY <1>7, <2>2 DEF ChoicesInv, ChosenOptionsFit
<1>8. Present' = Present /\ option' = option /\ group' = group
  BY <1>1 DEF Present
<1>9. ChosenOptionsFit'
  BY <1>7, <1>8 DEF ChosenOptionsFit
<1> QED
  BY <1>4, <1>5, <1>6, <1>9 DEF ChoicesInv

LEMMA AddOfferedStep ==
    ASSUME ChoicesInv, NEW l \in Picks, NEW O \in SUBSET Options, AddOffered(l, O)
    PROVE  ChoicesInv'
<1> DEFINE new == [state |-> "IN", of |-> "custom", options |-> O, edited |-> FALSE]
<1>1. pick' = [pick EXCEPT ![l] = new] /\ UNCHANGED <<bearer, group, option, buyer>>
  BY DEF AddOffered
<1>2. new.of = "custom" /\ new \in [state : {"IN"}, of : Bearers \cup {"custom"}, options : SUBSET Options, edited : BOOLEAN]
  OBVIOUS
<1> HIDE DEF new
<1>3. pick'[l] = new /\ \A k \in Picks \ {l} : pick'[k] = pick[k]
  BY <1>1 DEF ChoicesInv, ChoicesTypeOK
<1>4. ChoicesTypeOK'
  BY <1>1, <1>2 DEF ChoicesInv, ChoicesTypeOK
<1>5. Present' = Present /\ option' = option /\ group' = group
  BY <1>1 DEF Present
<1>6. OptionsGrouped' /\ BuyersFit'
  BY <1>1, <1>5 DEF ChoicesInv, OptionsGrouped, BuyersFit
<1>7. ChosenOptionsFit'
  BY <1>2, <1>3, <1>5 DEF ChoicesInv, ChosenOptionsFit
<1> QED
  BY <1>4, <1>6, <1>7 DEF ChoicesInv

LEMMA ChoicesStep == ASSUME ChoicesInv, [ChoicesNext]_choicesVars PROVE ChoicesInv'
<1>1. CASE ChoicesNext
  BY <1>1, RemoveBearerStep, OfferBearerStep, AddOptionGroupStep, CheckPickStep,
     RemoveOptionGroupStep, RemoveOptionStep, UpdateOptionStep, AddOptionStep,
     WritePickStep, UpdatePickStep, AddOfferedStep DEF ChoicesNext
<1>2. CASE UNCHANGED choicesVars
  BY <1>2 DEF choicesVars, ChoicesInv, ChoicesTypeOK, OptionsGrouped, BuyersFit,
     ChosenOptionsFit, Present
<1> QED
  BY <1>1, <1>2

\* Whatever the vendor removes while a line is being added, the line has only
\* options of what it is about, for any number of products, groups and requests;
\* but for an edited line, and one that is about no product (addItem, validateOptions).
THEOREM OptionsFit == ChoicesSpec => []ChosenOptionsFit
<1>1. ChoicesInv => ChosenOptionsFit
  BY DEF ChoicesInv
<1> QED
  BY <1>1, ChoicesStart, ChoicesStep, PTL DEF ChoicesSpec

-----------------------------------------------------------------------------
(* Places: what an edit that was alone has found still holds.              *)

Editing(e) == plan[e].op \in {"resolve", "move", "write"}

EditSound(r) ==
    LET row == branch[r.branch] IN
    /\ r.op = "resolve" => r.was.spot = row.spot /\ r.was.zone = row.zone
    /\ r.op = "move" /\ ~r.again => r.found = row.zone
    /\ r.op = "write" /\ r.named = "spot" => Contains(r.found, row.spot)
    /\ r.op = "write" /\ r.named = "none" => r.found = row.zone

PlanSound(e) ==
    /\ Editing(e) => branch[plan[e].branch] # None
    /\ Editing(e) /\ plan[e].alone => EditsOf(plan[e].branch) = {e}
    /\ Editing(e) /\ plan[e].alone /\ Standing(plan[e].branch) => EditSound(plan[e])
    /\ plan[e].op \in {"insert", "move"} /\ plan[e].alone => Contains(plan[e].found, plan[e].spot)

\* The second statement of an edit that moves b is to come.
HalfMoved(b) == \E e \in Planners : plan[e].op = "write" /\ plan[e].named = "spot" /\ plan[e].branch = b

BranchSound(b) ==
    b \notin unsure /\ Standing(b) => Contains(branch[b].zone, branch[b].spot) \/ HalfMoved(b)

PlacesIInv ==
    /\ PlacesTypeOK
    /\ \A e \in Planners : PlanSound(e)
    /\ \A b \in Branches : BranchSound(b)

ZoneRows == {None} \cup [state : {"THERE"}, area : Areas, active : BOOLEAN]
BranchRows == {None, [state |-> "GONE"]} \cup [state : {"THERE"}, spot : Spots, zone : Zones]
Inserts == [op : {"insert"}, spot : Spots, found : Zones, alone : BOOLEAN]
FieldEdits == [op : {"fields"}, zone : Zones, active : BOOLEAN]
Resolves ==
    [op : {"resolve"}, branch : Branches, spot : Spots \cup {Nowhere}, asked : Zones \cup {NoZone},
     other : BOOLEAN, was : [spot : Spots, zone : Zones], alone : BOOLEAN]
Moves == [op : {"move"}, branch : Branches, spot : Spots, found : Zones, again : BOOLEAN, alone : BOOLEAN]
Writings == [op : {"write"}, branch : Branches, named : {"spot", "zone", "none"}, found : Zones, alone : BOOLEAN]
Plans == {[op |-> "idle"]} \cup Inserts \cup FieldEdits \cup Resolves \cup Moves \cup Writings

LEMMA PlacesTypes ==
    PlacesTypeOK <=> /\ zone \in [Zones -> ZoneRows] /\ branch \in [Branches -> BranchRows]
                     /\ plan \in [Planners -> Plans] /\ unsure \subseteq Branches
<1>1. Plans = {[op |-> "idle"]} \cup Inserts \cup FieldEdits \cup Edits
  BY DEF Plans, Edits, Resolves, Moves, Writings
<1> QED
  BY <1>1 DEF PlacesTypeOK, ZoneRows, BranchRows, Inserts, FieldEdits

LEMMA PlanForms ==
    /\ [op |-> "idle"] \in Plans
    /\ \A s \in Spots, z \in Zones, a \in BOOLEAN :
          [op |-> "insert", spot |-> s, found |-> z, alone |-> a] \in Plans
    /\ \A z \in Zones, a \in BOOLEAN : [op |-> "fields", zone |-> z, active |-> a] \in Plans
    /\ \A b \in Branches, s \in Spots \cup {Nowhere}, y \in Zones \cup {NoZone}, o, a \in BOOLEAN,
          w \in [spot : Spots, zone : Zones] :
          [op |-> "resolve", branch |-> b, spot |-> s, asked |-> y, other |-> o, was |-> w, alone |-> a] \in Plans
    /\ \A b \in Branches, s \in Spots, z \in Zones, g, a \in BOOLEAN :
          [op |-> "move", branch |-> b, spot |-> s, found |-> z, again |-> g, alone |-> a] \in Plans
    /\ \A b \in Branches, n \in {"spot", "zone", "none"}, z \in Zones, a \in BOOLEAN :
          [op |-> "write", branch |-> b, named |-> n, found |-> z, alone |-> a] \in Plans
<1>1. [op |-> "idle"] \in Plans
  BY DEF Plans
<1>2. \A s \in Spots, z \in Zones, a \in BOOLEAN :
          [op |-> "insert", spot |-> s, found |-> z, alone |-> a] \in Inserts
  BY DEF Inserts
<1>3. \A z \in Zones, a \in BOOLEAN : [op |-> "fields", zone |-> z, active |-> a] \in FieldEdits
  BY DEF FieldEdits
<1>4. \A b \in Branches, s \in Spots \cup {Nowhere}, y \in Zones \cup {NoZone}, o, a \in BOOLEAN,
          w \in [spot : Spots, zone : Zones] :
          [op |-> "resolve", branch |-> b, spot |-> s, asked |-> y, other |-> o, was |-> w, alone |-> a] \in Resolves
  BY DEF Resolves
<1>5. \A b \in Branches, s \in Spots, z \in Zones, g, a \in BOOLEAN :
          [op |-> "move", branch |-> b, spot |-> s, found |-> z, again |-> g, alone |-> a] \in Moves
  BY DEF Moves
<1>6. \A b \in Branches, n \in {"spot", "zone", "none"}, z \in Zones, a \in BOOLEAN :
          [op |-> "write", branch |-> b, named |-> n, found |-> z, alone |-> a] \in Writings
  BY DEF Writings
<1> QED
  BY <1>1, <1>2, <1>3, <1>4, <1>5, <1>6 DEF Plans

LEMMA PlanShape ==
    ASSUME NEW r \in Plans
    PROVE  /\ r.op \in {"idle", "insert", "fields", "resolve", "move", "write"}
           /\ r.op = "insert" => r.spot \in Spots /\ r.found \in Zones /\ r.alone \in BOOLEAN
           /\ r.op = "fields" => r.zone \in Zones /\ r.active \in BOOLEAN
           /\ r.op \in {"resolve", "move", "write"} => r.branch \in Branches /\ r.alone \in BOOLEAN
           /\ r.op = "resolve" => /\ r.spot \in Spots \cup {Nowhere} /\ r.asked \in Zones \cup {NoZone}
                                  /\ r.was \in [spot : Spots, zone : Zones] /\ r.other \in BOOLEAN
           /\ r.op = "move" => r.spot \in Spots /\ r.found \in Zones /\ r.again \in BOOLEAN
           /\ r.op = "write" => r.named \in {"spot", "zone", "none"} /\ r.found \in Zones
<1>1. CASE r = [op |-> "idle"]
  BY <1>1
<1>2. CASE r \in Inserts
  BY <1>2 DEF Inserts
<1>3. CASE r \in FieldEdits
  BY <1>3 DEF FieldEdits
<1>4. CASE r \in Resolves
  BY <1>4 DEF Resolves
<1>5. CASE r \in Moves
  BY <1>5 DEF Moves
<1>6. CASE r \in Writings
  BY <1>6 DEF Writings
<1> QED
  BY <1>1, <1>2, <1>3, <1>4, <1>5, <1>6 DEF Plans

LEMMA RowShape ==
    ASSUME PlacesTypeOK
    PROVE  /\ \A b \in Branches : /\ branch[b] \in BranchRows
                                  /\ Standing(b) <=> branch[b] \notin {None, [state |-> "GONE"]}
                                  /\ Standing(b) => branch[b].spot \in Spots /\ branch[b].zone \in Zones
           /\ \A z \in Zones : /\ zone[z] \in ZoneRows
                               /\ zone[z] # None => zone[z] \in [state : {"THERE"}, area : Areas, active : BOOLEAN]
<1>1. ASSUME NEW b \in Branches
      PROVE  /\ branch[b] \in BranchRows /\ (Standing(b) <=> branch[b] \notin {None, [state |-> "GONE"]})
             /\ Standing(b) => branch[b].spot \in Spots /\ branch[b].zone \in Zones
  <2>1. branch[b] \in BranchRows
    BY PlacesTypes
  <2>2. CASE branch[b] \in {None, [state |-> "GONE"]}
    BY <2>1, <2>2 DEF None, Standing
  <2>3. CASE branch[b] \in [state : {"THERE"}, spot : Spots, zone : Zones]
    BY <2>1, <2>3 DEF None, Standing
  <2> QED
    BY <2>1, <2>2, <2>3 DEF BranchRows
<1>2. \A z \in Zones : zone[z] \in ZoneRows
  BY PlacesTypes
<1> QED
  BY <1>1, <1>2 DEF ZoneRows

LEMMA ResolveFinds ==
    ASSUME NEW s, NEW y, NEW z \in ResolveValidZone(s, y), y \in Zones \cup {NoZone}
    PROVE  z \in Zones /\ Contains(z, s)
BY DEF ResolveValidZone, SmallestAround

\* q is r, but that somebody disturbed it.
Weaker(q, r) ==
    /\ q \in Plans /\ q.op = r.op
    /\ r.op \in {"resolve", "move", "write"} => q.branch = r.branch
    /\ r.op = "write" => q.named = r.named
    /\ r.op \in {"insert", "resolve", "move", "write"} => ~q.alone

LEMMA WeakerForm ==
    ASSUME NEW r \in Plans, r.op \in {"insert", "resolve", "move", "write"}
    PROVE  Weaker([r EXCEPT !.alone = FALSE], r)
<1>1. CASE r \in Inserts
  <2>1. [r EXCEPT !.alone = FALSE] \in Inserts
    BY <1>1 DEF Inserts
  <2>2. [r EXCEPT !.alone = FALSE].op = r.op /\ r.op = "insert" /\ ~[r EXCEPT !.alone = FALSE].alone
    BY <1>1 DEF Inserts
  <2> QED
    BY <2>1, <2>2 DEF Weaker, Plans
<1>2. CASE r \in Resolves
  <2>1. [r EXCEPT !.alone = FALSE] \in Resolves
    BY <1>2 DEF Resolves
  <2>2. /\ [r EXCEPT !.alone = FALSE].op = r.op /\ r.op = "resolve" /\ ~[r EXCEPT !.alone = FALSE].alone
        /\ [r EXCEPT !.alone = FALSE].branch = r.branch
    BY <1>2 DEF Resolves
  <2> QED
    BY <2>1, <2>2 DEF Weaker, Plans
<1>3. CASE r \in Moves
  <2>1. [r EXCEPT !.alone = FALSE] \in Moves
    BY <1>3 DEF Moves
  <2>2. /\ [r EXCEPT !.alone = FALSE].op = r.op /\ r.op = "move" /\ ~[r EXCEPT !.alone = FALSE].alone
        /\ [r EXCEPT !.alone = FALSE].branch = r.branch
    BY <1>3 DEF Moves
  <2> QED
    BY <2>1, <2>2 DEF Weaker, Plans
<1>4. CASE r \in Writings
  <2>1. [r EXCEPT !.alone = FALSE] \in Writings
    BY <1>4 DEF Writings
  <2>2. /\ [r EXCEPT !.alone = FALSE].op = r.op /\ ~[r EXCEPT !.alone = FALSE].alone
        /\ [r EXCEPT !.alone = FALSE].branch = r.branch /\ [r EXCEPT !.alone = FALSE].named = r.named
    BY <1>4 DEF Writings
  <2> QED
    BY <2>1, <2>2 DEF Weaker, Plans
<1>5. CASE r = [op |-> "idle"] \/ r \in FieldEdits
  BY <1>5 DEF FieldEdits
<1> QED
  BY <1>1, <1>2, <1>3, <1>4, <1>5 DEF Plans

LEMMA DisturbedSound ==
    ASSUME NEW p \in [Planners -> Plans], NEW e \in Planners
    PROVE  Weaker(Disturbed(p)[e], p[e])
<1>1. p[e] \in Plans
  OBVIOUS
<1>2. CASE p[e].op \in {"insert", "resolve", "move", "write"}
  <2>1. "alone" \in DOMAIN p[e]
    <3>1. p[e] \in Inserts \cup Resolves \cup Moves \cup Writings
      BY <1>1, <1>2 DEF Plans, FieldEdits
    <3> QED
      BY <3>1 DEF Inserts, Resolves, Moves, Writings
  <2>2. Disturbed(p)[e] = [p[e] EXCEPT !.alone = FALSE]
    BY <2>1 DEF Disturbed
  <2> QED
    BY <1>1, <1>2, <2>2, WeakerForm
<1>3. CASE p[e] = [op |-> "idle"] \/ p[e] \in FieldEdits
  <2>1. "alone" \notin DOMAIN p[e]
    BY <1>3 DEF FieldEdits
  <2>2. Disturbed(p)[e] = p[e]
    BY <2>1 DEF Disturbed
  <2>3. p[e].op \in {"idle", "fields"}
    BY <1>3 DEF FieldEdits
  <2> QED
    BY <1>1, <2>2, <2>3 DEF Weaker
<1>4. p[e].op \in {"insert", "resolve", "move", "write"} \/ p[e] = [op |-> "idle"] \/ p[e] \in FieldEdits
  BY <1>1 DEF Plans, Inserts, Resolves, Moves, Writings
<1> QED
  BY <1>2, <1>3, <1>4

\* A zone changes: nothing that was found holds for sure.
LEMMA ZoneChanges ==
    ASSUME PlacesIInv, PlacesTypeOK', UNCHANGED branch,
           \A e \in Planners : \/ Weaker(plan'[e], plan[e])
                               \/ plan[e].op \in {"idle", "fields"} /\ plan'[e].op \in {"idle", "fields"},
           \A b \in Branches \ unsure' :
               b \notin unsure
               /\ (Standing(b) /\ Contains(branch[b].zone, branch[b].spot)
                    => Contains(branch[b].zone, branch[b].spot)')
    PROVE  PlacesIInv'
<1>1. ASSUME NEW e \in Planners PROVE PlanSound(e)'
  <2>1. Editing(e)' <=> Editing(e)
    BY DEF Weaker, Editing
  <2>2. Editing(e) => plan'[e].branch = plan[e].branch /\ ~plan'[e].alone
    BY <2>1 DEF Weaker, Editing
  <2>3. plan'[e].op \in {"insert", "move"} => ~plan'[e].alone
    BY DEF Weaker
  <2>4. PlanSound(e)
    BY DEF PlacesIInv
  <2> QED
    BY <2>1, <2>2, <2>3, <2>4 DEF PlanSound
<1>2. ASSUME NEW b \in Branches PROVE BranchSound(b)'
  <2>1. HalfMoved(b) => HalfMoved(b)'
    BY DEF HalfMoved, Weaker
  <2>2. BranchSound(b)
    BY DEF PlacesIInv
  <2> QED
    BY <2>1, <2>2 DEF BranchSound, Standing
<1> QED
  BY <1>1, <1>2 DEF PlacesIInv

LEMMA PlacesTypesKept ==
    ASSUME zone' \in [Zones -> ZoneRows], branch' \in [Branches -> BranchRows],
           plan' \in [Planners -> Plans], unsure' \subseteq Branches
    PROVE  PlacesTypeOK'
BY DEF PlacesTypeOK, Plans, Edits, Inserts, FieldEdits, Resolves, Moves, Writings, ZoneRows, BranchRows

LEMMA ZoneWritten ==
    ASSUME PlacesIInv, NEW z \in Zones, NEW p \in [Planners -> Plans],
           zone' \in [Zones -> ZoneRows], \A y \in Zones \ {z} : zone'[y] = zone[y],
           UNCHANGED branch, unsure' = unsure \cup BranchesIn(z), plan' = Disturbed(p),
           \A e \in Planners : \/ p[e] = plan[e]
                               \/ plan[e].op \in {"idle", "fields"} /\ p[e].op \in {"idle", "fields"}
    PROVE  PlacesIInv'
<1>1. PlacesTypeOK
  BY DEF PlacesIInv
<1>2. \A e \in Planners : Weaker(plan'[e], p[e])
  BY DisturbedSound
<1>3. plan' \in [Planners -> Plans]
  BY <1>2 DEF Disturbed, Weaker
<1>4. \A e \in Planners : \/ Weaker(plan'[e], plan[e])
                          \/ plan[e].op \in {"idle", "fields"} /\ plan'[e].op \in {"idle", "fields"}
  BY <1>2 DEF Weaker
<1>5. PlacesTypeOK'
  BY <1>1, <1>3, PlacesTypes, PlacesTypesKept DEF BranchesIn
<1>6. ASSUME NEW b \in Branches \ unsure'
      PROVE  b \notin unsure
             /\ (Standing(b) /\ Contains(branch[b].zone, branch[b].spot)
                  => Contains(branch[b].zone, branch[b].spot)')
  <2>1. b \notin unsure /\ (Standing(b) => branch[b].zone # z)
    BY DEF BranchesIn
  <2>2. Standing(b) => zone'[branch[b].zone] = zone[branch[b].zone] /\ branch'[b] = branch[b]
    BY <1>1, <2>1, RowShape
  <2> QED
    BY <2>1, <2>2 DEF Contains
<1> QED
  BY <1>4, <1>5, <1>6, ZoneChanges

LEMMA ZoneStep ==
    ASSUME PlacesIInv, NEW z \in Zones,
           \/ DeleteZone(z)
           \/ \E e \in Planners, a \in Areas : UpdateBoundary(e, z, a)
           \/ \E e \in Planners : WriteZoneFields(e) /\ plan[e].zone = z
    PROVE  PlacesIInv'
<1>1. PlacesTypeOK /\ zone \in [Zones -> ZoneRows] /\ plan \in [Planners -> Plans]
  BY PlacesTypes DEF PlacesIInv
<1>2. CASE DeleteZone(z)
  <2>1. UNCHANGED branch /\ unsure' = unsure \cup BranchesIn(z) /\ plan' = Disturbed(plan)
    BY <1>2 DEF DeleteZone
  <2>2. zone' \in [Zones -> ZoneRows] /\ \A y \in Zones \ {z} : zone'[y] = zone[y]
    BY <1>1, <1>2 DEF DeleteZone, ZoneRows
  <2> QED
    BY <1>1, <2>1, <2>2, ZoneWritten
<1>3. ASSUME NEW e \in Planners, NEW a \in Areas, UpdateBoundary(e, z, a) PROVE PlacesIInv'
  <2>1. plan[e].op = "idle" /\ zone[z] # None /\ UNCHANGED branch /\ unsure' = unsure \cup BranchesIn(z)
    BY <1>3 DEF UpdateBoundary, Unplanned
  <2>2. PICK r : /\ r \in {[op |-> "idle"]} \cup [op : {"fields"}, zone : {z}, active : BOOLEAN]
                 /\ plan' = Disturbed([plan EXCEPT ![e] = r])
    BY <1>3 DEF UpdateBoundary
  <2>3. r \in Plans /\ r.op \in {"idle", "fields"}
    <3>1. CASE r = [op |-> "idle"]
      BY <3>1, PlanForms
    <3>2. CASE r \in [op : {"fields"}, zone : {z}, active : BOOLEAN]
      BY <3>2 DEF Plans, FieldEdits
    <3> QED
      BY <2>2, <3>1, <3>2
  <2>4. zone' \in [Zones -> ZoneRows] /\ \A y \in Zones \ {z} : zone'[y] = zone[y]
    <3>1. zone[z] \in [state : {"THERE"}, area : Areas, active : BOOLEAN]
      BY <1>1, <2>1, RowShape
    <3>2. [zone[z] EXCEPT !.area = a] = [state |-> "THERE", area |-> a, active |-> zone[z].active]
      BY <3>1
    <3>3. [zone[z] EXCEPT !.area = a] \in ZoneRows
      BY <3>1, <3>2 DEF ZoneRows
    <3> QED
      BY <1>1, <1>3, <3>3 DEF UpdateBoundary
  <2> DEFINE p == [plan EXCEPT ![e] = r]
  <2>5. p \in [Planners -> Plans] /\ p[e] = r /\ \A f \in Planners \ {e} : p[f] = plan[f]
    BY <1>1, <2>3
  <2>6. plan' = Disturbed(p)
    BY <2>2
  <2> HIDE DEF p
  <2> QED
    BY <2>1, <2>3, <2>4, <2>5, <2>6, ZoneWritten
<1>4. ASSUME NEW e \in Planners, WriteZoneFields(e), plan[e].zone = z PROVE PlacesIInv'
  <2>1. /\ plan[e].op = "fields" /\ UNCHANGED branch /\ unsure' = unsure \cup BranchesIn(z)
        /\ plan' = Disturbed([plan EXCEPT ![e] = [op |-> "idle"]])
    BY <1>4 DEF WriteZoneFields
  <2>2. zone' \in [Zones -> ZoneRows] /\ \A y \in Zones \ {z} : zone'[y] = zone[y]
    <3>1. CASE zone[z] = None
      BY <1>1, <1>4, <3>1 DEF WriteZoneFields
    <3>2. CASE zone[z] # None
      <4>1. zone[z] \in [state : {"THERE"}, area : Areas, active : BOOLEAN]
        BY <1>1, <3>2, RowShape
      <4>2. plan[e].active \in BOOLEAN
        BY <1>1, <2>1, PlanShape
      <4>3. PICK on \in BOOLEAN : on = plan[e].active
        BY <4>2
      <4>4. [zone[z] EXCEPT !.active = on] = [state |-> "THERE", area |-> zone[z].area, active |-> on]
        BY <4>1
      <4>5. [zone[z] EXCEPT !.active = on] \in ZoneRows
        BY <4>1, <4>4 DEF ZoneRows
      <4>6. zone' = [zone EXCEPT ![z] = [zone[z] EXCEPT !.active = on]]
        BY <1>4, <3>2, <4>3, Zenon DEF WriteZoneFields
      <4> QED
        BY <1>1, <4>5, <4>6
    <3> QED
      BY <3>1, <3>2
  <2> DEFINE p == [plan EXCEPT ![e] = [op |-> "idle"]]
  <2>3. p \in [Planners -> Plans] /\ p[e] = [op |-> "idle"] /\ \A f \in Planners \ {e} : p[f] = plan[f]
    BY <1>1, PlanForms
  <2>4. plan' = Disturbed(p) /\ p[e].op = "idle"
    BY <2>1, <2>3
  <2> HIDE DEF p
  <2> QED
    BY <2>1, <2>2, <2>3, <2>4, ZoneWritten
<1> QED
  BY <1>2, <1>3, <1>4

LEMMA CreateZoneStep ==
    ASSUME PlacesIInv, NEW z \in Zones, NEW a \in Areas, NEW on \in BOOLEAN, CreateZone(z, a, on)
    PROVE  PlacesIInv'
<1>1. zone \in [Zones -> ZoneRows] /\ UNCHANGED <<branch, plan, unsure>> /\ zone[z] = None
  BY PlacesTypes DEF PlacesIInv, CreateZone
<1>2. zone' \in [Zones -> ZoneRows] /\ \A y \in Zones \ {z} : zone'[y] = zone[y]
  BY <1>1 DEF CreateZone, ZoneRows
<1>3. \A y \in Zones, s \in Spots : Contains(y, s) => Contains(y, s)'
  BY <1>1, <1>2 DEF Contains
<1>4. PlacesTypeOK'
  BY <1>1, <1>2, PlacesTypes, PlacesTypesKept DEF PlacesIInv
<1>5. ASSUME NEW e \in Planners PROVE PlanSound(e)'
  <2>1. PlanSound(e) /\ plan[e] \in Plans
    BY PlacesTypes DEF PlacesIInv
  <2>2. Editing(e) /\ Standing(plan[e].branch) => branch[plan[e].branch].spot \in Spots
    BY <2>1, PlanShape, RowShape DEF PlacesIInv, Editing
  <2>3. plan[e].op \in {"insert", "move"} => plan[e].found \in Zones /\ plan[e].spot \in Spots
    BY <2>1, PlanShape
  <2>4. plan[e].op = "write" => plan[e].found \in Zones
    BY <2>1, PlanShape
  <2>5. Editing(e) /\ Standing(plan[e].branch) /\ EditSound(plan[e]) => EditSound(plan[e])'
    BY <1>1, <1>3, <2>2, <2>4 DEF EditSound
  <2> QED
    BY <1>1, <1>3, <2>1, <2>3, <2>5 DEF PlanSound, Editing, EditsOf, Standing
<1>6. ASSUME NEW b \in Branches PROVE BranchSound(b)'
  <2>1. BranchSound(b) /\ (Standing(b) => branch[b].spot \in Spots /\ branch[b].zone \in Zones)
    BY RowShape DEF PlacesIInv
  <2> QED
    BY <1>1, <1>3, <2>1 DEF BranchSound, Standing, HalfMoved
<1> QED
  BY <1>4, <1>5, <1>6 DEF PlacesIInv

\* A request touches one branch, at most, which no other edit has for itself.
LEMMA OthersKeep ==
    ASSUME PlacesIInv, PlacesTypeOK', UNCHANGED zone, NEW e \in Planners, NEW b \in Branches,
           \A f \in Planners \ {e} : plan'[f] = plan[f],
           \A c \in Branches \ {b} : branch'[c] = branch[c] /\ (c \in unsure' <=> c \in unsure),
           Editing(e) => plan[e].branch = b,
           Editing(e)' => Editing(e) /\ plan'[e].branch = b,
           branch[b] # None => Editing(e) \/ UNCHANGED branch,
           branch[b] # None => branch'[b] # None,
           PlanSound(e)', BranchSound(b)'
    PROVE  PlacesIInv'
<1>1. \A y, s : Contains(y, s)' <=> Contains(y, s)
  BY DEF Contains
<1>2. ASSUME NEW f \in Planners \ {e} PROVE PlanSound(f)'
  <2>1. PlanSound(f) /\ plan'[f] = plan[f] /\ plan[f] \in Plans
    BY PlacesTypes DEF PlacesIInv
  <2>2. Editing(f) => plan[f].branch \in Branches
    BY <2>1, PlanShape DEF Editing
  <2>3. Editing(f) => branch'[plan[f].branch] # None
    BY <2>1, <2>2 DEF PlanSound
  <2>4. CASE Editing(f) /\ plan[f].alone
    <3>1. EditsOf(plan[f].branch) = {f}
      BY <2>1, <2>4 DEF PlanSound
    <3>2. Editing(e) => plan[f].branch # b
      BY <3>1 DEF EditsOf, Editing
    <3>3. branch'[plan[f].branch] = branch[plan[f].branch]
      BY <2>1, <2>2, <2>4, <3>2 DEF PlanSound
    <3>4. EditsOf(plan[f].branch)' = {f}
      BY <2>1, <2>4, <3>1, <3>2 DEF EditsOf, Editing
    <3>5. EditSound(plan[f]) /\ Standing(plan[f].branch) => EditSound(plan[f])'
      BY <1>1, <2>1, <3>3 DEF EditSound
    <3> QED
      BY <1>1, <2>1, <2>3, <3>3, <3>4, <3>5 DEF PlanSound, Editing, Standing
  <2> QED
    BY <1>1, <2>1, <2>3, <2>4 DEF PlanSound, Editing
<1>3. ASSUME NEW c \in Branches \ {b} PROVE BranchSound(c)'
  <2>1. BranchSound(c) /\ branch'[c] = branch[c] /\ (c \in unsure' <=> c \in unsure)
    BY DEF PlacesIInv
  <2>2. HalfMoved(c) => HalfMoved(c)'
    BY DEF HalfMoved, Editing
  <2> QED
    BY <1>1, <2>1, <2>2 DEF BranchSound, Standing
<1> QED
  BY <1>2, <1>3 DEF PlacesIInv

LEMMA RemoveBranchStep ==
    ASSUME PlacesIInv, NEW b \in Branches, RemoveBranch(b)
    PROVE  PlacesIInv'
<1>1. PlacesTypeOK /\ UNCHANGED <<zone, plan, unsure>> /\ branch \in [Branches -> BranchRows]
  BY PlacesTypes DEF PlacesIInv, RemoveBranch
<1>2. /\ branch' \in [Branches -> BranchRows] /\ branch'[b] = [state |-> "GONE"]
      /\ \A c \in Branches \ {b} : branch'[c] = branch[c]
  BY <1>1 DEF RemoveBranch, BranchRows
<1>3. PlacesTypeOK' /\ ~Standing(b)' /\ branch'[b] # None
  BY <1>1, <1>2, PlacesTypes, PlacesTypesKept DEF Standing, None
<1>4. \A y, s : Contains(y, s)' <=> Contains(y, s)
  BY <1>1 DEF Contains
<1>5. ASSUME NEW e \in Planners PROVE PlanSound(e)'
  <2>1. PlanSound(e) /\ plan[e] \in Plans
    BY PlacesTypes DEF PlacesIInv
  <2>2. Editing(e) => plan[e].branch \in Branches
    BY <2>1, PlanShape DEF Editing
  <2>3. plan'[e] = plan[e] /\ (Editing(e)' <=> Editing(e)) /\ \A c : EditsOf(c)' = EditsOf(c)
    BY <1>1 DEF Editing, EditsOf
  <2>4. Editing(e) => branch'[plan[e].branch] # None
    BY <1>2, <1>3, <2>1, <2>2 DEF PlanSound
  <2>5. Editing(e) /\ plan[e].alone /\ Standing(plan[e].branch)' => EditSound(plan[e])'
    <3>1. CASE plan[e].branch = b
      BY <1>1, <1>3, <3>1 DEF Standing
    <3>2. CASE plan[e].branch # b
      <4>1. Editing(e) /\ plan[e].alone /\ Standing(plan[e].branch) => EditSound(plan[e])
        BY <2>1 DEF PlanSound
      <4> QED
        BY <1>1, <1>2, <1>4, <2>2, <3>2, <4>1 DEF EditSound, Standing
    <3> QED
      BY <3>1, <3>2
  <2> QED
    BY <1>4, <2>1, <2>3, <2>4, <2>5 DEF PlanSound
<1>6. ASSUME NEW c \in Branches PROVE BranchSound(c)'
  <2>1. BranchSound(c)
    BY DEF PlacesIInv
  <2>2. c # b => branch'[c] = branch[c]
    BY <1>2
  <2> QED
    BY <1>1, <1>3, <1>4, <2>1, <2>2 DEF BranchSound, Standing, HalfMoved
<1> QED
  BY <1>3, <1>5, <1>6 DEF PlacesIInv

LEMMA InsertBranchStep ==
    ASSUME PlacesIInv, NEW e \in Planners, NEW b \in Branches, InsertBranch(e, b)
    PROVE  PlacesIInv'
<1>1. PlacesTypeOK /\ UNCHANGED zone /\ branch \in [Branches -> BranchRows] /\ plan \in [Planners -> Plans]
  BY PlacesTypes DEF PlacesIInv, InsertBranch
<1>2. plan[e].op = "insert" /\ branch[b] = None /\ plan' = [plan EXCEPT ![e] = [op |-> "idle"]]
  BY DEF InsertBranch, EndPlan, Plan
<1>3. plan[e].spot \in Spots /\ plan[e].found \in Zones /\ plan[e].alone \in BOOLEAN
  BY <1>1, <1>2, PlanShape
<1>4. plan' \in [Planners -> Plans] /\ plan'[e].op = "idle" /\ \A f \in Planners \ {e} : plan'[f] = plan[f]
  BY <1>1, <1>2, PlanForms
<1>5. PlanSound(e)'
  BY <1>4 DEF PlanSound, Editing
<1>6. PICK s \in Spots, z \in Zones : s = plan[e].spot /\ z = plan[e].found
  BY <1>3
<1>7. CASE zone[z] = None
  <2>1. UNCHANGED <<branch, unsure>>
    BY <1>6, <1>7 DEF InsertBranch
  <2>2. BranchSound(b)'
    BY <1>2, <2>1 DEF BranchSound, Standing, None
  <2>3. PlacesTypeOK'
    BY <1>1, <1>4, <2>1, PlacesTypes, PlacesTypesKept
  <2> QED
    BY <1>1, <1>2, <1>4, <1>5, <2>1, <2>2, <2>3, OthersKeep DEF Editing
<1>8. CASE zone[z] # None
  <2> DEFINE r == [state |-> "THERE", spot |-> s, zone |-> z]
  <2>1. /\ branch' = [branch EXCEPT ![b] = r]
        /\ unsure' = IF plan[e].alone THEN unsure ELSE unsure \cup {b}
    BY <1>6, <1>8 DEF InsertBranch
  <2>2. r \in BranchRows /\ r.spot = s /\ r.zone = z
    BY DEF BranchRows
  <2> HIDE DEF r
  <2>3. /\ branch' \in [Branches -> BranchRows] /\ branch'[b] = r
        /\ \A c \in Branches \ {b} : branch'[c] = branch[c]
    BY <1>1, <2>1, <2>2
  <2>4. unsure' \subseteq Branches /\ \A c \in Branches \ {b} : c \in unsure' <=> c \in unsure
    BY <1>1, <2>1, PlacesTypes
  <2>5. PlacesTypeOK'
    BY <1>1, <1>4, <2>3, <2>4, PlacesTypes, PlacesTypesKept
  <2>6. plan[e].alone => Contains(z, s)'
    <3>1. PlanSound(e)
      BY DEF PlacesIInv
    <3> QED
      BY <1>1, <1>2, <1>6, <3>1 DEF PlanSound, Contains
  <2>7. BranchSound(b)'
    BY <2>1, <2>2, <2>3, <2>6 DEF BranchSound
  <2> QED
    BY <1>1, <1>2, <1>4, <1>5, <2>3, <2>4, <2>5, <2>7, OthersKeep DEF Editing
<1> QED
  BY <1>7, <1>8

LEMMA BeginPlanStep ==
    ASSUME PlacesIInv, NEW e \in Planners,
           \/ \E s \in Spots, y \in Zones \cup {NoZone} : CreateBranch(e, s, y)
           \/ \E z \in Zones, on \in BOOLEAN : UpdateZoneFields(e, z, on)
    PROVE  PlacesIInv'
<1>1. /\ PlacesTypeOK /\ plan[e].op = "idle" /\ UNCHANGED <<zone, branch, unsure>>
      /\ plan \in [Planners -> Plans]
  BY PlacesTypes DEF PlacesIInv, CreateBranch, UpdateZoneFields, Unplanned
<1> DEFINE Fits(r) == r.op \in {"insert", "fields"} /\ (r.op = "insert" => Contains(r.found, r.spot))
<1>2. PICK r \in Plans : plan' = [plan EXCEPT ![e] = r] /\ Fits(r)
  <2>1. ASSUME NEW s \in Spots, NEW y \in Zones \cup {NoZone}, CreateBranch(e, s, y)
        PROVE  \E r \in Plans : plan' = [plan EXCEPT ![e] = r] /\ Fits(r)
    <3>1. PICK z \in ResolveValidZone(s, y) :
             plan' = [plan EXCEPT ![e] = [op |-> "insert", spot |-> s, found |-> z, alone |-> TRUE]]
      BY <2>1 DEF CreateBranch, Plan
    <3>2. z \in Zones /\ Contains(z, s)
      BY ResolveFinds
    <3> DEFINE r == [op |-> "insert", spot |-> s, found |-> z, alone |-> TRUE]
    <3>3. r \in Plans /\ r.op = "insert" /\ r.found = z /\ r.spot = s /\ plan' = [plan EXCEPT ![e] = r]
      BY <3>1, <3>2, PlanForms
    <3> HIDE DEF r
    <3> QED
      BY <3>2, <3>3
  <2>2. ASSUME NEW z \in Zones, NEW on \in BOOLEAN, UpdateZoneFields(e, z, on)
        PROVE  \E r \in Plans : plan' = [plan EXCEPT ![e] = r] /\ Fits(r)
    <3> DEFINE r == [op |-> "fields", zone |-> z, active |-> on]
    <3>1. r \in Plans /\ r.op = "fields" /\ plan' = [plan EXCEPT ![e] = r]
      BY <2>2, PlanForms DEF UpdateZoneFields, Plan
    <3> HIDE DEF r
    <3> QED
      BY <3>1
  <2> QED
    BY <2>1, <2>2
<1> HIDE DEF Fits
<1>3. plan' \in [Planners -> Plans] /\ plan'[e] = r /\ \A f \in Planners \ {e} : plan'[f] = plan[f]
  BY <1>1, <1>2
<1> USE DEF Fits
<1>4. PlacesTypeOK'
  BY <1>1, <1>3, PlacesTypes, PlacesTypesKept
<1>5. PlanSound(e)'
  <2>1. Contains(r.found, r.spot) => Contains(r.found, r.spot)'
    BY <1>1 DEF Contains
  <2> QED
    BY <1>2, <1>3, <2>1 DEF PlanSound, Editing
<1>6. ASSUME NEW b \in Branches PROVE PlacesIInv'
  <2>1. BranchSound(b)
    BY DEF PlacesIInv
  <2>2. HalfMoved(b) => HalfMoved(b)'
    BY <1>1, <1>3 DEF HalfMoved
  <2>3. BranchSound(b)'
    BY <1>1, <2>1, <2>2 DEF BranchSound, Standing, Contains
  <2> QED
    BY <1>1, <1>2, <1>3, <1>4, <1>5, <2>3, OthersKeep DEF Editing
<1>7. CASE Branches = {}
  <2>1. ASSUME NEW f \in Planners PROVE PlanSound(f)'
    <3>1. CASE f = e
      BY <1>5, <3>1
    <3>2. CASE f # e
      <4>1. plan'[f] = plan[f] /\ plan[f] \in Plans /\ PlanSound(f)
        BY <1>1, <1>3, <3>2 DEF PlacesIInv
      <4>2. ~Editing(f)
        BY <1>7, <4>1, PlanShape DEF Editing
      <4> QED
        BY <1>1, <4>1, <4>2 DEF PlanSound, Editing, Contains
    <3> QED
      BY <3>1, <3>2
  <2> QED
    BY <1>4, <1>7, <2>1 DEF PlacesIInv
<1> QED
  BY <1>6, <1>7

LEMMA UpdateBranchStep ==
    ASSUME PlacesIInv, NEW e \in Planners, NEW b \in Branches, NEW s \in Spots \cup {Nowhere},
           NEW y \in Zones \cup {NoZone}, NEW other \in BOOLEAN, UpdateBranch(e, b, s, y, other)
    PROVE  PlacesIInv'
<1>1. /\ PlacesTypeOK /\ plan[e].op = "idle" /\ UNCHANGED <<zone, branch, unsure>> /\ Standing(b)
      /\ plan \in [Planners -> Plans]
  BY PlacesTypes DEF PlacesIInv, UpdateBranch, Unplanned
<1> DEFINE met == EditsOf(b)
           alone == met = {}
           was == [spot |-> branch[b].spot, zone |-> branch[b].zone]
<1>2. was \in [spot : Spots, zone : Zones] /\ branch[b].zone \in Zones /\ branch[b].spot \in Spots
  BY <1>1, RowShape
<1>3. \A f \in met : f \in Planners \ {e} /\ plan[f] \in Plans /\ plan[f].op \in {"resolve", "move", "write"}
  BY <1>1 DEF EditsOf
<1> DEFINE Edited(r) == [f \in Planners |->
                           IF f = e THEN r
                           ELSE IF f \in met THEN [plan[f] EXCEPT !.alone = FALSE] ELSE plan[f]]
           Fits(r) == /\ r.op \in {"resolve", "write"} /\ r.branch = b /\ (r.alone <=> met = {})
                      /\ r.op = "resolve" => r.was.spot = branch[b].spot /\ r.was.zone = branch[b].zone
                      /\ r.op = "write" => r.named = "none" /\ r.found = branch[b].zone
<1>4. PICK r \in Plans : plan' = Edited(r) /\ Fits(r)
  <2>1. CASE s = Nowhere /\ y = NoZone
    <3> DEFINE r == [op |-> "write", branch |-> b, named |-> "none", found |-> branch[b].zone, alone |-> alone]
    <3>1. r \in Plans
      BY <1>2, PlanForms
    <3>2. r.op = "write" /\ r.branch = b /\ (r.alone <=> alone) /\ r.named = "none" /\ r.found = branch[b].zone
      OBVIOUS
    <3>3. plan' = Edited(r)
      BY <2>1 DEF UpdateBranch
    <3> HIDE DEF r
    <3> QED
      BY <3>1, <3>2, <3>3
  <2>2. CASE ~(s = Nowhere /\ y = NoZone)
    <3> DEFINE r == [op |-> "resolve", branch |-> b, spot |-> s, asked |-> y, other |-> other,
                     was |-> was, alone |-> alone]
    <3>1. r \in Plans
      BY <1>2, PlanForms
    <3>2. /\ r.op = "resolve" /\ r.branch = b /\ (r.alone <=> alone)
          /\ r.was.spot = branch[b].spot /\ r.was.zone = branch[b].zone
      OBVIOUS
    <3>3. plan' = Edited(r)
      BY <2>2 DEF UpdateBranch
    <3> HIDE DEF r
    <3> QED
      BY <3>1, <3>2, <3>3
  <2> QED
    BY <2>1, <2>2
<1>14. Fits(r)
  BY <1>4
<1> HIDE DEF Fits, was
<1>15. plan' = Edited(r)
  BY <1>4
<1>5. \A f \in met : Weaker(plan'[f], plan[f])
  BY <1>3, <1>15, WeakerForm
<1>6. plan'[e] = r /\ \A f \in Planners \ {e} : f \notin met => plan'[f] = plan[f]
  BY <1>15
<1> HIDE DEF Edited
<1>7. plan' \in [Planners -> Plans]
  <2>1. \A f \in Planners : plan'[f] \in Plans
    BY <1>1, <1>5, <1>6 DEF Weaker
  <2> QED
    BY <1>15, <2>1 DEF Edited
<1>8. PlacesTypeOK'
  BY <1>1, <1>7, PlacesTypes, PlacesTypesKept
<1>9. \A z, x : Contains(z, x)' <=> Contains(z, x)
  BY <1>1 DEF Contains
<1>10. ASSUME NEW f \in met PROVE PlanSound(f)'
  <2>1. PlanSound(f)
    BY <1>3 DEF PlacesIInv
  <2>2. Editing(f) /\ Editing(f)' /\ plan'[f].branch = plan[f].branch /\ ~plan'[f].alone
    BY <1>3, <1>5 DEF Weaker, Editing
  <2> QED
    BY <1>1, <2>1, <2>2 DEF PlanSound
<1>11. ASSUME NEW f \in Planners \ {e}, f \notin met PROVE PlanSound(f)'
  <2>1. PlanSound(f) /\ plan'[f] = plan[f]
    BY <1>6, <1>11 DEF PlacesIInv
  <2>2. Editing(f) => plan[f].branch # b
    BY <1>11 DEF Editing, EditsOf
  <2>3. Editing(f) => EditsOf(plan[f].branch)' = EditsOf(plan[f].branch)
    <3>1. \A g \in met : /\ plan[g].op \in {"resolve", "move", "write"} /\ plan[g].branch = b
                         /\ plan'[g].op \in {"resolve", "move", "write"} /\ plan'[g].branch = b
      BY <1>5 DEF EditsOf, Weaker
    <3> QED
      BY <1>1, <1>6, <1>14, <2>2, <3>1 DEF EditsOf, Editing, Fits
  <2>4. EditSound(plan[f])' <=> EditSound(plan[f])
    BY <1>1, <1>9, <2>1 DEF EditSound
  <2> QED
    BY <1>1, <1>9, <2>1, <2>3, <2>4 DEF PlanSound, Editing, Standing
<1>12. PlanSound(e)'
  <2>1. Standing(b)' /\ branch'[b] # None
    BY <1>1 DEF Standing, None
  <2>2. met = {} => EditsOf(b)' = {e}
    BY <1>1, <1>6, <1>14 DEF EditsOf, Fits
  <2>3. EditSound(plan[e])'
    BY <1>1, <1>6, <1>14 DEF EditSound, Fits
  <2> QED
    BY <1>6, <1>14, <2>1, <2>2, <2>3 DEF PlanSound, Fits, Editing
<1>13. ASSUME NEW c \in Branches PROVE BranchSound(c)'
  <2>1. BranchSound(c)
    BY DEF PlacesIInv
  <2>2. HalfMoved(c) => HalfMoved(c)'
    BY <1>1, <1>5, <1>6 DEF HalfMoved, Weaker
  <2> QED
    BY <1>1, <1>9, <2>1, <2>2 DEF BranchSound, Standing
<1> QED
  BY <1>8, <1>10, <1>11, <1>12, <1>13 DEF PlacesIInv

LEMMA OneEditMoves ==
    ASSUME PlacesIInv, NEW e \in Planners, Editing(e), NEW r \in Plans, Plan(e, r)
    PROVE  /\ plan' \in [Planners -> Plans] /\ plan'[e] = r
           /\ \A f \in Planners \ {e} : plan'[f] = plan[f]
           /\ plan[e].branch \in Branches /\ plan[e].alone \in BOOLEAN
           /\ branch[plan[e].branch] # None
           /\ plan[e].alone => EditsOf(plan[e].branch) = {e}
           /\ plan[e].alone /\ Standing(plan[e].branch) => EditSound(plan[e])
           /\ r.op \in {"resolve", "move", "write"} /\ r.branch = plan[e].branch =>
                 /\ Editing(e)'
                 /\ EditsOf(plan[e].branch)' = EditsOf(plan[e].branch)
<1>1. plan \in [Planners -> Plans] /\ plan[e] \in Plans /\ PlanSound(e)
  BY PlacesTypes DEF PlacesIInv
<1>2. plan' \in [Planners -> Plans] /\ plan'[e] = r /\ \A f \in Planners \ {e} : plan'[f] = plan[f]
  BY <1>1 DEF Plan
<1>3. plan[e].branch \in Branches /\ plan[e].alone \in BOOLEAN
  BY <1>1, PlanShape DEF Editing
<1>4. /\ branch[plan[e].branch] # None
      /\ plan[e].alone => EditsOf(plan[e].branch) = {e}
      /\ plan[e].alone /\ Standing(plan[e].branch) => EditSound(plan[e])
  BY <1>1 DEF PlanSound
<1>5. r.op \in {"resolve", "move", "write"} /\ r.branch = plan[e].branch =>
         /\ Editing(e)'
         /\ EditsOf(plan[e].branch)' = EditsOf(plan[e].branch)
  <2>1. PICK b \in Branches : b = plan[e].branch
    BY <1>3
  <2> SUFFICES ASSUME r.op \in {"resolve", "move", "write"}, r.branch = b
               PROVE  /\ plan'[e].op \in {"resolve", "move", "write"}
                      /\ \A f \in Planners : plan'[f].op \in {"resolve", "move", "write"} /\ plan'[f].branch = b
                            <=> plan[f].op \in {"resolve", "move", "write"} /\ plan[f].branch = b
    BY <1>2, <2>1 DEF EditsOf, Editing
  <2> QED
    BY <1>2, <2>1 DEF Editing
<1> QED
  BY <1>2, <1>3, <1>4, <1>5

LEMMA ResolvePlaceStep ==
    ASSUME PlacesIInv, NEW e \in Planners, ResolvePlace(e)
    PROVE  PlacesIInv'
<1>1. /\ PlacesTypeOK /\ plan[e].op = "resolve" /\ UNCHANGED <<zone, branch, unsure>>
      /\ plan[e] \in Plans /\ Editing(e)
  BY PlacesTypes DEF PlacesIInv, ResolvePlace, Editing
<1>2. PICK b \in Branches : b = plan[e].branch
  BY <1>1, PlanShape
<1>3. /\ plan[e].spot \in Spots \cup {Nowhere} /\ plan[e].asked \in Zones \cup {NoZone}
      /\ plan[e].was.spot \in Spots /\ plan[e].was.zone \in Zones /\ plan[e].other \in BOOLEAN
      /\ plan[e].alone \in BOOLEAN
  BY <1>1, PlanShape
<1> DEFINE Fits(r) == /\ r.op \in {"idle", "move", "write"}
                      /\ r.op \in {"move", "write"} => r.branch = b /\ (r.alone <=> plan[e].alone)
                      /\ r.op = "write" => r.named = "zone"
                      /\ r.op = "move" => /\ Contains(r.found, r.spot)
                                          /\ ~r.again => r.found = plan[e].was.zone
<1>4. PICK r \in Plans : Plan(e, r) /\ Fits(r)
  <2>1. CASE EndPlan(e)
    <3>1. [op |-> "idle"] \in Plans /\ Fits([op |-> "idle"])
      BY PlanForms
    <3> QED
      BY <2>1, <3>1 DEF EndPlan
  <2> DEFINE x == IF plan[e].spot # Nowhere THEN plan[e].spot ELSE Mirror(plan[e].was.spot)
             y == IF plan[e].asked # NoZone THEN plan[e].asked ELSE plan[e].was.zone
             again(z) == plan[e].other \/ plan[e].asked # NoZone \/ z # plan[e].was.zone
  <2>2. ASSUME NEW z \in ResolveValidZone(x, y), plan[e].spot # Nowhere,
               Plan(e, [op |-> "move", branch |-> b, spot |-> plan[e].spot, found |-> z,
                        again |-> again(z), alone |-> plan[e].alone])
        PROVE  \E r \in Plans : Plan(e, r) /\ Fits(r)
    <3>1. y \in Zones \cup {NoZone} /\ x = plan[e].spot
      BY <1>3, <2>2
    <3>2. z \in Zones /\ Contains(z, plan[e].spot)
      BY <3>1, <2>2, ResolveFinds
    <3> DEFINE r == [op |-> "move", branch |-> b, spot |-> plan[e].spot, found |-> z,
                     again |-> again(z), alone |-> plan[e].alone]
    <3>3. r \in Plans
      BY <1>3, <2>2, <3>2, PlanForms
    <3>4. Fits(r)
      BY <3>2
    <3>5. Plan(e, r)
      BY <2>2
    <3> HIDE DEF r, Fits
    <3> QED
      BY <3>3, <3>4, <3>5
  <2>3. ASSUME NEW z \in ResolveValidZone(x, y),
               Plan(e, [op |-> "write", branch |-> b, named |-> "zone", found |-> z, alone |-> plan[e].alone])
        PROVE  \E r \in Plans : Plan(e, r) /\ Fits(r)
    <3>1. y \in Zones \cup {NoZone}
      BY <1>3
    <3>2. z \in Zones
      BY <3>1, <2>3, ResolveFinds
    <3> DEFINE r == [op |-> "write", branch |-> b, named |-> "zone", found |-> z, alone |-> plan[e].alone]
    <3>3. r \in Plans
      BY <1>3, <3>2, PlanForms
    <3>4. Fits(r)
      OBVIOUS
    <3>5. Plan(e, r)
      BY <2>3
    <3> HIDE DEF r, Fits
    <3> QED
      BY <3>3, <3>4, <3>5
  <2>4. \/ EndPlan(e)
        \/ \E z \in ResolveValidZone(x, y) :
              Plan(e, IF plan[e].spot # Nowhere
                      THEN [op |-> "move", branch |-> b, spot |-> plan[e].spot, found |-> z,
                            again |-> again(z), alone |-> plan[e].alone]
                      ELSE [op |-> "write", branch |-> b, named |-> "zone", found |-> z, alone |-> plan[e].alone])
    BY <1>2 DEF ResolvePlace
  <2> HIDE DEF x, y, again, Fits
  <2> QED
    BY <2>1, <2>2, <2>3, <2>4
<1>5. Fits(r)
  BY <1>4
<1> HIDE DEF Fits
<1>6. /\ plan' \in [Planners -> Plans] /\ plan'[e] = r /\ \A f \in Planners \ {e} : plan'[f] = plan[f]
      /\ branch[b] # None
      /\ plan[e].alone => EditsOf(b) = {e}
      /\ plan[e].alone /\ Standing(b) => EditSound(plan[e])
      /\ r.op \in {"move", "write"} => EditsOf(b)' = EditsOf(b)
  BY <1>1, <1>2, <1>4, <1>5, OneEditMoves DEF Fits
<1>7. PlacesTypeOK'
  BY <1>1, <1>6, PlacesTypes, PlacesTypesKept
<1>8. \A z, x : Contains(z, x)' <=> Contains(z, x)
  BY <1>1 DEF Contains
<1>9. PlanSound(e)'
  <2>1. CASE r.op = "idle"
    BY <1>6, <2>1 DEF PlanSound, Editing
  <2>2. CASE r.op \in {"move", "write"}
    <3>1. plan'[e].branch = b /\ branch'[b] # None
      BY <1>1, <1>5, <1>6, <2>2 DEF Fits
    <3>2. plan'[e].alone => EditsOf(b)' = {e}
      BY <1>5, <1>6, <2>2 DEF Fits
    <3>3. plan'[e].alone /\ Standing(b)' => EditSound(plan[e])'
      <4>1. plan[e].alone /\ Standing(b) => plan[e].was.zone = branch[b].zone
        BY <1>1, <1>2, <1>6 DEF EditSound
      <4>2. /\ r.op = "write" => r.named = "zone"
            /\ r.op = "move" /\ ~r.again => r.found = plan[e].was.zone
            /\ r.branch = b /\ (r.alone <=> plan[e].alone)
        BY <1>5, <2>2 DEF Fits
      <4> QED
        BY <1>1, <1>5, <1>6, <2>2, <4>1, <4>2 DEF EditSound, Standing
    <3>4. r.op = "move" => Contains(r.found, r.spot)'
      <4>1. r.op = "move" => Contains(r.found, r.spot)
        BY <1>5 DEF Fits
      <4> QED
        BY <1>1, <4>1 DEF Contains
    <3> QED
      BY <1>6, <2>2, <3>1, <3>2, <3>3, <3>4 DEF PlanSound
  <2> QED
    BY <1>5, <2>1, <2>2 DEF Fits
<1>10. BranchSound(b)'
  <2>1. BranchSound(b)
    BY DEF PlacesIInv
  <2>2. HalfMoved(b) => HalfMoved(b)'
    BY <1>1, <1>6 DEF HalfMoved
  <2> QED
    BY <1>1, <1>8, <2>1, <2>2 DEF BranchSound, Standing
<1>11. Editing(e)' => plan'[e].branch = b
  BY <1>5, <1>6 DEF Editing, Fits
<1> QED
  BY <1>1, <1>2, <1>6, <1>7, <1>9, <1>10, <1>11, OthersKeep

LEMMA MoveBranchStep ==
    ASSUME PlacesIInv, NEW e \in Planners, MoveBranch(e)
    PROVE  PlacesIInv'
<1>1. /\ PlacesTypeOK /\ plan[e].op = "move" /\ UNCHANGED zone /\ plan[e] \in Plans /\ Editing(e)
      /\ branch \in [Branches -> BranchRows] /\ unsure \subseteq Branches
  BY PlacesTypes DEF PlacesIInv, MoveBranch, Editing
<1>2. PICK b \in Branches, s \in Spots, z \in Zones :
         b = plan[e].branch /\ s = plan[e].spot /\ z = plan[e].found
  BY <1>1, PlanShape
<1>3. plan[e].alone \in BOOLEAN /\ plan[e].again \in BOOLEAN
  BY <1>1, PlanShape
<1>4. branch' = IF Standing(b) THEN [branch EXCEPT ![b].spot = s] ELSE branch
  BY <1>2, Zenon DEF MoveBranch
<1>5. /\ branch' \in [Branches -> BranchRows] /\ \A c \in Branches \ {b} : branch'[c] = branch[c]
      /\ Standing(b)' <=> Standing(b)
      /\ branch[b] # None => branch'[b] # None
      /\ Standing(b) => branch'[b].spot = s /\ branch'[b].zone = branch[b].zone
  <2>1. CASE ~Standing(b)
    BY <1>1, <1>4, <2>1 DEF Standing
  <2>2. CASE Standing(b)
    <3>1. branch[b] \in [state : {"THERE"}, spot : Spots, zone : Zones]
      BY <1>1, <2>2, RowShape DEF BranchRows
    <3>2. PICK y \in Zones : y = branch[b].zone
      BY <3>1
    <3> DEFINE r == [state |-> "THERE", spot |-> s, zone |-> y]
    <3>3. [branch[b] EXCEPT !.spot = s] = r
      BY <3>1, <3>2
    <3>4. branch' = [branch EXCEPT ![b] = r]
      BY <1>4, <2>2, <3>3
    <3>5. r \in BranchRows /\ r.state = "THERE" /\ r.spot = s /\ r.zone = y
      BY DEF BranchRows
    <3> HIDE DEF r
    <3>6. branch'[b] = r /\ branch' \in [Branches -> BranchRows] /\ \A c \in Branches \ {b} : branch'[c] = branch[c]
      BY <1>1, <3>4, <3>5
    <3>7. r # None
      BY <3>5 DEF None
    <3> QED
      BY <2>2, <3>2, <3>5, <3>6, <3>7 DEF Standing
  <2> QED
    BY <2>1, <2>2
<1>6. PlanSound(e)
  BY DEF PlacesIInv
<1>7. plan[e].alone => Contains(z, s)
  BY <1>1, <1>2, <1>6 DEF PlanSound
<1>8. CASE plan[e].again
  <2> DEFINE r == [op |-> "write", branch |-> b, named |-> "spot", found |-> z, alone |-> plan[e].alone]
  <2>1. Plan(e, r) /\ UNCHANGED unsure
    BY <1>2, <1>8 DEF MoveBranch
  <2>2. r \in Plans
    BY <1>3, PlanForms
  <2>3. r.op = "write" /\ r.branch = b /\ r.named = "spot" /\ r.found = z /\ (r.alone <=> plan[e].alone)
    OBVIOUS
  <2> HIDE DEF r
  <2>4. /\ plan' \in [Planners -> Plans] /\ plan'[e] = r /\ \A f \in Planners \ {e} : plan'[f] = plan[f]
        /\ branch[b] # None
        /\ plan[e].alone => EditsOf(b) = {e}
        /\ EditsOf(b)' = EditsOf(b)
    BY <1>1, <1>2, <2>1, <2>2, <2>3, OneEditMoves
  <2>5. PlacesTypeOK'
    BY <1>1, <1>5, <2>1, <2>4, PlacesTypes, PlacesTypesKept
  <2>6. PlanSound(e)'
    <3>1. plan'[e].alone /\ Standing(b)' => EditSound(plan[e])'
      <4>1. plan[e].alone => Contains(z, s)'
        BY <1>1, <1>7 DEF Contains
      <4> QED
        BY <1>5, <2>3, <2>4, <4>1 DEF EditSound
    <3> QED
      BY <1>5, <2>3, <2>4, <3>1 DEF PlanSound
  <2>7. BranchSound(b)'
    BY <2>3, <2>4 DEF BranchSound, HalfMoved
  <2> QED
    BY <1>1, <1>2, <1>5, <2>1, <2>3, <2>4, <2>5, <2>6, <2>7, OthersKeep
<1>9. CASE ~plan[e].again
  <2>1. Plan(e, [op |-> "idle"]) /\ unsure' = Settled(plan[e], "spot")
    BY <1>9 DEF MoveBranch, EndPlan
  <2>2. /\ plan' \in [Planners -> Plans] /\ plan'[e] = [op |-> "idle"]
        /\ \A f \in Planners \ {e} : plan'[f] = plan[f]
        /\ plan[e].alone /\ Standing(b) => EditSound(plan[e])
    BY <1>1, <1>2, <2>1, PlanForms, OneEditMoves
  <2>3. /\ plan[e].alone => unsure' = unsure \ {b}
        /\ ~plan[e].alone => unsure' = unsure \cup {b}
    BY <1>2, <2>1 DEF Settled
  <2>4. unsure' \subseteq Branches /\ \A c \in Branches \ {b} : c \in unsure' <=> c \in unsure
    BY <1>1, <2>3
  <2>5. PlacesTypeOK'
    BY <1>1, <1>5, <2>2, <2>4, PlacesTypes, PlacesTypesKept
  <2>6. plan'[e].op = "idle"
    BY <2>2
  <2>7. PlanSound(e)'
    BY <2>6 DEF PlanSound, Editing
  <2>8. BranchSound(b)'
    <3>1. CASE plan[e].alone /\ Standing(b)
      <4>1. z = branch[b].zone /\ Contains(z, s)
        BY <1>1, <1>2, <1>7, <1>9, <2>2, <3>1 DEF EditSound
      <4> QED
        BY <1>1, <1>5, <3>1, <4>1 DEF BranchSound, Contains
    <3>2. CASE ~plan[e].alone
      BY <2>3, <3>2 DEF BranchSound
    <3>3. CASE ~Standing(b)
      BY <1>5, <3>3 DEF BranchSound
    <3> QED
      BY <3>1, <3>2, <3>3
  <2> QED
    BY <1>1, <1>2, <1>5, <2>2, <2>4, <2>5, <2>6, <2>7, <2>8, OthersKeep DEF Editing
<1> QED
  BY <1>3, <1>8, <1>9

\* An edit writes the zone, or fails to.
LEMMA WriteBranchStep ==
    ASSUME PlacesIInv, NEW e \in Planners, WriteBranch(e) \/ EditFails(e)
    PROVE  PlacesIInv'
<1>1. /\ PlacesTypeOK /\ plan[e].op = "write" /\ UNCHANGED zone /\ plan[e] \in Plans /\ Editing(e)
      /\ branch \in [Branches -> BranchRows] /\ unsure \subseteq Branches /\ Plan(e, [op |-> "idle"])
  BY PlacesTypes DEF PlacesIInv, WriteBranch, EditFails, Editing, EndPlan
<1>2. PICK b \in Branches, z \in Zones, n \in {"spot", "zone", "none"} :
         b = plan[e].branch /\ z = plan[e].found /\ n = plan[e].named
  BY <1>1, PlanShape
<1>3. plan[e].alone \in BOOLEAN
  BY <1>1, PlanShape
<1>4. /\ plan' \in [Planners -> Plans] /\ plan'[e] = [op |-> "idle"]
      /\ \A f \in Planners \ {e} : plan'[f] = plan[f]
      /\ plan[e].alone => EditsOf(b) = {e}
      /\ plan[e].alone /\ Standing(b) => EditSound(plan[e])
  BY <1>1, <1>2, PlanForms, OneEditMoves
<1>5. \/ UNCHANGED branch
      \/ Standing(b) /\ zone[z] # None /\ branch' = [branch EXCEPT ![b].zone = z]
  BY <1>2, Zenon DEF WriteBranch, EditFails
<1>6. /\ branch' \in [Branches -> BranchRows] /\ \A c \in Branches \ {b} : branch'[c] = branch[c]
      /\ Standing(b)' <=> Standing(b)
      /\ branch[b] # None => branch'[b] # None
      /\ Standing(b) => branch'[b].spot = branch[b].spot /\ branch'[b].zone \in {branch[b].zone, z}
  <2>1. CASE UNCHANGED branch
    BY <1>1, <2>1 DEF Standing
  <2>2. CASE Standing(b) /\ branch' = [branch EXCEPT ![b].zone = z]
    <3>1. branch[b] \in [state : {"THERE"}, spot : Spots, zone : Zones]
      BY <1>1, <2>2, RowShape DEF BranchRows
    <3>2. PICK s \in Spots : s = branch[b].spot
      BY <3>1
    <3> DEFINE r == [state |-> "THERE", spot |-> s, zone |-> z]
    <3>3. [branch[b] EXCEPT !.zone = z] = r
      BY <3>1, <3>2
    <3>4. branch' = [branch EXCEPT ![b] = r]
      BY <2>2, <3>3
    <3>5. r \in BranchRows /\ r.state = "THERE" /\ r.spot = s /\ r.zone = z
      BY DEF BranchRows
    <3> HIDE DEF r
    <3>6. branch'[b] = r /\ branch' \in [Branches -> BranchRows] /\ \A c \in Branches \ {b} : branch'[c] = branch[c]
      BY <1>1, <3>4, <3>5
    <3>7. r # None
      BY <3>5 DEF None
    <3> QED
      BY <2>2, <3>2, <3>5, <3>6, <3>7 DEF Standing
  <2> QED
    BY <1>5, <2>1, <2>2
<1>7. /\ WriteBranch(e) => unsure' = Settled(plan[e], n)
      /\ EditFails(e) => branch' = branch /\ unsure' = IF n = "spot" THEN unsure \cup {b} ELSE unsure
  BY <1>2 DEF WriteBranch, EditFails
<1>8. unsure' \subseteq Branches /\ \A c \in Branches \ {b} : c \in unsure' <=> c \in unsure
  BY <1>1, <1>2, <1>7 DEF Settled
<1>9. PlacesTypeOK'
  BY <1>1, <1>4, <1>6, <1>8, PlacesTypes, PlacesTypesKept
<1>10. plan'[e].op = "idle"
  BY <1>4
<1>11. PlanSound(e)'
  BY <1>10 DEF PlanSound, Editing
<1>12. BranchSound(b)
  BY DEF PlacesIInv
<1>13. n # "spot" /\ HalfMoved(b) => HalfMoved(b)'
  BY <1>2, <1>4 DEF HalfMoved
<1>14. BranchSound(b)'
  <2>1. CASE ~Standing(b)
    BY <1>6, <2>1 DEF BranchSound
  <2>2. CASE EditFails(e)
    BY <1>1, <1>7, <1>12, <1>13, <2>2 DEF BranchSound, Contains, Standing
  <2>3. CASE WriteBranch(e) /\ (~plan[e].alone \/ n = "zone")
    BY <1>2, <1>7, <2>3 DEF BranchSound, Settled
  <2>4. CASE WriteBranch(e) /\ plan[e].alone /\ n = "none" /\ Standing(b)
    <3>1. z = branch[b].zone
      BY <1>1, <1>2, <1>4, <2>4 DEF EditSound
    <3>2. unsure' = unsure /\ branch'[b].zone = branch[b].zone /\ branch'[b].spot = branch[b].spot
      BY <1>6, <1>7, <2>4, <3>1 DEF Settled
    <3> QED
      BY <1>1, <1>6, <1>12, <1>13, <2>4, <3>2 DEF BranchSound, Contains
  <2>5. CASE WriteBranch(e) /\ plan[e].alone /\ n = "spot" /\ Standing(b)
    <3>1. Contains(z, branch[b].spot)
      BY <1>1, <1>2, <1>4, <2>5 DEF EditSound
    <3>2. branch'[b].zone = z /\ branch'[b].spot = branch[b].spot
      <4>1. zone[z] # None
        BY <3>1 DEF Contains
      <4>2. branch' = [branch EXCEPT ![b].zone = z]
        BY <1>2, <2>5, <4>1 DEF WriteBranch
      <4>3. branch[b] \in [state : {"THERE"}, spot : Spots, zone : Zones]
        BY <1>1, <2>5, RowShape DEF BranchRows
      <4> QED
        BY <1>1, <1>6, <2>5, <4>2, <4>3
    <3> QED
      BY <1>1, <3>1, <3>2 DEF BranchSound, Contains
  <2> QED
    BY <1>3, <2>1, <2>2, <2>3, <2>4, <2>5
<1> QED
  BY <1>1, <1>2, <1>4, <1>6, <1>8, <1>9, <1>10, <1>11, <1>14, OthersKeep DEF Editing

LEMMA PlacesStepIInv == ASSUME PlacesIInv, [PlacesNext]_placesVars PROVE PlacesIInv'
<1>1. CASE UNCHANGED placesVars
  <2>1. PlacesTypeOK'
    BY <1>1 DEF placesVars, PlacesIInv, PlacesTypeOK, Edits
  <2>2. \A e \in Planners : PlanSound(e) => PlanSound(e)'
    BY <1>1 DEF placesVars, PlanSound, Editing, EditsOf, Standing, EditSound, Contains
  <2>3. \A b \in Branches : BranchSound(b) => BranchSound(b)'
    BY <1>1 DEF placesVars, BranchSound, HalfMoved, Standing, Contains
  <2> QED
    BY <2>1, <2>2, <2>3 DEF PlacesIInv
<1>2. ASSUME NEW e \in Planners, WriteZoneFields(e) PROVE PlacesIInv'
  <2>1. plan[e] \in Plans /\ plan[e].op = "fields"
    BY <1>2, PlacesTypes DEF PlacesIInv, WriteZoneFields
  <2>2. plan[e].zone \in Zones
    BY <2>1, PlanShape
  <2> QED
    BY <1>2, <2>2, ZoneStep
<1>3. CASE PlacesNext
  BY <1>2, <1>3, ZoneStep, CreateZoneStep, RemoveBranchStep, InsertBranchStep, BeginPlanStep, UpdateBranchStep,
     ResolvePlaceStep, MoveBranchStep, WriteBranchStep DEF PlacesNext
<1> QED
  BY <1>1, <1>3

LEMMA PlacesInitIInv == ASSUME PlacesInit PROVE PlacesIInv
<1>1. PlacesTypeOK
  BY PlacesTypes, PlanForms DEF PlacesInit, ZoneRows, BranchRows
<1>2. \A e \in Planners : PlanSound(e)
  BY DEF PlacesInit, PlanSound, Editing
<1>3. \A b \in Branches : BranchSound(b)
  BY DEF PlacesInit, BranchSound, Standing, None
<1> QED
  BY <1>1, <1>2, <1>3 DEF PlacesIInv

LEMMA PlacesSafe == ASSUME PlacesIInv PROVE PlacedInZone
BY DEF PlacesIInv, BranchSound, HalfMoved, PlacedInZone, EditsOf

-----------------------------------------------------------------------------
(* Addresses: whose request made an address the default cleared whatever   *)
(* another one of his had made so before.                                  *)

Defaults == {a \in Addresses : address[a] = "default"}

\* What a request will have cleared or set when it commits.
Covered(t) ==
    IF tap[t].op = "insert" THEN tap[t].cleared
    ELSE IF tap[t].op = "update" THEN tap[t].cleared \cup {tap[t].address}
    ELSE Addresses

\* by: the request that made each address the default.
MadeBy(by) ==
    /\ \A a, b \in Defaults : by[a] = by[b] => a = b
    /\ \A a \in Defaults : a \in Covered(by[a])

AddressesIInv ==
    /\ AddressesTypeOK /\ TogglesCount
    /\ \E by \in [Defaults -> Taps] : MadeBy(by)

LEMMA TapForms ==
    /\ [op |-> "idle"] \in TapRecords
    /\ \A C \in SUBSET Addresses : [op |-> "insert", cleared |-> C] \in TapRecords
    /\ \A a \in Addresses, C \in SUBSET Addresses :
          [op |-> "update", address |-> a, cleared |-> C] \in TapRecords
    /\ \A f \in Favourites \cup {0} : [op |-> "toggle", found |-> f] \in TapRecords
<1>1. [op |-> "idle"] \in TapRecords
  BY DEF TapRecords
<1>2. \A C \in SUBSET Addresses : [op |-> "insert", cleared |-> C] \in TapRecords
  BY DEF TapRecords
<1>3. \A a \in Addresses, C \in SUBSET Addresses : [op |-> "update", address |-> a, cleared |-> C] \in TapRecords
  BY DEF TapRecords
<1>4. \A f \in Favourites \cup {0} : [op |-> "toggle", found |-> f] \in TapRecords
  BY DEF TapRecords
<1> QED
  BY <1>1, <1>2, <1>3, <1>4

LEMMA TapShape ==
    ASSUME AddressesTypeOK, NEW t \in Taps
    PROVE  /\ tap[t].op = "insert" => tap[t].cleared \in SUBSET Addresses
           /\ tap[t].op = "update" => tap[t].address \in Addresses /\ tap[t].cleared \in SUBSET Addresses
<1>1. tap[t] \in TapRecords
  BY DEF AddressesTypeOK
<1>2. CASE tap[t] \in [op : {"insert"}, cleared : SUBSET Addresses]
  BY <1>2
<1>3. CASE tap[t] \in [op : {"update"}, address : Addresses, cleared : SUBSET Addresses]
  BY <1>3
<1>4. CASE tap[t] \in {[op |-> "idle"]} \cup [op : {"toggle"}, found : Favourites \cup {0}]
  BY <1>4
<1> QED
  BY <1>1, <1>2, <1>3, <1>4 DEF TapRecords

\* Addresses lose the default, and requests begin or end that make none.
LEMMA DefaultsGo ==
    ASSUME AddressesIInv, AddressesTypeOK', TogglesCount', Defaults' \subseteq Defaults,
           \A t \in Taps : tap'[t] = tap[t] \/ Defaults' \subseteq Covered(t)'
    PROVE  AddressesIInv'
<1>1. PICK by \in [Defaults -> Taps] : MadeBy(by)
  BY DEF AddressesIInv
<1>2. PICK now \in [Defaults' -> Taps] : \A a \in Defaults' : now[a] = by[a]
  <2>1. [a \in Defaults' |-> by[a]] \in [Defaults' -> Taps]
    BY <1>1
  <2> QED
    BY <2>1
<1>3. \A a \in Defaults' : a \in Covered(now[a])'
  BY <1>1, <1>2 DEF MadeBy, Covered
<1>4. MadeBy(now)'
  BY <1>1, <1>2, <1>3 DEF MadeBy
<1> QED
  BY <1>2, <1>4 DEF AddressesIInv

\* A request makes one the default, and is done.
LEMMA DefaultComes ==
    ASSUME AddressesIInv, AddressesTypeOK', TogglesCount', NEW t \in Taps, NEW x \in Addresses,
           Answer(t), tap[t].op \in {"insert", "update"},
           Defaults' \subseteq (Defaults \ Covered(t)) \cup {x}
    PROVE  AddressesIInv'
<1>1. PICK by \in [Defaults -> Taps] : MadeBy(by)
  BY DEF AddressesIInv
<1>2. PICK now \in [Defaults' -> Taps] : \A a \in Defaults' : now[a] = IF a = x THEN t ELSE by[a]
  <2>1. [a \in Defaults' |-> IF a = x THEN t ELSE by[a]] \in [Defaults' -> Taps]
    BY <1>1
  <2> QED
    BY <2>1
<1>3. \A a \in Defaults' \ {x} : a \in Defaults /\ a \in Addresses /\ by[a] # t
  BY <1>1 DEF MadeBy, Defaults
<1>4. Covered(t)' = Addresses /\ \A u \in Taps \ {t} : Covered(u)' = Covered(u)
  BY DEF Answer, Tap, Covered, AddressesIInv, AddressesTypeOK
<1>5. \A a, b \in Defaults' : now[a] = now[b] => a = b
  BY <1>1, <1>2, <1>3 DEF MadeBy
<1>6. \A a \in Defaults' : a \in Covered(now[a])'
  <2>1. SUFFICES ASSUME NEW a \in Defaults' PROVE a \in Covered(now[a])'
    OBVIOUS
  <2>2. CASE a = x
    BY <1>2, <1>4, <2>2
  <2>3. CASE a # x
    <3>1. now[a] = by[a] /\ by[a] \in Taps \ {t} /\ a \in Covered(by[a])
      BY <1>1, <1>2, <1>3, <2>1, <2>3 DEF MadeBy
    <3> QED
      BY <1>4, <3>1
  <2> QED
    BY <2>2, <2>3
<1>7. MadeBy(now)'
  BY <1>5, <1>6 DEF MadeBy
<1> QED
  BY <1>2, <1>7 DEF AddressesIInv

LEMMA RowStep ==
    ASSUME AddressesIInv, NEW a \in Addresses, AddAddress(a) \/ ClearDefault(a) \/ DeleteAddress(a)
    PROVE  AddressesIInv'
<1>1. AddressesTypeOK /\ UNCHANGED <<favourite, created, tap, toggles>>
  BY DEF AddressesIInv, AddAddress, ClearDefault, DeleteAddress
<1>2. PICK s \in {"plain", "GONE"} : address' = [address EXCEPT ![a] = s]
  BY DEF AddAddress, ClearDefault, DeleteAddress
<1>3. AddressesTypeOK'
  BY <1>1, <1>2 DEF AddressesTypeOK, TapRecords
<1>4. Defaults' \subseteq Defaults
  BY <1>1, <1>2 DEF Defaults, AddressesTypeOK
<1>5. TogglesCount'
  BY <1>1 DEF AddressesIInv, TogglesCount
<1> QED
  BY <1>1, <1>3, <1>4, <1>5, DefaultsGo

LEMMA BeginStep ==
    ASSUME AddressesIInv, NEW t \in Taps,
           \/ CreateDefault(t) \/ \E a \in Addresses : MakeDefault(t, a)
           \/ AddressFails(t) \/ ToggleFavourite(t)
    PROVE  AddressesIInv'
<1>1. AddressesTypeOK /\ UNCHANGED <<address, favourite, created, toggles>>
  BY DEF AddressesIInv, CreateDefault, MakeDefault, AddressFails, ToggleFavourite
<1>2. Defaults \subseteq Kept /\ Kept \subseteq Addresses /\ Defaults' = Defaults
  BY <1>1 DEF Defaults, Kept
<1>3. PICK r \in TapRecords : /\ tap' = [tap EXCEPT ![t] = r]
                              /\ r.op = "insert" => Kept \subseteq r.cleared
                              /\ r.op = "update" => Kept \subseteq r.cleared \cup {r.address}
  <2>1. CASE CreateDefault(t)
    <3> DEFINE r == [op |-> "insert", cleared |-> Kept]
    <3>1. r \in TapRecords /\ tap' = [tap EXCEPT ![t] = r]
      BY <1>2, <2>1, TapForms DEF CreateDefault, Tap, Cleared
    <3>2. r.op = "insert" /\ r.cleared = Kept
      OBVIOUS
    <3> HIDE DEF r
    <3> QED
      BY <3>1, <3>2
  <2>2. CASE \E a \in Addresses : MakeDefault(t, a)
    <3> PICK a \in Addresses : MakeDefault(t, a)
      BY <2>2
    <3> DEFINE r == [op |-> "update", address |-> a, cleared |-> Kept \ {a}]
    <3>1. r \in TapRecords /\ tap' = [tap EXCEPT ![t] = r]
      BY <1>2, TapForms DEF MakeDefault, Tap, Cleared
    <3>2. r.op = "update" /\ r.cleared = Kept \ {a} /\ r.address = a
      OBVIOUS
    <3> HIDE DEF r
    <3> QED
      BY <3>1, <3>2
  <2>3. CASE AddressFails(t)
    <3> DEFINE r == [op |-> "idle"]
    <3>1. r \in TapRecords /\ tap' = [tap EXCEPT ![t] = r]
      BY <2>3, TapForms DEF AddressFails, Answer, Tap
    <3>2. r.op = "idle"
      OBVIOUS
    <3> HIDE DEF r
    <3> QED
      BY <3>1, <3>2
  <2>4. CASE ToggleFavourite(t)
    <3> DEFINE r == [op |-> "toggle", found |-> favourite]
    <3>1. r \in TapRecords /\ tap' = [tap EXCEPT ![t] = r]
      BY <1>1, <2>4, TapForms DEF ToggleFavourite, Tap, AddressesTypeOK
    <3>2. r.op = "toggle"
      OBVIOUS
    <3> HIDE DEF r
    <3> QED
      BY <3>1, <3>2
  <2> QED
    BY <2>1, <2>2, <2>3, <2>4
<1>4. AddressesTypeOK'
  <2>1. tap' \in [Taps -> TapRecords]
    BY <1>1, <1>3 DEF AddressesTypeOK
  <2> QED
    BY <1>1, <2>1 DEF AddressesTypeOK, TapRecords
<1>5. \A u \in Taps : tap'[u] = tap[u] \/ Defaults' \subseteq Covered(u)'
  <2>1. \A u \in Taps \ {t} : tap'[u] = tap[u]
    BY <1>1, <1>3 DEF AddressesTypeOK
  <2>2. tap'[t] = r
    BY <1>1, <1>3 DEF AddressesTypeOK
  <2>3. Defaults' \subseteq Covered(t)'
    BY <1>2, <1>3, <2>2 DEF Covered
  <2> QED
    BY <2>1, <2>3
<1>6. TogglesCount'
  BY <1>1 DEF AddressesIInv, TogglesCount
<1> QED
  BY <1>2, <1>4, <1>5, <1>6, DefaultsGo

LEMMA AnswerTypes ==
    ASSUME AddressesTypeOK, NEW t \in Taps, Answer(t)
    PROVE  tap' \in [Taps -> TapRecords] /\ Covered(t)' = Addresses /\ \A u \in Taps \ {t} : tap'[u] = tap[u]
<1>1. tap' \in [Taps -> TapRecords] /\ tap'[t] = [op |-> "idle"]
  BY TapForms DEF AddressesTypeOK, Answer, Tap
<1> QED
  BY <1>1 DEF AddressesTypeOK, Answer, Tap, Covered

LEMMA CommitStep ==
    ASSUME AddressesIInv, NEW t \in Taps, CommitUpdate(t) \/ \E a \in Addresses : CommitInsert(t, a)
    PROVE  AddressesIInv'
<1>1. AddressesTypeOK /\ Answer(t) /\ UNCHANGED <<favourite, created, toggles>>
  BY DEF AddressesIInv, CommitUpdate, CommitInsert
<1>2. TogglesCount'
  BY <1>1 DEF AddressesIInv, TogglesCount
<1> DEFINE C == ClearedBy(t)
<1>3. C \in [Addresses -> {"NONE", "plain", "default", "GONE"}]
  BY <1>1 DEF ClearedBy, AddressesTypeOK
<1>4. \A a \in Addresses : C[a] = "default" => a \in Defaults /\ a \notin tap[t].cleared
  BY DEF ClearedBy, Defaults, Kept
<1> HIDE DEF C
<1>5. CASE CommitUpdate(t)
  <2>1. PICK x \in Addresses : x = tap[t].address /\ tap[t].op = "update"
    BY <1>1, <1>5, TapShape DEF CommitUpdate
  <2>2. PICK s \in {"NONE", "plain", "default", "GONE"} : address' = [C EXCEPT ![x] = s]
    BY <1>3, <1>5, <2>1 DEF CommitUpdate, C
  <2>3. address' \in [Addresses -> {"NONE", "plain", "default", "GONE"}]
    BY <1>3, <2>2
  <2>4. \A a \in Addresses \ {x} : address'[a] = C[a]
    BY <1>3, <2>2
  <2>5. Defaults' \subseteq (Defaults \ Covered(t)) \cup {x}
    BY <1>4, <2>1, <2>4 DEF Defaults, Covered
  <2>6. AddressesTypeOK'
    BY <1>1, <2>3, AnswerTypes DEF AddressesTypeOK, TapRecords
  <2> QED
    BY <1>1, <1>2, <2>1, <2>5, <2>6, DefaultComes
<1>6. ASSUME NEW x \in Addresses, CommitInsert(t, x) PROVE AddressesIInv'
  <2>1. tap[t].op = "insert" /\ address' = [C EXCEPT ![x] = "default"]
    BY <1>6 DEF CommitInsert, C
  <2>2. address' \in [Addresses -> {"NONE", "plain", "default", "GONE"}]
    BY <1>3, <2>1
  <2>3. \A a \in Addresses \ {x} : address'[a] = C[a]
    BY <1>3, <2>1
  <2>4. Defaults' \subseteq (Defaults \ Covered(t)) \cup {x}
    BY <1>4, <2>1, <2>3 DEF Defaults, Covered
  <2>5. AddressesTypeOK'
    BY <1>1, <2>2, AnswerTypes DEF AddressesTypeOK, TapRecords
  <2> QED
    BY <1>1, <1>2, <2>1, <2>4, <2>5, DefaultComes
<1> QED
  BY <1>5, <1>6

LEMMA WriteFavouriteStep ==
    ASSUME AddressesIInv, NEW t \in Taps, WriteFavourite(t)
    PROVE  AddressesIInv'
<1>1. AddressesTypeOK /\ Answer(t) /\ UNCHANGED address
  BY DEF AddressesIInv, WriteFavourite
<1>2. 0 \notin Favourites /\ Favourites \subseteq Nat
  BY AddressesAssumption, FS_CardinalityType
<1>3. /\ favourite' \in Favourites \cup {0} /\ created' \in Favourites \cup {0}
      /\ toggles' \in {0, 1} /\ TogglesCount'
  <2>1. CASE UNCHANGED <<favourite, created, toggles>>
    BY <1>1, <2>1 DEF AddressesIInv, AddressesTypeOK, TogglesCount
  <2>2. CASE toggles' = 1 - toggles /\ favourite # 0 /\ favourite' = 0 /\ UNCHANGED created
    <3>1. toggles = 1
      BY <2>2 DEF AddressesIInv, TogglesCount
    <3>2. toggles' = 0
      BY <2>2, <3>1
    <3> QED
      BY <1>1, <2>2, <3>2 DEF AddressesTypeOK, TogglesCount
  <2>3. CASE /\ toggles' = 1 - toggles /\ favourite = 0
             /\ created + 1 \in Favourites /\ created' = created + 1 /\ favourite' = created'
    <3>1. toggles = 0
      BY <2>3 DEF AddressesIInv, AddressesTypeOK, TogglesCount
    <3>2. toggles' = 1
      BY <2>3, <3>1
    <3>3. PICK c \in Favourites : c = created + 1
      BY <2>3
    <3>4. created' = c /\ favourite' = c /\ c # 0
      BY <1>2, <2>3, <3>3
    <3> QED
      BY <3>2, <3>4 DEF TogglesCount
  <2> QED
    BY <2>1, <2>2, <2>3 DEF WriteFavourite
<1>4. AddressesTypeOK'
  BY <1>1, <1>3, AnswerTypes DEF AddressesTypeOK, TapRecords
<1>5. Defaults' = Defaults /\ Defaults \subseteq Addresses
  BY <1>1 DEF Defaults
<1>6. \A u \in Taps : tap'[u] = tap[u] \/ Defaults' \subseteq Covered(u)'
  BY <1>1, <1>5, AnswerTypes
<1> QED
  BY <1>3, <1>4, <1>5, <1>6, DefaultsGo

LEMMA AddressesStepIInv == ASSUME AddressesIInv, [AddressesNext]_addressesVars PROVE AddressesIInv'
<1>1. CASE AddressesNext
  BY <1>1, RowStep, BeginStep, CommitStep, WriteFavouriteStep DEF AddressesNext
<1>2. CASE UNCHANGED addressesVars
  <2>1. AddressesTypeOK' /\ TogglesCount'
    BY <1>2 DEF addressesVars, AddressesIInv, AddressesTypeOK, TapRecords, TogglesCount
  <2>2. Defaults' = Defaults /\ tap' = tap
    BY <1>2 DEF addressesVars, Defaults
  <2> QED
    BY <2>1, <2>2, DefaultsGo
<1> QED
  BY <1>1, <1>2

LEMMA AddressesInitIInv == ASSUME AddressesInit PROVE AddressesIInv
<1>1. AddressesTypeOK /\ TogglesCount
  BY TapForms DEF AddressesInit, AddressesTypeOK, TogglesCount
<1>2. Defaults = {}
  BY DEF AddressesInit, Defaults
<1> DEFINE by == [a \in Defaults |-> CHOOSE t \in Taps : TRUE]
<1>3. by \in [Defaults -> Taps]
  BY <1>2
<1>4. MadeBy(by)
  BY <1>2 DEF MadeBy
<1> QED
  BY <1>1, <1>3, <1>4 DEF AddressesIInv

LEMMA AddressesSafe == ASSUME AddressesIInv PROVE DefaultsBounded
<1>1. PICK by \in [Defaults -> Taps] : MadeBy(by)
  BY DEF AddressesIInv
<1>2. by \in Injection(Defaults, Taps)
  BY <1>1 DEF MadeBy, Injection, IsInjective
<1>3. Cardinality(Defaults) <= Cardinality(Taps)
  BY <1>2, AddressesAssumption, FS_Injection
<1> QED
  BY <1>3 DEF DefaultsBounded, Defaults

\* However many requests count, price and place orders, cancel and edit them at the same
\* time: coins are taken once for an order and returned once at most, when it is
\* cancelled, but for an order that an edit brought back after its end; a discount takes
\* just the coins it is worth; and the limit of active orders is passed by one for each
\* request, such orders aside (createOrder, validateActiveOrderLimit, cancelOrder,
\* editOrderItems).
THEOREM CoinsAndLimitKept == CheckoutSpec => [](CoinsAccounted /\ CoinsWorthDiscount /\ ActiveOrdersBounded)
<1>1. CheckoutIInv => CoinsAccounted /\ CoinsWorthDiscount /\ ActiveOrdersBounded
  BY CheckoutSafe
<1> QED
  BY <1>1, CheckoutInitIInv, CheckoutStepIInv, PTL DEF CheckoutSpec

\* A branch lies in an active zone that contains it, whatever edits of it began and
\* failed and whatever other edits there were (update, resolveValidZoneForLocation).
THEOREM BranchesStayPlaced == PlacesSpec => []PlacedInZone
<1>1. PlacesIInv => PlacedInZone
  BY PlacesSafe
<1> QED
  BY <1>1, PlacesInitIInv, PlacesStepIInv, PTL DEF PlacesSpec

\* The default addresses are never more than the requests in flight, and every toggle
\* of a favourite counts (createAddress, updateAddress, toggleFavoriteVendor).
THEOREM DefaultsAndToggles == AddressesSpec => [](DefaultsBounded /\ TogglesCount)
<1>1. AddressesIInv => DefaultsBounded /\ TogglesCount
  BY AddressesSafe DEF AddressesIInv
<1> QED
  BY <1>1, AddressesInitIInv, AddressesStepIInv, PTL DEF AddressesSpec

-----------------------------------------------------------------------------
(* All parts: a step of the shop is one of a part, and no step of another. *)

ShopInv ==
    /\ CheckoutIInv /\ CatalogIInv /\ ChoicesInv /\ PictureInv /\ FeesTypeOK /\ FeeInv
    /\ PlacesIInv /\ AddressesIInv

\* Every setting is in its own range.
LEMMA FeesTyped == ASSUME FeesTypeOK, FeeInv, [FeesNext]_feesVars PROVE FeesTypeOK'
<1>1. FeeInv'
  BY FeesStep
<1>2. CASE UNCHANGED rates
  BY <1>1, <1>2 DEF FeesTypeOK, FeeInv
<1>3. CASE UpdateRates
  <2>1. /\ rates \in [set : [SettingNames -> Int], bonus : [Tiers -> Nat], driverShiftsEnabled : BOOLEAN]
        /\ DOMAIN Ranges = SettingNames /\ rates.bonus \in [Tiers -> Counted]
    BY RangesKnown DEF FeeInv, RatesKnown, FeesTypeOK, Bonuses
  <2>2. CASE \E f \in SettingNames : \E v \in Ranges[f] : rates' = [rates EXCEPT !.set[f] = v]
    BY <1>1, <2>1, <2>2 DEF FeeInv, FeesTypeOK, Bonuses
  <2>3. CASE \E t \in Tiers : \E v \in Counted : rates' = [rates EXCEPT !.bonus[t] = v]
    BY <1>1, <2>1, <2>3 DEF FeeInv, FeesTypeOK, Bonuses
  <2>4. CASE \E b \in BOOLEAN : rates' = [rates EXCEPT !.driverShiftsEnabled = b]
    BY <1>1, <2>1, <2>4 DEF FeeInv, FeesTypeOK, Bonuses
  <2> QED
    BY <1>3, <2>1, <2>2, <2>3, <2>4 DEF UpdateRates
<1> QED
  BY <1>2, <1>3 DEF FeesNext, feesVars, PriceOrder, PriceAcceptance, PriceDirectOrder, AssignAtPrice, ShareFee

LEMMA FeesTypedFirst == ASSUME FeesInit PROVE FeesTypeOK
<1>1. \A f \in DOMAIN Ranges : Ranges[f] # {}
  BY FeesAssumption DEF Ranges
<1>2. (CHOOSE v \in Counted : TRUE) \in Counted
  BY FeesAssumption
<1>3. \A f \in DOMAIN Ranges : (CHOOSE v \in Ranges[f] : TRUE) \in Ranges[f]
  BY <1>1
<1>4. FeeInv
  BY FeesStart
<1> QED
  BY <1>2, <1>3, <1>4 DEF FeesInit, FeesTypeOK, FeeInv, Bonuses

LEMMA CatalogMoves == ASSUME CatalogIInv, MCCatalogNext PROVE CatalogStepSound
<1>1. Rows \subseteq ProductRows
  BY DEF Rows
<1>2. ASSUME NEW v \in Stores, CreateStore(v) \/ RemoveStore(v) PROVE CatalogStepSound
  BY <1>2, StoreSteps
<1>3. ASSUME RemoveVertical \/ DestroyDeleted \/ DeleteVertical PROVE CatalogStepSound
  BY <1>3, StoreSteps
<1>4. ASSUME NEW S \in SUBSET Categories, NEW f \in [S -> SortOrders], Reorder(f) PROVE CatalogStepSound
  BY <1>4, ReorderStep
<1>5. ASSUME NEW e \in Editors, NEW p \in Products,
             \/ \E r \in Rows : CheckCreate(e, p, r) \/ CheckUpdate(e, p, r)
             \/ CheckRemove(e, p) \/ FindProduct(e, p)
      PROVE  CatalogStepSound
  BY <1>1, <1>5, BeginRequestStep
<1> QED
  BY <1>2, <1>3, <1>4, <1>5, RemoveCategoryStep, RemoveVariantStep, BeginRequestStep, WriteRequestStep
     DEF MCCatalogNext

LEMMA OnePartMoves ==
    ASSUME [MCNext]_shopVars
    PROVE  /\ [CheckoutNext]_checkoutVars /\ [ChoicesNext]_choicesVars /\ [PicturesNext]_picturesVars
           /\ [FeesNext]_feesVars /\ [PlacesNext]_placesVars /\ [AddressesNext]_addressesVars
           /\ MCCatalogNext \/ UNCHANGED catalogVars
           /\ UNCHANGED part
<1>1. CASE UNCHANGED shopVars
  BY <1>1 DEF shopVars
<1>2. MCCheckoutNext => InCheckout /\ CheckoutNext
  BY DEF MCCheckoutNext, CheckoutNext
<1>3. MCCatalogNext => InCatalog
  BY DEF MCCatalogNext
<1>4. MCChoicesNext => InChoices /\ ChoicesNext
  BY DEF MCChoicesNext, ChoicesNext
<1>5. MCPicturesNext => InPictures /\ PicturesNext
  BY DEF MCPicturesNext, PicturesNext
<1>6. MCFeesNext => InFees /\ FeesNext
  BY DEF MCFeesNext, FeesNext
<1>7. MCPlacesNext => InPlaces /\ PlacesNext
  BY DEF MCPlacesNext, PlacesNext
<1>8. MCAddressesNext => InAddresses /\ AddressesNext
  BY DEF MCAddressesNext, AddressesNext
<1> QED
  BY <1>1, <1>2, <1>3, <1>4, <1>5, <1>6, <1>7, <1>8
     DEF MCNext, InCheckout, InCatalog, InChoices, InPictures, InFees, InPlaces, InAddresses

LEMMA ShopStarts == ASSUME MCInit PROVE ShopInv
BY CheckoutInitIInv, CatalogInitIInv, ChoicesStart, PicturesStart, FeesStart, FeesTypedFirst, PlacesInitIInv,
   AddressesInitIInv
   DEF MCInit, ShopInv

LEMMA ShopMoves == ASSUME ShopInv, [MCNext]_shopVars PROVE ShopInv' /\ CatalogStepSound
<1>1. CatalogStepSound
  BY OnePartMoves, CatalogMoves, CatalogAside DEF ShopInv
<1>2. CheckoutIInv' /\ ChoicesInv' /\ PictureInv' /\ FeeInv' /\ FeesTypeOK'
      /\ PlacesIInv' /\ AddressesIInv'
  BY OnePartMoves, CheckoutStepIInv, ChoicesStep, PicturesStep, FeesStep, FeesTyped, PlacesStepIInv,
     AddressesStepIInv DEF ShopInv
<1> QED
  BY <1>1, <1>2 DEF ShopInv, CatalogStepSound

\* The inductive invariant of the shop: every part has its own.
LEMMA ShopStays == MCSpec => []ShopInv
BY ShopStarts, ShopMoves, PTL DEF MCSpec

\* The rows of the part that is explored have their types, for any number of them
\* (ShopTypeOK).
THEOREM ShopTyped == MCSpec => []ShopTypeOK
<1>1. ShopInv => ShopTypeOK
  BY DEF ShopInv, CheckoutIInv, CatalogIInv, ChoicesInv, PictureInv, PlacesIInv, AddressesIInv,
     ShopTypeOK
<1> QED
  BY <1>1, ShopStays, PTL

\* So it is for the orders and the options of what they are placed from, together
\* (createOrder, validateActiveOrderLimit, addItem).
THEOREM OrdersPlacedRight == MCSpec => []PlacedRight
<1>1. ShopInv => PlacedRight
  BY CheckoutSafe DEF ShopInv, ChoicesInv, PlacedRight
<1> QED
  BY <1>1, ShopStays, PTL

\* Removing a business type destroys no vendor but deleted ones, only an update that
\* had begun before lists a removed product again, a branch lies in an active zone
\* that contains it, and requests at once make no more default addresses than they
\* are and lose no toggle (remove, update, createAddress, toggleFavoriteVendor).
THEOREM StoresAreKept == MCSpec => StoresKept
<1>1. ShopInv => PlacesKept
  BY PlacesSafe, AddressesSafe DEF ShopInv, PlacesKept, AddressesIInv
<1>2. MCSpec => []PlacesKept
  BY <1>1, ShopStays, PTL
<1>3. ShopInv /\ [MCNext]_shopVars => [LiveStay]_catalogVars /\ [HiddenStay]_catalogVars
  BY ShopMoves DEF CatalogStepSound
<1>4. MCSpec => [][LiveStay]_catalogVars /\ [][HiddenStay]_catalogVars
  BY <1>3, ShopStays, PTL DEF MCSpec
<1>5. LiveStoresStay <=> [][LiveStay]_catalogVars
  BY PTL DEF LiveStoresStay, LiveStay
<1>6. RemovedStaysHidden <=> [][HiddenStay]_catalogVars
  BY PTL DEF RemovedStaysHidden, HiddenStay
<1> QED
  BY <1>2, <1>4, <1>5, <1>6, PTL DEF StoresKept, CatalogKept
=============================================================================
