-------------------------------- MODULE MCShop --------------------------------
(***************************************************************************)
(* The cart with its orders, the catalogue, the options, the pictures, the *)
(* delivery fee, the branches and the addresses share no variable: each is *)
(* explored on its own, while the others stay as in the beginning.         *)
(***************************************************************************)
EXTENDS Checkout, Catalog, Choices, Pictures, Fees, Places, Addresses, TLC

\* A variant with an option.
MCVariantOf == "pizza" :> "v1"
MCOptionsOf == "pizza" :> {"cheese"}
MCUnitPrice == "pizza" :> 4
MCLines == 1..2
MCOrders == 1..3
MCFiles == 1..3
MCCategories == 1..1
MCWhole == {-50, 20, 150}
MCFamily == "small" :> "pizza" @@ "large" :> "pizza"
MCSpots == {<<1, 2>>, <<2, 1>>}
MCAreas == {{<<1, 2>>}, {<<1, 2>>, <<2, 1>>}}
MCFavourites == 1..2
\* The requests of all parts are the same ones.
MCSymmetry == Permutations(Requests) \cup Permutations(Zones)

\* The rows that products are given.
Rows == {r \in ProductRows : r.state = "LIVE" /\ (r.sku => ~r.hasVariants)}

\* The component that is explored.
VARIABLE part

shopVars == <<part, checkoutVars, catalogVars, choicesVars, picturesVars, feesVars,
              placesVars, addressesVars>>

InCheckout == part = "checkout" /\ UNCHANGED
    <<part, catalogVars, choicesVars, picturesVars, feesVars, placesVars, addressesVars>>
InCatalog == part = "catalog" /\ UNCHANGED
    <<part, checkoutVars, choicesVars, picturesVars, feesVars, placesVars, addressesVars>>
InChoices == part = "choices" /\ UNCHANGED
    <<part, checkoutVars, catalogVars, picturesVars, feesVars, placesVars, addressesVars>>
InPictures == part = "pictures" /\ UNCHANGED
    <<part, checkoutVars, catalogVars, choicesVars, feesVars, placesVars, addressesVars>>
InFees == part = "fees" /\ UNCHANGED
    <<part, checkoutVars, catalogVars, choicesVars, picturesVars, placesVars, addressesVars>>
InPlaces == part = "places" /\ UNCHANGED
    <<part, checkoutVars, catalogVars, choicesVars, picturesVars, feesVars, addressesVars>>
InAddresses == part = "addresses" /\ UNCHANGED
    <<part, checkoutVars, catalogVars, choicesVars, picturesVars, feesVars, placesVars>>

MCInit ==
    /\ part \in {"checkout", "catalog", "choices", "pictures", "fees", "places", "addresses"}
    /\ CheckoutInit /\ CatalogInit /\ ChoicesInit /\ PicturesInit /\ FeesInit
    /\ PlacesInit /\ AddressesInit

MCCheckoutNext ==
    \/ \E c \in Wares : InCheckout /\ AddItem(c)
    \/ \E l \in Lines, c \in Wares, q \in 1..MaxQuantity : InCheckout /\ UpdateItem(l, c, q)
    \/ InCheckout /\ ClearCart
    \/ InCheckout /\ AbandonedCartsCleanup
    \/ \E t \in Requests :
          \/ \E l \in Lines : InCheckout /\ RemoveItem(t, l)
          \/ InCheckout /\ CountRemaining(t)
          \/ InCheckout /\ DeleteCart(t)
          \/ InCheckout /\ ValidateForCheckout(t)
          \/ InCheckout /\ CheckLimit(t)
          \/ InCheckout /\ RequestFails(t)
          \/ InCheckout /\ OnOrderCreated(t)
          \/ \E coins \in CoinOffers, km \in Distances : InCheckout /\ CreateOrder(t, coins, km)
          \/ InCheckout /\ RefundCoins(t)
          \/ \E o \in Orders : InCheckout /\ CancelOrder(t, o)
          \/ \E o \in Orders : InCheckout /\ CheckEdit(t, o)
          \/ InCheckout /\ request[t].op = "edit" /\ CommitEdit(t, order[request[t].order].items)
    \/ \E o \in Orders :
          \/ InCheckout /\ Deliver(o)
          \/ \E s \in {"ACTIVE", "CANCELLED"} : InCheckout /\ AnswerChanges(o, s)

MCCatalogNext ==
    \/ \E v \in Stores :
          \/ InCatalog /\ CreateStore(v)
          \/ InCatalog /\ RemoveStore(v)
    \/ InCatalog /\ RemoveVertical
    \/ InCatalog /\ DestroyDeleted
    \/ InCatalog /\ DeleteVertical
    \/ \E c \in Categories : InCatalog /\ RemoveCategory(c)
    \/ \E S \in SUBSET Categories : \E f \in [S -> SortOrders] : InCatalog /\ Reorder(f)
    \/ \E x \in Variants : InCatalog /\ RemoveVariant(x)
    \/ \E e \in Editors :
          \/ InCatalog /\ FindEnd(e)
          \/ \E c \in Categories : InCatalog /\ CreateCategory(e, c)
          \/ InCatalog /\ CreateProduct(e)
          \/ InCatalog /\ UpdateProduct(e)
          \/ InCatalog /\ RemoveProduct(e)
          \/ InCatalog /\ FlagVariants(e)
          \/ InCatalog /\ AddVariant(e)
          \/ \E p \in Products :
                \/ \E r \in Rows : InCatalog /\ CheckCreate(e, p, r)
                \/ \E r \in Rows : InCatalog /\ CheckUpdate(e, p, r)
                \/ InCatalog /\ CheckRemove(e, p)
                \/ InCatalog /\ FindProduct(e, p)

MCPicturesNext ==
    \E u \in Uploads :
        \/ \E s \in Slots : InPictures /\ Upload(u, s)
        \/ InPictures /\ DiscardFirst(u)
        \/ InPictures /\ StoreFile(u)
        \/ InPictures /\ WriteSlot(u)
        \/ InPictures /\ Discard(u)
        \/ InPictures /\ UploadFails(u)

MCFeesNext ==
    \/ InFees /\ UpdateRates
    \/ \E km \in Kms, b \in BOOLEAN : \E p \in PricesPerKm(b) : InFees /\ PriceOrder(km, p, b)
    \/ \E km \in Kms : InFees /\ PriceAcceptance(km)
    \/ InFees /\ PriceDirectOrder
    \/ InFees /\ AssignAtPrice
    \/ \E t \in Tiers : InFees /\ ShareFee(t)

MCChoicesNext ==
    \/ \E x \in Bearers :
          \/ InChoices /\ RemoveBearer(x)
          \/ \E on \in BOOLEAN : InChoices /\ OfferBearer(x, on)
          \/ \E g \in OptionGroups, O \in SUBSET Options : InChoices /\ AddOptionGroup(x, g, O)
          \/ \E b \in Buyers, O \in SUBSET Options : InChoices /\ CheckPick(b, x, O)
    \/ \E g \in OptionGroups : InChoices /\ RemoveOptionGroup(g)
    \/ \E o \in Options :
          \/ InChoices /\ RemoveOption(o)
          \/ \E on \in BOOLEAN : InChoices /\ UpdateOption(o, on)
          \/ \E on \in BOOLEAN, g \in OptionGroups : InChoices /\ AddOption(g, o, on)
    \/ \E l \in Picks :
          \/ \E b \in Buyers : InChoices /\ WritePick(b, l)
          \/ \E O \in SUBSET Options : InChoices /\ UpdatePick(l, O)
          \/ \E O \in SUBSET Options : InChoices /\ AddOffered(l, O)

\* An edit names a place, or something else.
MCPlacesNext ==
    \/ \E z \in Zones :
          \/ \E a \in Areas, on \in BOOLEAN : InPlaces /\ CreateZone(z, a, on)
          \/ InPlaces /\ DeleteZone(z)
          \/ \E e \in Planners :
                \/ \E a \in Areas : InPlaces /\ UpdateBoundary(e, z, a)
                \/ \E on \in BOOLEAN : InPlaces /\ UpdateZoneFields(e, z, on)
    \/ \E b \in Branches :
          \/ InPlaces /\ RemoveBranch(b)
          \/ \E e \in Planners :
                \/ InPlaces /\ InsertBranch(e, b)
                \/ \E s \in Spots \cup {Nowhere}, y \in Zones \cup {NoZone} :
                      InPlaces /\ UpdateBranch(e, b, s, y, s = Nowhere)
    \/ \E e \in Planners :
          \/ \E s \in Spots, y \in Zones \cup {NoZone} : InPlaces /\ CreateBranch(e, s, y)
          \/ InPlaces /\ WriteZoneFields(e)
          \/ InPlaces /\ ResolvePlace(e)
          \/ InPlaces /\ MoveBranch(e)
          \/ InPlaces /\ WriteBranch(e)
          \/ InPlaces /\ EditFails(e)

MCAddressesNext ==
    \/ \E a \in Addresses :
          \/ InAddresses /\ AddAddress(a)
          \/ InAddresses /\ ClearDefault(a)
          \/ InAddresses /\ DeleteAddress(a)
    \/ \E t \in Taps :
          \/ InAddresses /\ CreateDefault(t)
          \/ InAddresses /\ CommitUpdate(t)
          \/ InAddresses /\ AddressFails(t)
          \/ InAddresses /\ ToggleFavourite(t)
          \/ InAddresses /\ WriteFavourite(t)
          \/ \E a \in Addresses : InAddresses /\ MakeDefault(t, a)
          \/ \E a \in Addresses : InAddresses /\ CommitInsert(t, a)

MCNext ==
    \/ MCCheckoutNext \/ MCCatalogNext \/ MCChoicesNext \/ MCPicturesNext \/ MCFeesNext
    \/ MCPlacesNext \/ MCAddressesNext

MCSpec == MCInit /\ [][MCNext]_shopVars

\* Of orders: coins, discounts, how many they are and the options of what they are
\* placed from (createOrder, addItem).
PlacedRight == CoinsAccounted /\ CoinsWorthDiscount /\ ActiveOrdersBounded /\ ChosenOptionsFit

\* Of branches and of the customer's addresses and favourites (update, createAddress,
\* toggleFavoriteVendor).
PlacesKept == PlacedInZone /\ DefaultsBounded /\ TogglesCount

\* Of the rows of a vendor: the catalogue, and where its branches and customers are.
StoresKept == CatalogKept /\ []PlacesKept

\* The other parts are as in the beginning.
ShopTypeOK ==
    /\ part = "checkout" => CheckoutTypeOK
    /\ part = "catalog" => CatalogTypeOK
    /\ part = "choices" => ChoicesTypeOK
    /\ part = "pictures" => PicturesTypeOK
    /\ part = "fees" => FeesTypeOK
    /\ part = "places" => PlacesTypeOK
    /\ part = "addresses" => AddressesTypeOK
=============================================================================
