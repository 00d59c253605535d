------------------------------- MODULE Catalog -------------------------------
(***************************************************************************)
(* The catalogue: a business type with its vendors, and of one of them the *)
(* menu categories and the products with their variants.  A handler checks *)
(* first and writes in later steps; only reorder, and the statements that  *)
(* create a product or a variant with its options, are transactions.       *)
(***************************************************************************)
EXTENDS Integers, FiniteSets

CONSTANTS
    Stores,         \* vendors that can ever be created
    Categories,     \* menu categories that can ever be there
    Products,
    Variants,       \* variants that can ever be added
    Editors         \* requests in flight

ASSUME CatalogAssumption ==
    /\ IsFiniteSet(Categories) /\ Categories = 1..Cardinality(Categories)

VARIABLES
    vertical,       \* the business type: it is there, or what its removal does next
    store,          \* vendors rows of that type
    category,       \* sortOrder of each menuCategories row
    product,        \* products rows
    variant,        \* the product of each productVariants row
    editor          \* what each request is about to write

catalogVars == <<vertical, store, category, product, variant, editor>>

NoCategory == -1
NoProduct == [state |-> "NONE"]
ProductRows == [state : {"LIVE", "REMOVED"}, active : BOOLEAN, hasVariants : BOOLEAN,
                sku : BOOLEAN, category : Categories \cup {0}]
SortOrders == 0..Cardinality(Categories)

CatalogTypeOK ==
    /\ vertical \in {"there", "destroy", "delete", "gone"}
    /\ store \in [Stores -> {"NONE", "LIVE", "DELETED", "GONE"}]
    /\ category \in [Categories -> SortOrders \cup {NoCategory}]
    /\ product \in [Products -> {NoProduct} \cup ProductRows]
    /\ variant \in [Variants -> Products \cup {"none"}]
    /\ editor \in [Editors -> {[op |-> "idle"]}
          \cup [op : {"createCategory"}, at : SortOrders]
          \cup [op : {"createProduct", "updateProduct"}, product : Products, row : ProductRows]
          \cup [op : {"removeProduct", "flag", "addVariant"}, product : Products]]

CatalogInit ==
    /\ vertical = "there"
    /\ store = [v \in Stores |-> "NONE"]
    /\ category = [c \in Categories |-> NoCategory]
    /\ product = [p \in Products |-> NoProduct]
    /\ variant = [x \in Variants |-> "none"]
    /\ editor = [e \in Editors |-> [op |-> "idle"]]

Live(p) == product[p].state = "LIVE"
Free(e) == editor[e].op = "idle"
Go(e, r) == editor' = [editor EXCEPT ![e] = r]
Finish(e) == Go(e, [op |-> "idle"])

-----------------------------------------------------------------------------
(* The business type and its vendors *)

\* verticalId refers to the business type.
CreateStore(v) ==
    /\ store[v] = "NONE" /\ vertical # "gone"
    /\ store' = [store EXCEPT ![v] = "LIVE"]
    /\ UNCHANGED <<vertical, category, product, variant, editor>>

RemoveStore(v) ==
    /\ store[v] = "LIVE"
    /\ store' = [store EXCEPT ![v] = "DELETED"]
    /\ UNCHANGED <<vertical, category, product, variant, editor>>

RemoveVertical ==
    /\ vertical = "there"
    /\ \A v \in Stores : store[v] # "LIVE"
    /\ vertical' = "destroy"
    /\ UNCHANGED <<store, category, product, variant, editor>>

\* Mistake: relies on the count for there being none but deleted ones.
DestroyAll ==
    /\ vertical = "destroy"
    /\ store' = [v \in Stores |-> IF store[v] # "NONE" THEN "GONE" ELSE store[v]]
    /\ vertical' = "delete"
    /\ UNCHANGED <<category, product, variant, editor>>

\* What has been deleted is destroyed, with all that refers to it, also where
\* the next step fails.
DestroyDeleted ==
    /\ vertical = "destroy"
    /\ store' = [v \in Stores |-> IF store[v] = "DELETED" THEN "GONE" ELSE store[v]]
    /\ vertical' = "delete"
    /\ UNCHANGED <<category, product, variant, editor>>

\* Fails where a vendor has been created meanwhile.
DeleteVertical ==
    /\ vertical = "delete"
    /\ vertical' = IF \E v \in Stores : store[v] \in {"LIVE", "DELETED"} THEN "there" ELSE "gone"
    /\ UNCHANGED <<store, category, product, variant, editor>>

-----------------------------------------------------------------------------
(* Menu categories *)

\* To the end of the list, where another one may come to stand meanwhile.
FindEnd(e) ==
    /\ Free(e)
    /\ \E n \in SortOrders : \* bound
          /\ \A c \in Categories : category[c] < n
          /\ n = 0 \/ \E c \in Categories : category[c] = n - 1
          /\ Go(e, [op |-> "createCategory", at |-> n])
    /\ UNCHANGED <<vertical, store, category, product, variant>>

CreateCategory(e, c) ==
    /\ editor[e].op = "createCategory"
    /\ category[c] = NoCategory
    /\ category' = [category EXCEPT ![c] = editor[e].at]
    /\ Finish(e)
    /\ UNCHANGED <<vertical, store, product, variant>>

\* All or, where one of them is gone, none.
Reorder(f) ==
    /\ \A c \in DOMAIN f : category[c] # NoCategory
    /\ category' = [c \in Categories |-> IF c \in DOMAIN f THEN f[c] ELSE category[c]]
    /\ UNCHANGED <<vertical, store, product, variant, editor>>

\* Its products stay, without a category.
RemoveCategory(c) ==
    /\ category[c] # NoCategory
    /\ category' = [category EXCEPT ![c] = NoCategory]
    /\ product' = [p \in Products |->
                     IF product[p] # NoProduct /\ product[p].category = c
                     THEN [product[p] EXCEPT !.category = 0] ELSE product[p]]
    /\ UNCHANGED <<vertical, store, variant, editor>>

-----------------------------------------------------------------------------
(* Products *)

\* Another product has the SKU that products compete for.
SkuTaken(p) == \E q \in Products \ {p} : product[q] # NoProduct /\ product[q].sku

ValidRow(p, r) ==
    /\ r.sku => ~SkuTaken(p)
    /\ r.category # 0 => category[r.category] # NoCategory

\* The references are checked again by the database.
CheckCreate(e, p, r) ==
    /\ Free(e) /\ product[p] = NoProduct
    /\ r.state = "LIVE" /\ ValidRow(p, r)
    /\ Go(e, [op |-> "createProduct", product |-> p, row |-> r])
    /\ UNCHANGED <<vertical, store, category, product, variant>>

CreateProduct(e) ==
    /\ editor[e].op = "createProduct"
    /\ LET p == editor[e].product IN
          product' = IF product[p] = NoProduct /\ ValidRow(p, editor[e].row)
                     THEN [product EXCEPT ![p] = editor[e].row] ELSE product
    /\ Finish(e)
    /\ UNCHANGED <<vertical, store, category, variant>>

\* Mistake: a removed product is found, too.
CheckUpdateOfAny(e, p, r) ==
    /\ Free(e) /\ product[p] # NoProduct
    /\ r.state = "LIVE" /\ ValidRow(p, r)
    /\ Go(e, [op |-> "updateProduct", product |-> p, row |-> r])
    /\ UNCHANGED <<vertical, store, category, product, variant>>

CheckUpdate(e, p, r) ==
    /\ Free(e) /\ Live(p)
    /\ r.state = "LIVE" /\ ValidRow(p, r)
    /\ Go(e, [op |-> "updateProduct", product |-> p, row |-> r])
    /\ UNCHANGED <<vertical, store, category, product, variant>>

\* Neither the write nor the version it may name tells that the product has been
\* removed since the check.  (The version of another update makes it fail.)
UpdateProduct(e) ==
    /\ editor[e].op = "updateProduct"
    /\ LET p == editor[e].product  r == editor[e].row IN
          product' \in {product, IF ~ValidRow(p, r) THEN product
                        ELSE [product EXCEPT ![p].active = r.active, ![p].sku = r.sku,
                                             ![p].category = r.category]}
    /\ Finish(e)
    /\ UNCHANGED <<vertical, store, category, variant>>

CheckRemove(e, p) ==
    /\ Free(e) /\ Live(p)
    /\ Go(e, [op |-> "removeProduct", product |-> p])
    /\ UNCHANGED <<vertical, store, category, product, variant>>

\* The SKU is given another name, and is free.
RemoveProduct(e) ==
    /\ editor[e].op = "removeProduct"
    /\ LET p == editor[e].product IN
          product' = [product EXCEPT ![p].state = "REMOVED", ![p].active = FALSE, ![p].sku = FALSE]
    /\ Finish(e)
    /\ UNCHANGED <<vertical, store, category, variant>>

FindProduct(e, p) ==
    /\ Free(e) /\ Live(p)
    /\ Go(e, [op |-> IF product[p].hasVariants THEN "addVariant" ELSE "flag", product |-> p])
    /\ UNCHANGED <<vertical, store, category, product, variant>>

\* The flag stays where the variant cannot be added after all: then no line of a
\* cart can name the product.
FlagVariants(e) ==
    /\ editor[e].op = "flag"
    /\ product' = [product EXCEPT ![editor[e].product].hasVariants = TRUE]
    /\ Go(e, [editor[e] EXCEPT !.op = "addVariant"])
    /\ UNCHANGED <<vertical, store, category, variant>>

\* Its SKU may be taken.
AddVariant(e) ==
    /\ editor[e].op = "addVariant"
    /\ \/ UNCHANGED variant
       \/ \E x \in Variants :
             /\ variant[x] = "none"
             /\ variant' = [variant EXCEPT ![x] = editor[e].product]
    /\ Finish(e)
    /\ UNCHANGED <<vertical, store, category, product>>

\* The product keeps the flag.
RemoveVariant(x) ==
    /\ variant[x] # "none" /\ Live(variant[x])
    /\ variant' = [variant EXCEPT ![x] = "none"]
    /\ UNCHANGED <<vertical, store, category, product, editor>>

-----------------------------------------------------------------------------
(* Properties *)

\* Removing a business type destroys what vendors had been deleted and no other,
\* although one may be created between the count and the removal (remove).
LiveStoresStay ==
    [][\A v \in Stores : store[v] = "LIVE" => store'[v] \in {"LIVE", "DELETED"}]_catalogVars

UpdatesOf(p) == {e \in Editors : editor[e].op = "updateProduct" /\ editor[e].product = p}

\* Only an update that had begun before can list a product again that has been
\* removed, and that carts may still have (update, remove, validateForCheckout).
RemovedStaysHidden ==
    [][\A p \in Products :
          product[p].state = "REMOVED" /\ ~product[p].active /\ UpdatesOf(p) = {}
          => ~product'[p].active /\ UpdatesOf(p)' = {}]_catalogVars

CatalogKept == LiveStoresStay /\ RemovedStaysHidden
=============================================================================
