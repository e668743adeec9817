------------------------------ MODULE Catalogue ------------------------------
(***************************************************************************)
(* Products: the numbers a scale knows them by (PLU), their stock keeping  *)
(* codes (SKU) and their pictures.                                         *)
(* (controllers/product.go, product_image.go, inventory.go, utils/plu.go,  *)
(* utils/sku.go)                                                           *)
(*                                                                         *)
(* A handler looks for numbers that are free, then stores the row; new     *)
(* items of a purchase bill become products in the bill's transaction,     *)
(* which other connections do not see into.  The SKU has a unique index,   *)
(* over deleted rows too; the PLU has none.  SKUs that are sent along are  *)
(* left out: the index alone decides on them.                              *)
(***************************************************************************)
EXTENDS Naturals, FiniteSets, FiniteSetsExt, Functions

CONSTANTS
    Clerks,             \* requests under way at a time
    Products, Pictures, \* rows; every picture is of one product
    Legacy,             \* products of a release that had no PLUs
    Names,
    Endings,            \* random numbers that follow a name in an SKU
    NewItems,           \* at most so many new items in one bill
    Deletes,            \* whether products are deleted
    Meanwhile           \* whether two requests under way look for free numbers

VARIABLES
    db,     \* the tables
    req     \* what each request has read

vars   == << db, req >>
Idle   == [op |-> "idle"]
Unused == [st |-> "unused"]
None   == 0                 \* no PLU
Plain  == 0                 \* the SKU that is the name and nothing else

Product(sku, plu) == [st |-> "live", sku |-> sku, plu |-> plu]

Init ==
    /\ \E name \in [Legacy -> Names] :
          /\ \A p, q \in Legacy : p # q => name[p] # name[q]
          /\ db = [products |-> [p \in Products |-> IF p \in Legacy THEN Product(<< name[p], Plain >>, None) ELSE Unused],
                   pictures |-> [i \in Pictures |-> Unused]]
    /\ req = [c \in Clerks |-> Idle]

Live(t) == {p \in Products : t.products[p].st = "live"}
PLUs    == 1 .. Cardinality(Products)
Index(t) == {t.products[p].sku : p \in {q \in Products : t.products[q] # Unused}}

Begin(c, r) ==
    /\ req[c] = Idle /\ (Meanwhile \/ \A e \in Clerks : req[e] = Idle)
    /\ req' = [req EXCEPT ![c] = r] /\ UNCHANGED db
Go(c, r, to) == req' = [req EXCEPT ![c] = r] /\ db' = to
Write(to)    == (Meanwhile \/ \A c \in Clerks : req[c] = Idle) /\ db' = to /\ UNCHANGED req

-----------------------------------------------------------------------------
(* Free numbers *)

\* usedNumericPLUs
Used(t, but) == {t.products[p].plu : p \in Live(t) \ but}

NextPLU_AfterAll(t) == Cardinality(Live(t)) + 1

NextPLU(t) == CHOOSE n \in 1 .. Cardinality(Products) + 1 :
                 n \notin Used(t, {}) /\ \A m \in 1 .. n - 1 : m \in Used(t, {})

\* skuExists does not see deleted rows
Taken(t, sku) == \E p \in Live(t) : t.products[p].sku = sku

\* GenerateUniqueProductSKU
Generated(t, name) ==
    IF ~Taken(t, << name, Plain >>) THEN {<< name, Plain >>}
    ELSE {<< name, s >> : s \in {x \in Endings : ~Taken(t, << name, x >>)}}

-----------------------------------------------------------------------------
(* CreateProduct, and a row of ImportProductsCSV and ImportProductsExcel;   *)
(* a PLU that was sent must be free, None asks for the next one             *)

PLUFor(plu, but) == IF plu = None THEN {NextPLU(db)} ELSE {plu} \ Used(db, but)

LoadProduct(c, p, name, plu) ==
    /\ db.products[p] = Unused
    /\ \E n \in PLUFor(plu, {}), sku \in Generated(db, name) :
          Begin(c, [op |-> "create", p |-> p, sku |-> sku, plu |-> n])

\* Refused where the index has the SKU
CreateProduct(c) ==
    LET r == req[c] IN
    /\ r.op = "create"
    /\ Go(c, Idle, IF r.sku \in Index(db) THEN db ELSE [db EXCEPT !.products[r.p] = Product(r.sku, r.plu)])

\* A product keeps its PLU unless another is sent; without one it gets the next
LoadUpdate(c, p, plu) ==
    /\ p \in Live(db)
    /\ \E n \in PLUFor(IF plu = None THEN db.products[p].plu ELSE plu, {p}) :
          Begin(c, [op |-> "update", p |-> p, plu |-> n])

UpdateProduct(c) ==
    LET r == req[c] IN
    /\ r.op = "update"
    /\ Go(c, Idle, IF r.p \in Live(db) THEN [db EXCEPT !.products[r.p].plu = r.plu] ELSE db)

DeleteProduct(p) == Deletes /\ p \in Live(db) /\ Write([db EXCEPT !.products[p].st = "deleted"])

\* createPendingPurchaseStockEntriesTx, ensureProductForAdhocItem: the numbers are
\* looked for outside of the bill's transaction, which only sees to it that no SKU
\* comes twice in the bill
EnsureNewItems(S) ==
    /\ S # {} /\ Cardinality(S) <= NewItems /\ \A p \in S : db.products[p] = Unused
    /\ \E sku \in [S -> Names \X (Endings \cup {Plain})] :
          /\ \A p \in S : \E q \in S : sku[q][1] = sku[p][1] /\ sku[q] \in Generated(db, sku[q][1])
          /\ \A p, q \in S : p # q => sku[p] # sku[q]
          /\ Write(IF \E p \in S : sku[p] \in Index(db) THEN db
                   ELSE [db EXCEPT !.products = [p \in Products |->
                            IF p \in S THEN Product(sku[p], NextPLU(db)) ELSE @[p]]])

\* BackfillProductPLUs, when the server starts: the lowest free numbers, in the
\* order the rows were created
BackfillProductPLUs ==
    LET S    == {p \in Live(db) : db.products[p].plu = None}
        free == PLUs \ Used(db, {})
    IN  /\ S # {}
        /\ \E n \in Injection(S, free) :
              /\ \A m \in free, p \in S : m < n[p] => \E q \in S : n[q] = m
              /\ db' = [db EXCEPT !.products = [p \in Products |->
                           IF p \in S THEN [@[p] EXCEPT !.plu = n[p]] ELSE @[p]]]
        /\ req' = [c \in Clerks |-> Idle]

-----------------------------------------------------------------------------
(* Pictures of a product: at most one is the primary one *)

Shown == {i \in Pictures : db.pictures[i].st = "live"}

Others_Kept(i) == {}

Others(i) == Shown \ {i}

\* First the others lose the mark, then the picture is stored
LoadPicture(c, i, primary) ==
    /\ db.pictures[i].st \in {"unused", "live"} /\ req[c] = Idle
    /\ Meanwhile \/ \A e \in Clerks : req[e] = Idle
    /\ Go(c, [op |-> "picture", i |-> i, primary |-> primary, new |-> db.pictures[i] = Unused,
              order |-> Max({0} \cup {db.pictures[k].order : k \in Shown}) + 1],
          IF primary THEN [db EXCEPT !.pictures = [k \in Pictures |->
                              IF k \in Others(i) THEN [@[k] EXCEPT !.primary = FALSE] ELSE @[k]]]
          ELSE db)

\* CreateProductImage, UpdateProductImage
StorePicture(c) ==
    LET r == req[c] IN
    /\ r.op = "picture"
    /\ Go(c, Idle, IF r.new THEN [db EXCEPT !.pictures[r.i] = [st |-> "live", primary |-> r.primary, order |-> r.order]]
                   ELSE IF r.i \in Shown THEN [db EXCEPT !.pictures[r.i].primary = r.primary] ELSE db)

DeleteProductImage(i) == i \in Shown /\ Write([db EXCEPT !.pictures[i].st = "deleted"])

\* The process stops before the request's last statement
Die(c) == req[c] # Idle /\ Go(c, Idle, db)

-----------------------------------------------------------------------------
Next ==
    \/ \E c \in Clerks :
          \/ \E p \in Products, plu \in PLUs \cup {None} :
                LoadUpdate(c, p, plu) \/ \E name \in Names : LoadProduct(c, p, name, plu)
          \/ CreateProduct(c) \/ UpdateProduct(c)
          \/ \E i \in Pictures, b \in BOOLEAN : LoadPicture(c, i, b)
          \/ StorePicture(c) \/ Die(c)
    \/ \E p \in Products : DeleteProduct(p)
    \/ \E S \in SUBSET Products : EnsureNewItems(S)
    \/ BackfillProductPLUs
    \/ \E i \in Pictures : DeleteProductImage(i)

Spec == Init /\ [][Next]_vars

-----------------------------------------------------------------------------
(* Properties *)

\* With one request at a time and no bill with two new items, a scale's number
\* stands for one product, every SKU for one row, and one picture at most is the
\* primary one, whatever a request that died had done.
NumbersUnique ==
    /\ \A p, q \in Live(db) : p # q /\ db.products[p].plu # None => db.products[p].plu # db.products[q].plu
    /\ \A p, q \in Products : p # q /\ db.products[p] # Unused /\ db.products[q] # Unused =>
          db.products[p].sku # db.products[q].sku
    /\ Cardinality({i \in Shown : db.pictures[i].primary}) <= 1

\* "GenerateUniqueProductSKU returns a unique SKU derived from the product name"
\* (utils/sku.go:70): what is generated can be stored.
GeneratedIsFree == \A name \in Names : Generated(db, name) \cap Index(db) = {}

=============================================================================
