-------------------------------- MODULE Stock --------------------------------
(***************************************************************************)
(* The stock of one product: a row per outlet and batch                    *)
(* (inventory_stocks), the ledger of stock entries, and the documents that *)
(* move them: invoices, purchase bills, entries by hand, adjustments and   *)
(* reservations.                                                           *)
(* (controllers/inventory.go, with the stock half of invoice.go,           *)
(* invoice_features.go, purchase.go and invoice_stock_check.go)            *)
(*                                                                         *)
(* A handler writes its ledger entries and then updates each row in two    *)
(* statements, a read and a save: req[r].todo holds the updates it still   *)
(* has to make and req[r].got the row it has read.  What runs inside a     *)
(* transaction is one step.  Average costs and dates are left out.         *)
(***************************************************************************)
EXTENDS Integers, Sequences, FiniteSets, FiniteSetsExt, SequencesExt

CONSTANTS
    Requests,       \* concurrent requests
    Outlets,        \* warehouses
    DefaultOutlet,  \* the one documents use when they name none
    Batches,        \* batch numbers 1, 2, ... in the order they expire
    Batching,       \* whether the product has batches
    Invoices, Bills,
    None,           \* no document
    Quantities,     \* quantities of a line
    Targets,        \* quantities of a "set" row of a bulk update
    Ops,            \* handlers in use
    Signed,         \* whether clients sign quantities as the ledger does
    DraftPatches,   \* whether clients change a draft's status from the list page
    Refusable,      \* statuses of an invoice whose update or deletion may fail half-way
    MaxEntries      \* bound: ledger entries kept at any time

ASSUME StockAssumption ==
    /\ DefaultOutlet \in Outlets
    /\ Batches \subseteq Nat \ {0}
    /\ Quantities \subseteq Nat \ {0}
    /\ None \notin Invoices \cup Bills /\ Invoices \cap Bills = {}
    /\ MaxEntries \in Nat \ {0}

VARIABLES
    stock,      \* inventory_stocks: the rows there are, by outlet and batch
    entries,    \* stock_entries
    invoices,   \* status and line of each invoice
    bills,      \* status, line and stock status of each purchase bill
    req         \* what each client has under way

tables == << stock, entries, invoices, bills >>
vars   == << stock, entries, invoices, bills, req >>

Unbatched == 0
Keys      == Outlets \X (Batches \cup {Unbatched})
NoRow     == [qty |-> 0, reserved |-> 0, available |-> 0, fresh |-> TRUE]
NotRead   == [fresh |-> "not read"]
Idle      == [op |-> "idle", todo |-> << >>]
Unused    == [doc |-> "unused"]
Abs2(n)   == IF n < 0 THEN -n ELSE n

Sum(S, m(_)) == SumFunctionOnSet([x \in S |-> m(x)], S)

Entry(kind, key, qty, status, ref) ==
    [id |-> 1, kind |-> kind, key |-> key, qty |-> qty, status |-> status, ref |-> ref]

\* a bill that an earlier version saved, whose entry waits for approval
Init ==
    /\ stock = << >>
    /\ invoices = [i \in Invoices |-> Unused]
    /\ req = [r \in Requests |-> Idle]
    /\ \E old \in {b \in Bills : "approve" \in Ops} \cup {None} :
          /\ entries = IF old = None THEN {}
                       ELSE {Entry("purchase", << DefaultOutlet, Unbatched >>, 1, "pending", old)}
          /\ bills = [b \in Bills |->
                        IF b = old THEN [doc |-> "live", st |-> "unpaid", stock |-> "pending"] ELSE Unused]

-----------------------------------------------------------------------------
(* Rows and entries *)

Move(key, kind, qty) == [key |-> key, kind |-> kind, qty |-> qty]

\* what an update of a kind does to the quantity (updateInventoryStock)
Effect(kind, qty) ==
    IF kind \in {"purchase", "opening", "adjustment", "return"} THEN qty
    ELSE IF kind \in {"sale", "transfer"} THEN -Abs2(qty)
    ELSE 0

RowOf(s, key) == IF key \in DOMAIN s THEN s[key] ELSE NoRow

Updated(row, move) ==
    LET qty == row.qty + Effect(move.kind, move.qty)
    IN  [qty |-> qty, reserved |-> row.reserved, available |-> qty - row.reserved, fresh |-> FALSE]

\* the save of updateInventoryStock: a second row for the same key is refused
\* by the unique index, and the error only logged
Saved(s, key, got, row) ==
    IF got.fresh /\ key \in DOMAIN s THEN s
    ELSE [k \in DOMAIN s \cup {key} |-> IF k = key THEN row ELSE s[k]]

\* updates made inside a transaction
Applied(s, moves) ==
    LET Step(t, m) == Saved(t, m.key, RowOf(t, m.key), Updated(RowOf(t, m.key), m))
    IN  FoldLeft(Step, s, moves)

Approved(e) == e.status = "approved"
EntriesOf(ref) == {e \in entries : e.ref = ref}
InOrder(S) == CHOOSE s \in [1 .. Cardinality(S) -> S] : \A i, j \in DOMAIN s : i < j => s[i].id < s[j].id

\* undoing entries: an adjustment by what each one recorded
Undone(S) == LET Undo(e) == Move(e.key, "adjustment", -e.qty)
                 done    == InOrder({e \in S : Approved(e)})
             IN  [i \in DOMAIN done |-> Undo(done[i])]

FreeIds == (1 .. MaxEntries) \ ({e.id : e \in entries} \cup
              {req[r].seen.id : r \in {q \in Requests : req[q].op \in {"edit", "approve", "reject"}}})
New(e) == [e EXCEPT !.id = Min(FreeIds)]

-----------------------------------------------------------------------------
(* One update of one row *)

Go(r, rec) == req' = [req EXCEPT ![r] = rec]
End(r)     == req' = [req EXCEPT ![r] = Idle]

\* the rest of a handler that has nothing to do after its updates
Rest(moves) == IF moves = << >> THEN Idle ELSE [op |-> "finish", todo |-> moves, got |-> NotRead]

ReadRow(r) ==
    /\ req[r].todo # << >> /\ req[r].got = NotRead
    /\ req' = [req EXCEPT ![r].got = RowOf(stock, Head(req[r].todo).key)]
    /\ UNCHANGED tables

SaveRow(r) ==
    /\ req[r].todo # << >> /\ req[r].got # NotRead
    /\ LET move == Head(req[r].todo)
       IN  stock' = Saved(stock, move.key, req[r].got, Updated(req[r].got, move))
    /\ LET x == req[r]
       IN  req' = [req EXCEPT ![r] = IF Tail(x.todo) = << >> /\ x.op \in {"finish", "sold"} THEN Idle
                                     ELSE [x EXCEPT !.todo = Tail(@), !.got = NotRead]]
    /\ UNCHANGED << entries, invoices, bills >>

At(r, op)    == req[r].op = op /\ req[r].todo = << >>
Start(r, op) == op \in Ops /\ req[r] = Idle

-----------------------------------------------------------------------------
(* Entries by hand, opening stock, adjustments and bulk updates *)

\* CreateStockEntry, AdjustStock, and the opening entry of CreateProduct
CreateStockEntry(r, kind, key, qty) ==
    /\ Start(r, "create_entry")
    /\ FreeIds # {}
    /\ Signed => (qty < 0) = (kind \in {"sale", "transfer"}) \/ kind = "adjustment"
    /\ entries' = entries \cup {New(Entry(kind, key, qty, "approved", None))}
    /\ req' = [req EXCEPT ![r] = Rest(<< Move(key, kind, qty) >>)]
    /\ UNCHANGED << stock, invoices, bills >>

\* a "set" row of a bulk update (processBulkStockRow): reads the quantity, ...
ReadBulkRow(r, key, target) ==
    /\ Start(r, "bulk")
    /\ Go(r, [op |-> "bulk", key |-> key, adj |-> target - RowOf(stock, key).qty, todo |-> << >>, got |-> NotRead])
    /\ UNCHANGED tables

\* ... and adjusts by the difference
AdjustBulkRow(r) ==
    LET key == req[r].key  adj == req[r].adj IN
    /\ At(r, "bulk")
    /\ IF adj = 0 THEN entries' = entries /\ End(r)
       ELSE /\ FreeIds # {}
            /\ entries' = entries \cup {New(Entry("adjustment", key, adj, "approved", None))}
            /\ req' = [req EXCEPT ![r] = Rest(<< Move(key, "adjustment", adj) >>)]
    /\ UNCHANGED << stock, invoices, bills >>

\* UpdateStockEntry, ApproveStockEntry, RejectStockEntry: the entry is read
LoadEntry(r, op, e) ==
    /\ Start(r, op)
    /\ op \in {"approve", "reject"} => e.status = "pending"
    /\ op = "edit" /\ Signed => e.kind \notin {"reservation", "release"}
    /\ Go(r, [op |-> op, seen |-> e, todo |-> << >>, got |-> NotRead])
    /\ UNCHANGED tables

Put_Inserts(e) == entries \cup {e}

\* the row of an entry is updated where it is still there
Put(e) == {x \in entries : x.id # e.id} \cup (IF \E x \in entries : x.id = e.id THEN {e} ELSE {})

EditMoves_NewOnly(old, new) == << Move(new.key, "adjustment", new.qty) >>

\* the old quantity is put back and the new one taken, where it counts
EditMoves(old, new) ==
    IF ~Approved(old) THEN << >>
    ELSE << Move(old.key, "adjustment", -old.qty), Move(new.key, "adjustment", new.qty) >>

UpdateStockEntry(r, qty, batch) ==
    LET old == req[r].seen
        new == [old EXCEPT !.qty = qty, !.key = << old.key[1], IF batch = Unbatched THEN old.key[2] ELSE batch >>]
    IN
    /\ At(r, "edit")
    /\ Signed => (qty < 0) = (old.qty < 0)
    /\ entries' = Put(new)
    /\ req' = [req EXCEPT ![r] = Rest(EditMoves(old, new))]
    /\ UNCHANGED << stock, invoices, bills >>

-----------------------------------------------------------------------------
(* Approval of pending entries *)

\* stock status of a bill, from the entries that refer to it
StatusOf(S) ==
    LET some == {e.status : e \in S}
    IN  IF some = {} THEN "none" ELSE IF Cardinality(some) > 1 THEN "partial" ELSE CHOOSE st \in some : TRUE

Synced_Skipped(B, b, S) == B

\* syncPurchaseBillStockStatus
Synced(B, b, S) ==
    IF b \in Bills /\ B[b].doc = "live" THEN [B EXCEPT ![b].stock = StatusOf(S)] ELSE B

ApproveStockEntry(r) ==
    LET e == req[r].seen IN
    /\ At(r, "approve")
    /\ entries' = Put([e EXCEPT !.status = "approved"])
    /\ Go(r, [op |-> "sync", ref |-> e.ref, todo |-> << Move(e.key, e.kind, e.qty) >>, got |-> NotRead])
    /\ UNCHANGED << stock, invoices, bills >>

RejectStockEntry(r) ==
    LET e == req[r].seen IN
    /\ At(r, "reject")
    /\ entries' = Put([e EXCEPT !.status = "rejected"])
    /\ Go(r, [op |-> "sync", ref |-> e.ref, todo |-> << >>, got |-> NotRead])
    /\ UNCHANGED << stock, invoices, bills >>

\* ApproveAllPendingStockEntries: one after the other, then their bills
LoadPending(r) ==
    /\ Start(r, "approve")
    /\ Go(r, [op |-> "approve_all", list |-> {e \in entries : e.status = "pending"}, refs |-> {},
              todo |-> << >>, got |-> NotRead])
    /\ UNCHANGED tables

ApproveNext(r) ==
    LET e == CHOOSE x \in req[r].list : \A y \in req[r].list : x.id <= y.id IN
    /\ At(r, "approve_all") /\ req[r].list # {}
    /\ entries' = Put([e EXCEPT !.status = "approved"])
    /\ Go(r, [op |-> "approve_all", list |-> req[r].list \ {e}, refs |-> req[r].refs \cup {e.ref},
              todo |-> << Move(e.key, e.kind, e.qty) >>, got |-> NotRead])
    /\ UNCHANGED << stock, invoices, bills >>

SyncAll(r) ==
    /\ At(r, "approve_all") /\ req[r].list = {}
    /\ bills' = [b \in Bills |-> IF b \in req[r].refs THEN Synced(bills, b, EntriesOf(b))[b] ELSE bills[b]]
    /\ End(r)
    /\ UNCHANGED << stock, entries, invoices >>

Sync(r) ==
    /\ At(r, "sync")
    /\ bills' = Synced(bills, req[r].ref, EntriesOf(req[r].ref))
    /\ End(r)
    /\ UNCHANGED << stock, entries, invoices >>

-----------------------------------------------------------------------------
(* Reservations *)

\* the row a request without a batch gets: of the batch to expire first that
\* covers the quantity, else of the first one (pickFEFOBatch)
Fefo(outlet, qty) ==
    LET there  == {b \in Batches \cup {Unbatched} :
                      << outlet, b >> \in DOMAIN stock /\ stock[<< outlet, b >>].available > 0}
        enough == {b \in there : stock[<< outlet, b >>].available >= qty}
        First(S) == IF S \ {Unbatched} # {} THEN Min(S \ {Unbatched}) ELSE Unbatched
    IN  IF enough # {} THEN {<< outlet, First(enough) >>}
        ELSE IF there # {} THEN {<< outlet, First(there) >>} ELSE {}

\* rows of an outlet, largest first by some measure
Largest(S, m(_)) == {k \in S : \A l \in S : m(stock[l]) <= m(stock[k])}
Available(row) == row.available
ReservedQty(row) == row.reserved

ReservableRows(outlet, batch, qty) ==
    LET rows == {k \in DOMAIN stock : k[1] = outlet}
    IN  IF batch # Unbatched THEN {<< outlet, batch >>} \cap DOMAIN stock
        ELSE IF Batching THEN Fefo(outlet, qty)
        ELSE IF << outlet, Unbatched >> \in rows THEN {<< outlet, Unbatched >>}
        ELSE Largest(rows, Available)

ReleasableRows(outlet, batch) ==
    IF batch # Unbatched THEN {<< outlet, batch >>} \cap DOMAIN stock
    ELSE Largest({k \in DOMAIN stock : k[1] = outlet /\ stock[k].reserved > 0}, ReservedQty)

\* ReserveStock and ReleaseStock read a row and refuse what it cannot give
LoadReservation(r, op, outlet, batch, qty) ==
    \E key \in IF op = "reserve" THEN ReservableRows(outlet, batch, qty) ELSE ReleasableRows(outlet, batch) :
        /\ Start(r, op)
        /\ qty <= IF op = "reserve" THEN stock[key].available ELSE stock[key].reserved
        /\ Go(r, [op |-> op, key |-> key, qty |-> qty, seen |-> stock[key], todo |-> << >>, got |-> NotRead])
        /\ UNCHANGED tables

Reserved_AvailableOnly(row, delta) ==
    [row EXCEPT !.available = @ - delta]

Reserved(row, delta) ==
    [qty |-> row.qty, reserved |-> row.reserved + delta, available |-> row.qty - (row.reserved + delta),
     fresh |-> FALSE]

\* the whole row is saved, then the entry; it records no batch
ReserveStock(r) ==
    /\ At(r, "reserve")
    /\ FreeIds # {}
    /\ stock' = [stock EXCEPT ![req[r].key] = Reserved(req[r].seen, req[r].qty)]
    /\ entries' = entries \cup
          {New(Entry("reservation", << req[r].key[1], Unbatched >>, -req[r].qty, "approved", None))}
    /\ End(r)
    /\ UNCHANGED << invoices, bills >>

ReleaseStock(r) ==
    /\ At(r, "release")
    /\ FreeIds # {}
    /\ stock' = [stock EXCEPT ![req[r].key] = Reserved(req[r].seen, -req[r].qty)]
    /\ entries' = entries \cup {New(Entry("release", req[r].key, req[r].qty, "approved", None))}
    /\ End(r)
    /\ UNCHANGED << invoices, bills >>

-----------------------------------------------------------------------------
(* Sales *)

Counts_Drafts(i) == i.doc = "live" /\ i.st # "cancelled"

\* whether an invoice takes its goods out of stock
Counts(i)  == i.doc = "live" /\ i.st = "sent"
Sold(S)    == LET Qty(e) == -e.qty IN Sum(S, Qty)
OnHand(keys) == Sum(keys, LAMBDA k : stock[k].available)

Warned_ForgetsOwn(i, qty, batch) ==
    LET own == {}
        Short(keys, S) == OnHand(keys) + Sold(S) < qty
    IN  \/ Short(DOMAIN stock, own)
        \/ /\ batch # Unbatched
           /\ Short({k \in DOMAIN stock : k[2] = batch}, {e \in own : e.key[2] = batch})

\* CheckInvoiceStock: what the sale form asks before it saves; an invoice's
\* own sales are counted as back on hand
Warned(i, qty, batch) ==
    LET own == {e \in EntriesOf(i) : e.kind = "sale" /\ Approved(e)}
        Short(keys, S) == OnHand(keys) + Sold(S) < qty
    IN  \/ Short(DOMAIN stock, own)
        \/ /\ batch # Unbatched
           /\ Short({k \in DOMAIN stock : k[2] = batch}, {e \in own : e.key[2] = batch})

Check(i, qty, batch) == IF Warned(i, qty, batch) THEN "warned" ELSE "enough"

\* resolveSaleWarehouseID: the outlet with most to sell, else one that has a
\* row, else the default
SaleOutlets ==
    LET selling == {k \in DOMAIN stock : stock[k].available > 0}
    IN  IF selling # {} THEN {k[1] : k \in Largest(selling, Available)}
        ELSE IF DOMAIN stock # {} THEN {k[1] : k \in DOMAIN stock} ELSE {DefaultOutlet}

\* the row a line is taken from
SaleKeys(qty, batch) ==
    LET sellable == {k \in DOMAIN stock : k[2] = batch /\ stock[k].available > 0}
        Picked(o) == IF Batching /\ batch = Unbatched /\ Fefo(o, qty) # {} THEN Fefo(o, qty)
                     ELSE {<< o, batch >>}
    IN  IF batch # Unbatched /\ sellable # {} THEN Largest(sellable, Available)
        ELSE UNION {Picked(o) : o \in SaleOutlets}

\* applyInvoiceSaleStock
Sell(r) ==
    LET i == req[r].doc  line == invoices[i] IN
    /\ At(r, "sell")
    /\ IF ~Counts(line)
       THEN End(r) /\ UNCHANGED << entries, invoices >>
       ELSE /\ FreeIds # {}
            /\ \E key \in SaleKeys(line.qty, line.batch) :
                  /\ entries' = entries \cup {New(Entry("sale", key, -line.qty, "approved", i))}
                  /\ invoices' = [invoices EXCEPT ![i].batch = key[2]]
                  /\ Go(r, [op |-> "sold", todo |-> << Move(key, "sale", line.qty) >>,
                            check |-> req[r].check, batch |-> line.batch, got |-> NotRead])
    /\ UNCHANGED << stock, bills >>

Invoice(st, qty, batch) == [doc |-> "live", st |-> st, qty |-> qty, batch |-> batch]

CreateInvoice(r, i, st, qty, batch) ==
    /\ Start(r, "invoice")
    /\ invoices[i].doc = "unused" /\ st # "cancelled"
    /\ invoices' = [invoices EXCEPT ![i] = Invoice(st, qty, batch)]
    /\ Go(r, [op |-> "sell", doc |-> i, check |-> Check(i, qty, batch), todo |-> << >>, got |-> NotRead])
    /\ UNCHANGED << stock, entries, bills >>

\* UpdateInvoice puts the old sale back and drops its entries
LoadInvoice(r, i, st, qty, batch) ==
    /\ Start(r, "update_invoice")
    /\ invoices[i].doc = "live" /\ invoices[i].st # "cancelled"
    /\ Go(r, [op |-> "rewrite", doc |-> i, new |-> Invoice(st, qty, batch),
              check |-> Check(i, qty, batch),
              todo |-> Undone(EntriesOf(i)), got |-> NotRead])
    /\ UNCHANGED tables

AfterDrop(r) == IF req[r].op = "unsell" THEN End(r) ELSE req' = [req EXCEPT ![r].op = "save"]

DropEntries_Kept(r) ==
    /\ At(r, "rewrite") \/ At(r, "unsell")
    /\ AfterDrop(r)
    /\ UNCHANGED << stock, entries, invoices, bills >>

\* the second half of reverseInvoiceSaleStock
DropEntries(r) ==
    /\ At(r, "rewrite") \/ At(r, "unsell")
    /\ entries' = entries \ EntriesOf(req[r].doc)
    /\ AfterDrop(r)
    /\ UNCHANGED << stock, invoices, bills >>

\* then saves what was asked for, and sells it
SaveInvoice(r) ==
    /\ At(r, "save")
    /\ invoices' = [invoices EXCEPT ![req[r].doc] = req[r].new]
    /\ req' = [req EXCEPT ![r].op = "sell"]
    /\ UNCHANGED << stock, entries, bills >>

\* UpdateInvoiceStatus: a cancelled invoice's goods come back, and are sold
\* again when it is reinstated
PatchStatus(r, i, st) ==
    LET old == invoices[i].st IN
    /\ Start(r, "patch")
    /\ invoices[i].doc = "live" /\ st # old
    /\ (old = "draft" \/ st = "draft") => DraftPatches
    /\ invoices' = [invoices EXCEPT ![i].st = st]
    /\ IF st = "cancelled"
       THEN Go(r, [op |-> "unsell", doc |-> i, todo |-> Undone(EntriesOf(i)), got |-> NotRead])
       ELSE IF old = "cancelled" THEN Go(r, [op |-> "sell", doc |-> i, check |-> "none", todo |-> << >>, got |-> NotRead])
       ELSE UNCHANGED req
    /\ UNCHANGED << stock, entries, bills >>

\* DeleteInvoice: quantities first, then a transaction
LoadDelete(r, i) ==
    /\ Start(r, "delete_invoice")
    /\ invoices[i].doc = "live"
    /\ Go(r, [op |-> "erase", doc |-> i, todo |-> Undone(EntriesOf(i)), got |-> NotRead])
    /\ UNCHANGED tables

DeleteInvoice(r) ==
    /\ At(r, "erase")
    /\ entries' = entries \ EntriesOf(req[r].doc)
    /\ invoices' = [invoices EXCEPT ![req[r].doc] = [doc |-> "deleted"]]
    /\ End(r)
    /\ UNCHANGED << stock, bills >>

\* a check that refuses an update after the goods were put back, or a
\* deletion whose transaction fails
Refuse(r) ==
    /\ At(r, "save") \/ At(r, "erase")
    /\ invoices[req[r].doc].doc = "live" /\ invoices[req[r].doc].st \in Refusable
    /\ End(r)
    /\ UNCHANGED tables

-----------------------------------------------------------------------------
(* Purchases, in the transaction that saves the bill *)

Incoming(b, st, qty, batch) ==
    IF st = "draft" THEN {} ELSE {New(Entry("purchase", << DefaultOutlet, batch >>, qty, "approved", b))}

Received(S) == LET Add(e) == Move(e.key, "purchase", e.qty)
                   new    == InOrder(S)
               IN  [i \in DOMAIN new |-> Add(new[i])]

Removed_AllUndone(b) ==
    LET all == InOrder(EntriesOf(b))
    IN  [i \in DOMAIN all |-> Move(all[i].key, "adjustment", -all[i].qty)]

\* removePurchaseStockEntriesTx
Removed(b) == Undone(EntriesOf(b))

CreateBill(r, b, st, qty, batch) ==
    /\ Start(r, "bills") /\ FreeIds # {}
    /\ bills[b].doc = "unused"
    /\ LET new == Incoming(b, st, qty, batch) IN
       /\ entries' = entries \cup new
       /\ stock' = Applied(stock, Received(new))
       /\ bills' = [bills EXCEPT ![b] = [doc |-> "live", st |-> st, stock |-> StatusOf(new)]]
    /\ UNCHANGED << invoices, req >>

UpdateBill(r, b, st, qty, batch) ==
    /\ Start(r, "bills") /\ FreeIds # {}
    /\ bills[b].doc = "live"
    /\ LET new == Incoming(b, st, qty, batch) IN
       /\ entries' = (entries \ EntriesOf(b)) \cup new
       /\ stock' = Applied(stock, Removed(b) \o Received(new))
       /\ bills' = [bills EXCEPT ![b] = [doc |-> "live", st |-> st, stock |-> StatusOf(new)]]
    /\ UNCHANGED << invoices, req >>

DeleteBill(r, b) ==
    /\ Start(r, "bills")
    /\ bills[b].doc = "live"
    /\ entries' = entries \ EntriesOf(b)
    /\ stock' = Applied(stock, Removed(b))
    /\ bills' = [bills EXCEPT ![b] = [doc |-> "deleted"]]
    /\ UNCHANGED << invoices, req >>

-----------------------------------------------------------------------------
Kinds    == {"purchase", "sale", "adjustment", "transfer", "opening"}
Signs    == Quantities \cup {-q : q \in Quantities}
Statuses == {"draft", "sent", "cancelled"}
Lots     == IF Batching THEN Batches \cup {Unbatched} ELSE {Unbatched}

EntrySteps(r) ==
    \/ \E kind \in Kinds, o \in Outlets, b \in Lots, q \in Signs : CreateStockEntry(r, kind, << o, b >>, q)
    \/ \E o \in Outlets, b \in Lots, q \in Targets : ReadBulkRow(r, << o, b >>, q)
    \/ AdjustBulkRow(r)
    \/ \E e \in entries, op \in {"edit", "approve", "reject"} : LoadEntry(r, op, e)
    \/ \E q \in Signs, b \in Lots : UpdateStockEntry(r, q, b)
    \/ ApproveStockEntry(r)
    \/ RejectStockEntry(r)
    \/ Sync(r)
    \/ LoadPending(r)
    \/ ApproveNext(r)
    \/ SyncAll(r)
    \/ \E o \in Outlets, b \in Lots, q \in Quantities, op \in {"reserve", "release"} :
          LoadReservation(r, op, o, b, q)
    \/ ReserveStock(r)
    \/ ReleaseStock(r)

SaleSteps(r) ==
    \/ \E i \in Invoices, st \in Statuses, q \in Quantities, b \in Lots :
          CreateInvoice(r, i, st, q, b) \/ LoadInvoice(r, i, st, q, b)
    \/ \E i \in Invoices, st \in Statuses : PatchStatus(r, i, st)
    \/ \E i \in Invoices : LoadDelete(r, i)
    \/ DropEntries(r)
    \/ SaveInvoice(r)
    \/ Sell(r)
    \/ DeleteInvoice(r)
    \/ Refuse(r)

BillSteps(r) ==
    \E b \in Bills :
       \/ \E st \in {"draft", "unpaid"}, q \in Quantities, l \in Lots : CreateBill(r, b, st, q, l) \/ UpdateBill(r, b, st, q, l)
       \/ DeleteBill(r, b)

Next ==
    \E r \in Requests :
        ReadRow(r) \/ SaveRow(r) \/ EntrySteps(r) \/ SaleSteps(r) \/ BillSteps(r)

Spec == Init /\ [][Next]_vars

-----------------------------------------------------------------------------
(* Properties *)

Quiet == \A r \in Requests : req[r] = Idle

EntryType ==
    [id : 1 .. MaxEntries, kind : Kinds \cup {"reservation", "release"}, key : Keys, qty : Int,
     status : {"pending", "approved", "rejected"}, ref : Invoices \cup Bills \cup {None}]
RowType == [qty : Int, reserved : Int, available : Int, fresh : {FALSE}]
InvoiceType == [doc : {"live"}, st : Statuses, qty : Quantities, batch : Batches \cup {Unbatched}]
BillType == [doc : {"live"}, st : {"draft", "unpaid"},
             stock : {"none", "pending", "partial", "approved", "rejected"}]
Gone == {Unused, [doc |-> "deleted"]}

\* Every table holds records of its own shape, and ids are unique.
TypeOK ==
    /\ DOMAIN stock \subseteq Keys /\ \A k \in DOMAIN stock : stock[k] \in RowType
    /\ entries \subseteq EntryType /\ \A e, f \in entries : e.id = f.id => e = f
    /\ invoices \in [Invoices -> InvoiceType \cup Gone]
    /\ bills \in [Bills -> BillType \cup Gone]

\* While no request is under way every row holds what the approved entries of
\* its outlet and batch add up to, and there is nothing where there is no row:
\* edits, cancellations, approvals and deletions undo exactly what was done.
LedgerMatches ==
    Quiet => \A k \in Keys :
        LET Eff(e) == Effect(e.kind, e.qty)
        IN  RowOf(stock, k).qty = Sum({e \in entries : e.key = k /\ Approved(e)}, Eff)

\* What an outlet holds in reserve is what its reservations and releases add up
\* to, although a reservation does not record its batch; and what is available
\* is, at any time, what is neither sold nor reserved.
ReservedMatches ==
    /\ \A k \in DOMAIN stock : stock[k].available = stock[k].qty - stock[k].reserved
    /\ Quiet => \A o \in Outlets :
          LET Out(e) == -e.qty
          IN  Sum({k \in DOMAIN stock : k[1] = o}, LAMBDA k : stock[k].reserved)
                = Sum({e \in entries : e.kind \in {"reservation", "release"} /\ e.key[1] = o}, Out)

\* While no request is under way an invoice that counts has exactly one sale
\* entry, however often it was edited, cancelled and reinstated, and a draft,
\* a cancelled or a deleted one has none.
InvoiceDeducted ==
    Quiet => \A i \in Invoices :
        /\ Cardinality(EntriesOf(i)) = IF invoices[i].doc = "live" /\ invoices[i].st = "sent" THEN 1 ELSE 0
        /\ \A e \in EntriesOf(i) : e.kind = "sale" /\ Approved(e)

\* The stock status of a bill says what became of its entries.
BillStatusFollows ==
    Quiet => \A b \in Bills : bills[b].doc = "live" => bills[b].stock = StatusOf(EntriesOf(b))

\* CheckInvoiceStock warns exactly when the sale it was asked about will leave
\* less than nothing of the product, or of the batch it names, whichever outlet
\* and batch the sale takes the goods from.
CheckIsExact ==
    [][\A r \in Requests :
          SaveRow(r) /\ req[r].op = "sold" /\ req[r].check # "none" =>
             LET Left(keys) == Sum(keys, LAMBDA k : stock'[k].available)
             IN  (req[r].check = "enough") =
                    /\ Left(DOMAIN stock') >= 0
                    /\ req[r].batch # Unbatched =>
                          Left({k \in DOMAIN stock' : k[2] = req[r].batch}) >= 0]_vars

\* The tables are whole, and the rows follow the ledger and the reservations.
RowsExact == TypeOK /\ LedgerMatches /\ ReservedMatches

\* Invoices and bills agree with the entries made for them.
DocumentsFollow == InvoiceDeducted /\ BillStatusFollows

=============================================================================
