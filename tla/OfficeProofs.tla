---------------------------- MODULE OfficeProofs ----------------------------
(***************************************************************************)
(* With one request at a time about a document or about the warehouses,    *)
(* goods are entered once and received as they were sent, and warehouses   *)
(* keep one default and their codes; no two products share a PLU or a SKU; *)
(* accounts follow the ledger, and bank accounts the cash book: for any    *)
(* number of documents, warehouses, lines, products and accounts, wherever *)
(* the server dies, of the components and of MCOffice's composition.       *)
(***************************************************************************)
EXTENDS MCOffice, FoldTheorems, SequenceTheorems

\* One request at a time about a document, and a number of lines.
OneByOne == ~Meanwhile /\ Lines \in Nat

-----------------------------------------------------------------------------
(* Types *)

OrderRow     == {Unused} \cup [st : {"draft", "submitted", "deleted"},
                               no : {Cardinality(S) + 1 : S \in SUBSET Orders}]
TransferRow  == [st : {"unused", "draft", "submitted", "received"}, sent : 0 .. Lines, received : 0 .. Lines]
WarehouseRow == {Unused} \cup [st : {"live", "deleted"}, code : Codes, default : BOOLEAN]

Tables ==
    [orders     : [Orders -> OrderRow],
     receipts   : [Receipts -> {"unused", "draft", "submitted"}],
     entries    : [Receipts -> Nat],
     transfers  : [Transfers -> TransferRow],
     challans   : [Challans -> {"unused", "draft", "delivered", "cancelled", "deleted"}],
     warehouses : [Warehouses -> WarehouseRow],
     cut        : [Receipts -> Nat]]

Entering  == [op : {"receipt"}, doc : Receipts, left : 0 .. Lines]
Sending   == [op : {"send"}, doc : Transfers, left : 0 .. Lines]
Receiving == [op : {"receive"}, doc : Transfers, left : 0 .. Lines, seen : 0 .. Lines]
Storing   == [op : {"purge", "default", "store"}, doc : {"warehouses"}, w : Warehouses, code : Codes,
              default : BOOLEAN, new : BOOLEAN]

TypeOK == db \in Tables /\ req \in [Clerks -> {Idle} \cup Entering \cup Sending \cup Receiving \cup Storing]

\* What a request is, by its operation
LEMMA RequestKinds ==
    ASSUME TypeOK, NEW c \in Clerks
    PROVE  /\ On(c, "receipt") => req[c] \in Entering
           /\ On(c, "send") => req[c] \in Sending
           /\ On(c, "receive") => req[c] \in Receiving
           /\ req[c].op \in {"purge", "default", "store"} => req[c] \in Storing
           /\ req[c].op \in {"receipt", "send", "receive", "purge", "default", "store"} <=> req[c] # Idle
  BY DEF TypeOK, On, Idle, Entering, Sending, Receiving, Storing

LEMMA InitType == OneByOne /\ Init => TypeOK
  BY DEF OneByOne, Init, TypeOK, Tables, OrderRow, TransferRow, WarehouseRow

-----------------------------------------------------------------------------
(* Which tables and which requests a step changes *)

\* No two requests are about one document
Alone ==
    \A c, e \in Clerks : c # e /\ req[c] # Idle /\ req[e] # Idle => req[c].doc # req[e].doc

LEMMA PaperType ==
    ASSUME OneByOne, TypeOK,
           \/ \E o \in Orders : CreatePurchaseOrder(o) \/ SubmitPurchaseOrder(o) \/ DeletePurchaseOrder(o)
           \/ \E x \in Challans : CreateDeliveryChallan(x) \/ DeleteDeliveryChallan(x)
                  \/ \E st \in {"draft", "delivered", "cancelled"} : UpdateDeliveryChallan(x, st)
    PROVE  /\ TypeOK' /\ req' = req
           /\ db'.receipts = db.receipts /\ db'.entries = db.entries /\ db'.cut = db.cut
           /\ db'.transfers = db.transfers /\ db'.warehouses = db.warehouses
  <1>1. ASSUME NEW o \in Orders, CreatePurchaseOrder(o) \/ SubmitPurchaseOrder(o) \/ DeletePurchaseOrder(o)
        PROVE  \E row \in OrderRow : req' = req /\ db' = [db EXCEPT !.orders[o] = row]
    <2>1. CASE CreatePurchaseOrder(o) BY <2>1 DEF LiveOrders, OrderRow, CreatePurchaseOrder, Write
    <2>2. ASSUME NEW to \in {"submitted", "deleted"}, EndDraft(o, to)
          PROVE  \E row \in OrderRow : req' = req /\ db' = [db EXCEPT !.orders[o] = row]
      <3> DEFINE row == [db.orders[o] EXCEPT !.st = to]
      <3>1. db.orders[o] \in OrderRow /\ db.orders[o] # Unused BY <2>2 DEF TypeOK, Tables, EndDraft, Unused
      <3>2. row \in OrderRow BY <3>1 DEF OrderRow
      <3>3. req' = req /\ db' = [db EXCEPT !.orders[o] = row] BY <2>2 DEF EndDraft, Write
      <3> QED BY <3>2, <3>3
    <2> QED BY <1>1, <2>1, <2>2 DEF SubmitPurchaseOrder, DeletePurchaseOrder
  <1>2. ASSUME NEW o \in Orders, NEW row \in OrderRow, req' = req /\ db' = [db EXCEPT !.orders[o] = row]
        PROVE  /\ TypeOK' /\ req' = req
               /\ db'.receipts = db.receipts /\ db'.entries = db.entries /\ db'.cut = db.cut
               /\ db'.transfers = db.transfers /\ db'.warehouses = db.warehouses
    BY <1>2 DEF TypeOK, Tables
  <1>3. ASSUME NEW x \in Challans,
               CreateDeliveryChallan(x) \/ DeleteDeliveryChallan(x)
                  \/ \E st \in {"draft", "delivered", "cancelled"} : UpdateDeliveryChallan(x, st)
        PROVE  /\ TypeOK' /\ req' = req
               /\ db'.receipts = db.receipts /\ db'.entries = db.entries /\ db'.cut = db.cut
               /\ db'.transfers = db.transfers /\ db'.warehouses = db.warehouses
    BY <1>3 DEF CreateDeliveryChallan, DeleteDeliveryChallan, UpdateDeliveryChallan, Write, TypeOK, Tables
  <1> QED BY <1>1, <1>2, <1>3

\* A request that is loaded is about a document that no other is about
LEMMA LoadAlone ==
    ASSUME OneByOne, TypeOK, Alone, NEW c \in Clerks, NEW r, r # Idle, Load(c, r)
    PROVE  Alone' /\ req[c] = Idle /\ req'[c] = r /\ db' = db /\ \A e \in Clerks \ {c} : req'[e] = req[e]
  BY DEF OneByOne, TypeOK, Alone, Load, Free

\* A request that goes on stays with its document, or ends
LEMMA GoAlone ==
    ASSUME TypeOK, Alone, NEW c \in Clerks, NEW r, NEW to, req[c] # Idle, r = Idle \/ r.doc = req[c].doc, Go(c, r, to)
    PROVE  Alone' /\ req'[c] = r /\ db' = to /\ \A e \in Clerks \ {c} : req'[e] = req[e]
  BY DEF TypeOK, Alone, Go

-----------------------------------------------------------------------------
(* The invariant *)

\* Between submissions a receipt has at most the entries that deaths left; while
\* it is submitted, as many more as the request has made.
ReceiptsInv ==
    \A r \in Receipts :
        /\ db.receipts[r] = "submitted" =>
              db.entries[r] >= Lines /\ db.entries[r] <= Lines * db.cut[r] + Lines
        /\ db.receipts[r] # "submitted" /\ (\A c \in Clerks : On(c, "receipt") => req[c].doc # r) =>
              db.entries[r] <= Lines * db.cut[r]
        /\ \A c \in Clerks : On(c, "receipt") /\ req[c].doc = r =>
              /\ db.receipts[r] = "draft"
              /\ db.entries[r] + req[c].left >= Lines
              /\ db.entries[r] + req[c].left <= Lines * db.cut[r] + Lines

\* A request has been over as many lines as it has not left.
TransfersInv ==
    \A t \in Transfers :
        /\ db.transfers[t].st \in {"unused", "draft"} => db.transfers[t].received = 0
        /\ db.transfers[t].st \in {"submitted", "received"} => db.transfers[t].sent = Lines
        /\ db.transfers[t].st = "received" => db.transfers[t].received = Lines
        /\ \A c \in Clerks : req[c].op \in {"send", "receive"} /\ req[c].doc = t =>
              /\ On(c, "send") => db.transfers[t].st = "draft" /\ db.transfers[t].sent + req[c].left >= Lines
              /\ On(c, "receive") => /\ db.transfers[t].st = "submitted" /\ req[c].seen = Lines
                                     /\ db.transfers[t].received + req[c].left >= Lines

\* One default and one row for a code; what a request has done of it so far.
WarehousesInv ==
    /\ \A w, v \in Rows("live") : db.warehouses[w].default /\ db.warehouses[v].default => w = v
    /\ \A w, v \in Rows("live") \cup Rows("deleted") : db.warehouses[w].code = db.warehouses[v].code => w = v
    /\ \A c \in Clerks :
          /\ On(c, "purge") => Holds(req[c].code, "live") \subseteq {req[c].w}
          /\ On(c, "default") \/ On(c, "store") => FreeCode(req[c])
          /\ On(c, "store") /\ req[c].default => \A w \in Rows("live") \ {req[c].w} : ~db.warehouses[w].default

IInv == TypeOK /\ Alone /\ ReceiptsInv /\ TransfersInv /\ WarehousesInv

\* What does not touch the rows of a part, nor its requests, keeps its part
LEMMA ReceiptsKept ==
    ASSUME ReceiptsInv, db'.receipts = db.receipts, db'.entries = db.entries, db'.cut = db.cut,
           \A c \in Clerks : req[c].op = "receipt" \/ req'[c].op = "receipt" => req'[c] = req[c]
    PROVE  ReceiptsInv'
  BY DEF ReceiptsInv, On

LEMMA TransfersKept ==
    ASSUME TransfersInv, db'.transfers = db.transfers,
           \A c \in Clerks : req[c].op \in {"send", "receive"} \/ req'[c].op \in {"send", "receive"} => req'[c] = req[c]
    PROVE  TransfersInv'
  BY DEF TransfersInv, On

LEMMA WarehousesKept ==
    ASSUME WarehousesInv, db'.warehouses = db.warehouses,
           \A c \in Clerks : req[c].op \in {"purge", "default", "store"} \/ req'[c].op \in {"purge", "default", "store"}
                                => req'[c] = req[c]
    PROVE  WarehousesInv'
  BY DEF Rows, Holds, FreeCode, WarehousesInv, On

-----------------------------------------------------------------------------
(* Receipts *)

LEMMA ReceiptSteps ==
    ASSUME OneByOne, IInv,
           \/ \E r \in Receipts : CreatePurchaseReceipt(r) \/ \E c \in Clerks : LoadReceipt(c, r)
           \/ \E c \in Clerks : AddEntry(c) \/ SubmitPurchaseReceipt(c)
    PROVE  IInv'
  <1> USE DEF IInv
  <1>1. ASSUME NEW r \in Receipts, CreatePurchaseReceipt(r) PROVE IInv'
    <2>1. req' = req /\ db.receipts[r] = "unused" /\ db' = [db EXCEPT !.receipts[r] = "draft"]
      BY <1>1 DEF CreatePurchaseReceipt, Write
    <2>2. TypeOK' /\ Alone' BY <2>1 DEF TypeOK, Tables, Alone
    <2>3. /\ db'.entries = db.entries /\ db'.cut = db.cut
          /\ db'.transfers = db.transfers /\ db'.warehouses = db.warehouses
          /\ db'.receipts = [db.receipts EXCEPT ![r] = "draft"] /\ db.receipts \in [Receipts -> {"unused", "draft", "submitted"}]
      BY <2>1 DEF TypeOK, Tables
    <2>4. ReceiptsInv' BY <2>1, <2>3 DEF ReceiptsInv, On
    <2> QED BY <2>1, <2>2, <2>3, <2>4, TransfersKept, WarehousesKept
  <1>2. ASSUME NEW r \in Receipts, NEW c \in Clerks, LoadReceipt(c, r) PROVE IInv'
    <2> DEFINE q == [op |-> "receipt", doc |-> r, left |-> Lines]
    <2>1. q # Idle /\ Load(c, q) /\ db.receipts[r] = "draft" /\ q \in Entering
      BY <1>2 DEF LoadReceipt, Submittable, Idle, Entering, OneByOne
    <2>2. Alone' /\ req[c] = Idle /\ req'[c] = q /\ db' = db /\ \A e \in Clerks \ {c} : req'[e] = req[e]
      BY <2>1, LoadAlone
    <2>3. TypeOK' BY <2>1, <2>2 DEF TypeOK, Load
    <2>4. \A e \in Clerks : On(e, "receipt") => req[e].doc # r BY <2>1 DEF Load, Free, OneByOne, On, Idle
    <2>5. db.entries[r] \in Nat /\ db.cut[r] \in Nat /\ db.entries[r] <= Lines * db.cut[r]
      BY <2>1, <2>4 DEF ReceiptsInv, TypeOK, Tables
    <2>6. ReceiptsInv' BY <2>2, <2>1, <2>4, <2>5 DEF ReceiptsInv, On, OneByOne, Idle
    <2>7. \A e \in Clerks : req[e].op \in {"send", "receive", "purge", "default", "store"}
                              \/ req'[e].op \in {"send", "receive", "purge", "default", "store"} => req'[e] = req[e]
      BY <2>2 DEF Idle
    <2> QED BY <2>2, <2>3, <2>6, <2>7, TransfersKept, WarehousesKept
  <1>3. ASSUME NEW c \in Clerks, AddEntry(c) \/ SubmitPurchaseReceipt(c) PROVE IInv'
    <2> DEFINE r == req[c].doc
    <2>1. req[c] \in Entering /\ req[c] # Idle /\ req[c].op = "receipt" /\ r \in Receipts
      BY <1>3, RequestKinds DEF AddEntry, SubmitPurchaseReceipt, On, Entering
    <2>2. /\ db.entries[r] \in Nat /\ db.cut[r] \in Nat /\ req[c].left \in 0 .. Lines
          /\ db.receipts[r] = "draft" /\ db.entries[r] + req[c].left >= Lines
          /\ db.entries[r] + req[c].left <= Lines * db.cut[r] + Lines
      BY <2>1 DEF TypeOK, Tables, ReceiptsInv, On, Entering
    <2>3. \A e \in Clerks : On(e, "receipt") /\ req[e].doc = r => e = c BY <2>1, RequestKinds DEF Alone, On
    <2>4. CASE AddEntry(c)
      <3> DEFINE q == [req[c] EXCEPT !.left = @ - 1]
                 to == [db EXCEPT !.entries[r] = @ + 1]
      <3>1. Go(c, q, to) /\ req[c].left > 0 BY <2>4 DEF AddEntry
      <3>2. q \in Entering /\ q.doc = r /\ q.op = "receipt" /\ q.left = req[c].left - 1
        BY <2>1, <2>2, <3>1 DEF Entering, OneByOne
      <3> HIDE DEF q
      <3>3. Alone' /\ req'[c] = q /\ db' = to /\ \A e \in Clerks \ {c} : req'[e] = req[e]
        BY <2>1, <3>1, <3>2, GoAlone
      <3>4. /\ db'.receipts = db.receipts /\ db'.cut = db.cut
            /\ db'.transfers = db.transfers /\ db'.warehouses = db.warehouses
            /\ db'.entries[r] = db.entries[r] + 1 /\ \A s \in Receipts \ {r} : db'.entries[s] = db.entries[s]
        BY <2>1, <3>3 DEF TypeOK, Tables
      <3>5. TypeOK' BY <2>1, <2>2, <3>1, <3>2, <3>3 DEF TypeOK, Tables, Go
      <3>6. ReceiptsInv' BY <3>4, <2>3, <3>3, <2>2, <3>2 DEF ReceiptsInv, On
      <3>7. \A e \in Clerks : req[e].op \in {"send", "receive", "purge", "default", "store"}
                                \/ req'[e].op \in {"send", "receive", "purge", "default", "store"} => req'[e] = req[e]
        BY <2>1, <3>2, <3>3
      <3> QED BY <3>3, <3>4, <3>5, <3>6, <3>7, TransfersKept, WarehousesKept
    <2>5. CASE SubmitPurchaseReceipt(c)
      <3> DEFINE to == [db EXCEPT !.receipts[r] = "submitted"]
      <3>1. Go(c, Idle, to) /\ req[c].left = 0 BY <2>5 DEF SubmitPurchaseReceipt
      <3>2. Alone' /\ req'[c] = Idle /\ db' = to /\ \A e \in Clerks \ {c} : req'[e] = req[e]
        BY <2>1, <3>1, GoAlone
      <3>3. /\ db'.entries = db.entries /\ db'.cut = db.cut
            /\ db'.transfers = db.transfers /\ db'.warehouses = db.warehouses
            /\ db'.receipts[r] = "submitted" /\ \A s \in Receipts \ {r} : db'.receipts[s] = db.receipts[s]
        BY <2>1, <3>2 DEF TypeOK, Tables
      <3>4. TypeOK' BY <2>1, <3>1, <3>2 DEF TypeOK, Tables, Go
      <3>5. ReceiptsInv' BY <3>3, <2>3, <3>2, <2>2, <3>1 DEF ReceiptsInv, On, Idle
      <3>6. \A e \in Clerks : req[e].op \in {"send", "receive", "purge", "default", "store"}
                                \/ req'[e].op \in {"send", "receive", "purge", "default", "store"} => req'[e] = req[e]
        BY <2>1, <3>2 DEF Idle
      <3> QED BY <3>2, <3>3, <3>4, <3>5, <3>6, TransfersKept, WarehousesKept
    <2> QED BY <1>3, <2>4, <2>5
  <1> QED BY <1>1, <1>2, <1>3

-----------------------------------------------------------------------------
(* Transfers *)

\* A request about a transfer takes one line, ends, or starts; the others are
\* not about that transfer.
LEMMA TransferRequest ==
    ASSUME IInv, NEW c \in Clerks, req[c].op \in {"send", "receive"},
           NEW q, q = Idle \/ (q.op = req[c].op /\ q.doc = req[c].doc),
           NEW row \in TransferRow, Go(c, q, [db EXCEPT !.transfers[req[c].doc] = row]),
           q \in {Idle} \cup Sending \cup Receiving,
           row.st \in {"unused", "draft"} => row.received = 0,
           row.st \in {"submitted", "received"} => row.sent = Lines,
           row.st = "received" => row.received = Lines,
           q.op = "send" => row.st = "draft" /\ row.sent + q.left >= Lines,
           q.op = "receive" => row.st = "submitted" /\ q.seen = Lines /\ row.received + q.left >= Lines
    PROVE  IInv'
  <1> USE DEF IInv
  <1> DEFINE t == req[c].doc
  <1>1. t \in Transfers /\ req[c] # Idle BY RequestKinds DEF On, Sending, Receiving
  <1>2. Alone' /\ req'[c] = q /\ db' = [db EXCEPT !.transfers[t] = row] /\ \A e \in Clerks \ {c} : req'[e] = req[e]
    BY <1>1, GoAlone
  <1>3. /\ db'.receipts = db.receipts /\ db'.entries = db.entries /\ db'.cut = db.cut /\ db'.warehouses = db.warehouses
        /\ db'.transfers[t] = row /\ \A s \in Transfers \ {t} : db'.transfers[s] = db.transfers[s]
    BY <1>1, <1>2 DEF TypeOK, Tables
  <1>4. TypeOK' BY <1>1, <1>2 DEF TypeOK, Tables, Go
  <1>5. \A e \in Clerks : req[e].op \in {"receipt", "purge", "default", "store"}
                            \/ req'[e].op \in {"receipt", "purge", "default", "store"} => req'[e] = req[e]
    BY <1>2 DEF Idle
  <1>6. \A e \in Clerks \ {c} : req[e].op \in {"send", "receive"} => req[e].doc # t
    BY <1>1, RequestKinds DEF Alone, Idle
  <1>7. TransfersInv' BY <1>2, <1>6, <1>3 DEF TransfersInv, On, Idle
  <1> QED BY <1>2, <1>3, <1>4, <1>5, <1>7, ReceiptsKept, WarehousesKept

LEMMA TransferSteps ==
    ASSUME OneByOne, IInv,
           \/ \E t \in Transfers : CreateStockTransfer(t) \/ \E c \in Clerks : LoadTransfer(c, t)
           \/ \E c \in Clerks : SaveLine(c) \/ SubmitStockTransfer(c) \/ ReceiveStockTransfer(c)
    PROVE  IInv'
  <1> USE DEF IInv
  <1>1. ASSUME NEW t \in Transfers, CreateStockTransfer(t) PROVE IInv'
    <2>1. req' = req /\ db.transfers[t].st = "unused" /\ db' = [db EXCEPT !.transfers[t].st = "draft"]
      BY <1>1 DEF CreateStockTransfer, Write
    <2>2. db.transfers \in [Transfers -> TransferRow] /\ db.transfers[t] \in TransferRow BY DEF TypeOK, Tables
    <2> DEFINE row == [db.transfers[t] EXCEPT !.st = "draft"]
    <2>3. row \in TransferRow /\ row.st = "draft" /\ row.received = db.transfers[t].received
      BY <2>2 DEF TransferRow
    <2>4. db' = [db EXCEPT !.transfers[t] = row] BY <2>1
    <2> HIDE DEF row
    <2>5. /\ db'.receipts = db.receipts /\ db'.entries = db.entries /\ db'.cut = db.cut
          /\ db'.warehouses = db.warehouses
          /\ db'.transfers[t] = row /\ \A s \in Transfers \ {t} : db'.transfers[s] = db.transfers[s]
      BY <2>2, <2>4 DEF TypeOK, Tables
    <2>6. TypeOK' /\ Alone'
      <3>1. req' = req BY <2>1
      <3> QED BY <2>3, <2>4, <3>1 DEF TypeOK, Tables, Alone
    <2>7. \A e \in Clerks : req[e].op \in {"send", "receive"} => req[e].doc # t BY <2>1 DEF TransfersInv, On
    <2>8. TransfersInv' BY <2>1, <2>3, <2>5, <2>7 DEF TransfersInv, On
    <2> QED BY <2>1, <2>5, <2>6, <2>8, ReceiptsKept, WarehousesKept
  <1>2. ASSUME NEW t \in Transfers, NEW c \in Clerks, LoadTransfer(c, t) PROVE IInv'
    <2>0. db.transfers[t].sent \in 0 .. Lines /\ db.transfers[t].received \in 0 .. Lines /\ Lines \in Nat
      BY DEF TypeOK, Tables, TransferRow, OneByOne
    <2>1. \E q \in Sending \cup Receiving :
             /\ Load(c, q) /\ q.doc = t /\ q.left = Lines
             /\ q.op = "send" => db.transfers[t].st = "draft"
             /\ q.op = "receive" => db.transfers[t].st = "submitted" /\ q.seen = db.transfers[t].sent
      BY <2>0, <1>2 DEF Sending, Receiving, LoadTransfer
    <2>2. PICK q \in Sending \cup Receiving :
             /\ Load(c, q) /\ q.doc = t /\ q.left = Lines
             /\ q.op = "send" => db.transfers[t].st = "draft"
             /\ q.op = "receive" => db.transfers[t].st = "submitted" /\ q.seen = db.transfers[t].sent
      BY <2>1
    <2>3. q # Idle /\ q.op \in {"send", "receive"} BY DEF Idle, Sending, Receiving
    <2>4. Alone' /\ req[c] = Idle /\ req'[c] = q /\ db' = db /\ \A e \in Clerks \ {c} : req'[e] = req[e]
      BY <2>2, <2>3, LoadAlone
    <2>5. TypeOK' BY <2>2, <2>4 DEF TypeOK, Load
    <2>6. q.op = "receive" => q.seen = Lines BY <2>2 DEF TransfersInv
    <2>7. TransfersInv' BY <2>4, <2>0, <2>2, <2>3, <2>6 DEF TransfersInv, On
    <2>8. \A e \in Clerks : req[e].op \in {"receipt", "purge", "default", "store"}
                              \/ req'[e].op \in {"receipt", "purge", "default", "store"} => req'[e] = req[e]
      BY <2>3, <2>4 DEF Idle
    <2> QED BY <2>4, <2>5, <2>7, <2>8, ReceiptsKept, WarehousesKept
  <1>3. ASSUME NEW c \in Clerks, SaveLine(c) \/ SubmitStockTransfer(c) \/ ReceiveStockTransfer(c) PROVE IInv'
    <2> DEFINE t == req[c].doc
               v == db.transfers[t]
    <2>1. /\ req[c].op \in {"send", "receive"} /\ t \in Transfers /\ req[c].left \in 0 .. Lines
          /\ req[c].op = "send" => req[c] \in Sending
          /\ req[c].op = "receive" => req[c] \in Receiving
      BY <1>3, RequestKinds DEF SaveLine, SubmitStockTransfer, ReceiveStockTransfer, On, Sending, Receiving
    <2>2. v \in TransferRow /\ v.sent \in 0 .. Lines /\ v.received \in 0 .. Lines /\ Lines \in Nat
      BY <2>1 DEF TypeOK, Tables, TransferRow, OneByOne
    <2>3. /\ v.st \in {"unused", "draft"} => v.received = 0
          /\ v.st \in {"submitted", "received"} => v.sent = Lines
          /\ v.st = "received" => v.received = Lines
          /\ req[c].op = "send" => v.st = "draft" /\ v.sent + req[c].left >= Lines
          /\ req[c].op = "receive" => v.st = "submitted" /\ req[c].seen = Lines /\ v.received + req[c].left >= Lines
      BY <2>1 DEF TransfersInv, On
    <2>4. CASE SaveLine(c)
      <3> DEFINE q   == [req[c] EXCEPT !.left = @ - 1]
                 row == IF req[c].op = "send" THEN [v EXCEPT !.sent = IF v.sent < Lines THEN v.sent + 1 ELSE v.sent]
                        ELSE [v EXCEPT !.received = IF v.received < req[c].seen THEN v.received + 1 ELSE v.received]
      <3>1. Go(c, q, [db EXCEPT !.transfers[t] = row]) /\ req[c].left > 0 BY <2>4 DEF SaveLine
      <3>2. CASE req[c].op = "send"
        <4>1. q \in Sending /\ q.op = "send" /\ q.doc = t /\ q.left = req[c].left - 1
          BY <2>1, <2>2, <3>1, <3>2 DEF Sending
        <4>2. /\ row \in TransferRow /\ row.st = "draft" /\ row.received = 0
              /\ row.sent = IF v.sent < Lines THEN v.sent + 1 ELSE v.sent
          BY <2>2, <2>3, <3>2 DEF TransferRow
        <4>3. row.sent + q.left >= Lines BY <2>1, <2>2, <2>3, <3>1, <3>2, <4>1, <4>2
        <4> HIDE DEF q, row
        <4> QED BY <2>1, <3>1, <3>2, <4>1, <4>2, <4>3, TransferRequest
      <3>3. CASE req[c].op = "receive"
        <4>1. q \in Receiving /\ q.op = "receive" /\ q.doc = t /\ q.left = req[c].left - 1 /\ q.seen = Lines
          BY <2>1, <2>2, <2>3, <3>1, <3>3 DEF Receiving
        <4>2. /\ row \in TransferRow /\ row.st = "submitted" /\ row.sent = Lines
              /\ row.received = IF v.received < Lines THEN v.received + 1 ELSE v.received
          BY <2>2, <2>3, <3>3 DEF TransferRow
        <4> HIDE DEF q, row
        <4>3. row.received + q.left >= Lines
          <5>1. v.received + req[c].left >= Lines /\ q.left = req[c].left - 1 /\ req[c].left \in Nat \ {0} /\ v.received \in Nat
            BY <2>1, <2>2, <2>3, <3>1, <3>3, <4>1 DEF TransferRow
          <5> QED BY <2>2, <4>2, <5>1
        <4> QED BY <2>1, <3>1, <3>3, <4>1, <4>2, <4>3, TransferRequest
      <3> QED BY <2>1, <3>2, <3>3
    <2>5. CASE SubmitStockTransfer(c)
      <3> DEFINE row == [v EXCEPT !.st = "submitted"]
      <3>1. Go(c, Idle, [db EXCEPT !.transfers[t] = row]) /\ req[c].op = "send" /\ req[c].left = 0
        BY <2>5 DEF SubmitStockTransfer, On
      <3>2. v.sent = Lines BY <2>2, <2>3, <3>1
      <3>3. row \in TransferRow /\ row.st = "submitted" /\ row.sent = Lines BY <2>2, <3>2 DEF TransferRow
      <3>4. Idle.op = "idle" BY DEF Idle
      <3> HIDE DEF row
      <3> QED BY <2>1, <3>1, <3>3, <3>4, TransferRequest
    <2>6. CASE ReceiveStockTransfer(c)
      <3> DEFINE row == [v EXCEPT !.st = "received"]
      <3>1. Go(c, Idle, [db EXCEPT !.transfers[t] = row]) /\ req[c].op = "receive" /\ req[c].left = 0
        BY <2>6 DEF ReceiveStockTransfer, On
      <3>2. v.received = Lines /\ v.sent = Lines BY <2>2, <2>3, <3>1
      <3>3. row \in TransferRow /\ row.st = "received" /\ row.sent = Lines /\ row.received = Lines
        BY <2>2, <3>2 DEF TransferRow
      <3>4. Idle.op = "idle" BY DEF Idle
      <3> HIDE DEF row
      <3> QED BY <2>1, <3>1, <3>3, <3>4, TransferRequest
    <2> QED BY <1>3, <2>4, <2>5, <2>6
  <1> QED BY <1>1, <1>2, <1>3

-----------------------------------------------------------------------------
(* Warehouses *)

\* Rows of the warehouses, and the one request about them
LEMMA WarehouseRows ==
    ASSUME TypeOK
    PROVE  /\ db.warehouses \in [Warehouses -> WarehouseRow]
           /\ \A w \in Warehouses : db.warehouses[w] # Unused => db.warehouses[w] \in [st : {"live", "deleted"}, code : Codes, default : BOOLEAN]
           /\ \A w \in Warehouses : db.warehouses[w].st \in {"unused", "live", "deleted"}
           /\ \A w \in Warehouses : db.warehouses[w].st = "unused" <=> db.warehouses[w] = Unused
  BY DEF TypeOK, Tables, WarehouseRow, Unused

\* A step on the warehouses leaves the other parts as they are
LEMMA WarehouseStep ==
    ASSUME IInv, NEW c \in Clerks, req[c].op \in {"purge", "default", "store"},
           NEW q \in {Idle} \cup Storing, q = Idle \/ q.doc = req[c].doc,
           NEW rows \in [Warehouses -> WarehouseRow], Go(c, q, [db EXCEPT !.warehouses = rows])
    PROVE  /\ TypeOK' /\ Alone' /\ ReceiptsInv' /\ TransfersInv'
           /\ db'.warehouses = rows /\ req'[c] = q
           /\ \A e \in Clerks \ {c} : req'[e] = req[e] /\ req[e].op \notin {"purge", "default", "store"}
  <1> USE DEF IInv
  <1>1. req[c] # Idle /\ req[c] \in Storing BY RequestKinds DEF On
  <1>2. Alone' /\ req'[c] = q /\ db' = [db EXCEPT !.warehouses = rows] /\ \A e \in Clerks \ {c} : req'[e] = req[e]
    BY <1>1, GoAlone
  <1>3. /\ db'.receipts = db.receipts /\ db'.entries = db.entries /\ db'.cut = db.cut
        /\ db'.transfers = db.transfers /\ db'.warehouses = rows
    BY <1>2 DEF TypeOK, Tables
  <1>4. TypeOK' BY <1>2 DEF TypeOK, Tables, Go
  <1>5. \A e \in Clerks \ {c} : req[e].op \notin {"purge", "default", "store"}
    BY <1>1, RequestKinds DEF Alone, Storing, Idle
  <1>6. \A e \in Clerks : req[e].op \in {"receipt", "send", "receive"}
                            \/ req'[e].op \in {"receipt", "send", "receive"} => req'[e] = req[e]
    BY <1>1, <1>2 DEF Idle, Storing
  <1> QED BY <1>2, <1>3, <1>4, <1>5, <1>6, ReceiptsKept, TransfersKept

\* The invariant of the warehouses, row by row
OneDefault(rows) ==
    \A w, v \in Warehouses :
        (rows[w].st = "live" /\ rows[v].st = "live" /\ rows[w].default /\ rows[v].default) => w = v

OneCode(rows) ==
    \A w, v \in Warehouses :
        (rows[w].st \in {"live", "deleted"} /\ rows[v].st \in {"live", "deleted"} /\ rows[w].code = rows[v].code) => w = v

Begun(rows, r) ==
    \A w \in Warehouses :
        /\ (r.op = "purge" /\ rows[w].st = "live" /\ rows[w].code = r.code) => w = r.w
        /\ (r.op \in {"default", "store"} /\ rows[w].st \in {"live", "deleted"} /\ rows[w].code = r.code) => w = r.w
        /\ (r.op = "store" /\ r.default /\ rows[w].st = "live" /\ w # r.w) => ~rows[w].default

LEMMA WarehousesNow ==
    ASSUME WarehousesInv
    PROVE  OneDefault(db.warehouses) /\ OneCode(db.warehouses) /\ \A c \in Clerks : Begun(db.warehouses, req[c])
  BY DEF OneDefault, WarehousesInv, Rows, OneCode, Begun, Holds, FreeCode, On

LEMMA WarehousesNext ==
    ASSUME OneDefault(db'.warehouses), OneCode(db'.warehouses), \A c \in Clerks : Begun(db'.warehouses, req'[c])
    PROVE  WarehousesInv'
  BY DEF OneDefault, Rows, OneCode, Begun, Holds, FreeCode, WarehousesInv, On

LEMMA WarehousesSafe ==
    ASSUME OneByOne, IInv,
           \/ \E c \in Clerks :
                 \/ \E w \in Warehouses, code \in Codes, default \in BOOLEAN : LoadWarehouse(c, w, code, default)
                 \/ PurgeCode(c) \/ ClearDefault(c) \/ StoreWarehouse(c)
           \/ \E S \in SUBSET Rows("live") : BulkDeleteWarehouses(S)
    PROVE  IInv'
  <1> USE DEF IInv
  <1>1. ASSUME NEW c \in Clerks, NEW w \in Warehouses, NEW code \in Codes, NEW default \in BOOLEAN,
               LoadWarehouse(c, w, code, default)
        PROVE  IInv'
    <2> DEFINE q == [op |-> "purge", doc |-> "warehouses", w |-> w, code |-> code, default |-> default,
                     new |-> db.warehouses[w] = Unused]
    <2>1. /\ q # Idle /\ Load(c, q) /\ q \in Storing
          /\ \A v \in Warehouses : db.warehouses[v].st = "live" /\ db.warehouses[v].code = code => v = w
      BY <1>1 DEF LoadWarehouse, Idle, Storing, Holds, Rows
    <2>2. Alone' /\ req[c] = Idle /\ req'[c] = q /\ db' = db /\ \A e \in Clerks \ {c} : req'[e] = req[e]
      BY <2>1, LoadAlone
    <2>3. TypeOK' BY <2>1, <2>2 DEF TypeOK, Load
    <2>4. \A e \in Clerks : req[e].op \in {"receipt", "send", "receive"}
                              \/ req'[e].op \in {"receipt", "send", "receive"} => req'[e] = req[e]
      BY <2>2 DEF Idle
    <2>5. q.op = "purge" /\ q.code = code /\ q.w = w OBVIOUS
    <2> HIDE DEF q
    <2>6. WarehousesInv'
      <3>1. \A e \in Clerks, v \in Warehouses :
              /\ req'[e].op = "purge" /\ db.warehouses[v].st = "live" /\ db.warehouses[v].code = req'[e].code => v = req'[e].w
              /\ req'[e].op \in {"default", "store"} => req'[e] = req[e]
        BY <2>1, <2>2, <2>5, WarehousesNow DEF Begun
      <3> QED BY <2>2, <2>3, <3>1, WarehousesNow, WarehousesNext DEF OneDefault, OneCode, Begun
    <2> QED BY <2>2, <2>3, <2>4, <2>6, ReceiptsKept, TransfersKept
  <1>2. ASSUME NEW c \in Clerks, PurgeCode(c) PROVE IInv'
    <2> DEFINE r == req[c]
               q == [r EXCEPT !.op = "default"]
               rows == [w \in Warehouses |-> IF w \in Purged(r) THEN Unused ELSE db.warehouses[w]]
    <2>1. r \in Storing /\ r.op = "purge" /\ Go(c, q, [db EXCEPT !.warehouses = rows])
      BY <1>2, RequestKinds DEF PurgeCode, On
    <2>2. q \in Storing /\ q.op = "default" /\ q.code = r.code /\ q.w = r.w /\ q.doc = r.doc BY <2>1 DEF Storing
    <2>3. /\ rows \in [Warehouses -> WarehouseRow]
          /\ \A w \in Warehouses : rows[w] = db.warehouses[w] \/ rows[w] = Unused
          /\ \A w \in Warehouses : db.warehouses[w].st = "deleted" /\ db.warehouses[w].code = r.code => rows[w] = Unused
      BY WarehouseRows DEF Purged, Holds, Rows, WarehouseRow
    <2> HIDE DEF q, rows
    <2>4. /\ TypeOK' /\ Alone' /\ ReceiptsInv' /\ TransfersInv' /\ db'.warehouses = rows /\ req'[c] = q
          /\ \A e \in Clerks \ {c} : req'[e] = req[e] /\ req[e].op \notin {"purge", "default", "store"}
      BY <2>1, <2>2, <2>3, WarehouseStep
    <2>5. Unused.st = "unused" BY DEF Unused
    <2>6. WarehousesInv'
      <3>1. \A w \in Warehouses : rows[w].st \in {"live", "deleted"} /\ rows[w].code = r.code => w = r.w
        BY <2>1, <2>3, <2>5, WarehousesNow DEF Begun
      <3>2. \A w \in Warehouses : rows[w].st \in {"live", "deleted"} => rows[w] = db.warehouses[w] BY <2>3, <2>5
      <3>3. \A e \in Clerks : req'[e].op \in {"purge", "default", "store"} => e = c /\ req'[e].op = "default"
        BY <2>2, <2>4
      <3> QED BY <2>2, <2>4, <3>1, <3>2, <3>3, WarehousesNow, WarehousesNext DEF OneDefault, OneCode, Begun
    <2> QED BY <2>4, <2>6
  <1>3. ASSUME NEW c \in Clerks, ClearDefault(c) PROVE IInv'
    <2> DEFINE r == req[c]
               q == [r EXCEPT !.op = "store"]
               rows == [w \in Warehouses |-> IF w \in Others(r) THEN [db.warehouses[w] EXCEPT !.default = FALSE] ELSE db.warehouses[w]]
    <2>1. r \in Storing /\ r.op = "default" /\ Go(c, q, [db EXCEPT !.warehouses = rows])
      BY <1>3, RequestKinds DEF ClearDefault, On
    <2>2. q \in Storing /\ q.op = "store" /\ q.code = r.code /\ q.w = r.w /\ q.doc = r.doc /\ q.default = r.default
      BY <2>1 DEF Storing
    <2>3. /\ rows \in [Warehouses -> WarehouseRow]
          /\ \A w \in Warehouses : /\ rows[w].st = db.warehouses[w].st
                                   /\ rows[w].st # "unused" => rows[w].code = db.warehouses[w].code
                                   /\ rows[w].st # "unused" /\ rows[w].default => db.warehouses[w].default
                                   /\ r.default /\ rows[w].st = "live" /\ w # r.w => ~rows[w].default
      BY WarehouseRows DEF Others, Rows, Unused, WarehouseRow
    <2> HIDE DEF q, rows
    <2>4. /\ TypeOK' /\ Alone' /\ ReceiptsInv' /\ TransfersInv' /\ db'.warehouses = rows /\ req'[c] = q
          /\ \A e \in Clerks \ {c} : req'[e] = req[e] /\ req[e].op \notin {"purge", "default", "store"}
      BY <2>1, <2>2, <2>3, WarehouseStep
    <2>5. WarehousesInv'
      <3>1. \A e \in Clerks : req'[e].op \in {"purge", "default", "store"} => e = c /\ req'[e].op = "store"
        BY <2>2, <2>4
      <3> QED BY <2>1, <2>2, <2>3, <2>4, <3>1, WarehousesNow, WarehousesNext DEF OneDefault, OneCode, Begun
    <2> QED BY <2>4, <2>5
  <1>4. ASSUME NEW c \in Clerks, StoreWarehouse(c) PROVE IInv'
    <2> DEFINE r == req[c]
               row == [st |-> "live", code |-> r.code, default |-> r.default]
               rows == [db.warehouses EXCEPT ![r.w] = row]
    <2>1. r \in Storing /\ r.op = "store" BY <1>4, RequestKinds DEF StoreWarehouse, On
    <2>2. /\ row \in WarehouseRow /\ r.w \in Warehouses
          /\ row.st = "live" /\ row.code = r.code /\ row.default = r.default
      BY <2>1 DEF Storing, WarehouseRow
    <2>3. rows \in [Warehouses -> WarehouseRow] /\ db.warehouses \in [Warehouses -> WarehouseRow]
      BY <2>2, WarehouseRows
    <2>4. Go(c, Idle, [db EXCEPT !.warehouses = rows]) \/ Go(c, Idle, [db EXCEPT !.warehouses = db.warehouses])
      BY <1>4 DEF StoreWarehouse, Go, TypeOK, Tables
    <2>5. rows[r.w] = row /\ \A w \in Warehouses \ {r.w} : rows[w] = db.warehouses[w] BY <2>2, WarehouseRows
    <2> HIDE DEF rows, row
    <2>6. PICK to \in {rows, db.warehouses} : Go(c, Idle, [db EXCEPT !.warehouses = to]) BY <2>4
    <2>7. /\ TypeOK' /\ Alone' /\ ReceiptsInv' /\ TransfersInv' /\ db'.warehouses = to /\ req'[c] = Idle
          /\ \A e \in Clerks \ {c} : req'[e] = req[e] /\ req[e].op \notin {"purge", "default", "store"}
      BY <2>1, <2>3, <2>6, WarehouseStep
    <2>8. \A e \in Clerks : req'[e].op \notin {"purge", "default", "store"} BY <2>7 DEF Idle
    <2>9. WarehousesInv'
      <3>1. CASE to = db.warehouses
        BY <2>7, <2>8, <3>1, WarehousesNow, WarehousesNext DEF OneDefault, OneCode, Begun
      <3>2. CASE to = rows
        BY <2>1, <2>2, <2>5, <2>7, <2>8, <3>2, WarehousesNow, WarehousesNext DEF OneDefault, OneCode, Begun
      <3> QED BY <2>6, <3>1, <3>2
    <2> QED BY <2>7, <2>9
  <1>5. ASSUME NEW S \in SUBSET Rows("live"), BulkDeleteWarehouses(S) PROVE IInv'
    <2> DEFINE rows == [w \in Warehouses |->
                          IF w \in S /\ ~db.warehouses[w].default THEN [db.warehouses[w] EXCEPT !.st = "deleted"] ELSE db.warehouses[w]]
    <2>1. /\ req' = req /\ db' = [db EXCEPT !.warehouses = rows]
          /\ \A c \in Clerks : req[c] # Idle => req[c].doc # "warehouses"
      BY <1>5 DEF BulkDeleteWarehouses, Write, OneByOne
    <2>2. \A c \in Clerks : req[c].op \notin {"purge", "default", "store"} BY <2>1, RequestKinds DEF Storing
    <2>3. /\ rows \in [Warehouses -> WarehouseRow]
          /\ \A w \in Warehouses : /\ rows[w].st \in {"live", "deleted"} => db.warehouses[w].st \in {"live", "deleted"} /\ rows[w].code = db.warehouses[w].code
                                   /\ rows[w].st = "live" => rows[w] = db.warehouses[w]
      BY WarehouseRows DEF Rows, Unused, WarehouseRow
    <2> HIDE DEF rows
    <2>4. /\ db'.receipts = db.receipts /\ db'.entries = db.entries /\ db'.cut = db.cut
          /\ db'.transfers = db.transfers /\ db'.warehouses = rows
      BY <2>1 DEF TypeOK, Tables
    <2>5. TypeOK' /\ Alone' BY <2>1, <2>3 DEF TypeOK, Tables, Alone
    <2>6. WarehousesInv'
      BY <2>1, <2>2, <2>3, <2>4, <2>5, WarehousesNow, WarehousesNext DEF OneDefault, OneCode, Begun
    <2> QED BY <2>1, <2>4, <2>5, <2>6, ReceiptsKept, TransfersKept
  <1> QED BY <1>1, <1>2, <1>3, <1>4, <1>5

-----------------------------------------------------------------------------
(* The server dies; every step *)

\* What a dead request has entered, the count of deaths allows for.
LEMMA DeathSafe ==
    ASSUME OneByOne, IInv, Die
    PROVE  IInv'
  <1> USE DEF IInv
  <1> DEFINE Cut(r) == \E c \in Clerks : On(c, "receipt") /\ req[c].doc = r /\ req[c].left < Lines
             cut == [r \in Receipts |-> IF Cut(r) THEN db.cut[r] + 1 ELSE db.cut[r]]
  <1>1. db' = [db EXCEPT !.cut = cut] /\ req' = [c \in Clerks |-> Idle] BY DEF Die
  <1>2. /\ cut \in [Receipts -> Nat]
        /\ \A r \in Receipts : cut[r] = (IF Cut(r) THEN db.cut[r] + 1 ELSE db.cut[r]) /\ db.cut[r] \in Nat /\ db.entries[r] \in Nat
    BY DEF TypeOK, Tables
  <1> HIDE DEF cut
  <1>3. /\ db'.receipts = db.receipts /\ db'.entries = db.entries /\ db'.cut = cut
        /\ db'.transfers = db.transfers /\ db'.warehouses = db.warehouses
    BY <1>1 DEF TypeOK, Tables
  <1>4. TypeOK' /\ Alone' BY <1>1, <1>2 DEF TypeOK, Tables, Alone
  <1>5. \A c \in Clerks : req'[c].op = "idle" BY <1>1 DEF Idle
  <1>6. ReceiptsInv' BY <1>3, <1>5, <1>2, RequestKinds DEF ReceiptsInv, On, OneByOne, Entering
  <1>7. TransfersInv' BY <1>3, <1>5 DEF TransfersInv, On
  <1>8. WarehousesInv' BY <1>3, <1>5, WarehousesNow, WarehousesNext DEF Begun
  <1> QED BY <1>4, <1>6, <1>7, <1>8

LEMMA InitIInv == OneByOne /\ Init => IInv
  <1> SUFFICES ASSUME OneByOne, Init PROVE IInv OBVIOUS
  <1>1. TypeOK BY InitType
  <1>2. \A c \in Clerks : req[c] = Idle /\ req[c].op = "idle" BY DEF Init, Idle
  <1>3. Alone BY <1>2 DEF Alone
  <1>4. ReceiptsInv BY <1>2 DEF ReceiptsInv, Init, On, OneByOne
  <1>5. TransfersInv BY <1>2 DEF TransfersInv, Init, On
  <1>6. WarehousesInv BY <1>2 DEF WarehousesInv, Init, On, Rows, Unused
  <1> QED BY <1>1, <1>3, <1>4, <1>5, <1>6 DEF IInv

LEMMA NextIInv == OneByOne /\ IInv /\ [Next]_vars => IInv'
  <1> SUFFICES ASSUME OneByOne, IInv, [Next]_vars PROVE IInv' OBVIOUS
  <1>1. CASE \/ \E o \in Orders : CreatePurchaseOrder(o) \/ SubmitPurchaseOrder(o) \/ DeletePurchaseOrder(o)
             \/ \E x \in Challans : CreateDeliveryChallan(x) \/ DeleteDeliveryChallan(x)
                    \/ \E st \in {"draft", "delivered", "cancelled"} : UpdateDeliveryChallan(x, st)
    BY <1>1, PaperType, ReceiptsKept, TransfersKept, WarehousesKept DEF IInv, Alone
  <1>2. CASE \/ \E r \in Receipts : CreatePurchaseReceipt(r) \/ \E c \in Clerks : LoadReceipt(c, r)
             \/ \E c \in Clerks : AddEntry(c) \/ SubmitPurchaseReceipt(c)
    BY <1>2, ReceiptSteps
  <1>3. CASE \/ \E t \in Transfers : CreateStockTransfer(t) \/ \E c \in Clerks : LoadTransfer(c, t)
             \/ \E c \in Clerks : SaveLine(c) \/ SubmitStockTransfer(c) \/ ReceiveStockTransfer(c)
    BY <1>3, TransferSteps
  <1>4. CASE WarehouseSteps BY <1>4, WarehousesSafe DEF WarehouseSteps
  <1>5. CASE Die BY <1>5, DeathSafe
  <1>6. CASE UNCHANGED vars BY <1>6, ReceiptsKept, TransfersKept, WarehousesKept DEF vars, TypeOK, Alone, IInv
  <1> QED BY <1>1, <1>2, <1>3, <1>4, <1>5, <1>6 DEF Next, DocumentSteps

LEMMA Invariant == OneByOne => (Spec => []IInv)
  <1> SUFFICES ASSUME OneByOne PROVE Spec => []IInv OBVIOUS
  <1>1. Init => IInv BY InitIInv
  <1>2. IInv /\ [Next]_vars => IInv' BY NextIInv
  <1> QED BY <1>1, <1>2, PTL DEF Spec

-----------------------------------------------------------------------------
(* What follows *)

\* As many entries as the request of a receipt has made, and all it has left
LEMMA IInvReceived == OneByOne /\ IInv => ReceivedOnce
  <1> SUFFICES ASSUME OneByOne, IInv PROVE ReceivedOnce OBVIOUS
  <1> USE DEF IInv
  <1>1. ASSUME NEW r \in Receipts
        PROVE  /\ db.entries[r] <= Lines * (1 + db.cut[r])
               /\ db.receipts[r] = "submitted" => db.entries[r] >= Lines
    BY RequestKinds DEF TypeOK, Tables, OneByOne, Entering, ReceiptsInv
  <1>2. ASSUME NEW t \in Transfers
        PROVE  /\ db.transfers[t].received <= db.transfers[t].sent
               /\ db.transfers[t].st \in {"submitted", "received"} => db.transfers[t].sent = Lines
               /\ db.transfers[t].st = "received" => db.transfers[t].received = Lines
    BY DEF TypeOK, Tables, OneByOne, TransfersInv, TransferRow
  <1> QED BY <1>1, <1>2 DEF ReceivedOnce

\* A set all of whose members are the same has one at most.
LEMMA OneMember ==
    ASSUME NEW S, \A x, y \in S : x = y
    PROVE  Cardinality(S) <= 1
  <1>1. CASE S = {} BY <1>1, FS_EmptySet
  <1>2. CASE S # {} BY <1>2, FS_Singleton
  <1> QED BY <1>1, <1>2

LEMMA IInvWarehouses == IInv => OneWarehouseEach
  BY OneMember DEF IInv, WarehousesInv, Holds, OneWarehouseEach

\* While a document is submitted or received by one request at a time, the goods
\* of a receipt are entered once, and once more at most for each submission that
\* the server's death cut short, and a transfer is received as it was sent
\* (SubmitPurchaseReceipt, SubmitStockTransfer and ReceiveStockTransfer, which
\* write line by line and the status last).
THEOREM ReceivedOnceHolds == OneByOne => (Spec => []ReceivedOnce)
  <1> SUFFICES ASSUME OneByOne PROVE Spec => []ReceivedOnce OBVIOUS
  <1>1. Spec => []IInv BY Invariant
  <1>2. IInv => ReceivedOnce BY IInvReceived
  <1> QED BY <1>1, <1>2, PTL

\* While the warehouses are changed by one request at a time, at most one live
\* one is the default and no code has two rows, and the code a request stores is
\* free by then, wherever the server dies between purging the deleted row, taking
\* the default from the others and storing (CreateWarehouse, UpdateWarehouse).
THEOREM OneWarehouseEachHolds == OneByOne => (Spec => []OneWarehouseEach)
  <1> SUFFICES ASSUME OneByOne PROVE Spec => []OneWarehouseEach OBVIOUS
  <1>1. Spec => []IInv BY Invariant
  <1>2. IInv => OneWarehouseEach BY IInvWarehouses
  <1> QED BY <1>1, <1>2, PTL


-----------------------------------------------------------------------------
(* Products, their numbers and their pictures.  Their rows are in tables of *)
(* their own as well.                                                       *)

\* One request at a time, and one new item at most in a bill.
OneItemEach == ~Meanwhile /\ NewItems = 1 /\ IsFiniteSet(Products) /\ Legacy \subseteq Products

\* A set has as many elements in both modules.
LEMMA CountsAsMany == \A S : Wares!Cardinality(S) = Cardinality(S)
  BY DEF Wares!Cardinality, Cardinality

-----------------------------------------------------------------------------
(* Types *)

Skus       == Names \X (Endings \cup {Wares!Plain})
ProductRow == [st : {"live", "deleted"}, sku : Skus, plu : Nat]

IsPicture(v) == \E st \in {"live", "deleted"}, b \in BOOLEAN : \E n : v = [st |-> st, primary |-> b, order |-> n]

WareTables ==
    /\ db = [products |-> db.products, pictures |-> db.pictures]
    /\ db.products \in [Products -> {Wares!Unused} \cup ProductRow]
    /\ db.pictures = [i \in Pictures |-> db.pictures[i]]
    /\ \A i \in Pictures : db.pictures[i] = Wares!Unused \/ IsPicture(db.pictures[i])

Creating == [op : {"create"}, p : Products, sku : Skus, plu : Nat]
Updating == [op : {"update"}, p : Products, plu : Nat]

IsPicturing(r) == \E i \in Pictures, b, new \in BOOLEAN : \E n :
                     r = [op |-> "picture", i |-> i, primary |-> b, new |-> new, order |-> n]

WareRequests ==
    /\ req = [c \in Clerks |-> req[c]]
    /\ \A c \in Clerks : req[c] \in {Wares!Idle} \cup Creating \cup Updating \/ IsPicturing(req[c])

-----------------------------------------------------------------------------
(* The invariant *)

OneAtWork == \A c, e \in Clerks : req[c] # Wares!Idle /\ req[e] # Wares!Idle => c = e

Primary(i) == i \in Wares!Shown /\ db.pictures[i].primary

\* What a request has found is still so: a number that is free, a row that is not
\* made, and no other picture that is the primary one.
Found(r) ==
    /\ r.op = "create" => db.products[r.p] = Wares!Unused /\ r.plu \notin Wares!Used(db, {})
    /\ r.op = "update" => r.p \in Wares!Live(db) /\ r.plu \notin Wares!Used(db, {r.p})
    /\ r.op = "picture" => /\ r.new => db.pictures[r.i] = Wares!Unused
                           /\ r.primary => \A k \in Pictures : Primary(k) => k = r.i

Distinct ==
    /\ \A p, q \in Wares!Live(db) : p # q /\ db.products[p].plu # Wares!None => db.products[p].plu # db.products[q].plu
    /\ \A p, q \in Products : p # q /\ db.products[p] # Wares!Unused /\ db.products[q] # Wares!Unused =>
          db.products[p].sku # db.products[q].sku

OnePrimary == \A i, k \in Pictures : Primary(i) /\ Primary(k) => i = k

WaresInv ==
    /\ WareTables /\ WareRequests /\ OneAtWork
    /\ \A c \in Clerks : Found(req[c])
    /\ Distinct /\ OnePrimary

-----------------------------------------------------------------------------
(* Rows and free numbers *)

LEMMA UnusedIsNoRow == Wares!Unused \notin ProductRow /\ ~IsPicture(Wares!Unused)
  BY DEF Wares!Unused, ProductRow, IsPicture

LEMMA APicture ==
    ASSUME NEW st \in {"live", "deleted"}, NEW b \in BOOLEAN, NEW n
    PROVE  IsPicture([st |-> st, primary |-> b, order |-> n])
  BY DEF IsPicture

LEMMA AShownPicture ==
    ASSUME WareTables, NEW i \in Wares!Shown
    PROVE  \E b \in BOOLEAN : \E n : db.pictures[i] = [st |-> "live", primary |-> b, order |-> n]
  <1>1. IsPicture(db.pictures[i]) /\ db.pictures[i].st = "live" BY DEF WareTables, Wares!Shown, Wares!Unused
  <1>2. PICK st \in {"live", "deleted"}, b \in BOOLEAN :
            \E n : db.pictures[i] = [st |-> st, primary |-> b, order |-> n]
    BY <1>1 DEF IsPicture
  <1>3. PICK n : db.pictures[i] = [st |-> st, primary |-> b, order |-> n] BY <1>2
  <1>4. db.pictures[i] = [st |-> "live", primary |-> b, order |-> n] BY <1>1, <1>3
  <1> QED BY <1>4

\* The next number is free.
LEMMA NextIsFree ==
    ASSUME OneItemEach, WareTables
    PROVE  Wares!NextPLU(db) \in Nat /\ Wares!NextPLU(db) \notin Wares!Used(db, {})
  <1> DEFINE N == Cardinality(Products)
             L == Wares!Live(db)
             U == Wares!Used(db, {})
             Good == {k \in 0 .. N + 1 : \A m \in 1 .. k : m \in U}
  <1>1. N \in Nat /\ IsFiniteSet(L) /\ Cardinality(L) <= N /\ Cardinality(L) \in Nat
    BY FS_Subset, FS_CardinalityType DEF OneItemEach, Wares!Live
  <1>2. U = {db.products[p].plu : p \in L} BY DEF Wares!Used
  <1>3. N + 1 \notin Good
    <2>1. SUFFICES ASSUME 1 .. N + 1 \subseteq U PROVE FALSE BY <1>1
    <2> DEFINE m == [p \in L |-> db.products[p].plu]
    <2>2. m \in Surjection(L, U) BY <1>2 DEF Surjection
    <2>3. IsFiniteSet(U) /\ Cardinality(U) <= Cardinality(L) BY <1>1, <2>2, FS_Surjection
    <2>4. IsFiniteSet(1 .. N + 1) /\ Cardinality(1 .. N + 1) = N + 1
      <3>1. N + 1 \in Int /\ 1 \in Int /\ ~(1 > N + 1) BY <1>1
      <3>2. Cardinality(1 .. N + 1) = (N + 1) - 1 + 1 /\ IsFiniteSet(1 .. N + 1) BY <3>1, FS_Interval
      <3> QED BY <1>1, <3>2
    <2>5. Cardinality(1 .. N + 1) <= Cardinality(U) BY <2>1, <2>3, FS_Subset
    <2>6. Cardinality(U) \in Nat BY <2>3, FS_CardinalityType
    <2> QED BY <1>1, <2>3, <2>4, <2>5, <2>6
  <1>4. PICK n \in 1 .. N + 1 : n - 1 \in Good /\ n \notin Good
    <2>1. 0 \in Good /\ N + 1 \in Nat BY <1>1
    <2>2. SUFFICES ASSUME \A k \in 1 .. N + 1 : k - 1 \in Good => k \in Good PROVE FALSE OBVIOUS
    <2> HIDE DEF Good
    <2>3. \A k \in 0 .. N + 1 : k \in Good BY <2>1, <2>2, UpTo
    <2> QED BY <1>1, <1>3, <2>3
  <1>5. n \in 1 .. N + 1 /\ n \notin U /\ \A m \in 1 .. n - 1 : m \in U BY <1>1, <1>4
  <1>6. Wares!NextPLU(db) \in 1 .. N + 1 /\ Wares!NextPLU(db) \notin U BY <1>5, CountsAsMany DEF Wares!NextPLU
  <1> QED BY <1>1, <1>6

LEMMA NumberIsFree ==
    ASSUME OneItemEach, WareTables, NEW plu \in Nat, NEW but, NEW n \in Wares!PLUFor(plu, but)
    PROVE  n \in Nat /\ n \notin Wares!Used(db, but)
  BY NextIsFree DEF Wares!PLUFor, Wares!Used

LEMMA PLUsAreNat == OneItemEach => Wares!PLUs \subseteq Nat
  BY FS_CardinalityType, CountsAsMany DEF OneItemEach, Wares!PLUs

\* What a generated code is made of
LEMMA GeneratedIsSku ==
    ASSUME NEW name \in Names, NEW sku \in Wares!Generated(db, name)
    PROVE  sku \in Skus
  <1>1. sku = << name, Wares!Plain >> \/ \E s \in Endings : sku = << name, s >> BY DEF Wares!Generated
  <1> QED BY <1>1 DEF Skus

LEMMA WaresInit == OneItemEach /\ Wares!Init => WaresInv
  <1> SUFFICES ASSUME OneItemEach, Wares!Init PROVE WaresInv OBVIOUS
  <1>1. PICK name \in [Legacy -> Names] :
          /\ \A p, q \in Legacy : p # q => name[p] # name[q]
          /\ db = [products |-> [p \in Products |-> IF p \in Legacy THEN Wares!Product(<< name[p], Wares!Plain >>, Wares!None)
                                                    ELSE Wares!Unused],
                   pictures |-> [i \in Pictures |-> Wares!Unused]]
    BY DEF Wares!Init
  <1>2. \A p \in Legacy : Wares!Product(<< name[p], Wares!Plain >>, Wares!None) \in ProductRow
    BY DEF Wares!Product, ProductRow, Skus, Wares!None
  <1>3. WareTables BY <1>1, <1>2 DEF WareTables
  <1>4. req = [c \in Clerks |-> Wares!Idle] BY DEF Wares!Init
  <1>5. WareRequests /\ OneAtWork /\ \A c \in Clerks : Found(req[c])
    BY <1>4 DEF WareRequests, OneAtWork, Found, Wares!Idle
  <1>6. OnePrimary BY <1>1 DEF OnePrimary, Primary, Wares!Shown, Wares!Unused
  <1>7. Distinct BY <1>1 DEF Wares!Live, Wares!Product, Wares!Unused, Distinct
  <1> QED BY <1>3, <1>5, <1>6, <1>7 DEF WaresInv

-----------------------------------------------------------------------------
(* What requests know, and what is changed *)

\* A request that begins is the only one, and what it has found is so.
LEMMA WaresBegin ==
    ASSUME OneItemEach, WaresInv, NEW c \in Clerks, NEW r \in Creating \cup Updating,
           Wares!Begin(c, r), Found(r)
    PROVE  WaresInv'
  <1>1. db' = db /\ req' = [req EXCEPT ![c] = r] /\ \A e \in Clerks : req[e] = Wares!Idle
    BY DEF Wares!Begin, OneItemEach
  <1>2. WareTables' /\ Distinct' /\ OnePrimary'
    BY <1>1 DEF WaresInv, WareTables, Distinct, OnePrimary, Primary, Wares!Shown, Wares!Live
  <1>3. WareRequests' /\ OneAtWork' BY <1>1 DEF WaresInv, WareRequests, OneAtWork
  <1>4. \A e \in Clerks : req'[e] = (IF e = c THEN r ELSE Wares!Idle) BY <1>1 DEF WaresInv, WareRequests
  <1>5. \A e \in Clerks : Found(req[e])'
    BY <1>1, <1>4 DEF Found, Wares!Idle, Primary, Wares!Shown, Wares!Live, Wares!Used
  <1> QED BY <1>2, <1>3, <1>5 DEF WaresInv

\* A request that ends leaves none under way.
LEMMA WaresEnd ==
    ASSUME WaresInv, NEW c \in Clerks, req[c] # Wares!Idle, req' = [req EXCEPT ![c] = Wares!Idle]
    PROVE  WareRequests' /\ OneAtWork' /\ \A e \in Clerks : Found(req[e])'
  BY DEF WaresInv, WareRequests, OneAtWork, Found, Wares!Idle

\* While nobody is at work, requests have found nothing.
LEMMA WaresAsleep ==
    ASSUME WaresInv, req' = req, \A e \in Clerks : req[e] = Wares!Idle
    PROVE  WareRequests' /\ OneAtWork' /\ \A e \in Clerks : Found(req[e])'
  BY DEF WaresInv, WareRequests, OneAtWork, Found, Wares!Idle

\* Products stay distinct, and the rows what they are, while pictures are changed.
LEMMA PicturesOnly ==
    ASSUME WaresInv, NEW f, db' = [db EXCEPT !.pictures = f],
           f = [i \in Pictures |-> f[i]], \A i \in Pictures : f[i] = Wares!Unused \/ IsPicture(f[i])
    PROVE  WareTables' /\ Distinct' /\ db'.products = db.products /\ db'.pictures = f
  BY DEF WaresInv, WareTables, Distinct, Wares!Live

LEMMA ProductsOnly ==
    ASSUME WaresInv, NEW f \in [Products -> {Wares!Unused} \cup ProductRow], db' = [db EXCEPT !.products = f]
    PROVE  WareTables' /\ OnePrimary' /\ db'.products = f /\ db'.pictures = db.pictures
  BY DEF WaresInv, WareTables, OnePrimary, Primary, Wares!Shown

-----------------------------------------------------------------------------
(* Steps of the products *)

LEMMA LoadProductStep ==
    ASSUME OneItemEach, WaresInv, NEW c \in Clerks, NEW p \in Products, NEW name \in Names,
           NEW plu \in Wares!PLUs \cup {Wares!None}, Wares!LoadProduct(c, p, name, plu)
    PROVE  WaresInv'
  <1>1. PICK n \in Wares!PLUFor(plu, {}), sku \in Wares!Generated(db, name) :
            Wares!Begin(c, [op |-> "create", p |-> p, sku |-> sku, plu |-> n])
    BY DEF Wares!LoadProduct
  <1>2. plu \in Nat BY PLUsAreNat DEF Wares!None
  <1>3. n \in Nat /\ n \notin Wares!Used(db, {}) BY <1>2, NumberIsFree DEF WaresInv
  <1>4. sku \in Skus BY GeneratedIsSku
  <1> DEFINE r == [op |-> "create", p |-> p, sku |-> sku, plu |-> n]
  <1>5. r \in Creating BY <1>3, <1>4 DEF Creating
  <1>6. Found(r) BY <1>3 DEF Found, Wares!LoadProduct
  <1> QED BY <1>1, <1>5, <1>6, WaresBegin

LEMMA LoadUpdateStep ==
    ASSUME OneItemEach, WaresInv, NEW c \in Clerks, NEW p \in Products,
           NEW plu \in Wares!PLUs \cup {Wares!None}, Wares!LoadUpdate(c, p, plu)
    PROVE  WaresInv'
  <1> DEFINE asked == IF plu = Wares!None THEN db.products[p].plu ELSE plu
  <1>1. PICK n \in Wares!PLUFor(asked, {p}) : Wares!Begin(c, [op |-> "update", p |-> p, plu |-> n])
    BY DEF Wares!LoadUpdate
  <1>0. p \in Wares!Live(db) BY DEF Wares!LoadUpdate
  <1>2. asked \in Nat BY <1>0, PLUsAreNat DEF Wares!Live, WaresInv, WareTables, ProductRow, Wares!Unused
  <1>3. n \in Nat /\ n \notin Wares!Used(db, {p}) BY <1>2, NumberIsFree DEF WaresInv
  <1> DEFINE r == [op |-> "update", p |-> p, plu |-> n]
  <1>5. r \in Updating BY <1>3 DEF Updating
  <1>6. Found(r) BY <1>0, <1>3 DEF Found
  <1> QED BY <1>1, <1>5, <1>6, WaresBegin

LEMMA CreateProductStep ==
    ASSUME OneItemEach, WaresInv, NEW c \in Clerks, Wares!CreateProduct(c)
    PROVE  WaresInv'
  <1> DEFINE r == req[c]
  <1>1. /\ r.op = "create" /\ req' = [req EXCEPT ![c] = Wares!Idle]
        /\ db' = IF r.sku \in Wares!Index(db) THEN db ELSE [db EXCEPT !.products[r.p] = Wares!Product(r.sku, r.plu)]
    BY DEF Wares!CreateProduct, Wares!Go
  <1>2. r \in Creating /\ r # Wares!Idle /\ Found(r)
    BY <1>1 DEF WaresInv, WareRequests, Wares!Idle, Updating, IsPicturing
  <1>3. WareRequests' /\ OneAtWork' /\ \A e \in Clerks : Found(req[e])' BY <1>1, <1>2, WaresEnd
  <1>4. CASE r.sku \in Wares!Index(db)
    BY <1>1, <1>3, <1>4 DEF WaresInv, WareTables, Distinct, OnePrimary, Primary, Wares!Shown, Wares!Live
  <1>5. CASE r.sku \notin Wares!Index(db)
    <2> DEFINE new == Wares!Product(r.sku, r.plu)
               f   == [db.products EXCEPT ![r.p] = new]
    <2>1. new \in ProductRow /\ new # Wares!Unused /\ r.p \in Products
      BY <1>2 DEF Creating, ProductRow, Wares!Product, Wares!Unused
    <2>2. f \in [Products -> {Wares!Unused} \cup ProductRow] /\ db' = [db EXCEPT !.products = f]
      BY <1>1, <1>5, <2>1 DEF WaresInv, WareTables
    <2>3. WareTables' /\ OnePrimary' /\ db'.products = f BY <2>2, ProductsOnly
    <2>4. db.products[r.p] = Wares!Unused /\ r.plu \notin Wares!Used(db, {}) BY <1>1, <1>2 DEF Found
    <2>5. \A p \in Products : f[p] = IF p = r.p THEN new ELSE db.products[p] BY <2>1 DEF WaresInv, WareTables
    <2>6. \A p \in Wares!Live(db) : db.products[p].plu # new.plu BY <2>4 DEF Wares!Used, Wares!Product
    <2>7. \A p \in Products : db.products[p] # Wares!Unused => db.products[p].sku # new.sku
      BY <1>5 DEF Wares!Index, Wares!Product
    <2>8. Wares!Live(db)' = Wares!Live(db) \cup {r.p} BY <2>1, <2>3, <2>5 DEF Wares!Live, Wares!Product
    <2>9. Distinct' BY <2>1, <2>3, <2>4, <2>5, <2>6, <2>7, <2>8 DEF Distinct, WaresInv, Wares!Live
    <2> QED BY <1>3, <2>3, <2>9 DEF WaresInv
  <1> QED BY <1>4, <1>5

LEMMA UpdateProductStep ==
    ASSUME OneItemEach, WaresInv, NEW c \in Clerks, Wares!UpdateProduct(c)
    PROVE  WaresInv'
  <1> DEFINE r == req[c]
  <1>1. /\ r.op = "update" /\ req' = [req EXCEPT ![c] = Wares!Idle]
        /\ db' = IF r.p \in Wares!Live(db) THEN [db EXCEPT !.products[r.p].plu = r.plu] ELSE db
    BY DEF Wares!UpdateProduct, Wares!Go
  <1>2. r \in Updating /\ r # Wares!Idle /\ Found(r)
    BY <1>1 DEF WaresInv, WareRequests, Wares!Idle, Creating, IsPicturing
  <1>3. WareRequests' /\ OneAtWork' /\ \A e \in Clerks : Found(req[e])' BY <1>1, <1>2, WaresEnd
  <1>4. r.p \in Wares!Live(db) /\ r.plu \notin Wares!Used(db, {r.p}) /\ r.p \in Products /\ r.plu \in Nat
    BY <1>1, <1>2 DEF Found, Updating
  <1> DEFINE old == db.products[r.p]
             new == [old EXCEPT !.plu = r.plu]
             f   == [db.products EXCEPT ![r.p] = new]
  <1>5. old \in ProductRow BY <1>4 DEF Wares!Live, WaresInv, WareTables, Wares!Unused
  <1>6. new \in ProductRow /\ new.sku = old.sku /\ new.plu = r.plu /\ new.st = old.st
    BY <1>4, <1>5 DEF ProductRow
  <1>7. f \in [Products -> {Wares!Unused} \cup ProductRow] /\ db' = [db EXCEPT !.products = f]
    BY <1>1, <1>4, <1>6 DEF WaresInv, WareTables
  <1>8. WareTables' /\ OnePrimary' /\ db'.products = f BY <1>7, ProductsOnly
  <1>9. \A p \in Products : f[p] = IF p = r.p THEN new ELSE db.products[p] BY <1>4 DEF WaresInv, WareTables
  <1>10. \A p \in Wares!Live(db) : p # r.p => db.products[p].plu # r.plu BY <1>4 DEF Wares!Used
  <1>11. Wares!Live(db)' = Wares!Live(db) BY <1>4, <1>6, <1>8, <1>9 DEF Wares!Live
  <1>12. Distinct'
    <2>1. ASSUME NEW p \in Wares!Live(db), NEW q \in Wares!Live(db), p # q, f[p].plu # Wares!None
          PROVE  f[p].plu # f[q].plu
      BY <2>1, <1>4, <1>6, <1>9, <1>10 DEF Wares!Live, WaresInv, Distinct
    <2>2. ASSUME NEW p \in Products, NEW q \in Products, p # q, f[p] # Wares!Unused, f[q] # Wares!Unused
          PROVE  f[p].sku # f[q].sku
      BY <1>4, <1>5, <1>6, <1>9, UnusedIsNoRow, <2>2 DEF WaresInv, Distinct
    <2> QED BY <1>8, <1>11, <2>1, <2>2 DEF Distinct
  <1> QED BY <1>3, <1>8, <1>12 DEF WaresInv

LEMMA DeleteProductStep ==
    ASSUME OneItemEach, WaresInv, NEW p \in Products, Wares!DeleteProduct(p)
    PROVE  WaresInv'
  <1>1. /\ p \in Wares!Live(db) /\ req' = req /\ db' = [db EXCEPT !.products[p].st = "deleted"]
        /\ \A e \in Clerks : req[e] = Wares!Idle
    BY DEF Wares!DeleteProduct, Wares!Write, OneItemEach
  <1>2. WareRequests' /\ OneAtWork' /\ \A e \in Clerks : Found(req[e])' BY <1>1, WaresAsleep
  <1> DEFINE old == db.products[p]
             new == [old EXCEPT !.st = "deleted"]
             f   == [db.products EXCEPT ![p] = new]
  <1>3. old \in ProductRow BY <1>1 DEF Wares!Live, WaresInv, WareTables, Wares!Unused
  <1>4. new \in ProductRow /\ new.sku = old.sku /\ new.st = "deleted" BY <1>3 DEF ProductRow
  <1>5. f \in [Products -> {Wares!Unused} \cup ProductRow] /\ db' = [db EXCEPT !.products = f]
    BY <1>1, <1>4 DEF WaresInv, WareTables
  <1>6. WareTables' /\ OnePrimary' /\ db'.products = f BY <1>5, ProductsOnly
  <1>7. \A q \in Products : f[q] = IF q = p THEN new ELSE db.products[q] BY DEF WaresInv, WareTables
  <1>8. Wares!Live(db)' = Wares!Live(db) \ {p} BY <1>4, <1>6, <1>7 DEF Wares!Live
  <1>9. \A x \in Products : f[x] # Wares!Unused => db.products[x] # Wares!Unused /\ f[x].sku = db.products[x].sku
    BY <1>3, <1>4, <1>7, UnusedIsNoRow
  <1>10. \A x \in Wares!Live(db) \ {p} : x \in Products /\ f[x] = db.products[x] BY <1>7 DEF Wares!Live
  <1>11. Distinct' BY <1>6, <1>8, <1>9, <1>10 DEF Distinct, WaresInv
  <1> QED BY <1>2, <1>6, <1>11 DEF WaresInv

\* One new item of a bill: its code is not in the index, its number is free.
LEMMA EnsureNewItemsStep ==
    ASSUME OneItemEach, WaresInv, NEW S \in SUBSET Products, Wares!EnsureNewItems(S)
    PROVE  WaresInv'
  <1>1. PICK sku \in [S -> Names \X (Endings \cup {Wares!Plain})] :
            Wares!Write(IF \E p \in S : sku[p] \in Wares!Index(db) THEN db
                        ELSE [db EXCEPT !.products = [p \in Products |->
                                 IF p \in S THEN Wares!Product(sku[p], Wares!NextPLU(db)) ELSE @[p]]])
    BY DEF Wares!EnsureNewItems
  <1>2. req' = req /\ \A e \in Clerks : req[e] = Wares!Idle BY <1>1 DEF Wares!Write, OneItemEach
  <1>3. WareRequests' /\ OneAtWork' /\ \A e \in Clerks : Found(req[e])' BY <1>2, WaresAsleep
  <1>4. CASE \E p \in S : sku[p] \in Wares!Index(db)
    <2>1. db' = db BY <1>1, <1>4 DEF Wares!Write
    <2> QED BY <2>1, <1>3 DEF WaresInv, WareTables, Distinct, OnePrimary, Primary, Wares!Shown, Wares!Live
  <1>5. CASE ~ \E p \in S : sku[p] \in Wares!Index(db)
    <2>1. PICK p \in Products : S = {p}
      <3>1. IsFiniteSet(S) /\ Cardinality(S) <= 1 /\ S # {}
        BY CountsAsMany, FS_Subset DEF Wares!EnsureNewItems, OneItemEach
      <3>2. Cardinality(S) \in Nat /\ Cardinality(S) # 0 BY <3>1, FS_CardinalityType, FS_EmptySet
      <3>3. Cardinality(S) = 1 BY <3>1, <3>2
      <3>4. \E x : S = {x} BY <3>1, <3>3, FS_Singleton
      <3> QED BY <3>4
    <2> DEFINE new == Wares!Product(sku[p], Wares!NextPLU(db))
               f   == [db.products EXCEPT ![p] = new]
    <2>2. Wares!NextPLU(db) \in Nat /\ Wares!NextPLU(db) \notin Wares!Used(db, {}) BY NextIsFree DEF WaresInv
    <2>3. new \in ProductRow /\ new # Wares!Unused /\ db.products[p] = Wares!Unused
      BY <2>1, <2>2 DEF ProductRow, Wares!Product, Wares!Unused, Skus, Wares!EnsureNewItems
    <2>4. f \in [Products -> {Wares!Unused} \cup ProductRow] BY <2>3 DEF WaresInv, WareTables
    <2>5. db' = [db EXCEPT !.products = f] BY <2>1, <1>1, <1>5 DEF WaresInv, WareTables, Wares!Write
    <2>6. WareTables' /\ OnePrimary' /\ db'.products = f BY <2>4, <2>5, ProductsOnly
    <2>7. \A x \in Products : f[x] = IF x = p THEN new ELSE db.products[x] BY DEF WaresInv, WareTables
    <2>8. \A x \in Wares!Live(db) : db.products[x].plu # new.plu BY <2>2 DEF Wares!Used, Wares!Product
    <2>9. \A x \in Products : db.products[x] # Wares!Unused => db.products[x].sku # new.sku
      BY <1>5, <2>1 DEF Wares!Index, Wares!Product
    <2>10. Wares!Live(db)' = Wares!Live(db) \cup {p} BY <2>3, <2>6, <2>7 DEF Wares!Live, Wares!Product
    <2>11. Distinct' BY <2>3, <2>6, <2>7, <2>8, <2>9, <2>10 DEF Distinct, WaresInv, Wares!Live
    <2> QED BY <1>3, <2>6, <2>11 DEF WaresInv
  <1> QED BY <1>4, <1>5

\* Products without a number get free ones, each its own; requests end with the
\* server that is started anew.
LEMMA BackfillStep ==
    ASSUME OneItemEach, WaresInv, Wares!BackfillProductPLUs
    PROVE  WaresInv'
  <1> DEFINE S    == {p \in Wares!Live(db) : db.products[p].plu = Wares!None}
             free == Wares!PLUs \ Wares!Used(db, {})
  <1>1. PICK n \in Wares!Injection(S, free) :
            db' = [db EXCEPT !.products = [p \in Products |-> IF p \in S THEN [@[p] EXCEPT !.plu = n[p]] ELSE @[p]]]
    BY DEF Wares!BackfillProductPLUs
  <1>2. n \in [S -> free] /\ \A p, q \in S : n[p] = n[q] => p = q BY DEF Wares!Injection, Wares!IsInjective
  <1>3. req' = [c \in Clerks |-> Wares!Idle] BY DEF Wares!BackfillProductPLUs
  <1>4. WareRequests' /\ OneAtWork' /\ \A e \in Clerks : Found(req[e])'
    BY <1>3 DEF WareRequests, OneAtWork, Found, Wares!Idle
  <1> DEFINE f == [p \in Products |-> IF p \in S THEN [db.products[p] EXCEPT !.plu = n[p]] ELSE db.products[p]]
  <1>5. \A p \in S : n[p] \in Nat /\ n[p] \notin Wares!Used(db, {}) /\ db.products[p] \in ProductRow
    BY <1>2, PLUsAreNat DEF Wares!Live, WaresInv, WareTables, Wares!Unused
  <1>6. \A p \in Wares!Live(db) : p \in Products /\ f[p].st = "live" /\ f[p].sku = db.products[p].sku
                                /\ f[p].plu = IF p \in S THEN n[p] ELSE db.products[p].plu
    BY <1>5 DEF Wares!Live, ProductRow
  <1>7. \A p \in Products : p \notin Wares!Live(db) => f[p] = db.products[p] OBVIOUS
  <1>8. f \in [Products -> {Wares!Unused} \cup ProductRow] BY <1>5 DEF ProductRow, WaresInv, WareTables
  <1>9. WareTables' /\ OnePrimary' /\ db'.products = f BY <1>1, <1>8, ProductsOnly
  <1> HIDE DEF f
  <1>10. Wares!Live(db)' = Wares!Live(db) BY <1>6, <1>7, <1>9 DEF Wares!Live
  <1>11. \A p \in Wares!Live(db) : db.products[p].plu \in Wares!Used(db, {}) BY DEF Wares!Used
  <1>12. ASSUME NEW p \in Wares!Live(db), NEW q \in Wares!Live(db), p # q, f[p].plu # Wares!None
         PROVE  f[p].plu # f[q].plu
    BY <1>2, <1>6, <1>12, <1>5, <1>11 DEF WaresInv, Distinct
  <1>13. \A x \in Products : f[x] # Wares!Unused => db.products[x] # Wares!Unused /\ f[x].sku = db.products[x].sku
    BY <1>6, <1>7 DEF Wares!Live, Wares!Unused
  <1>14. Distinct' BY <1>9, <1>10, <1>12, <1>13 DEF Distinct, WaresInv
  <1> QED BY <1>4, <1>9, <1>14 DEF WaresInv

-----------------------------------------------------------------------------
(* Steps of the pictures *)

LEMMA LoadPictureStep ==
    ASSUME OneItemEach, WaresInv, NEW c \in Clerks, NEW i \in Pictures, NEW b \in BOOLEAN, Wares!LoadPicture(c, i, b)
    PROVE  WaresInv'
  <1>x. PICK new \in BOOLEAN : new = (db.pictures[i] = Wares!Unused) OBVIOUS
  <1>y. PICK n : n = Wares!Max({0} \cup {db.pictures[k].order : k \in Wares!Shown}) + 1 OBVIOUS
  <1> DEFINE r == [op |-> "picture", i |-> i, primary |-> b, new |-> new, order |-> n]
             f == [k \in Pictures |-> IF k \in Wares!Others(i) THEN [db.pictures[k] EXCEPT !.primary = FALSE] ELSE db.pictures[k]]
  <1>1. /\ req' = [req EXCEPT ![c] = r] /\ \A e \in Clerks : req[e] = Wares!Idle
        /\ db' = IF b THEN [db EXCEPT !.pictures = f] ELSE db
    BY <1>x, <1>y DEF Wares!LoadPicture, Wares!Go, OneItemEach
  <1>2. IsPicturing(r) BY DEF IsPicturing
  <1>3. \A e \in Clerks : req'[e] = IF e = c THEN r ELSE Wares!Idle BY <1>1 DEF WaresInv, WareRequests
  <1>4. req' = [e \in Clerks |-> req'[e]] BY <1>1 DEF WaresInv, WareRequests
  <1>5. WareRequests' /\ OneAtWork' BY <1>2, <1>3, <1>4 DEF WareRequests, OneAtWork
  <1>6. Found(Wares!Idle)' BY DEF Found, Wares!Idle
  <1>7. ASSUME Found(r)' PROVE \A e \in Clerks : Found(req[e])' BY <1>3, <1>6, <1>7
  <1>8. CASE ~b
    <2>1. db' = db BY <1>1, <1>8
    <2>2. Found(r)' BY <1>x, <1>y, <1>8, <2>1 DEF Found
    <2> QED
      BY <1>5, <1>7, <2>1, <2>2 DEF WaresInv, WareTables, Distinct, OnePrimary, Primary, Wares!Shown, Wares!Live
  <1>9. CASE b
    <2>1. ASSUME NEW k \in Pictures
          PROVE  /\ f[k] = Wares!Unused \/ IsPicture(f[k])
                 /\ f[k] = Wares!Unused <=> db.pictures[k] = Wares!Unused
                 /\ f[k].st = "live" /\ k # i => ~f[k].primary
      <3>1. CASE k \notin Wares!Others(i) BY <3>1 DEF Wares!Others, Wares!Shown, WaresInv, WareTables
      <3>2. CASE k \in Wares!Others(i)
        <4>1. k \in Wares!Shown BY <3>2 DEF Wares!Others
        <4>2. PICK p \in BOOLEAN : \E m : db.pictures[k] = [st |-> "live", primary |-> p, order |-> m]
          BY <4>1, AShownPicture DEF WaresInv
        <4>2a. PICK m : db.pictures[k] = [st |-> "live", primary |-> p, order |-> m] BY <4>2
        <4>3. f[k] = [db.pictures[k] EXCEPT !.primary = FALSE] BY <3>2
        <4>4. f[k] = [st |-> "live", primary |-> FALSE, order |-> m]
          <5> DEFINE v == [st |-> "live", primary |-> p, order |-> m]
          <5>1. \A x : [v EXCEPT !.primary = x] = [st |-> "live", primary |-> x, order |-> m] OBVIOUS
          <5>2. f[k] = [v EXCEPT !.primary = FALSE] BY <4>2a, <4>3
          <5> QED BY <5>1, <5>2, Zenon
        <4>5. IsPicture(f[k]) BY <4>4, APicture
        <4> QED BY <4>2a, <4>4, <4>5 DEF Wares!Unused
      <3> QED BY <3>1, <3>2
    <2> HIDE DEF f
    <2>2. f = [k \in Pictures |-> f[k]] BY DEF f
    <2>3. WareTables' /\ Distinct' /\ db'.products = db.products /\ db'.pictures = f
      BY <1>1, <1>9, <2>1, <2>2, PicturesOnly
    <2>4. \A k \in Pictures : Primary(k)' => k = i BY <2>1, <2>3 DEF Primary, Wares!Shown
    <2>5. OnePrimary' BY <2>4 DEF OnePrimary
    <2>6. Found(r)' BY <1>x, <1>y, <2>1, <2>3, <2>4 DEF Found
    <2> QED BY <1>5, <1>7, <2>3, <2>5, <2>6 DEF WaresInv
  <1> QED BY <1>8, <1>9

LEMMA StorePictureStep ==
    ASSUME OneItemEach, WaresInv, NEW c \in Clerks, Wares!StorePicture(c)
    PROVE  WaresInv'
  <1> DEFINE r == req[c]
             f == IF r.new THEN [db.pictures EXCEPT ![r.i] = [st |-> "live", primary |-> r.primary, order |-> r.order]]
                  ELSE IF r.i \in Wares!Shown THEN [db.pictures EXCEPT ![r.i].primary = r.primary] ELSE db.pictures
  <1>1. r.op = "picture" /\ req' = [req EXCEPT ![c] = Wares!Idle] /\ r # Wares!Idle
    BY DEF Wares!StorePicture, Wares!Go, Wares!Idle
  <1>2. db' = [db EXCEPT !.pictures = f] BY DEF Wares!StorePicture, Wares!Go, WaresInv, WareTables
  <1>3. WareRequests' /\ OneAtWork' /\ \A e \in Clerks : Found(req[e])' BY <1>1, WaresEnd
  <1>4. IsPicturing(r) /\ Found(r) BY <1>1 DEF WaresInv, WareRequests, Creating, Updating
  <1>x. PICK i \in Pictures, b \in BOOLEAN, new \in BOOLEAN :
            \E n : r = [op |-> "picture", i |-> i, primary |-> b, new |-> new, order |-> n]
    BY <1>4 DEF IsPicturing
  <1>5. PICK n : r = [op |-> "picture", i |-> i, primary |-> b, new |-> new, order |-> n] BY <1>x
  <1>6. b => \A k \in Pictures : Primary(k) => k = i BY <1>4, <1>5 DEF Found
  <1>7. f = IF new THEN [db.pictures EXCEPT ![i] = [st |-> "live", primary |-> b, order |-> n]]
            ELSE IF i \in Wares!Shown THEN [db.pictures EXCEPT ![i].primary = b] ELSE db.pictures
    BY <1>5
  <1> HIDE DEF f, r
  <1>8. /\ f = [k \in Pictures |-> f[k]]
        /\ \A k \in Pictures : k # i => f[k] = db.pictures[k]
        /\ f[i] = Wares!Unused \/ IsPicture(f[i])
        /\ f[i].st = "live" => f[i].primary = b
    <2> DEFINE v == [st |-> "live", primary |-> b, order |-> n]
    <2>0. db.pictures = [k \in Pictures |-> db.pictures[k]] BY DEF WaresInv, WareTables
    <2>1. CASE new BY <1>7, <2>0, <2>1, APicture
    <2>2. CASE ~new /\ i \in Wares!Shown
      <3>1. PICK p \in BOOLEAN : \E m : db.pictures[i] = [st |-> "live", primary |-> p, order |-> m]
        BY <2>2, AShownPicture DEF WaresInv
      <3>1a. PICK m : db.pictures[i] = [st |-> "live", primary |-> p, order |-> m] BY <3>1
      <3> DEFINE w == [st |-> "live", primary |-> b, order |-> m]
      <3>2. f = [k \in Pictures |-> IF k = i THEN w ELSE db.pictures[k]] BY <1>7, <2>0, <2>2, <3>1a
      <3>3. IsPicture(w) BY APicture
      <3> QED BY <3>2, <3>3
    <2>3. CASE ~new /\ i \notin Wares!Shown BY <1>7, <2>0, <2>3 DEF Wares!Shown, WaresInv, WareTables
    <2> QED BY <2>1, <2>2, <2>3
  <1>9. WareTables' /\ Distinct' /\ db'.products = db.products /\ db'.pictures = f
    BY <1>8, <1>2, PicturesOnly DEF WaresInv, WareTables
  <1>10. OnePrimary' BY <1>8, <1>9, <1>6 DEF Primary, Wares!Shown, OnePrimary, WaresInv
  <1> QED BY <1>3, <1>9, <1>10 DEF WaresInv

LEMMA DeletePictureStep ==
    ASSUME OneItemEach, WaresInv, NEW i \in Pictures, Wares!DeleteProductImage(i)
    PROVE  WaresInv'
  <1> DEFINE f == [db.pictures EXCEPT ![i].st = "deleted"]
  <1>1. /\ i \in Wares!Shown /\ req' = req /\ db' = [db EXCEPT !.pictures = f]
        /\ \A e \in Clerks : req[e] = Wares!Idle
    BY DEF Wares!DeleteProductImage, Wares!Write, OneItemEach
  <1>2. WareRequests' /\ OneAtWork' /\ \A e \in Clerks : Found(req[e])' BY <1>1, WaresAsleep
  <1>3. PICK p \in BOOLEAN : \E m : db.pictures[i] = [st |-> "live", primary |-> p, order |-> m]
    BY <1>1, AShownPicture DEF WaresInv
  <1>3a. PICK m : db.pictures[i] = [st |-> "live", primary |-> p, order |-> m] BY <1>3
  <1>4. f[i] = [st |-> "deleted", primary |-> p, order |-> m] BY <1>3a DEF WaresInv, WareTables
  <1>5. f = [k \in Pictures |-> f[k]] /\ \A k \in Pictures : k # i => f[k] = db.pictures[k]
    BY DEF WaresInv, WareTables
  <1> HIDE DEF f
  <1>6. IsPicture(f[i]) /\ f[i].st = "deleted" BY <1>4, APicture
  <1>7. WareTables' /\ Distinct' /\ db'.products = db.products /\ db'.pictures = f
    BY <1>5, <1>6, <1>1, PicturesOnly DEF WaresInv, WareTables
  <1>8. \A k \in Pictures : Primary(k)' => Primary(k) BY <1>5, <1>6, <1>7 DEF Primary, Wares!Shown
  <1>9. OnePrimary' BY <1>8 DEF OnePrimary, WaresInv
  <1> QED BY <1>2, <1>7, <1>9 DEF WaresInv

LEMMA WaresDie == ASSUME OneItemEach, WaresInv, NEW c \in Clerks, Wares!Die(c) PROVE WaresInv'
  <1>1. req[c] # Wares!Idle /\ req' = [req EXCEPT ![c] = Wares!Idle] /\ db' = db BY DEF Wares!Die, Wares!Go
  <1>2. WareRequests' /\ OneAtWork' /\ \A e \in Clerks : Found(req[e])' BY <1>1, WaresEnd
  <1> QED BY <1>1, <1>2 DEF WaresInv, WareTables, Distinct, OnePrimary, Primary, Wares!Shown, Wares!Live

-----------------------------------------------------------------------------
LEMMA WaresNext == OneItemEach /\ WaresInv /\ [Wares!Next]_<<db, req>> => WaresInv'
  <1> SUFFICES ASSUME OneItemEach, WaresInv, [Wares!Next]_<<db, req>> PROVE WaresInv' OBVIOUS
  <1>1. CASE UNCHANGED << db, req >>
    BY <1>1 DEF WaresInv, WareTables, WareRequests, OneAtWork, Found, Distinct, OnePrimary, Primary, Wares!Shown,
                Wares!Live, Wares!Used
  <1>2. ASSUME NEW c \in Clerks, NEW p \in Products, NEW plu \in Wares!PLUs \cup {Wares!None},
               Wares!LoadUpdate(c, p, plu) \/ \E name \in Names : Wares!LoadProduct(c, p, name, plu)
        PROVE  WaresInv'
    BY <1>2, LoadUpdateStep, LoadProductStep
  <1>3. ASSUME NEW c \in Clerks, Wares!CreateProduct(c) \/ Wares!UpdateProduct(c) PROVE WaresInv'
    BY <1>3, CreateProductStep, UpdateProductStep
  <1>4. ASSUME NEW c \in Clerks, NEW i \in Pictures, NEW b \in BOOLEAN, Wares!LoadPicture(c, i, b) PROVE WaresInv'
    BY <1>4, LoadPictureStep
  <1>5. ASSUME NEW c \in Clerks, Wares!StorePicture(c) \/ Wares!Die(c) PROVE WaresInv'
    BY <1>5, StorePictureStep, WaresDie
  <1>6. ASSUME NEW p \in Products, Wares!DeleteProduct(p) PROVE WaresInv' BY <1>6, DeleteProductStep
  <1>7. ASSUME NEW S \in SUBSET Products, Wares!EnsureNewItems(S) PROVE WaresInv' BY <1>7, EnsureNewItemsStep
  <1>8. ASSUME Wares!BackfillProductPLUs PROVE WaresInv' BY <1>8, BackfillStep
  <1>9. ASSUME NEW i \in Pictures, Wares!DeleteProductImage(i) PROVE WaresInv' BY <1>9, DeletePictureStep
  <1> QED BY <1>1, <1>2, <1>3, <1>4, <1>5, <1>6, <1>7, <1>8, <1>9 DEF Wares!Next

LEMMA WaresMeans == WaresInv => Wares!NumbersUnique
  <1> SUFFICES ASSUME WaresInv PROVE Wares!NumbersUnique OBVIOUS
  <1> DEFINE P == {i \in Wares!Shown : db.pictures[i].primary}
  <1>1. \A i, k \in P : i = k BY DEF WaresInv, OnePrimary, Primary, Wares!Shown
  <1>2. Cardinality(P) <= 1
    <2>1. CASE P = {} BY <2>1, FS_EmptySet
    <2>2. ASSUME NEW i \in P PROVE Cardinality(P) <= 1
      <3>1. P = {i} BY <1>1
      <3> HIDE DEF P
      <3>2. Cardinality(P) = 1 BY <3>1, FS_Singleton
      <3> QED BY <3>2
    <2> QED BY <2>1, <2>2
  <1> QED BY <1>2, CountsAsMany DEF WaresInv, Distinct, Wares!NumbersUnique

\* With one request at a time and no bill with two new items, a scale's number
\* stands for one product, every SKU for one row, deleted rows included, and one
\* picture at most is the primary one (utils/plu.go, utils/sku.go:70).
THEOREM NumbersUniqueHolds == ASSUME OneItemEach PROVE Wares!Spec => []Wares!NumbersUnique
  <1>1. Wares!Init => WaresInv BY WaresInit
  <1>2. WaresInv /\ [Wares!Next]_<<db, req>> => WaresInv' BY WaresNext
  <1>3. WaresInv => Wares!NumbersUnique BY WaresMeans
  <1> QED BY <1>1, <1>2, <1>3, PTL DEF Wares!Spec, Wares!vars

-----------------------------------------------------------------------------
(* Accounts and journals *)

\* A function has one sum in both modules, and a set one number of elements.
LEMMA OneTotal == \A f, S : Chart!Total(f, S) = SumFunctionOnSet(f, S)
  BY DEF Chart!Total, Chart!SumFunctionOnSet, SumFunctionOnSet, Chart!FoldFunctionOnSet, FoldFunctionOnSet,
         Chart!MapThenFoldSet, MapThenFoldSet

LEMMA OneCount == \A S : Chart!Cardinality(S) = Cardinality(S)
  BY DEF Chart!Cardinality, Cardinality

LEMMA OneMax == \A S : Chart!Max(S) = Max(S)
  BY DEF Chart!Max, Max

Kinds == {"asset", "liability", "equity", "income", "expense"}

\* What the handlers are given
Labels == Categories \cup {Defaults[i].name : i \in DOMAIN Defaults}

Chartered ==
    /\ Defaults \in Seq([code : Int, type : Kinds, name : Labels])
    /\ Types \subseteq Kinds /\ Openings \subseteq Int /\ Amounts \subseteq Int

\* The codes of the defaults leave room for the accounts that are added.
Room ==
    /\ MaxAccounts \in 0 .. 9
    /\ \A i \in DOMAIN Defaults : Defaults[i].code - Chart!Base(Defaults[i].type) \in 1 .. 9 - MaxAccounts

-----------------------------------------------------------------------------
(* Types *)

AccountRow == [live : BOOLEAN, code : Int, type : Kinds, name : Labels, default : BOOLEAN, active : BOOLEAN,
               opening : Int, balance : Int]
EntryRow   == [st : {"draft", "posted", "deleted"}, to : Nat, from : Nat, amt : Int]
Refs       == Entries \cup Documents
LedgerRow  == [ref : Refs, acct : Nat, debit : Int, credit : Int, n : Nat]

BookTables ==
    [accounts : Seq(AccountRow), entries : [Entries -> {Chart!Unused} \cup EntryRow], ledger : SUBSET LedgerRow]

Posting == [op : {"post"}, j : Entries]

-----------------------------------------------------------------------------
(* The invariant, of tables t *)

Nets       == [row \in LedgerRow |-> row.debit - row.credit]
NetSum(S)  == SumFunctionOnSet(Nets, S)
RowsOn(t, a) == {row \in t.ledger : row.acct = a}
Alike(t, ref, a, debit) == {row \in Chart!Rows(t, ref) : row.acct = a /\ row.debit = debit}

\* A row is numbered among those that are alike.
NumberedRows(t) == \A row \in t.ledger : row.n < Cardinality(Alike(t, row.ref, row.acct, row.debit))

\* An account's balance is its opening balance and its rows.
Tallies(v, net) == Chart!Weight(v.type, v.balance - v.opening) = net

GoodBooks(t) ==
    /\ t \in BookTables /\ IsFiniteSet(t.ledger)
    /\ \A row \in t.ledger : row.acct \in DOMAIN t.accounts
    /\ NumberedRows(t)
    /\ \A a \in DOMAIN t.accounts : Tallies(t.accounts[a], NetSum(RowsOn(t, a)))

\* Journals are balanced, each and all together.
EvenBooks(t) == NetSum(t.ledger) = 0 /\ \A ref \in Refs : NetSum(Chart!Rows(t, ref)) = 0

\* Accounts have codes of their type, no two that live the same.
Offset(v) == v.code - Chart!Base(v.type)

CodedBooks(t) ==
    /\ \A a \in DOMAIN t.accounts : LET v == t.accounts[a] IN
          /\ Offset(v) \in 1 .. 9
          /\ IF v.default THEN Offset(v) <= 9 - MaxAccounts ELSE a <= MaxAccounts /\ Offset(v) <= 9 - MaxAccounts + a
    /\ \A a, b \in DOMAIN t.accounts : a # b /\ t.accounts[a].live /\ t.accounts[b].live =>
          t.accounts[a].code # t.accounts[b].code

\* A request has an entry that was made.
Posters ==
    /\ req \in [Clerks -> {Chart!Idle} \cup Posting]
    /\ \A c \in Clerks : req[c] # Chart!Idle => db.entries[req[c].j] # Chart!Unused

BooksInv == GoodBooks(db) /\ EvenBooks(db) /\ Posters

-----------------------------------------------------------------------------
(* Sums of differences, and sums taken by a key *)

LEMMA SumDifference ==
    ASSUME NEW S, IsFiniteSet(S), NEW f, NEW g, NEW h,
           \A x \in S : f[x] \in Int /\ g[x] \in Int /\ h[x] = f[x] - g[x]
    PROVE  SumFunctionOnSet(h, S) = SumFunctionOnSet(f, S) - SumFunctionOnSet(g, S)
  <1> DEFINE Good == {U \in SUBSET S : SumFunctionOnSet(h, U) = SumFunctionOnSet(f, U) - SumFunctionOnSet(g, U)}
  <1>1. {} \in Good BY SumEmpty
  <1>2. ASSUME NEW U \in SUBSET S, NEW x \in S, U \in Good, x \notin U
        PROVE  U \cup {x} \in Good
    <2>1. IsFiniteSet(U) /\ \A y \in U \cup {x} : f[y] \in Int /\ g[y] \in Int /\ h[y] \in Int BY FS_Subset
    <2>2. SumFunctionOnSet(f, U) \in Int /\ SumFunctionOnSet(g, U) \in Int BY <2>1, SumInt
    <2>3. /\ SumFunctionOnSet(f, U \cup {x}) = f[x] + SumFunctionOnSet(f, U)
          /\ SumFunctionOnSet(g, U \cup {x}) = g[x] + SumFunctionOnSet(g, U)
          /\ SumFunctionOnSet(h, U \cup {x}) = h[x] + SumFunctionOnSet(h, U)
      BY <1>2, <2>1, SumAdds
    <2> QED BY <1>2, <2>1, <2>2, <2>3
  <1>3. S \in Good
    <2> HIDE DEF Good
    <2> QED BY <1>1, <1>2, SetInduction
  <1> QED BY <1>3

\* g has for each key in A what the rows in R with that key come to.
Keyed(R, A, k, f, g) ==
    /\ IsFiniteSet(R) /\ IsFiniteSet(A)
    /\ \A r \in R : k[r] \in A /\ f[r] \in Int
    /\ \A a \in A : g[a] = SumFunctionOnSet(f, {r \in R : k[r] = a})

LEMMA SumByKey ==
    ASSUME NEW R, NEW A, NEW k, NEW f, NEW g, Keyed(R, A, k, f, g)
    PROVE  SumFunctionOnSet(g, A) = SumFunctionOnSet(f, R)
  <1> USE DEF Keyed
  <1> DEFINE Of(U) == {r \in R : k[r] \in U}
             Good == {U \in SUBSET A : SumFunctionOnSet(g, U) = SumFunctionOnSet(f, Of(U))}
  <1>1. {} \in Good
    <2>1. Of({}) = {} OBVIOUS
    <2> HIDE DEF Of
    <2> QED BY <2>1, SumEmpty
  <1>2. ASSUME NEW U \in SUBSET A, NEW x \in A, U \in Good, x \notin U
        PROVE  U \cup {x} \in Good
    <2> DEFINE X == {r \in R : k[r] = x}
    <2>1. Of(U \cup {x}) = Of(U) \cup X /\ Of(U) \cap X = {} /\ Of(U) \subseteq R /\ X \subseteq R BY <1>2
    <2>2. IsFiniteSet(U) /\ IsFiniteSet(Of(U)) /\ IsFiniteSet(X) BY <2>1, FS_Subset
    <2>3. g[x] = SumFunctionOnSet(f, X) OBVIOUS
    <2>4. \A y \in A : g[y] \in Int
      <3> SUFFICES ASSUME NEW y \in A PROVE g[y] \in Int OBVIOUS
      <3> DEFINE Y == {r \in R : k[r] = y}
      <3>1. g[y] = SumFunctionOnSet(f, Y) /\ Y \subseteq R /\ IsFiniteSet(Y) BY FS_Subset
      <3> HIDE DEF Y
      <3> QED BY <3>1, SumInt
    <2>5. SumFunctionOnSet(g, U) = SumFunctionOnSet(f, Of(U)) BY <1>2
    <2> HIDE DEF Of, X
    <2>6. SumFunctionOnSet(f, Of(U \cup {x})) = SumFunctionOnSet(f, Of(U)) + SumFunctionOnSet(f, X)
      <3>1. \A r \in Of(U) \cup X : f[r] \in Int BY <2>1
      <3>2. SumFunctionOnSet(f, Of(U) \cup X) = SumFunctionOnSet(f, Of(U)) + SumFunctionOnSet(f, X)
        BY <2>1, <2>2, <3>1, SumUnion
      <3> QED BY <2>1, <3>2
    <2>7. SumFunctionOnSet(g, U \cup {x}) = g[x] + SumFunctionOnSet(g, U) BY <1>2, <2>2, <2>4, SumAdds
    <2>8. SumFunctionOnSet(f, Of(U)) \in Int /\ SumFunctionOnSet(f, X) \in Int BY <2>1, <2>2, SumInt
    <2>9. SumFunctionOnSet(g, U \cup {x}) = SumFunctionOnSet(f, Of(U \cup {x})) BY <2>3, <2>5, <2>6, <2>7, <2>8
    <2> QED BY <2>9
  <1>3. A \in Good
    <2> HIDE DEF Good
    <2> QED BY <1>1, <1>2, SetInduction
  <1>4. Of(A) = R OBVIOUS
  <1> HIDE DEF Of
  <1> QED BY <1>3, <1>4

-----------------------------------------------------------------------------
(* Steps that leave the ledger *)

LEMMA NetsOf ==
    ASSUME NEW S, S \subseteq LedgerRow, IsFiniteSet(S)
    PROVE  /\ NetSum(S) \in Int /\ \A row \in S : Nets[row] = row.debit - row.credit /\ Nets[row] \in Int
           /\ \A R \in SUBSET S : IsFiniteSet(R) /\ NetSum(R) \in Int
  <1>1. \A row \in S : Nets[row] = row.debit - row.credit /\ Nets[row] \in Int BY DEF Nets, LedgerRow
  <1>2. \A R \in SUBSET S : IsFiniteSet(R) BY FS_Subset
  <1> HIDE DEF Nets
  <1>3. \A R \in SUBSET S : NetSum(R) \in Int BY <1>1, <1>2, SumInt DEF NetSum
  <1> QED BY <1>1, <1>2, <1>3

LEMMA LedgerStays ==
    ASSUME NEW t, GoodBooks(t), NEW T \in BookTables, T.ledger = t.ledger,
           DOMAIN t.accounts \subseteq DOMAIN T.accounts,
           \A a \in DOMAIN t.accounts : /\ T.accounts[a].type = t.accounts[a].type
                                        /\ T.accounts[a].balance = t.accounts[a].balance
                                        /\ T.accounts[a].opening = t.accounts[a].opening,
           \A a \in DOMAIN T.accounts : a \notin DOMAIN t.accounts => T.accounts[a].balance = T.accounts[a].opening
    PROVE  GoodBooks(T) /\ (EvenBooks(t) => EvenBooks(T))
  <1>1. \A a : RowsOn(T, a) = RowsOn(t, a) BY DEF RowsOn
  <1>2. \A ref : Chart!Rows(T, ref) = Chart!Rows(t, ref) BY DEF Chart!Rows
  <1>3. \A ref, a, d : Alike(T, ref, a, d) = Alike(t, ref, a, d) BY <1>2 DEF Alike
  <1>4. NumberedRows(T) BY <1>3 DEF NumberedRows, GoodBooks
  <1>5. ASSUME NEW a \in DOMAIN T.accounts
        PROVE  Tallies(T.accounts[a], NetSum(RowsOn(T, a)))
    <2>1. CASE a \in DOMAIN t.accounts BY <1>1, <2>1 DEF Tallies, GoodBooks
    <2>2. CASE a \notin DOMAIN t.accounts
      <3>1. RowsOn(t, a) = {} BY <2>2 DEF RowsOn, GoodBooks
      <3>2. NetSum(RowsOn(T, a)) = 0 BY <1>1, <3>1, SumEmpty DEF NetSum
      <3>3. T.accounts[a].balance \in Int /\ T.accounts[a].opening = T.accounts[a].balance
        <4>1. T.accounts \in Seq(AccountRow) BY DEF BookTables
        <4>2. T.accounts[a] \in AccountRow BY <4>1, ElementOfSeq
        <4> QED BY <2>2, <4>2 DEF AccountRow
      <3> QED BY <3>2, <3>3 DEF Tallies, Chart!Weight
    <2> QED BY <2>1, <2>2
  <1>6. IsFiniteSet(T.ledger) /\ \A row \in T.ledger : row.acct \in DOMAIN T.accounts BY DEF GoodBooks
  <1>7. EvenBooks(t) => EvenBooks(T) BY <1>2 DEF EvenBooks
  <1> QED BY <1>4, <1>5, <1>6, <1>7 DEF GoodBooks

-----------------------------------------------------------------------------
(* Posting *)

LEMMA AccountsTyped ==
    ASSUME NEW t, t \in BookTables
    PROVE  /\ t = [accounts |-> t.accounts, entries |-> t.entries, ledger |-> t.ledger]
           /\ t.accounts \in Seq(AccountRow) /\ DOMAIN t.accounts = 1 .. Len(t.accounts) /\ Len(t.accounts) \in Nat
           /\ t.entries \in [Entries -> {Chart!Unused} \cup EntryRow] /\ t.ledger \subseteq LedgerRow
           /\ \A a \in DOMAIN t.accounts : t.accounts[a] \in AccountRow
  BY ElementOfSeq, LenProperties DEF BookTables

\* A balance moves by what the line weighs.
LEMMA AppliedWeighs ==
    ASSUME NEW v \in AccountRow, NEW debit \in Int, NEW credit \in Int
    PROVE  LET b == Chart!Applied(v, debit, credit) IN
           /\ b \in Int
           /\ \A net \in Int : Tallies(v, net) => Tallies([v EXCEPT !.balance = b], net + debit - credit)
  BY DEF AccountRow, Chart!Applied, Tallies, Chart!Weight, Chart!DebitTypes

\* One line changes one balance and adds one row to the ledger.
LEMMA PostedGood ==
    ASSUME NEW t, GoodBooks(t), NEW ref \in Refs, NEW a \in DOMAIN t.accounts, NEW debit \in Int, NEW credit \in Int
    PROVE  LET T == Chart!Posted(t, ref, a, debit, credit) IN
           /\ GoodBooks(T) /\ T.entries = t.entries
           /\ DOMAIN T.accounts = DOMAIN t.accounts
           /\ \A b \in DOMAIN t.accounts : /\ T.accounts[b].code = t.accounts[b].code
                                           /\ T.accounts[b].type = t.accounts[b].type
                                           /\ T.accounts[b].live = t.accounts[b].live
                                           /\ T.accounts[b].default = t.accounts[b].default
           /\ NetSum(T.ledger) = NetSum(t.ledger) + debit - credit
           /\ \A r \in Refs : NetSum(Chart!Rows(T, r)) = NetSum(Chart!Rows(t, r)) + IF r = ref THEN debit - credit ELSE 0
  <1> DEFINE S   == Alike(t, ref, a, debit)
             n   == Cardinality(S)
             row == [ref |-> ref, acct |-> a, debit |-> debit, credit |-> credit, n |-> n]
             b   == Chart!Applied(t.accounts[a], debit, credit)
             v   == [t.accounts[a] EXCEPT !.balance = b]
             s   == [t.accounts EXCEPT ![a] = v]
             L   == t.ledger \cup {row}
             T   == [accounts |-> s, entries |-> t.entries, ledger |-> L]
  <1>1. /\ t \in BookTables /\ t.accounts[a] \in AccountRow /\ t.ledger \subseteq LedgerRow /\ IsFiniteSet(t.ledger)
        /\ t.accounts \in Seq(AccountRow) /\ DOMAIN t.accounts = 1 .. Len(t.accounts) /\ Len(t.accounts) \in Nat
        /\ t = [accounts |-> t.accounts, entries |-> t.entries, ledger |-> t.ledger]
        /\ t.entries \in [Entries -> {Chart!Unused} \cup EntryRow]
    BY AccountsTyped DEF GoodBooks
  <1>2. Chart!Posted(t, ref, a, debit, credit) = T
    <2>1. S = {x \in Chart!Rows(t, ref) : x.acct = a /\ x.debit = debit} BY DEF Alike
    <2>2. n = Chart!Cardinality({x \in Chart!Rows(t, ref) : x.acct = a /\ x.debit = debit}) BY <2>1, OneCount
    <2> HIDE DEF S, n
    <2>3. Chart!Posted(t, ref, a, debit, credit) = [t EXCEPT !.accounts[a].balance = b, !.ledger = L]
      BY <2>2 DEF Chart!Posted
    <2> HIDE DEF b, L
    <2> QED BY <1>1, <2>3
  <1>3. b \in Int /\ v \in AccountRow BY <1>1, AppliedWeighs DEF AccountRow
  <1>4. IsFiniteSet(S) /\ n \in Nat
    <2>1. S \subseteq t.ledger BY DEF Alike, Chart!Rows
    <2> QED BY <1>1, <2>1, FS_Subset, FS_CardinalityType
  <1>5. row \in LedgerRow /\ row \notin t.ledger
    <2>1. row \in LedgerRow
      <3>1. a \in Nat BY <1>1
      <3> HIDE DEF n
      <3> QED BY <1>4, <3>1 DEF LedgerRow
    <2>2. ASSUME row \in t.ledger PROVE FALSE BY <2>2, <1>4 DEF GoodBooks, NumberedRows, n
    <2> QED BY <2>1, <2>2
  <1>6. row.ref = ref /\ row.acct = a /\ row.debit = debit /\ row.n = n /\ row.credit = credit OBVIOUS
  <1>7. s \in Seq(AccountRow) /\ DOMAIN s = DOMAIN t.accounts /\ s[a] = v /\ \A c \in DOMAIN t.accounts : c # a => s[c] = t.accounts[c]
    <2> HIDE DEF v
    <2> QED BY <1>1, <1>3
  <1>8. v.code = t.accounts[a].code /\ v.type = t.accounts[a].type /\ v.live = t.accounts[a].live /\ v.default = t.accounts[a].default
    <2> HIDE DEF b
    <2> QED BY <1>1 DEF AccountRow
  <1> HIDE DEF S, n, row, b, s
  <1>9. T \in BookTables /\ IsFiniteSet(L) /\ L \subseteq LedgerRow
    BY <1>1, <1>5, <1>7, FS_AddElement DEF BookTables
  <1>10. Nets[row] = debit - credit BY <1>5, <1>6 DEF Nets
  <1>11. ASSUME NEW R \in SUBSET t.ledger
         PROVE  NetSum(R \cup {row}) = NetSum(R) + debit - credit /\ NetSum(R) \in Int
    <2>1. IsFiniteSet(R) /\ row \notin R /\ NetSum(R) \in Int BY <1>1, <1>5, NetsOf
    <2>2. \A x \in R \cup {row} : Nets[x] \in Int BY <1>5, <1>6, <1>1 DEF Nets, LedgerRow
    <2>3. NetSum(R \cup {row}) = Nets[row] + NetSum(R) BY <2>1, <2>2, SumAdds DEF NetSum
    <2> QED BY <1>10, <2>1, <2>3
  <1>12. NetSum(T.ledger) = NetSum(t.ledger) + debit - credit BY <1>11
  <1>13. ASSUME NEW r \in Refs
         PROVE  NetSum(Chart!Rows(T, r)) = NetSum(Chart!Rows(t, r)) + IF r = ref THEN debit - credit ELSE 0
    <2>1. Chart!Rows(t, r) \subseteq t.ledger /\ Chart!Rows(T, r) = IF r = ref THEN Chart!Rows(t, r) \cup {row} ELSE Chart!Rows(t, r)
      BY <1>6 DEF Chart!Rows
    <2>2. NetSum(Chart!Rows(t, r) \cup {row}) = NetSum(Chart!Rows(t, r)) + debit - credit /\ NetSum(Chart!Rows(t, r)) \in Int
      BY <1>11, <2>1
    <2> QED BY <2>1, <2>2
  <1>14. NumberedRows(T)
    <2> SUFFICES ASSUME NEW x \in L PROVE x.n < Cardinality(Alike(T, x.ref, x.acct, x.debit))
      BY DEF NumberedRows
    <2> DEFINE O == Alike(t, x.ref, x.acct, x.debit)
               N == Alike(T, x.ref, x.acct, x.debit)
    <2>1. O \subseteq N /\ N \subseteq L /\ O \subseteq t.ledger BY DEF Alike, Chart!Rows
    <2>2. IsFiniteSet(N) /\ IsFiniteSet(O) /\ Cardinality(O) <= Cardinality(N) /\ Cardinality(O) \in Nat /\ Cardinality(N) \in Nat
      BY <1>9, <2>1, FS_Subset, FS_CardinalityType
    <2>3. CASE x \in t.ledger
      <3>1. x.n < Cardinality(O) /\ x.n \in Nat BY <1>1, <2>3 DEF GoodBooks, NumberedRows, LedgerRow
      <3>2. x.n < Cardinality(N)
        <4> HIDE DEF O, N
        <4> QED BY <2>2, <3>1
      <3> QED BY <3>2
    <2>4. CASE x = row
      <3>1. O = S /\ N = S \cup {row} /\ row \notin S BY <1>5, <1>6, <2>4 DEF Alike, Chart!Rows, S
      <3>2. Cardinality(N) = n + 1 BY <1>4, <3>1, FS_AddElement DEF n
      <3>3. x.n < Cardinality(N)
        <4> HIDE DEF O, N
        <4> QED BY <1>4, <1>6, <2>4, <3>2
      <3> QED BY <3>3
    <2> QED BY <2>3, <2>4
  <1>15. ASSUME NEW c \in DOMAIN t.accounts
         PROVE  Tallies(s[c], NetSum(RowsOn(T, c)))
    <2>1. RowsOn(t, c) \subseteq t.ledger /\ RowsOn(T, c) = IF c = a THEN RowsOn(t, c) \cup {row} ELSE RowsOn(t, c)
      BY <1>6 DEF RowsOn
    <2>2. NetSum(RowsOn(t, c) \cup {row}) = NetSum(RowsOn(t, c)) + debit - credit /\ NetSum(RowsOn(t, c)) \in Int
      BY <1>11, <2>1
    <2>3. Tallies(t.accounts[c], NetSum(RowsOn(t, c))) BY DEF GoodBooks
    <2>4. CASE c # a BY <1>7, <2>1, <2>3, <2>4
    <2>5. CASE c = a
      <3>1. Tallies(v, NetSum(RowsOn(t, c)) + debit - credit) BY <1>1, <2>2, <2>3, <2>5, AppliedWeighs DEF b
      <3> QED BY <1>7, <2>1, <2>2, <2>5, <3>1
    <2> QED BY <2>4, <2>5
  <1>16. \A x \in L : x.acct \in DOMAIN s BY <1>6, <1>7 DEF GoodBooks
  <1>17. GoodBooks(T) BY <1>7, <1>9, <1>14, <1>15, <1>16 DEF GoodBooks
  <1>18. \A c \in DOMAIN t.accounts : /\ s[c].code = t.accounts[c].code /\ s[c].type = t.accounts[c].type
                                      /\ s[c].live = t.accounts[c].live /\ s[c].default = t.accounts[c].default
    BY <1>7, <1>8
  <1>19. T.accounts = s /\ T.entries = t.entries OBVIOUS
  <1> HIDE DEF T
  <1> QED BY <1>2, <1>7, <1>12, <1>13, <1>17, <1>18, <1>19

\* Accounts keep their codes, and none that is gone comes back.
SameCodes(t, T) ==
    /\ DOMAIN T.accounts = DOMAIN t.accounts
    /\ \A a \in DOMAIN t.accounts : /\ T.accounts[a].code = t.accounts[a].code
                                    /\ T.accounts[a].type = t.accounts[a].type
                                    /\ T.accounts[a].default = t.accounts[a].default
                                    /\ T.accounts[a].live => t.accounts[a].live

LEMMA CodesStay ==
    ASSUME NEW t, NEW T, SameCodes(t, T), CodedBooks(t)
    PROVE  CodedBooks(T)
  BY DEF SameCodes, CodedBooks, Offset

\* The two lines of a journal weigh nothing together.
LEMMA JournalGood ==
    ASSUME NEW t, GoodBooks(t), EvenBooks(t), NEW ref \in Refs, NEW to \in DOMAIN t.accounts, NEW from \in DOMAIN t.accounts,
           NEW amt \in Int
    PROVE  LET T == Chart!Journal(t, ref, to, from, amt) IN
           GoodBooks(T) /\ EvenBooks(T) /\ SameCodes(t, T) /\ T.entries = t.entries
  BY PostedGood DEF Chart!Journal, EvenBooks, SameCodes

\* A reversal takes the rows of a document and what they moved.
LEMMA ReversedGood ==
    ASSUME NEW t, GoodBooks(t), EvenBooks(t), NEW ref \in Refs
    PROVE  LET T == Chart!Reversed(t, ref) IN
           GoodBooks(T) /\ EvenBooks(T) /\ SameCodes(t, T) /\ T.entries = t.entries
  <1> DEFINE R     == Chart!Rows(t, ref)
             back  == [row \in t.ledger |-> row.credit - row.debit]
             Mine(a) == {row \in R : row.acct = a}
             b(a)  == Chart!Applied(t.accounts[a], SumFunctionOnSet(back, Mine(a)), 0)
             s     == [a \in DOMAIN t.accounts |-> [t.accounts[a] EXCEPT !.balance = b(a)]]
             L     == t.ledger \ R
             T     == [accounts |-> s, entries |-> t.entries, ledger |-> L]
  <1>1. /\ t \in BookTables /\ t.ledger \subseteq LedgerRow /\ IsFiniteSet(t.ledger)
        /\ t.accounts \in Seq(AccountRow) /\ DOMAIN t.accounts = 1 .. Len(t.accounts) /\ Len(t.accounts) \in Nat
        /\ t = [accounts |-> t.accounts, entries |-> t.entries, ledger |-> t.ledger]
        /\ t.entries \in [Entries -> {Chart!Unused} \cup EntryRow]
        /\ \A a \in DOMAIN t.accounts : t.accounts[a] \in AccountRow
    BY AccountsTyped DEF GoodBooks
  <1>2. Chart!Reversed(t, ref) = T
    <2>1. \A a : Chart!Total(back, Mine(a)) = SumFunctionOnSet(back, Mine(a)) BY OneTotal
    <2>2. Chart!Reversed(t, ref) = [t EXCEPT !.accounts = s, !.ledger = L] BY <2>1 DEF Chart!Reversed, Chart!Ids
    <2> HIDE DEF s, L
    <2> QED BY <1>1, <2>2
  <1>3. R \subseteq t.ledger /\ \A a : Mine(a) \subseteq R BY DEF Chart!Rows
  <1>4. ASSUME NEW a \in DOMAIN t.accounts
        PROVE  SumFunctionOnSet(back, Mine(a)) = 0 - NetSum(Mine(a)) /\ NetSum(Mine(a)) \in Int
    <2> DEFINE zero == [row \in t.ledger |-> 0]
               X == Mine(a)
    <2>1. IsFiniteSet(X) /\ X \subseteq t.ledger /\ NetSum(X) \in Int BY <1>1, <1>3, NetsOf
    <2>2. \A row \in X : zero[row] \in Int /\ Nets[row] \in Int /\ back[row] = zero[row] - Nets[row] /\ zero[row] = 0
      BY <1>1, <2>1 DEF LedgerRow, Nets
    <2> HIDE DEF X, zero, back
    <2>3. SumFunctionOnSet(zero, X) = 0 BY <2>1, <2>2, SumZero
    <2>4. SumFunctionOnSet(back, X) = 0 - NetSum(X) BY <2>1, <2>2, <2>3, SumDifference DEF NetSum
    <2> QED BY <2>1, <2>4 DEF X
  <1> HIDE DEF back
  <1>5. ASSUME NEW a \in DOMAIN t.accounts
        PROVE  /\ s[a] \in AccountRow /\ Tallies(s[a], NetSum(RowsOn(t, a)) - NetSum(Mine(a)))
               /\ s[a].code = t.accounts[a].code /\ s[a].type = t.accounts[a].type
               /\ s[a].live = t.accounts[a].live /\ s[a].default = t.accounts[a].default
    <2> DEFINE v == t.accounts[a]
    <2>1. s[a] = [v EXCEPT !.balance = b(a)] /\ v \in AccountRow BY <1>1
    <2>2. NetSum(RowsOn(t, a)) \in Int /\ NetSum(Mine(a)) \in Int /\ SumFunctionOnSet(back, Mine(a)) = 0 - NetSum(Mine(a))
      <3>1. RowsOn(t, a) \subseteq t.ledger BY DEF RowsOn
      <3> QED BY <1>1, <1>4, <3>1, NetsOf
    <2>3. Tallies(v, NetSum(RowsOn(t, a))) BY DEF GoodBooks
    <2> HIDE DEF v, s, Mine
    <2>4. b(a) \in Int /\ Tallies([v EXCEPT !.balance = b(a)], NetSum(RowsOn(t, a)) + (0 - NetSum(Mine(a))) - 0)
      <3> DEFINE m == SumFunctionOnSet(back, Mine(a))
                 e == Chart!Applied(v, m, 0)
      <3>1. m \in Int /\ 0 \in Int /\ m = 0 - NetSum(Mine(a)) /\ b(a) = e BY <2>2 DEF v
      <3> HIDE DEF m, b
      <3>2. e \in Int /\ \A net \in Int : Tallies(v, net) => Tallies([v EXCEPT !.balance = e], net + m - 0)
        BY <2>1, <3>1, AppliedWeighs
      <3> HIDE DEF e
      <3> QED BY <2>2, <2>3, <3>1, <3>2
    <2> HIDE DEF b
    <2>5. [v EXCEPT !.balance = b(a)] \in AccountRow BY <2>1, <2>4 DEF AccountRow
    <2>6. /\ s[a].code = v.code /\ s[a].type = v.type /\ s[a].live = v.live /\ s[a].default = v.default
      BY <2>1 DEF AccountRow
    <2>7. NetSum(RowsOn(t, a)) + (0 - NetSum(Mine(a))) - 0 = NetSum(RowsOn(t, a)) - NetSum(Mine(a)) BY <2>2
    <2> QED BY <2>1, <2>4, <2>5, <2>6, <2>7 DEF v
  <1>6. s \in Seq(AccountRow) /\ DOMAIN s = DOMAIN t.accounts
    <2>1. DOMAIN s = DOMAIN t.accounts /\ s = [a \in DOMAIN t.accounts |-> s[a]] OBVIOUS
    <2>2. \A a \in DOMAIN t.accounts : s[a] \in AccountRow BY <1>5
    <2> HIDE DEF s
    <2>3. s \in [1 .. Len(t.accounts) -> AccountRow] BY <1>1, <2>1, <2>2
    <2> QED BY <1>1, <2>1, <2>3, SeqDef
  <1> HIDE DEF s
  <1>7. T \in BookTables /\ IsFiniteSet(L) /\ L \subseteq LedgerRow BY <1>1, <1>6, FS_Subset DEF BookTables
  <1>8. \A x \in L : x.acct \in DOMAIN s BY <1>6 DEF GoodBooks
  <1>9. NumberedRows(T) BY DEF NumberedRows, Chart!Rows, Alike, GoodBooks
  <1>10. ASSUME NEW a \in DOMAIN t.accounts
         PROVE  Tallies(s[a], NetSum(RowsOn(T, a)))
    <2>1. RowsOn(T, a) = RowsOn(t, a) \ Mine(a) /\ Mine(a) \subseteq RowsOn(t, a) /\ RowsOn(t, a) \subseteq t.ledger
      BY DEF RowsOn, Chart!Rows
    <2>2. IsFiniteSet(RowsOn(t, a)) /\ \A row \in RowsOn(t, a) : Nets[row] \in Int
      BY <1>1, <2>1, NetsOf, FS_Subset
    <2> HIDE DEF Mine, T
    <2>3. NetSum(RowsOn(T, a)) = NetSum(RowsOn(t, a)) - NetSum(Mine(a)) BY <2>1, <2>2, SumWithout DEF NetSum
    <2> QED BY <1>5, <2>3 DEF Mine
  <1>11. GoodBooks(T) BY <1>6, <1>7, <1>8, <1>9, <1>10 DEF GoodBooks
  <1>12. EvenBooks(T)
    <2>1. NetSum(L) = NetSum(t.ledger) - NetSum(R) BY <1>1, NetsOf, <1>3, SumWithout DEF NetSum
    <2>2. NetSum(L) = 0 BY <2>1 DEF EvenBooks
    <2>3. ASSUME NEW r \in Refs PROVE NetSum(Chart!Rows(T, r)) = 0
      <3>1. CASE r # ref BY <3>1 DEF Chart!Rows, EvenBooks
      <3>2. CASE r = ref
        <4>1. Chart!Rows(T, r) = {} BY <3>2 DEF Chart!Rows
        <4> QED BY <4>1, SumEmpty DEF NetSum
      <3> QED BY <3>1, <3>2
    <2> QED BY <2>2, <2>3 DEF EvenBooks
  <1>13. SameCodes(t, T) BY <1>5, <1>6 DEF SameCodes
  <1> QED BY <1>2, <1>11, <1>12, <1>13

-----------------------------------------------------------------------------
(* Accounts that are added *)

LEMMA NewAccount ==
    ASSUME NEW code \in Int, NEW type \in Kinds, NEW name \in Labels, NEW opening \in Int
    PROVE  \A default \in BOOLEAN :
               LET v == Chart!Account(code, type, name, opening, default) IN
               /\ v \in AccountRow /\ v.code = code /\ v.type = type /\ v.live /\ v.balance = v.opening
               /\ v.default <=> default
  BY DEF Chart!Account, AccountRow

LEMMA AppendedGood ==
    ASSUME NEW t, NEW v \in AccountRow, v.balance = v.opening
    PROVE  LET T == [t EXCEPT !.accounts = Append(@, v)] IN
           /\ t \in BookTables => /\ T \in BookTables /\ T.entries = t.entries
                                  /\ Len(T.accounts) = Len(t.accounts) + 1
                                  /\ \A a \in DOMAIN t.accounts : T.accounts[a] = t.accounts[a]
                                  /\ T.accounts[Len(t.accounts) + 1] = v
           /\ GoodBooks(t) => GoodBooks(T) /\ (EvenBooks(t) => EvenBooks(T))
  <1> DEFINE s == Append(t.accounts, v)
             T == [t EXCEPT !.accounts = Append(@, v)]
             m == Len(t.accounts)
  <1>2. ASSUME t \in BookTables
        PROVE  /\ T \in BookTables /\ T.entries = t.entries /\ T.ledger = t.ledger
               /\ Len(T.accounts) = m + 1 /\ DOMAIN T.accounts = 1 .. m + 1 /\ DOMAIN t.accounts = 1 .. m /\ m \in Nat
               /\ \A a \in DOMAIN t.accounts : T.accounts[a] = t.accounts[a]
               /\ T.accounts[m + 1] = v
    <2>1. /\ t.accounts \in Seq(AccountRow) /\ DOMAIN t.accounts = 1 .. m /\ m \in Nat
          /\ t = [accounts |-> t.accounts, entries |-> t.entries, ledger |-> t.ledger]
          /\ t.entries \in [Entries -> {Chart!Unused} \cup EntryRow] /\ t.ledger \subseteq LedgerRow
      BY <1>2, AccountsTyped
    <2>2. /\ s \in Seq(AccountRow) /\ Len(s) = m + 1 /\ DOMAIN s = 1 .. m + 1 /\ s[m + 1] = v
          /\ \A a \in DOMAIN t.accounts : s[a] = t.accounts[a]
      BY <2>1, AppendProperties
    <2>3. T = [accounts |-> s, entries |-> t.entries, ledger |-> t.ledger]
      <3>1. T = [t EXCEPT !.accounts = s] OBVIOUS
      <3> HIDE DEF s, T
      <3> QED BY <2>1, <3>1
    <2> HIDE DEF s
    <2> HIDE DEF T
    <2> QED BY <2>1, <2>2, <2>3 DEF BookTables
  <1> HIDE DEF T
  <1>3. ASSUME GoodBooks(t)
        PROVE  GoodBooks(T) /\ (EvenBooks(t) => EvenBooks(T))
    BY <1>3, <1>2, LedgerStays DEF GoodBooks
  <1> QED BY <1>2, <1>3 DEF T

\* A code that no account has may be added.
LEMMA AppendedCoded ==
    ASSUME NEW t, t \in BookTables, CodedBooks(t), NEW T, NEW v, MaxAccounts \in 0 .. 9,
           Len(T.accounts) = Len(t.accounts) + 1, T \in BookTables, T.accounts[Len(t.accounts) + 1] = v,
           \A a \in DOMAIN t.accounts : T.accounts[a] = t.accounts[a],
           Offset(v) \in 1 .. 9,
           IF v.default THEN Offset(v) <= 9 - MaxAccounts
           ELSE Len(t.accounts) + 1 <= MaxAccounts /\ Offset(v) <= 9 - MaxAccounts + Len(t.accounts) + 1,
           \A a \in DOMAIN t.accounts : t.accounts[a].live => t.accounts[a].code # v.code
    PROVE  CodedBooks(T)
  <1> DEFINE m == Len(t.accounts)
  <1>1. DOMAIN T.accounts = 1 .. m + 1 /\ DOMAIN t.accounts = 1 .. m /\ m \in Nat BY AccountsTyped
  <1>2. \A a \in DOMAIN T.accounts : a = m + 1 \/ a \in DOMAIN t.accounts BY <1>1
  <1> HIDE DEF m
  <1>3. ASSUME NEW a \in DOMAIN T.accounts
        PROVE  LET u == T.accounts[a] IN
               /\ Offset(u) \in 1 .. 9
               /\ IF u.default THEN Offset(u) <= 9 - MaxAccounts ELSE a <= MaxAccounts /\ Offset(u) <= 9 - MaxAccounts + a
    <2>1. CASE a \in DOMAIN t.accounts BY <2>1 DEF CodedBooks
    <2>2. CASE a = m + 1
      <3>1. T.accounts[a] = v BY <2>2 DEF m
      <3>2. CASE v.default BY <3>1, <3>2
      <3>3. CASE ~v.default
        <4> DEFINE k == Offset(v)
        <4>1. k \in Int /\ a <= MaxAccounts /\ k <= 9 - MaxAccounts + m + 1 BY <2>2, <3>3 DEF m
        <4> HIDE DEF k
        <4>2. k <= 9 - MaxAccounts + a BY <1>1, <2>2, <4>1
        <4> QED BY <3>1, <3>3, <4>1, <4>2 DEF k
      <3> QED BY <3>2, <3>3
    <2> QED BY <1>2, <2>1, <2>2
  <1>4. ASSUME NEW a \in DOMAIN T.accounts, NEW b \in DOMAIN T.accounts, a # b, T.accounts[a].live, T.accounts[b].live
        PROVE  T.accounts[a].code # T.accounts[b].code
    BY <1>4, <1>2 DEF m, CodedBooks
  <1> QED BY <1>3, <1>4 DEF CodedBooks

LEMMA WithDefaultGood ==
    ASSUME NEW t, NEW d \in [code : Int, type : Kinds, name : Labels], t \in BookTables
    PROVE  LET T == Chart!WithDefault(t, d) IN
           /\ T \in BookTables /\ T.entries = t.entries
           /\ GoodBooks(t) => GoodBooks(T) /\ (EvenBooks(t) => EvenBooks(T))
           /\ CodedBooks(t) /\ MaxAccounts \in 0 .. 9 /\ d.code - Chart!Base(d.type) \in 1 .. 9 - MaxAccounts => CodedBooks(T)
  <1> DEFINE v == Chart!Account(d.code, d.type, d.name, 0, TRUE)
             T == [t EXCEPT !.accounts = Append(@, v)]
  <1>1. CASE Chart!ByCode(t, d.code) # {} BY <1>1 DEF Chart!WithDefault
  <1>2. CASE Chart!ByCode(t, d.code) = {}
    <2>1. Chart!WithDefault(t, d) = T BY <1>2 DEF Chart!WithDefault
    <2>2. v \in AccountRow /\ v.code = d.code /\ v.type = d.type /\ v.default /\ v.balance = v.opening
      <3>1. \A b \in BOOLEAN : LET u == Chart!Account(d.code, d.type, d.name, 0, b) IN
                /\ u \in AccountRow /\ u.code = d.code /\ u.type = d.type /\ u.live /\ u.balance = u.opening
                /\ u.default <=> b
        BY NewAccount
      <3> QED BY <3>1, Zenon
    <2> HIDE DEF v
    <2>3. /\ T \in BookTables /\ T.entries = t.entries /\ Len(T.accounts) = Len(t.accounts) + 1
          /\ \A a \in DOMAIN t.accounts : T.accounts[a] = t.accounts[a]
          /\ T.accounts[Len(t.accounts) + 1] = v
          /\ GoodBooks(t) => GoodBooks(T) /\ (EvenBooks(t) => EvenBooks(T))
      BY <2>2, AppendedGood
    <2>4. \A a \in DOMAIN t.accounts : t.accounts[a].live => t.accounts[a].code # d.code
      BY <1>2 DEF Chart!ByCode, Chart!Live, Chart!Ids
    <2>5. ASSUME CodedBooks(t), MaxAccounts \in 0 .. 9, d.code - Chart!Base(d.type) \in 1 .. 9 - MaxAccounts
          PROVE  CodedBooks(T)
      <3> HIDE DEF T
      <3>1. Offset(v) = d.code - Chart!Base(d.type) BY <2>2 DEF Offset
      <3>2. Offset(v) \in 1 .. 9 /\ Offset(v) <= 9 - MaxAccounts BY <2>5, <3>1
      <3> QED BY <2>2, <2>3, <2>4, <2>5, <3>2, AppendedCoded
    <2> HIDE DEF T
    <2> QED BY <2>1, <2>3, <2>5
  <1> QED BY <1>1, <1>2

\* EnsureDefaultChartOfAccounts takes the defaults one at a time.
LEMMA EnsuredRuns ==
    ASSUME Chartered, NEW t \in BookTables
    PROVE  \E acc \in [0 .. Len(Defaults) -> BookTables] :
               /\ acc[0] = t
               /\ \A k \in 1 .. Len(Defaults) : acc[k] = Chart!WithDefault(acc[k - 1], Defaults[k])
               /\ Chart!Ensured(t) = acc[Len(Defaults)]
  <1> DEFINE n     == Len(Defaults)
             T     == BookTables
             h     == [k \in 1 .. n |-> [x \in T |-> Chart!WithDefault(x, Defaults[k])]]
             Eq(i) == i = [s \in SUBSET (1 .. n) |->
                             IF s = {} THEN t ELSE Chart!WithDefault(i[s \ {Chart!Max(s)}], Defaults[Chart!Max(s)])]
             iter  == CHOOSE i : Eq(i)
  <1>1. n \in Nat /\ DOMAIN Defaults = 1 .. n /\ \A k \in 1 .. n : Defaults[k] \in [code : Int, type : Kinds, name : Labels]
    BY ElementOfSeq, LenProperties DEF Chartered
  <1>2. h \in [1 .. n -> [T -> T]] BY <1>1, WithDefaultGood
  <1>3. Chart!Ensured(t) = iter[1 .. n] BY <1>1 DEF Chart!Ensured, Chart!FoldLeft, Chart!MapThenFoldSet
  <1>4. PICK g \in [SUBSET (1 .. n) -> T] : Folding(g, t, h, n, T)
    <2>1. t \in T OBVIOUS
    <2> HIDE DEF n, T, h
    <2> QED BY <1>1, <1>2, <2>1, FoldExists
  <1>5. ASSUME NEW x \in T, NEW s \in SUBSET (1 .. n), s # {}
        PROVE  h[Max(s)][x] = Chart!WithDefault(x, Defaults[Chart!Max(s)])
    BY <1>1, <1>5, MaxIsIn, OneMax
  <1>6. Eq(iter)
    <2>1. Eq(g)
      <3> HIDE DEF T, n, h
      <3>1. g[{}] = t BY <1>4 DEF Folding
      <3>2. ASSUME NEW s \in SUBSET (1 .. n), s # {}
            PROVE  g[s] = Chart!WithDefault(g[s \ {Chart!Max(s)}], Defaults[Chart!Max(s)])
        BY <1>4, OneMax, <1>5, <3>2 DEF Folding
      <3> QED BY <1>4, <3>1, <3>2
    <2> QED BY <2>1
  <1>7. Folding(iter, t, h, n, T)
    <2> HIDE DEF iter, T, n, h
    <2>1. iter[{}] = t BY <1>6
    <2>2. ASSUME NEW s \in SUBSET (1 .. n), s # {}, iter[s \ {Max(s)}] \in T
          PROVE  iter[s] = h[Max(s)][iter[s \ {Max(s)}]]
      BY OneMax, <1>6, <2>2, <1>5
    <2>3. t \in T BY DEF T
    <2> QED BY <1>1, <1>2, <2>1, <2>2, <2>3 DEF Folding
  <1>8. PICK acc : Run(acc, t, h, n, T) /\ iter[1 .. n] = acc[n]
    <2> HIDE DEF iter, h, T, n
    <2> QED BY <1>7, FoldRuns
  <1>9. \A k \in 1 .. n : acc[k] = Chart!WithDefault(acc[k - 1], Defaults[k])
    <2> SUFFICES ASSUME NEW k \in 1 .. n PROVE acc[k] = Chart!WithDefault(acc[k - 1], Defaults[k]) OBVIOUS
    <2>1. acc[k - 1] \in T /\ acc[k] = h[k][acc[k - 1]]
      <3> HIDE DEF T, h, n
      <3> QED BY <1>1, <1>8 DEF Run
    <2> HIDE DEF T, n
    <2> QED BY <2>1
  <1> QED BY <1>3, <1>8, <1>9 DEF Run

LEMMA EnsuredGood ==
    ASSUME Chartered, NEW t, t \in BookTables
    PROVE  LET T == Chart!Ensured(t) IN
           /\ T \in BookTables /\ T.entries = t.entries
           /\ GoodBooks(t) => GoodBooks(T) /\ (EvenBooks(t) => EvenBooks(T))
           /\ CodedBooks(t) /\ Room => CodedBooks(T)
  <1> DEFINE n == Len(Defaults)
  <1>1. PICK acc \in [0 .. n -> BookTables] :
            /\ acc[0] = t
            /\ \A k \in 1 .. n : acc[k] = Chart!WithDefault(acc[k - 1], Defaults[k])
            /\ Chart!Ensured(t) = acc[n]
    BY EnsuredRuns
  <1>2. n \in Nat /\ DOMAIN Defaults = 1 .. n /\ \A k \in 1 .. n : Defaults[k] \in [code : Int, type : Kinds, name : Labels]
    BY ElementOfSeq, LenProperties DEF Chartered
  <1> DEFINE Fine(T) == /\ T.entries = t.entries
                        /\ GoodBooks(t) => GoodBooks(T) /\ (EvenBooks(t) => EvenBooks(T))
                        /\ CodedBooks(t) /\ Room => CodedBooks(T)
             Good == {k \in 0 .. n : Fine(acc[k])}
  <1> HIDE DEF n
  <1>3. 0 \in Good BY <1>1, <1>2
  <1>4. ASSUME NEW k \in 1 .. n, k - 1 \in Good PROVE k \in Good
    <2>1. k - 1 \in 0 .. n /\ k \in 0 .. n /\ acc[k - 1] \in BookTables /\ acc[k] = Chart!WithDefault(acc[k - 1], Defaults[k])
      BY <1>1, <1>2
    <2>2. Fine(acc[k - 1]) BY <1>4
    <2>3. LET T == Chart!WithDefault(acc[k - 1], Defaults[k]) IN
          /\ T \in BookTables /\ T.entries = acc[k - 1].entries
          /\ GoodBooks(acc[k - 1]) => GoodBooks(T) /\ (EvenBooks(acc[k - 1]) => EvenBooks(T))
          /\ CodedBooks(acc[k - 1]) /\ MaxAccounts \in 0 .. 9
                 /\ Defaults[k].code - Chart!Base(Defaults[k].type) \in 1 .. 9 - MaxAccounts => CodedBooks(T)
      BY <1>2, <2>1, WithDefaultGood
    <2>4. Room => MaxAccounts \in 0 .. 9 /\ Defaults[k].code - Chart!Base(Defaults[k].type) \in 1 .. 9 - MaxAccounts
      BY <1>2 DEF Room
    <2>5. Fine(acc[k]) BY <2>1, <2>2, <2>3, <2>4
    <2> HIDE DEF Fine
    <2> QED BY <2>1, <2>5
  <1>5. n \in Good
    <2> HIDE DEF Good
    <2>1. \A k \in 0 .. n : k \in Good BY <1>2, <1>3, <1>4, UpTo
    <2> QED BY <1>2, <2>1
  <1>6. acc[n] \in BookTables BY <1>2
  <1> QED BY <1>1, <1>5, <1>6

\* The next code of a type is a number, and one that is free where there is room.
LEMMA NextCodeFits ==
    ASSUME NEW t, t \in BookTables, NEW type \in Kinds
    PROVE  LET c == Chart!NextCode(t, type) IN
           /\ c \in Int
           /\ CodedBooks(t) /\ MaxAccounts \in 0 .. 9 /\ Len(t.accounts) + 1 <= MaxAccounts =>
                 /\ c - Chart!Base(type) \in 1 .. 9
                 /\ c - Chart!Base(type) <= 9 - MaxAccounts + Len(t.accounts) + 1
                 /\ \A a \in DOMAIN t.accounts : t.accounts[a].live => t.accounts[a].code # c
  <1> DEFINE O == Chart!OfType(t, type)
             B == Chart!Base(type)
             C == {t.accounts[a].code : a \in O}
             S == {B} \cup C
             m == Len(t.accounts)
  <1>1. /\ \A a \in DOMAIN t.accounts : t.accounts[a] \in AccountRow /\ t.accounts[a].code \in Int /\ t.accounts[a].type \in Kinds
        /\ DOMAIN t.accounts = 1 .. m /\ m \in Nat
    BY AccountsTyped DEF AccountRow
  <1>2. O \subseteq DOMAIN t.accounts /\ \A a \in O : t.accounts[a].type = type BY DEF Chart!OfType, Chart!Ids
  <1>3. \A k \in Kinds : Chart!Base(k) \in Int BY DEF Chart!Base, Kinds
  <1>4. IsFiniteSet(S) /\ S \subseteq Int /\ S # {}
    <2>1. IsFiniteSet(O)
      <3>1. IsFiniteSet(1 .. m) BY <1>1, FS_Interval
      <3> QED BY <1>1, <1>2, <3>1, FS_Subset
    <2>2. IsFiniteSet(C)
      <3> DEFINE f == [a \in O |-> t.accounts[a].code]
      <3>1. IsFiniteSet({f[a] : a \in O}) BY <2>1, ImageFinite
      <3>2. C = {f[a] : a \in O} OBVIOUS
      <3> QED BY <3>1, <3>2
    <2>3. B \in Int /\ C \subseteq Int BY <1>1, <1>2, <1>3
    <2> HIDE DEF C, B
    <2>4. S = C \cup {B} OBVIOUS
    <2> QED BY <2>2, <2>3, <2>4, FS_AddElement
  <1>5. Chart!NextCode(t, type) = Max(S) + 1 BY OneMax DEF Chart!NextCode
  <1>6. Max(S) \in S /\ \A y \in S : y <= Max(S)
    <2> HIDE DEF S
    <2> QED BY <1>4, MaxOfFinite
  <1>7. ASSUME CodedBooks(t), MaxAccounts \in 0 .. 9, m + 1 <= MaxAccounts
        PROVE  /\ Max(S) - B \in 0 .. 8 /\ Max(S) - B <= 9 - MaxAccounts + m
               /\ \A a \in DOMAIN t.accounts : t.accounts[a].live => t.accounts[a].code # Max(S) + 1
    <2>1. \A a \in DOMAIN t.accounts : LET v == t.accounts[a] IN
              v.code - Chart!Base(v.type) \in 1 .. 9 /\ v.code - Chart!Base(v.type) <= 9 - MaxAccounts + m
      <3> SUFFICES ASSUME NEW a \in DOMAIN t.accounts
                   PROVE  LET v == t.accounts[a] IN
                          v.code - Chart!Base(v.type) \in 1 .. 9 /\ v.code - Chart!Base(v.type) <= 9 - MaxAccounts + m
        OBVIOUS
      <3> DEFINE k == Offset(t.accounts[a])
      <3>1. k \in 1 .. 9 /\ (k <= 9 - MaxAccounts \/ k <= 9 - MaxAccounts + a) BY <1>7 DEF CodedBooks
      <3>2. a <= m /\ a \in Nat BY <1>1
      <3> HIDE DEF k, m
      <3>3. k <= 9 - MaxAccounts + m BY <1>1, <1>7, <3>1, <3>2
      <3> QED BY <3>1, <3>3 DEF k, Offset
    <2>2. \A a \in O : t.accounts[a].code - B \in 1 .. 9 /\ t.accounts[a].code - B <= 9 - MaxAccounts + m
      BY <1>2, <2>1
    <2>3. Max(S) - B \in 0 .. 8 /\ Max(S) - B <= 9 - MaxAccounts + m
      <3>1. CASE Max(S) = B BY <1>3, <1>1, <1>7, <3>1
      <3>2. CASE \E a \in O : Max(S) = t.accounts[a].code BY <3>2, <2>2, <1>1, <1>7
      <3> QED BY <1>6, <3>1, <3>2
    <2>4. ASSUME NEW a \in DOMAIN t.accounts, t.accounts[a].live, t.accounts[a].code = Max(S) + 1 PROVE FALSE
      <3>1. CASE t.accounts[a].type = type
        <4>1. a \in O BY <2>4, <3>1 DEF Chart!OfType, Chart!Live, Chart!Ids
        <4>2. t.accounts[a].code <= Max(S) BY <1>6, <4>1
        <4>3. Max(S) \in Int BY <1>4, <1>6
        <4> HIDE DEF S
        <4> QED BY <2>4, <4>2, <4>3
      <3>2. CASE t.accounts[a].type # type
        <4> DEFINE c == t.accounts[a].code
                   u == t.accounts[a].type
        <4>1. u \in Kinds /\ c \in Int /\ c - Chart!Base(u) \in 1 .. 9 BY <1>1, <2>1
        <4>2. c - B \in 1 .. 9
          <5>1. B \in Int /\ Max(S) \in Int BY <1>3, <1>4, <1>6
          <5>2. Max(S) - B \in 0 .. 8 /\ c = Max(S) + 1 BY <2>3, <2>4
          <5> HIDE DEF B, S, c
          <5> QED BY <5>1, <5>2
        <4> HIDE DEF c
        <4> QED BY <3>2, <4>1, <4>2 DEF Kinds, Chart!Base
      <3> QED BY <3>1, <3>2
    <2> QED BY <2>3, <2>4
  <1>8. Max(S) \in Int /\ B \in Int BY <1>3, <1>4, <1>6
  <1> DEFINE M == Max(S)
  <1>9. ASSUME CodedBooks(t), MaxAccounts \in 0 .. 9, m + 1 <= MaxAccounts
        PROVE  M + 1 - B \in 1 .. 9 /\ M + 1 - B <= 9 - MaxAccounts + m + 1
    <2>1. M \in Int /\ B \in Int /\ m \in Nat /\ M - B \in 0 .. 8 /\ M - B <= 9 - MaxAccounts + m
      BY <1>1, <1>7, <1>8, <1>9
    <2> HIDE DEF M, B, m
    <2> QED BY <1>9, <2>1
  <1>10. Chart!NextCode(t, type) = M + 1 /\ M + 1 \in Int BY <1>5, <1>8
  <1>12. CodedBooks(t) /\ MaxAccounts \in 0 .. 9 /\ m + 1 <= MaxAccounts =>
            \A a \in DOMAIN t.accounts : t.accounts[a].live => t.accounts[a].code # M + 1
    BY <1>7
  <1> DEFINE c == Chart!NextCode(t, type)
  <1>13. c = M + 1 /\ c \in Int /\ M \in Int /\ B \in Int /\ m \in Nat BY <1>1, <1>8, <1>10
  <1> HIDE DEF M, c, B, m
  <1>14. CodedBooks(t) /\ MaxAccounts \in 0 .. 9 /\ m + 1 <= MaxAccounts =>
            c - B \in 1 .. 9 /\ c - B <= 9 - MaxAccounts + m + 1
    BY <1>9, <1>13
  <1>15. CodedBooks(t) /\ MaxAccounts \in 0 .. 9 /\ m + 1 <= MaxAccounts =>
            \A a \in DOMAIN t.accounts : t.accounts[a].live => t.accounts[a].code # c
    BY <1>12, <1>13
  <1> QED BY <1>13, <1>14, <1>15 DEF c, B, m

\* An account that is added with the next code
LEMMA AddedGood ==
    ASSUME NEW t, GoodBooks(t), EvenBooks(t), NEW type \in Kinds, NEW name \in Labels, NEW opening \in Int
    PROVE  LET T == [t EXCEPT !.accounts = Append(@, Chart!Account(Chart!NextCode(t, type), type, name, opening, FALSE))] IN
           /\ GoodBooks(T) /\ EvenBooks(T) /\ T.entries = t.entries /\ Len(T.accounts) = Len(t.accounts) + 1
           /\ CodedBooks(t) /\ MaxAccounts \in 0 .. 9 /\ Len(T.accounts) <= MaxAccounts => CodedBooks(T)
  <1> DEFINE c == Chart!NextCode(t, type)
             v == Chart!Account(c, type, name, opening, FALSE)
             T == [t EXCEPT !.accounts = Append(@, v)]
  <1>1. t \in BookTables BY DEF GoodBooks
  <1>2. /\ c \in Int
        /\ CodedBooks(t) /\ MaxAccounts \in 0 .. 9 /\ Len(t.accounts) + 1 <= MaxAccounts =>
              /\ c - Chart!Base(type) \in 1 .. 9
              /\ c - Chart!Base(type) <= 9 - MaxAccounts + Len(t.accounts) + 1
              /\ \A a \in DOMAIN t.accounts : t.accounts[a].live => t.accounts[a].code # c
    BY <1>1, NextCodeFits
  <1> HIDE DEF c
  <1>3. v \in AccountRow /\ v.code = c /\ v.type = type /\ ~v.default /\ v.balance = v.opening
    <2>1. \A b \in BOOLEAN : LET u == Chart!Account(c, type, name, opening, b) IN
              /\ u \in AccountRow /\ u.code = c /\ u.type = type /\ u.live /\ u.balance = u.opening
              /\ u.default <=> b
      BY <1>2, NewAccount
    <2> QED BY <2>1, Zenon
  <1> HIDE DEF v
  <1>4. /\ T \in BookTables /\ T.entries = t.entries /\ Len(T.accounts) = Len(t.accounts) + 1
        /\ \A a \in DOMAIN t.accounts : T.accounts[a] = t.accounts[a]
        /\ T.accounts[Len(t.accounts) + 1] = v
        /\ GoodBooks(T) /\ EvenBooks(T)
    BY <1>1, <1>3, AppendedGood
  <1> HIDE DEF T
  <1>5. ASSUME CodedBooks(t), MaxAccounts \in 0 .. 9, Len(T.accounts) <= MaxAccounts
        PROVE  CodedBooks(T)
    <2>1. Offset(v) = c - Chart!Base(type) BY <1>3 DEF Offset
    <2> QED BY <1>1, <1>2, <1>3, <1>4, <1>5, <2>1, AppendedCoded
  <1> QED BY <1>4, <1>5 DEF T, v, c

LEMMA ChargedGood ==
    ASSUME Chartered, NEW t, GoodBooks(t), EvenBooks(t), NEW category \in Categories \cup {General}
    PROVE  LET T == Chart!Charged(t, category) IN
           /\ GoodBooks(T) /\ EvenBooks(T) /\ T.entries = t.entries
           /\ CodedBooks(t) /\ Room /\ Len(T.accounts) <= MaxAccounts => CodedBooks(T)
  <1> DEFINE D == Chart!Ensured(t)
  <1>1. /\ GoodBooks(D) /\ EvenBooks(D) /\ D.entries = t.entries
        /\ CodedBooks(t) /\ Room => CodedBooks(D)
    <2>1. t \in BookTables BY DEF GoodBooks
    <2> QED BY <2>1, EnsuredGood
  <1> HIDE DEF D
  <1>2. CASE category = General \/ Chart!Named(t, category) # {}
    <2>1. Chart!Charged(t, category) = D BY <1>2 DEF Chart!Charged, D
    <2> QED BY <1>1, <2>1
  <1>3. CASE ~(category = General \/ Chart!Named(t, category) # {})
    <2>1. category \in Labels /\ "expense" \in Kinds /\ 0 \in Int BY <1>3 DEF Labels, Kinds
    <2> DEFINE T == [D EXCEPT !.accounts = Append(@, Chart!Account(Chart!NextCode(D, "expense"), "expense", category, 0, FALSE))]
    <2>2. Chart!Charged(t, category) = T BY <1>3 DEF Chart!Charged, D
    <2>3. /\ GoodBooks(T) /\ EvenBooks(T) /\ T.entries = D.entries
          /\ CodedBooks(D) /\ MaxAccounts \in 0 .. 9 /\ Len(T.accounts) <= MaxAccounts => CodedBooks(T)
      BY <1>1, <2>1, AddedGood
    <2> HIDE DEF T
    <2> QED BY <1>1, <2>2, <2>3 DEF Room
  <1> QED BY <1>2, <1>3

-----------------------------------------------------------------------------
(* Steps *)

LEMMA EditedGood ==
    ASSUME NEW t, GoodBooks(t), EvenBooks(t), NEW a \in DOMAIN t.accounts, NEW v \in AccountRow,
           v.code = t.accounts[a].code, v.type = t.accounts[a].type, v.default = t.accounts[a].default,
           v.balance = t.accounts[a].balance, v.opening = t.accounts[a].opening, v.live => t.accounts[a].live
    PROVE  LET T == [t EXCEPT !.accounts = [@ EXCEPT ![a] = v]] IN
           GoodBooks(T) /\ EvenBooks(T) /\ SameCodes(t, T) /\ T.entries = t.entries
  <1> DEFINE s == [t.accounts EXCEPT ![a] = v]
             T == [t EXCEPT !.accounts = [@ EXCEPT ![a] = v]]
  <1>1. /\ t \in BookTables /\ t.accounts \in Seq(AccountRow) /\ DOMAIN t.accounts = 1 .. Len(t.accounts) /\ Len(t.accounts) \in Nat
        /\ t = [accounts |-> t.accounts, entries |-> t.entries, ledger |-> t.ledger]
        /\ t.entries \in [Entries -> {Chart!Unused} \cup EntryRow] /\ t.ledger \subseteq LedgerRow
    BY AccountsTyped DEF GoodBooks
  <1>2. s \in Seq(AccountRow) /\ DOMAIN s = DOMAIN t.accounts /\ s[a] = v /\ \A c \in DOMAIN t.accounts : c # a => s[c] = t.accounts[c]
    BY <1>1
  <1>3. T = [accounts |-> s, entries |-> t.entries, ledger |-> t.ledger] BY <1>1
  <1> HIDE DEF s, T
  <1>4. T \in BookTables /\ T.accounts = s /\ T.ledger = t.ledger /\ T.entries = t.entries
    BY <1>1, <1>2, <1>3 DEF BookTables
  <1>5. SameCodes(t, T) BY <1>2, <1>4 DEF SameCodes
  <1>6. \A c \in DOMAIN t.accounts : /\ T.accounts[c].type = t.accounts[c].type
                                     /\ T.accounts[c].balance = t.accounts[c].balance
                                     /\ T.accounts[c].opening = t.accounts[c].opening
    BY <1>2, <1>4
  <1>7. DOMAIN T.accounts = DOMAIN t.accounts BY <1>2, <1>4
  <1>8. GoodBooks(T) /\ EvenBooks(T) BY <1>4, <1>6, <1>7, LedgerStays
  <1> QED BY <1>4, <1>5, <1>8 DEF T

LEMMA EntriesGood ==
    ASSUME NEW t, GoodBooks(t), EvenBooks(t), NEW j \in Entries, NEW v \in EntryRow
    PROVE  LET T == [t EXCEPT !.entries = [@ EXCEPT ![j] = v]] IN
           /\ GoodBooks(T) /\ EvenBooks(T) /\ SameCodes(t, T) /\ T.accounts = t.accounts
           /\ \A k \in Entries : t.entries[k] # Chart!Unused => T.entries[k] # Chart!Unused
  <1> DEFINE e == [t.entries EXCEPT ![j] = v]
             T == [t EXCEPT !.entries = [@ EXCEPT ![j] = v]]
  <1>1. /\ t \in BookTables /\ t.accounts \in Seq(AccountRow)
        /\ t = [accounts |-> t.accounts, entries |-> t.entries, ledger |-> t.ledger]
        /\ t.entries \in [Entries -> {Chart!Unused} \cup EntryRow] /\ t.ledger \subseteq LedgerRow
    BY AccountsTyped DEF GoodBooks
  <1>2. v # Chart!Unused BY DEF EntryRow, Chart!Unused
  <1>3. /\ e \in [Entries -> {Chart!Unused} \cup EntryRow]
        /\ \A k \in Entries : t.entries[k] # Chart!Unused => e[k] # Chart!Unused
    BY <1>1, <1>2 DEF e
  <1>4. T = [accounts |-> t.accounts, entries |-> e, ledger |-> t.ledger] BY <1>1
  <1> HIDE DEF e, T
  <1>5. T \in BookTables /\ T.accounts = t.accounts /\ T.ledger = t.ledger /\ T.entries = e
    BY <1>1, <1>3, <1>4 DEF BookTables
  <1>6. GoodBooks(T) /\ EvenBooks(T) BY <1>5, LedgerStays
  <1>7. SameCodes(t, T) BY <1>5 DEF SameCodes
  <1> QED BY <1>3, <1>5, <1>6, <1>7 DEF T

LEMMA PostAutoGood ==
    ASSUME NEW t, GoodBooks(t), EvenBooks(t), NEW ref \in Refs, NEW to \in DOMAIN t.accounts, NEW from \in DOMAIN t.accounts,
           NEW amt \in Int
    PROVE  LET T == Chart!PostAuto(t, ref, to, from, amt) IN
           GoodBooks(T) /\ EvenBooks(T) /\ SameCodes(t, T) /\ T.entries = t.entries
  BY JournalGood DEF Chart!PostAuto, SameCodes

\* What every step leaves
Outcome(T) ==
    /\ GoodBooks(T) /\ EvenBooks(T)
    /\ Room /\ CodedBooks(db) => CodedBooks(T)
    /\ \A j \in Entries : db.entries[j] # Chart!Unused => T.entries[j] # Chart!Unused

LEMMA GetAccountsStep ==
    ASSUME Chartered, BooksInv, Chart!GetAccounts
    PROVE  Outcome(db') /\ UNCHANGED req
  BY EnsuredGood DEF Chart!GetAccounts, Chart!Write, BooksInv, GoodBooks, Outcome

LEMMA CreateAccountStep ==
    ASSUME Chartered, BooksInv, Len(db.accounts) < MaxAccounts,
           NEW type \in Types, NEW name \in Categories, NEW opening \in Openings, Chart!CreateAccount(type, name, opening)
    PROVE  Outcome(db') /\ UNCHANGED req
  <1> DEFINE T == [db EXCEPT !.accounts =
                      Append(@, Chart!Account(Chart!NextCode(db, type), type, name, opening, FALSE))]
  <1>1. db' = T /\ req' = req BY DEF Chart!CreateAccount, Chart!Write
  <1>2. type \in Kinds /\ name \in Labels /\ opening \in Int BY DEF Chartered, Labels
  <1>3. /\ GoodBooks(T) /\ EvenBooks(T) /\ T.entries = db.entries /\ Len(T.accounts) = Len(db.accounts) + 1
        /\ CodedBooks(db) /\ MaxAccounts \in 0 .. 9 /\ Len(T.accounts) <= MaxAccounts => CodedBooks(T)
    BY <1>2, AddedGood DEF BooksInv
  <1> HIDE DEF T
  <1>4. Len(db.accounts) \in Nat BY AccountsTyped DEF BooksInv, GoodBooks
  <1>5. Room => MaxAccounts \in 0 .. 9 /\ Len(T.accounts) <= MaxAccounts BY <1>3, <1>4 DEF Room
  <1> QED BY <1>1, <1>3, <1>5 DEF Outcome

LEMMA UpdateAccountStep ==
    ASSUME Chartered, BooksInv, NEW a \in Chart!Ids(db), NEW name \in Categories, NEW active \in BOOLEAN,
           Chart!UpdateAccount(a, name, active)
    PROVE  Outcome(db') /\ UNCHANGED req
  <1> DEFINE v == [db.accounts[a] EXCEPT !.name = name, !.active = active]
             T == [db EXCEPT !.accounts = [@ EXCEPT ![a] = v]]
  <1>1. a \in DOMAIN db.accounts /\ db.accounts[a] \in AccountRow /\ name \in Labels
    BY AccountsTyped DEF BooksInv, GoodBooks, Chart!Ids, Labels
  <1>2. db' = T /\ req' = req BY DEF Chart!UpdateAccount, Chart!Write
  <1>3. /\ v \in AccountRow
        /\ v.code = db.accounts[a].code /\ v.type = db.accounts[a].type /\ v.default = db.accounts[a].default
        /\ v.balance = db.accounts[a].balance /\ v.opening = db.accounts[a].opening /\ (v.live => db.accounts[a].live)
    BY <1>1 DEF AccountRow
  <1> HIDE DEF v
  <1>4. GoodBooks(T) /\ EvenBooks(T) /\ SameCodes(db, T) /\ T.entries = db.entries
    BY <1>1, <1>3, EditedGood DEF BooksInv
  <1> HIDE DEF T
  <1> QED BY <1>2, <1>4, CodesStay DEF Outcome

LEMMA DeleteAccountStep ==
    ASSUME Chartered, BooksInv, NEW a \in Chart!Ids(db), Chart!DeleteAccount(a)
    PROVE  Outcome(db') /\ UNCHANGED req
  <1> DEFINE v == [db.accounts[a] EXCEPT !.live = FALSE]
             T == [db EXCEPT !.accounts = [@ EXCEPT ![a] = v]]
  <1>1. a \in DOMAIN db.accounts /\ db.accounts[a] \in AccountRow
    BY AccountsTyped DEF BooksInv, GoodBooks, Chart!Ids
  <1>2. db' = T /\ req' = req BY DEF Chart!DeleteAccount, Chart!Write
  <1>3. /\ v \in AccountRow
        /\ v.code = db.accounts[a].code /\ v.type = db.accounts[a].type /\ v.default = db.accounts[a].default
        /\ v.balance = db.accounts[a].balance /\ v.opening = db.accounts[a].opening /\ (v.live => db.accounts[a].live)
    BY <1>1 DEF AccountRow
  <1> HIDE DEF v
  <1>4. GoodBooks(T) /\ EvenBooks(T) /\ SameCodes(db, T) /\ T.entries = db.entries
    BY <1>1, <1>3, EditedGood DEF BooksInv
  <1> HIDE DEF T
  <1> QED BY <1>2, <1>4, CodesStay DEF Outcome

LEMMA PostExpenseStep ==
    ASSUME Chartered, BooksInv, NEW d \in Documents, NEW category \in Categories \cup {General}, NEW amt \in Amounts,
           NEW cash, Chart!PostExpense(d, category, amt, cash)
    PROVE  Outcome(db') /\ UNCHANGED req
  <1> DEFINE T == Chart!Charged(db, category)
  <1>1. PICK to \in Chart!ChargedTo(T, category), from \in Chart!ByCode(T, cash) :
            Len(T.accounts) <= MaxAccounts /\ db' = Chart!PostAuto(T, d, to, from, amt) /\ req' = req
    BY DEF Chart!PostExpense, Chart!Write
  <1>2. /\ GoodBooks(T) /\ EvenBooks(T) /\ T.entries = db.entries
        /\ CodedBooks(db) /\ Room /\ Len(T.accounts) <= MaxAccounts => CodedBooks(T)
    BY ChargedGood DEF BooksInv
  <1> HIDE DEF T
  <1>3. to \in DOMAIN T.accounts /\ from \in DOMAIN T.accounts
    BY DEF Chart!ChargedTo, Chart!Named, Chart!OfType, Chart!ByCode, Chart!Ids
  <1>4. d \in Refs /\ amt \in Int BY DEF Refs, Chartered
  <1> DEFINE W == Chart!PostAuto(T, d, to, from, amt)
  <1>5. GoodBooks(W) /\ EvenBooks(W) /\ SameCodes(T, W) /\ W.entries = T.entries
    BY <1>2, <1>3, <1>4, PostAutoGood
  <1> HIDE DEF W
  <1>6. db' = W BY <1>1 DEF W
  <1> QED BY <1>1, <1>2, <1>5, <1>6, CodesStay DEF Outcome

LEMMA PostDocumentStep ==
    ASSUME Chartered, BooksInv, NEW d \in Documents, NEW debit, NEW credit, NEW amt \in Amounts,
           Chart!PostDocument(d, debit, credit, amt)
    PROVE  Outcome(db') /\ UNCHANGED req
  <1> DEFINE T == Chart!Ensured(db)
  <1>1. PICK to \in Chart!ByCode(T, debit), from \in Chart!ByCode(T, credit) :
            db' = Chart!PostAuto(T, d, to, from, amt) /\ req' = req
    BY DEF Chart!PostDocument, Chart!Write
  <1>2. /\ GoodBooks(T) /\ EvenBooks(T) /\ T.entries = db.entries
        /\ CodedBooks(db) /\ Room => CodedBooks(T)
    <2>1. db \in BookTables BY DEF BooksInv, GoodBooks
    <2> QED BY <2>1, EnsuredGood DEF BooksInv
  <1> HIDE DEF T
  <1>3. to \in DOMAIN T.accounts /\ from \in DOMAIN T.accounts BY DEF Chart!ByCode, Chart!Ids
  <1>4. d \in Refs /\ amt \in Int BY DEF Refs, Chartered
  <1> DEFINE W == Chart!PostAuto(T, d, to, from, amt)
  <1>5. GoodBooks(W) /\ EvenBooks(W) /\ SameCodes(T, W) /\ W.entries = T.entries
    BY <1>2, <1>3, <1>4, PostAutoGood
  <1> HIDE DEF W
  <1>6. db' = W BY <1>1 DEF W
  <1> QED BY <1>1, <1>2, <1>5, <1>6, CodesStay DEF Outcome

LEMMA ReverseDocumentStep ==
    ASSUME Chartered, BooksInv, NEW d \in Documents, Chart!ReverseDocument(d)
    PROVE  Outcome(db') /\ UNCHANGED req
  BY ReversedGood, CodesStay DEF Chart!ReverseDocument, Chart!Write, Refs, BooksInv, Outcome

LEMMA CreateJournalEntryStep ==
    ASSUME Chartered, BooksInv, NEW j \in Entries, NEW to \in Chart!Ids(db), NEW from \in Chart!Ids(db), NEW amt \in Amounts,
           Chart!CreateJournalEntry(j, to, from, amt)
    PROVE  Outcome(db') /\ UNCHANGED req
  <1> DEFINE v == [st |-> "draft", to |-> to, from |-> from, amt |-> amt]
             T == [db EXCEPT !.entries = [@ EXCEPT ![j] = v]]
  <1>1. db' = T /\ req' = req BY DEF Chart!CreateJournalEntry, Chart!Write
  <1>2. v \in EntryRow
    <2>1. DOMAIN db.accounts \subseteq Nat BY AccountsTyped DEF BooksInv, GoodBooks
    <2> QED BY <2>1 DEF EntryRow, Chart!Ids, Chartered
  <1> HIDE DEF v
  <1>3. /\ GoodBooks(T) /\ EvenBooks(T) /\ SameCodes(db, T) /\ T.accounts = db.accounts
        /\ \A k \in Entries : db.entries[k] # Chart!Unused => T.entries[k] # Chart!Unused
    BY <1>2, EntriesGood DEF BooksInv
  <1> HIDE DEF T
  <1> QED BY <1>1, <1>3, CodesStay DEF Outcome

\* An entry that is there is a row.
LEMMA EntryThere ==
    ASSUME BooksInv, NEW j \in Entries, db.entries[j] # Chart!Unused
    PROVE  db.entries[j] \in EntryRow /\ \A st \in {"draft", "posted", "deleted"} : [db.entries[j] EXCEPT !.st = st] \in EntryRow
  <1>1. db.entries[j] \in EntryRow BY AccountsTyped DEF BooksInv, GoodBooks
  <1> QED BY <1>1 DEF EntryRow

LEMMA DeleteJournalEntryStep ==
    ASSUME Chartered, BooksInv, NEW j \in Entries, Chart!DeleteJournalEntry(j)
    PROVE  Outcome(db') /\ UNCHANGED req
  <1> DEFINE v == [db.entries[j] EXCEPT !.st = "deleted"]
             T == [db EXCEPT !.entries = [@ EXCEPT ![j] = v]]
  <1>1. db' = T /\ req' = req /\ db.entries[j] # Chart!Unused
    BY DEF Chart!DeleteJournalEntry, Chart!Write, Chart!Unused
  <1>2. v \in EntryRow BY <1>1, EntryThere
  <1> HIDE DEF v
  <1>3. /\ GoodBooks(T) /\ EvenBooks(T) /\ SameCodes(db, T) /\ T.accounts = db.accounts
        /\ \A k \in Entries : db.entries[k] # Chart!Unused => T.entries[k] # Chart!Unused
    BY <1>2, EntriesGood DEF BooksInv
  <1> HIDE DEF T
  <1> QED BY <1>1, <1>3, CodesStay DEF Outcome

LEMMA SameOutcome == ASSUME BooksInv, UNCHANGED db PROVE Outcome(db')
  BY DEF Outcome, BooksInv

LEMMA PostJournalEntryStep ==
    ASSUME Chartered, BooksInv, NEW c \in Clerks, Chart!PostJournalEntry(c)
    PROVE  Outcome(db') /\ req' = [req EXCEPT ![c] = Chart!Idle]
  <1> DEFINE j == req[c].j
             v == db.entries[j]
             u == [v EXCEPT !.st = "posted"]
             M == [db EXCEPT !.entries = [@ EXCEPT ![j] = u]]
             T == Chart!Journal(M, j, v.to, v.from, v.amt)
  <1>1. req[c] # Chart!Idle /\ req' = [req EXCEPT ![c] = Chart!Idle]
        /\ db' = IF Chart!Live(db, v.to) /\ Chart!Live(db, v.from) THEN T ELSE db
    BY DEF Chart!PostJournalEntry, Chart!Idle
  <1>2. j \in Entries /\ v # Chart!Unused BY <1>1 DEF BooksInv, Posters, Posting
  <1>3. v \in EntryRow /\ u \in EntryRow BY <1>2, EntryThere
  <1>4. CASE Chart!Live(db, v.to) /\ Chart!Live(db, v.from)
    <2>1. v.amt \in Int /\ v.to \in DOMAIN db.accounts /\ v.from \in DOMAIN db.accounts /\ j \in Refs
      BY <1>2, <1>3, <1>4 DEF EntryRow, Chart!Live, Chart!Ids, Refs
    <2> DEFINE to == v.to
               from == v.from
               amt == v.amt
    <2>2. db' = T BY <1>1, <1>4
    <2> HIDE DEF j, u, to, from, amt
    <2>3. /\ GoodBooks(M) /\ EvenBooks(M) /\ SameCodes(db, M) /\ M.accounts = db.accounts
          /\ \A k \in Entries : db.entries[k] # Chart!Unused => M.entries[k] # Chart!Unused
      BY <1>2, <1>3, EntriesGood DEF BooksInv
    <2> HIDE DEF M
    <2>4. to \in DOMAIN M.accounts /\ from \in DOMAIN M.accounts /\ amt \in Int BY <2>1, <2>3 DEF to, from, amt
    <2> DEFINE W == Chart!Journal(M, j, to, from, amt)
    <2>5. GoodBooks(W) /\ EvenBooks(W) /\ SameCodes(M, W) /\ W.entries = M.entries
      BY <2>1, <2>3, <2>4, JournalGood
    <2>6. db' = W BY <2>2 DEF to, from, amt
    <2> HIDE DEF W
    <2> QED BY <1>1, <2>3, <2>5, <2>6, CodesStay DEF Outcome
  <1>5. CASE ~(Chart!Live(db, v.to) /\ Chart!Live(db, v.from))
    <2>1. db' = db BY <1>1, <1>5
    <2> QED BY <1>1, <2>1, SameOutcome
  <1> QED BY <1>4, <1>5

LEMMA LoadEntryStep ==
    ASSUME Chartered, BooksInv, NEW c \in Clerks, NEW j \in Entries, Chart!LoadEntry(c, j)
    PROVE  Outcome(db') /\ db' = db /\ req' = [req EXCEPT ![c] = [op |-> "post", j |-> j]] /\ db.entries[j] # Chart!Unused
  BY SameOutcome DEF Chart!LoadEntry, Chart!Unused

LEMMA BooksInit ==
    ASSUME Chart!Init
    PROVE  BooksInv /\ CodedBooks(db)
  <1>1. /\ db.accounts = << >> /\ db.entries = [j \in Entries |-> Chart!Unused] /\ db.ledger = {}
        /\ db = [accounts |-> db.accounts, entries |-> db.entries, ledger |-> db.ledger]
        /\ req = [c \in Clerks |-> Chart!Idle]
    BY DEF Chart!Init
  <1>2. db \in BookTables /\ DOMAIN db.accounts = {}
    <2>1. << >> \in Seq(AccountRow) /\ DOMAIN << >> = {} OBVIOUS
    <2>2. [j \in Entries |-> Chart!Unused] \in [Entries -> {Chart!Unused} \cup EntryRow] OBVIOUS
    <2>3. {} \in SUBSET LedgerRow OBVIOUS
    <2> QED BY <1>1, <2>1, <2>2, <2>3 DEF BookTables
  <1>3. GoodBooks(db) BY <1>1, <1>2, FS_EmptySet DEF GoodBooks, NumberedRows
  <1>4. \A ref : Chart!Rows(db, ref) = {} BY <1>1 DEF Chart!Rows
  <1>5. EvenBooks(db) BY <1>1, <1>4, SumEmpty DEF EvenBooks, NetSum
  <1>6. Posters BY <1>1 DEF Posters
  <1>7. CodedBooks(db) BY <1>2 DEF CodedBooks
  <1> QED BY <1>3, <1>5, <1>6, <1>7 DEF BooksInv

LEMMA BooksNext ==
    ASSUME Chartered, BooksInv, [Chart!Next]_<< db, req >>
    PROVE  BooksInv' /\ (Room /\ CodedBooks(db) => CodedBooks(db'))
  <1>1. /\ req \in [Clerks -> {Chart!Idle} \cup Posting]
        /\ \A c \in Clerks : req[c] # Chart!Idle => req[c].j \in Entries /\ db.entries[req[c].j] # Chart!Unused
    BY DEF BooksInv, Posters, Posting
  <1>2. ASSUME Outcome(db'), req' = req
        PROVE  Posters'
    BY <1>1, <1>2 DEF Posters, Outcome
  <1>3. Outcome(db') /\ Posters'
    <2>1. CASE Chart!GetAccounts BY <1>2, <2>1, GetAccountsStep
    <2>2. ASSUME Len(db.accounts) < MaxAccounts, NEW type \in Types, NEW name \in Categories, NEW n \in Openings,
                 Chart!CreateAccount(type, name, n)
          PROVE  Outcome(db') /\ Posters'
      BY <1>2, <2>2, CreateAccountStep
    <2>3. ASSUME NEW a \in Chart!Ids(db), Chart!DeleteAccount(a)
          PROVE  Outcome(db') /\ Posters'
      BY <1>2, <2>3, DeleteAccountStep
    <2>4. ASSUME NEW a \in Chart!Ids(db), NEW name \in Categories, NEW b \in BOOLEAN, Chart!UpdateAccount(a, name, b)
          PROVE  Outcome(db') /\ Posters'
      BY <1>2, <2>4, UpdateAccountStep
    <2>5. ASSUME NEW d \in Documents, NEW n \in Amounts, NEW category \in Categories \cup {General},
                 Chart!PostExpense(d, category, n, Defaults[1].code)
          PROVE  Outcome(db') /\ Posters'
      BY <1>2, <2>5, PostExpenseStep
    <2>6. ASSUME NEW d \in Documents, NEW n \in Amounts, NEW i \in DOMAIN Defaults, NEW k \in DOMAIN Defaults,
                 Chart!PostDocument(d, Defaults[i].code, Defaults[k].code, n)
          PROVE  Outcome(db') /\ Posters'
      BY <1>2, <2>6, PostDocumentStep
    <2>7. ASSUME NEW d \in Documents, Chart!ReverseDocument(d)
          PROVE  Outcome(db') /\ Posters'
      BY <1>2, <2>7, ReverseDocumentStep
    <2>8. ASSUME NEW j \in Entries, NEW to \in Chart!Ids(db), NEW from \in Chart!Ids(db), NEW n \in Amounts,
                 Chart!CreateJournalEntry(j, to, from, n)
          PROVE  Outcome(db') /\ Posters'
      BY <1>2, <2>8, CreateJournalEntryStep
    <2>9. ASSUME NEW j \in Entries, Chart!DeleteJournalEntry(j)
          PROVE  Outcome(db') /\ Posters'
      BY <1>2, <2>9, DeleteJournalEntryStep
    <2>10. ASSUME NEW j \in Entries, NEW c \in Clerks, Chart!LoadEntry(c, j)
           PROVE  Outcome(db') /\ Posters'
      BY <2>10, LoadEntryStep, <1>1 DEF Posting, Posters
    <2>11. ASSUME NEW c \in Clerks, Chart!PostJournalEntry(c)
           PROVE  Outcome(db') /\ Posters'
      BY <2>11, PostJournalEntryStep, <1>1 DEF Posters, Outcome
    <2>12. CASE UNCHANGED << db, req >> BY <1>2, <2>12, SameOutcome
    <2> QED BY <2>1, <2>2, <2>3, <2>4, <2>5, <2>6, <2>7, <2>8, <2>9, <2>10, <2>11, <2>12 DEF Chart!Next
  <1> QED BY <1>3 DEF BooksInv, Outcome

-----------------------------------------------------------------------------
(* What the statements come to *)

LEMMA BooksFollow ==
    ASSUME Chartered, BooksInv
    PROVE  Chart!BooksBalance
  <1> DEFINE A       == Chart!Ids(db)
             net     == [row \in db.ledger |-> row.debit - row.credit]
             opening == [a \in A |-> Chart!Weight(db.accounts[a].type, db.accounts[a].opening)]
             hidden  == [a \in A |-> Chart!Weight(db.accounts[a].type, db.accounts[a].balance)]
             moved   == [a \in A |-> NetSum(RowsOn(db, a))]
             less    == [a \in A |-> 0 - hidden[a]]
             S       == Chart!Shown
             gap     == SumFunctionOnSet(opening, A) - SumFunctionOnSet(hidden, A \ S)
  <1>1. /\ db \in BookTables /\ db.ledger \subseteq LedgerRow /\ IsFiniteSet(db.ledger)
        /\ A = 1 .. Len(db.accounts) /\ Len(db.accounts) \in Nat /\ A = DOMAIN db.accounts
        /\ \A a \in A : db.accounts[a] \in AccountRow
        /\ \A row \in db.ledger : row.acct \in A
        /\ \A a \in A : Tallies(db.accounts[a], NetSum(RowsOn(db, a)))
    BY AccountsTyped DEF BooksInv, GoodBooks, Chart!Ids
  <1>2. IsFiniteSet(A) BY <1>1, FS_Interval
  <1>3. \A R \in SUBSET db.ledger : Chart!Total(net, R) = NetSum(R) /\ NetSum(R) \in Int
    BY <1>1, NetsOf, SumAgrees, OneTotal DEF NetSum
  <1>4. \A a \in A : /\ RowsOn(db, a) = {row \in db.ledger : row.acct = a}
                     /\ Chart!Weight(db.accounts[a].type, db.accounts[a].balance - db.accounts[a].opening)
                            = Chart!Total(net, {row \in db.ledger : row.acct = a})
    <2> HIDE DEF net
    <2> QED BY <1>1, <1>3 DEF RowsOn, Tallies
  <1>5. \A a \in A : /\ opening[a] \in Int /\ hidden[a] \in Int /\ moved[a] \in Int
                     /\ moved[a] = hidden[a] - opening[a]
    BY <1>1 DEF AccountRow, Tallies, Chart!Weight
  <1>6. SumFunctionOnSet(moved, A) = 0
    <2> DEFINE k == [row \in db.ledger |-> row.acct]
    <2>1. /\ \A row \in db.ledger : k[row] \in A /\ Nets[row] \in Int
          /\ \A a \in A : {row \in db.ledger : k[row] = a} = RowsOn(db, a)
      BY <1>1, NetsOf DEF RowsOn
    <2>2. \A a \in A : moved[a] = SumFunctionOnSet(Nets, {row \in db.ledger : k[row] = a}) BY <2>1 DEF NetSum
    <2>3. NetSum(db.ledger) = 0 BY DEF BooksInv, EvenBooks
    <2>4. \A row \in db.ledger : k[row] \in A BY <2>1
    <2>5. \A row \in db.ledger : Nets[row] \in Int BY <2>1
    <2>6. IsFiniteSet(db.ledger) BY <1>1
    <2> HIDE DEF k, A, moved
    <2>7. SumFunctionOnSet(moved, A) = SumFunctionOnSet(Nets, db.ledger)
      <3>1. Keyed(db.ledger, A, k, Nets, moved) BY <1>2, <2>2, <2>4, <2>5, <2>6 DEF Keyed
      <3> QED BY <3>1, SumByKey
    <2> QED BY <2>3, <2>7 DEF NetSum
  <1>7. SumFunctionOnSet(hidden, A) = SumFunctionOnSet(opening, A)
    <2> HIDE DEF A, hidden, opening, moved
    <2>1. SumFunctionOnSet(moved, A) = SumFunctionOnSet(hidden, A) - SumFunctionOnSet(opening, A)
      BY <1>2, <1>5, SumDifference
    <2>2. SumFunctionOnSet(hidden, A) \in Int /\ SumFunctionOnSet(opening, A) \in Int BY <1>2, <1>5, SumInt
    <2> QED BY <1>6, <2>1, <2>2
  <1>8. S \subseteq A /\ \A U \in SUBSET A : IsFiniteSet(U) BY <1>2, FS_Subset DEF Chart!Shown
  <1>9. SumFunctionOnSet(hidden, S) = gap BY <1>8, <1>2, <1>5, SumWithout, <1>7
  <1>10. \A a \in A : less[a] \in Int /\ less[a] = 0 - hidden[a]
    <2> HIDE DEF hidden
    <2> QED BY <1>5
  <1>11. ASSUME NEW U \in SUBSET A
         PROVE  /\ SumFunctionOnSet(less, U) = 0 - SumFunctionOnSet(hidden, U)
                /\ SumFunctionOnSet(hidden, U) \in Int
    <2> DEFINE zero == [a \in A |-> 0]
    <2>1. \A a \in U : zero[a] \in Int /\ zero[a] = 0 OBVIOUS
    <2>2. IsFiniteSet(U) BY <1>8
    <2> HIDE DEF zero, less, hidden, A
    <2>3. SumFunctionOnSet(zero, U) = 0 BY <2>1, <2>2, SumZero
    <2>4. \A a \in U : zero[a] \in Int /\ hidden[a] \in Int /\ less[a] = zero[a] - hidden[a]
      BY <1>5, <1>10, <2>1
    <2>5. SumFunctionOnSet(less, U) = SumFunctionOnSet(zero, U) - SumFunctionOnSet(hidden, U)
      BY <2>2, <2>4, SumDifference
    <2>6. SumFunctionOnSet(hidden, U) \in Int BY <1>5, <2>2, SumInt
    <2> QED BY <2>3, <2>5, <2>6
  <1>12. ASSUME NEW U \in SUBSET A, NEW V \in SUBSET A, U \cap V = {}
         PROVE  SumFunctionOnSet(hidden, U \cup V) = SumFunctionOnSet(hidden, U) + SumFunctionOnSet(hidden, V)
    BY <1>8, <1>5, <1>12, SumUnion
  <1>13. ASSUME NEW f, NEW g, NEW U \in SUBSET A, \A a \in U : f[a] \in Int /\ f[a] = g[a]
         PROVE  Chart!Total(f, U) = SumFunctionOnSet(g, U)
    <2>1. IsFiniteSet(U) BY <1>8
    <2> HIDE DEF A
    <2> QED BY <1>13, <2>1, SumAgrees, OneTotal
  <1>14. Chart!TrialTotal("debit") - Chart!TrialTotal("credit") = gap
    <2> DEFINE D == {a \in S : Chart!Side(a) = "debit"}
               C == {a \in S : Chart!Side(a) = "credit"}
    <2>1. S = D \cup C /\ D \cap C = {} /\ D \in SUBSET A /\ C \in SUBSET A BY <1>8 DEF Chart!Side
    <2>2. \A a \in D : Chart!Size[a] \in Int /\ Chart!Size[a] = hidden[a]
      BY <1>1, <2>1 DEF AccountRow, Chart!Size, Chart!Balance, Chart!Side, Chart!Weight
    <2>3. \A a \in C : Chart!Size[a] \in Int /\ Chart!Size[a] = less[a]
      BY <1>1, <2>1 DEF AccountRow, Chart!Size, Chart!Balance, Chart!Side, Chart!Weight
    <2>4. Chart!TrialTotal("debit") = Chart!Total(Chart!Size, D) /\ Chart!TrialTotal("credit") = Chart!Total(Chart!Size, C)
      BY DEF Chart!TrialTotal
    <2> HIDE DEF D, C, less, hidden, A, S
    <2>5. Chart!Total(Chart!Size, D) = SumFunctionOnSet(hidden, D) BY <1>13, <2>1, <2>2
    <2>6. Chart!Total(Chart!Size, C) = SumFunctionOnSet(less, C) BY <1>13, <2>1, <2>3
    <2>7. SumFunctionOnSet(less, C) = 0 - SumFunctionOnSet(hidden, C) BY <1>11, <2>1
    <2>8. SumFunctionOnSet(hidden, S) = SumFunctionOnSet(hidden, D) + SumFunctionOnSet(hidden, C) BY <1>12, <2>1
    <2>9. SumFunctionOnSet(hidden, D) \in Int /\ SumFunctionOnSet(hidden, C) \in Int BY <1>11, <2>1
    <2> HIDE DEF gap
    <2> QED BY <1>9, <2>4, <2>5, <2>6, <2>7, <2>8, <2>9
  <1>15. Chart!Sum({"asset"}) - (Chart!Sum({"liability"}) + Chart!TotalEquity) = gap
    <2> DEFINE Of(k) == {a \in S : db.accounts[a].type = k}
               sum(k) == SumFunctionOnSet(hidden, Of(k))
    <2>1. \A k : Of(k) \in SUBSET A BY <1>8
    <2>2. \A k : sum(k) \in Int /\ SumFunctionOnSet(less, Of(k)) = 0 - sum(k)
      <3> HIDE DEF A, less, hidden, Of
      <3> QED BY <1>11, <2>1
    <2>3. \A k : Chart!Sum({k}) = Chart!Total(Chart!Balance, Of(k)) BY DEF Chart!Sum
    <2>4. \A a \in A : db.accounts[a].type \in Kinds /\ Chart!Balance[a] = db.accounts[a].balance /\ Chart!Balance[a] \in Int
      BY <1>1 DEF AccountRow, Chart!Balance
    <2>5. ASSUME NEW k \in {"asset", "expense"} PROVE Chart!Sum({k}) = sum(k)
      <3>1. \A a \in Of(k) : Chart!Balance[a] \in Int /\ Chart!Balance[a] = hidden[a]
        BY <1>8, <2>4 DEF Chart!Weight, Chart!DebitTypes
      <3> HIDE DEF A, hidden, Of
      <3>2. Chart!Total(Chart!Balance, Of(k)) = SumFunctionOnSet(hidden, Of(k)) BY <1>13, <2>1, <3>1
      <3> QED BY <2>3, <3>2
    <2>6. ASSUME NEW k \in {"liability", "equity", "income"} PROVE Chart!Sum({k}) = 0 - sum(k)
      <3>1. \A a \in Of(k) : Chart!Balance[a] \in Int /\ Chart!Balance[a] = less[a]
        BY <1>8, <2>4 DEF Chart!Weight, Chart!DebitTypes
      <3> HIDE DEF A, hidden, less, Of
      <3>2. Chart!Total(Chart!Balance, Of(k)) = SumFunctionOnSet(less, Of(k)) BY <1>13, <2>1, <3>1
      <3> QED BY <2>2, <2>3, <3>2
    <2>7. SumFunctionOnSet(hidden, S) = sum("asset") + (sum("expense") + (sum("liability") + (sum("equity") + sum("income"))))
      <3> DEFINE U1 == Of("equity") \cup Of("income")
                 U2 == Of("liability") \cup U1
                 U3 == Of("expense") \cup U2
      <3>1. S = Of("asset") \cup U3 BY <1>8, <2>4 DEF Kinds
      <3>2. /\ Of("equity") \cap Of("income") = {} /\ Of("liability") \cap U1 = {} /\ Of("expense") \cap U2 = {}
            /\ Of("asset") \cap U3 = {} /\ U1 \in SUBSET A /\ U2 \in SUBSET A /\ U3 \in SUBSET A
        BY <2>1
      <3> HIDE DEF Of, A, hidden
      <3>3. SumFunctionOnSet(hidden, U1) = sum("equity") + sum("income") BY <1>12, <2>1, <3>2
      <3> HIDE DEF U1
      <3>4. SumFunctionOnSet(hidden, U2) = sum("liability") + SumFunctionOnSet(hidden, U1) BY <1>12, <2>1, <3>2
      <3> HIDE DEF U2
      <3>5. SumFunctionOnSet(hidden, U3) = sum("expense") + SumFunctionOnSet(hidden, U2) BY <1>12, <2>1, <3>2
      <3> HIDE DEF U3
      <3>6. SumFunctionOnSet(hidden, Of("asset") \cup U3) = sum("asset") + SumFunctionOnSet(hidden, U3)
        BY <1>12, <2>1, <3>2
      <3> QED BY <3>1, <3>3, <3>4, <3>5, <3>6
    <2>8. Chart!TotalEquity = Chart!Sum({"equity"}) + (Chart!Sum({"income"}) - Chart!Sum({"expense"}))
      BY DEF Chart!TotalEquity, Chart!NetProfit
    <2>9. /\ Chart!Sum({"asset"}) = sum("asset") /\ Chart!Sum({"expense"}) = sum("expense")
          /\ Chart!Sum({"liability"}) = 0 - sum("liability") /\ Chart!Sum({"equity"}) = 0 - sum("equity")
          /\ Chart!Sum({"income"}) = 0 - sum("income")
      <3> HIDE DEF sum
      <3> QED BY <2>5, <2>6
    <2> HIDE DEF sum, gap
    <2> QED BY <1>9, <2>2, <2>7, <2>8, <2>9
  <1>16. gap = Chart!Total(opening, A) - Chart!Total(hidden, A \ S)
    <2> HIDE DEF opening, hidden, A, S
    <2> QED BY OneTotal
  <1> HIDE DEF gap
  <1> QED BY <1>4, <1>14, <1>15, <1>16 DEF Chart!BooksBalance

LEMMA CodesFollow ==
    ASSUME Chartered, Room, BooksInv, CodedBooks(db)
    PROVE  Chart!CodesUnique
  <1>1. \A a \in DOMAIN db.accounts : db.accounts[a] \in AccountRow BY AccountsTyped DEF BooksInv, GoodBooks
  <1>2. \A a, b \in Chart!Ids(db) : a # b /\ Chart!Live(db, a) /\ Chart!Live(db, b) => db.accounts[a].code # db.accounts[b].code
    BY DEF CodedBooks, Chart!Ids, Chart!Live
  <1>3. ASSUME NEW i \in DOMAIN Defaults, NEW a \in Chart!ByCode(db, Defaults[i].code)
        PROVE  db.accounts[a].type = Defaults[i].type
    <2> DEFINE v == db.accounts[a]
               d == Defaults[i]
    <2>1. v \in AccountRow /\ v.code = d.code /\ v.code - Chart!Base(v.type) \in 1 .. 9
      BY <1>1 DEF Chart!ByCode, Chart!Ids, CodedBooks, Offset
    <2>2. d \in [code : Int, type : Kinds, name : Labels] /\ d.code - Chart!Base(d.type) \in 1 .. 9
      <3>1. d \in [code : Int, type : Kinds, name : Labels] BY ElementOfSeq, LenProperties DEF Chartered
      <3>2. MaxAccounts \in 0 .. 9 /\ d.code - Chart!Base(d.type) \in 1 .. 9 - MaxAccounts BY DEF Room
      <3> HIDE DEF d
      <3> QED BY <3>1, <3>2
    <2> HIDE DEF v, d
    <2>3. v.type = d.type BY <2>1, <2>2 DEF AccountRow, Kinds, Chart!Base
    <2> QED BY <2>3 DEF v, d
  <1> QED BY <1>2, <1>3 DEF Chart!CodesUnique

\* Balances are the opening balances and the ledger's rows, and the trial balance
\* and the balance sheet are out by the opening balances and the inactive accounts
\* only, for any accounts, documents and entries by hand and any number of requests
\* at once (accounting.go:488, 684).
THEOREM BooksBalanceHolds == ASSUME Chartered PROVE Chart!Spec => []Chart!BooksBalance
  <1>1. Chart!Init => BooksInv BY BooksInit
  <1>2. BooksInv /\ [Chart!Next]_<< db, req >> => BooksInv' BY BooksNext
  <1>3. BooksInv => Chart!BooksBalance BY BooksFollow
  <1> QED BY <1>1, <1>2, <1>3, PTL DEF Chart!Spec, Chart!vars

\* While there is room for the accounts, no two have one code, and what a handler
\* posts to is of the type it takes it for (accounting_helpers.go:105).
THEOREM CodesUniqueHolds == ASSUME Chartered, Room PROVE Chart!Spec => []Chart!CodesUnique
  <1>1. Chart!Init => BooksInv /\ CodedBooks(db) BY BooksInit
  <1>2. BooksInv /\ CodedBooks(db) /\ [Chart!Next]_<< db, req >> => BooksInv' /\ CodedBooks(db)' BY BooksNext
  <1>3. BooksInv /\ CodedBooks(db) => Chart!CodesUnique BY CodesFollow
  <1> QED BY <1>1, <1>2, <1>3, PTL DEF Chart!Spec, Chart!vars

-----------------------------------------------------------------------------
(* The cash book (CashBook), with one request at a time.  Beside them all  *)
(* there is never more than one request under way, and what is said of the *)
(* tables is said with what that request has done.                         *)

LEMMA BankTotal == \A f, S : Bank!Total(f, S) = SumFunctionOnSet(f, S)
  BY DEF Bank!Total, Bank!SumFunctionOnSet, SumFunctionOnSet, Bank!FoldFunctionOnSet, FoldFunctionOnSet,
         Bank!MapThenFoldSet, MapThenFoldSet

\* One request at a time, numbers that are not given again, and nobody deletes the
\* cash row of a share of the profit.
OneTeller ==
    /\ ~Meanwhile /\ ~Reuse /\ "share" \notin ByHand
    /\ Amounts \subseteq Int /\ Openings \subseteq Int
    /\ IsFiniteSet(Clerks) /\ Bank!Cash \notin Accounts

-----------------------------------------------------------------------------
(* Types *)

Places      == Accounts \cup {Bank!Cash}
NumbersOf(X) == {Bank!Cardinality(S) + 1 : S \in SUBSET X}
CashRefs    == {Bank!Hand} \cup ({"expense"} \X NumbersOf(Expenses)) \cup ({"share"} \X NumbersOf(Shares))
CashKinds   == {"add", "reduce", "transfer_in", "transfer_out", "expense", "share"}
CashRow     == [id : Nat, kind : CashKinds, acct : Places, amt : Int, ref : CashRefs]
BankRow     == {Bank!Unused} \cup [st : {"live", "deleted"}, active : BOOLEAN, primary : BOOLEAN,
                                   opening : Int, balance : Int]
ExpenseRow  == {Bank!Unused} \cup [st : {"active", "cancelled", "deleted"}, no : NumbersOf(Expenses), amt : Int,
                                   acct : Places]
ShareRow    == {Bank!Unused} \cup [st : {"live", "deleted"}, no : NumbersOf(Shares), amt : Int, acct : Places,
                                   partner : Partners]
PaperIds    == ({"row"} \X Nat) \cup ({"expense"} \X Expenses) \cup ({"share"} \X Shares)

CashTables == [accounts : [Accounts -> BankRow], rows : SUBSET CashRow, made : Nat,
               expenses : [Expenses -> ExpenseRow], shares : [Shares -> ShareRow],
               partners : [Partners -> {"unused", "live", "deleted"}],
               journals : SUBSET [of : PaperIds, amt : Int], removed : SUBSET CashRefs,
               cut : [Accounts -> Int], deaths : Nat]

First    == [op : {"first"}, acct : Accounts]
ByHandIn == [op : {"money"}, at : {"save", "row"}, kind : {"add", "reduce"}, acct : Places, amt : Int, seen : Int]
Posts    == [op : {"post"}, id : Nat, amt : Int]
Moves    == [op : {"transfer"}, from : Accounts, to : Accounts, amt : Int, less : Int, more : Int]
Erasing  == [op : {"delete"}, at : {"save", "row"}, row : CashRow, kind : CashKinds, acct : Places, amt : Int, seen : Int]
Taking   == [op : {"share"}, s : Shares, p : Partners, amt : Int, acct : Places, seen : Int, no : NumbersOf(Shares)]
CashRequests == {Bank!Idle} \cup First \cup ByHandIn \cup Posts \cup Moves \cup Erasing \cup Taking

-----------------------------------------------------------------------------
(* The invariant, of the tables t and of what is under way, q *)

Alive(t, a) == a \in Accounts /\ t.accounts[a].st = "live"
Signs       == [r \in CashRow |-> Bank!Signed(r)]
NetOn(R, a) == SumFunctionOnSet(Signs, {r \in R : r.acct = a})

\* What q has saved to an account and not put into the book.
Waits(q, a) ==
    IF q.op \in {"money", "delete"} /\ q.at = "row" /\ q.acct = a
    THEN IF q.op = "money" THEN Bank!Signed(q) ELSE - Bank!Signed(q)
    ELSE 0

\* Rows are finitely many, on accounts that exist.
RowsGood(t) ==
    /\ IsFiniteSet(t.rows) /\ \A r \in t.rows : r.id <= t.made
    /\ \A a \in Accounts : t.accounts[a] = Bank!Unused => t.cut[a] = 0 /\ \A r \in t.rows : r.acct # a

\* An account's balance is its opening balance, its rows and what is under way.
Balanced(t, q) ==
    \A a \in Accounts : Alive(t, a) =>
        t.accounts[a].balance = t.accounts[a].opening + NetOn(t.rows, a) + Waits(q, a) + t.cut[a]

\* A paper x that was made has a row or none, and a journal or none.
Papers(t, d) == {j \in t.journals : j.of = d}

OneRow(R, x) == \E r \in R : R = {r} /\ r.acct = x.acct /\ r.amt = x.amt

ExpenseOK(t, e) ==
    LET x == t.expenses[e]
        R == Bank!RowsOf(t, "expense", << "expense", x.no >>)
        J == Papers(t, << "expense", e >>)
    IN  /\ x.st # "active" => J = {} /\ (x # Bank!Unused => R = {})
        /\ x.st = "active" => /\ OneRow(R, x) \/ (R = {} /\ (x.amt # 0 => << "expense", x.no >> \in t.removed))
                              /\ x.amt # 0 => J = {[of |-> << "expense", e >>, amt |-> x.amt]}

ShareOK(t, s) ==
    LET x == t.shares[s]
        R == Bank!RowsOf(t, "share", << "share", x.no >>)
        J == Papers(t, << "share", s >>)
    IN  /\ x.st # "live" => J = {} /\ (x # Bank!Unused => R = {})
        /\ x.st = "live" => /\ OneRow(R, x) /\ t.partners[x.partner] = "live"
                            /\ x.amt # 0 => J = {[of |-> << "share", s >>, amt |-> x.amt]}

Owned(T, x) == T[x] # Bank!Unused
NumberedOnce(T) == \A x, y \in DOMAIN T : Owned(T, x) /\ Owned(T, y) /\ T[x].no = T[y].no => x = y
RowsNamed(t, kind, T) == \A r \in t.rows : r.kind = kind => \E x \in DOMAIN T : Owned(T, x) /\ r.ref = << kind, T[x].no >>

ExpensesGood(t) ==
    /\ NumberedOnce(t.expenses) /\ RowsNamed(t, "expense", t.expenses)
    /\ \A e \in Expenses : ExpenseOK(t, e)

SharesGood(t) ==
    /\ NumberedOnce(t.shares) /\ RowsNamed(t, "share", t.shares)
    /\ \A s \in Shares : ShareOK(t, s)

\* What a request has read is still so.
Doing(t, q) ==
    /\ q.op \in {"money", "delete"} =>
          /\ q.acct \in Accounts => t.accounts[q.acct] # Bank!Unused
          /\ q.at = "save" => Alive(t, q.acct) /\ q.seen = t.accounts[q.acct].balance
    /\ q.op = "transfer" =>
          /\ q.from # q.to /\ Alive(t, q.from) /\ Alive(t, q.to)
          /\ q.less = t.accounts[q.from].balance - q.amt /\ q.more = t.accounts[q.to].balance + q.amt
    /\ q.op = "delete" =>
          q.row \in t.rows /\ q.row.kind # "share" /\ q.kind = q.row.kind /\ q.acct = q.row.acct /\ q.amt = q.row.amt
    /\ q.op = "share" =>
          /\ t.shares[q.s] = Bank!Unused /\ t.partners[q.p] = "live"
          /\ \A s \in Shares : Owned(t.shares, s) => t.shares[s].no # q.no
          /\ q.acct \in Accounts => Alive(t, q.acct) /\ q.seen = t.accounts[q.acct].balance

CashGood(t, q) ==
    /\ t \in CashTables /\ q \in CashRequests
    /\ RowsGood(t) /\ Balanced(t, q) /\ ExpensesGood(t) /\ SharesGood(t) /\ Doing(t, q)

\* Of the requests R, q is what is under way.
Under(R, q) ==
    /\ R \in [Clerks -> CashRequests]
    /\ q = Bank!Idle => \A c \in Clerks : R[c] = Bank!Idle
    /\ q # Bank!Idle => \E c \in Clerks : R[c] = q /\ \A d \in Clerks \ {c} : R[d] = Bank!Idle

CashInv == \E q \in CashRequests : Under(req, q) /\ CashGood(db, q)

-----------------------------------------------------------------------------
(* Requests *)

LEMMA RequestGoes ==
    ASSUME NEW R, NEW q, Under(R, q), NEW c \in Clerks, q = R[c] \/ q = Bank!Idle, NEW r \in CashRequests
    PROVE  Under([R EXCEPT ![c] = r], r)
  BY DEF Under

\* A step that begins or goes on with a request, and one that is a request of its own
LEMMA StepGoes ==
    ASSUME NEW q, Under(req, q), NEW c \in Clerks, NEW r \in CashRequests, NEW t,
           \/ OneTeller /\ Bank!Begin(c, r) /\ t = db
           \/ Bank!Go(c, r, t) /\ (q = req[c] \/ q = Bank!Idle)
    PROVE  Under(req', r) /\ db' = t
  <1>1. CASE OneTeller /\ Bank!Begin(c, r) /\ t = db
    <2>1. q = Bank!Idle BY <1>1 DEF OneTeller, Bank!Begin, Bank!Free, Under
    <2> QED BY <1>1, <2>1, RequestGoes DEF Bank!Begin
  <1>2. CASE Bank!Go(c, r, t) /\ (q = req[c] \/ q = Bank!Idle) BY <1>2, RequestGoes DEF Bank!Go
  <1> QED BY <1>1, <1>2

LEMMA NobodyElse ==
    ASSUME OneTeller, NEW q, Under(req, q), Bank!Free
    PROVE  q = Bank!Idle
  BY DEF OneTeller, Bank!Free, Under

LEMMA WriteGoes ==
    ASSUME OneTeller, NEW q, Under(req, q), NEW t, Bank!Write(t)
    PROVE  q = Bank!Idle /\ db' = t /\ Under(req', q)
  BY NobodyElse DEF Bank!Write, Under

LEMMA ItIs ==
    ASSUME NEW q, Under(req, q), NEW c \in Clerks, req[c] # Bank!Idle
    PROVE  q = req[c]
  BY DEF Under

-----------------------------------------------------------------------------
(* Sums of rows *)

LEMMA NetAdd ==
    ASSUME NEW R \in SUBSET CashRow, IsFiniteSet(R), NEW r \in CashRow, r \notin R, NEW a
    PROVE  /\ NetOn(R, a) \in Int /\ Bank!Signed(r) \in Int
           /\ NetOn(R \cup {r}, a) = NetOn(R, a) + (IF r.acct = a THEN Bank!Signed(r) ELSE 0)
  <1> DEFINE A == {x \in R : x.acct = a}
             B == {x \in R \cup {r} : x.acct = a}
  <1>1. \A x \in CashRow : Signs[x] \in Int /\ Signs[x] = Bank!Signed(x) BY DEF Signs, Bank!Signed, CashRow
  <1>2. IsFiniteSet(A) /\ A \subseteq CashRow /\ r \notin A BY FS_Subset
  <1>3. B = IF r.acct = a THEN A \cup {r} ELSE A OBVIOUS
  <1>4. NetOn(R, a) = SumFunctionOnSet(Signs, A) /\ NetOn(R \cup {r}, a) = SumFunctionOnSet(Signs, B) BY DEF NetOn
  <1> HIDE DEF A, B
  <1>5. SumFunctionOnSet(Signs, A) \in Int BY <1>1, <1>2, SumInt
  <1>6. SumFunctionOnSet(Signs, A \cup {r}) = Signs[r] + SumFunctionOnSet(Signs, A) BY <1>1, <1>2, SumAdds
  <1> QED BY <1>1, <1>3, <1>4, <1>5, <1>6

LEMMA NetTake ==
    ASSUME NEW R \in SUBSET CashRow, IsFiniteSet(R), NEW r \in R, NEW a
    PROVE  /\ NetOn(R, a) \in Int /\ Bank!Signed(r) \in Int
           /\ NetOn(R \ {r}, a) = NetOn(R, a) - (IF r.acct = a THEN Bank!Signed(r) ELSE 0)
  <1> DEFINE S == R \ {r}
  <1>1. S \in SUBSET CashRow /\ IsFiniteSet(S) /\ r \in CashRow /\ r \notin S /\ R = S \cup {r} BY FS_Subset
  <1> HIDE DEF S
  <1>2. /\ NetOn(S, a) \in Int /\ Bank!Signed(r) \in Int
        /\ NetOn(S \cup {r}, a) = NetOn(S, a) + (IF r.acct = a THEN Bank!Signed(r) ELSE 0)
    BY <1>1, NetAdd
  <1>3. NetOn(R, a) = NetOn(S \cup {r}, a) BY <1>1
  <1>4. NetOn(S, a) = NetOn(R, a) - (IF r.acct = a THEN Bank!Signed(r) ELSE 0) BY <1>2, <1>3
  <1> QED BY <1>2, <1>3, <1>4 DEF S

LEMMA NetInt ==
    ASSUME NEW t \in CashTables, RowsGood(t), NEW a
    PROVE  NetOn(t.rows, a) \in Int
  <1> DEFINE A == {x \in t.rows : x.acct = a}
  <1>1. \A x \in CashRow : Signs[x] \in Int BY DEF Signs, Bank!Signed, CashRow
  <1>2. IsFiniteSet(A) /\ A \subseteq CashRow BY FS_Subset DEF RowsGood, CashTables
  <1> HIDE DEF A
  <1>3. SumFunctionOnSet(Signs, A) \in Int BY <1>1, <1>2, SumInt
  <1> QED BY <1>3 DEF A, NetOn

-----------------------------------------------------------------------------
(* What the handlers share *)

Elsewhere(t, T) == T.expenses = t.expenses /\ T.shares = t.shares /\ T.partners = t.partners
                   /\ T.removed = t.removed /\ T.cut = t.cut /\ T.deaths = t.deaths

\* The same accounts are there, and of those that live the balance is out by as
\* much as before.
Even(t, T) ==
    \A b \in Accounts :
        /\ T.accounts[b] = Bank!Unused <=> t.accounts[b] = Bank!Unused
        /\ Alive(T, b) <=> Alive(t, b)
        /\ Alive(t, b) => /\ T.accounts[b].opening = t.accounts[b].opening
                          /\ T.accounts[b].balance - NetOn(T.rows, b) = t.accounts[b].balance - NetOn(t.rows, b)

LEMMA BankRows ==
    ASSUME NEW t \in CashTables, NEW a, Alive(t, a)
    PROVE  /\ a \in Accounts /\ t.accounts[a] # Bank!Unused /\ t.accounts[a].balance \in Int /\ t.accounts[a].opening \in Int
           /\ t.accounts[a] \in [st : {"live", "deleted"}, active : BOOLEAN, primary : BOOLEAN, opening : Int, balance : Int]
  BY DEF Alive, CashTables, BankRow, Bank!Unused

LEMMA MovedIs ==
    ASSUME OneTeller, NEW t \in CashTables, RowsGood(t), NEW a \in Places, NEW n \in Int
    PROVE  LET T == Bank!Moved(t, a, n) IN
           /\ T \in CashTables /\ RowsGood(T) /\ Elsewhere(t, T)
           /\ T.rows = t.rows /\ T.made = t.made /\ T.journals = t.journals
           /\ \A b \in Accounts :
                 /\ T.accounts[b] = Bank!Unused <=> t.accounts[b] = Bank!Unused
                 /\ Alive(T, b) <=> Alive(t, b)
                 /\ Alive(t, b) => /\ T.accounts[b].opening = t.accounts[b].opening
                                   /\ T.accounts[b].balance = t.accounts[b].balance + (IF a = b THEN n ELSE 0)
  <1> DEFINE T == Bank!Moved(t, a, n)
  <1>1. CASE Alive(t, a)
    <2> DEFINE x == [t.accounts[a] EXCEPT !.balance = @ + n]
    <2>1. /\ T = [t EXCEPT !.accounts = [t.accounts EXCEPT ![a] = x]] /\ a \in Accounts BY <1>1 DEF Bank!Moved, Alive
    <2>2. /\ x \in BankRow /\ x # Bank!Unused /\ x.st = "live" /\ t.accounts[a].st = "live" /\ t.accounts[a] # Bank!Unused
          /\ x.opening = t.accounts[a].opening /\ x.balance = t.accounts[a].balance + n
      BY <1>1, BankRows DEF BankRow, Alive, Bank!Unused
    <2> HIDE DEF x
    <2>3. /\ T \in CashTables /\ Elsewhere(t, T) /\ T.rows = t.rows /\ T.made = t.made /\ T.journals = t.journals
          /\ T.accounts = [t.accounts EXCEPT ![a] = x]
      BY <2>1, <2>2 DEF CashTables, Elsewhere
    <2> HIDE DEF T
    <2>4. t.accounts \in [Accounts -> BankRow] BY DEF CashTables
    <2>5. T.accounts[a] = x /\ \A b \in Accounts \ {a} : T.accounts[b] = t.accounts[b] BY <2>1, <2>3, <2>4
    <2>6. RowsGood(T) BY <2>2, <2>3, <2>5 DEF RowsGood, Elsewhere
    <2> QED BY <2>2, <2>3, <2>5, <2>6, BankRows DEF Alive, T
  <1>2. CASE ~Alive(t, a) BY <1>2, BankRows DEF Bank!Moved, Alive, Elsewhere, T
  <1> QED BY <1>1, <1>2

LEMMA EnteredIs ==
    ASSUME NEW t \in CashTables, RowsGood(t), NEW kind \in CashKinds, NEW a \in Places, NEW n \in Int, NEW ref \in CashRefs,
           a \in Accounts => t.accounts[a] # Bank!Unused
    PROVE  LET T   == Bank!Entered(t, kind, a, n, ref)
               row == [id |-> t.made + 1, kind |-> kind, acct |-> a, amt |-> n, ref |-> ref]
           IN  /\ T \in CashTables /\ RowsGood(T) /\ Elsewhere(t, T) /\ T.accounts = t.accounts /\ T.journals = t.journals
               /\ T.rows = t.rows \cup {row} /\ row \notin t.rows
               /\ Bank!Signed(row) = (IF kind \in {"add", "transfer_in"} THEN n ELSE - n)
               /\ \A b \in Accounts : /\ NetOn(t.rows, b) \in Int
                                      /\ NetOn(T.rows, b) = NetOn(t.rows, b) + (IF a = b THEN Bank!Signed(row) ELSE 0)
  <1> DEFINE T   == Bank!Entered(t, kind, a, n, ref)
             row == [id |-> t.made + 1, kind |-> kind, acct |-> a, amt |-> n, ref |-> ref]
  <1>1. /\ row \in CashRow /\ row.id = t.made + 1 /\ row.acct = a BY DEF CashRow, CashTables
  <1>2. Bank!Signed(row) = (IF kind \in {"add", "transfer_in"} THEN n ELSE - n) BY DEF Bank!Signed, Bank!Ins
  <1>3. T = [t EXCEPT !.made = @ + 1, !.rows = @ \cup {row}] BY DEF Bank!Entered
  <1> HIDE DEF row
  <1>4. /\ T \in CashTables /\ Elsewhere(t, T) /\ T.accounts = t.accounts /\ T.journals = t.journals
        /\ T.rows = t.rows \cup {row} /\ T.made = t.made + 1
    <2>1. t.made \in Nat /\ t.made + 1 \in Nat /\ t.rows \cup {row} \in SUBSET CashRow BY <1>1 DEF CashTables
    <2> DEFINE m == t.made + 1
               R == t.rows \cup {row}
    <2>2. T = [[t EXCEPT !.made = m] EXCEPT !.rows = R] BY <1>3 DEF CashTables
    <2>3. m \in Nat /\ R \in SUBSET CashRow BY <2>1
    <2> HIDE DEF m, R, T
    <2>4. /\ T \in CashTables /\ Elsewhere(t, T) /\ T.accounts = t.accounts /\ T.journals = t.journals
          /\ T.rows = R /\ T.made = m
      BY <2>2, <2>3 DEF CashTables, Elsewhere
    <2> QED BY <2>4 DEF m, R
  <1> HIDE DEF T
  <1>5. row \notin t.rows /\ t.rows \in SUBSET CashRow /\ IsFiniteSet(t.rows) BY <1>1 DEF RowsGood, CashTables
  <1>6. RowsGood(T) BY <1>4, <1>5, FS_AddElement, <1>1 DEF CashTables, CashRow, RowsGood, Elsewhere
  <1>7. \A b \in Accounts : /\ NetOn(t.rows, b) \in Int
                            /\ NetOn(T.rows, b) = NetOn(t.rows, b) + (IF a = b THEN Bank!Signed(row) ELSE 0)
    BY <1>1, <1>4, <1>5, NetAdd
  <1> QED BY <1>2, <1>4, <1>5, <1>6, <1>7 DEF T, row

LEMMA CashOutIs ==
    ASSUME OneTeller, NEW t \in CashTables, RowsGood(t), NEW a \in Places, a \in Accounts => Alive(t, a),
           NEW n \in Int, NEW ref \in CashRefs
    PROVE  LET T == Bank!CashOut(t, a, n, ref) IN
           /\ T \in CashTables /\ RowsGood(T) /\ Elsewhere(t, T) /\ T.journals = t.journals /\ Even(t, T)
           /\ n = 0 => T.rows = t.rows
           /\ n # 0 => \E r : T.rows = t.rows \cup {r} /\ r.kind = "expense" /\ r.acct = a /\ r.amt = n /\ r.ref = ref
  <1>1. CASE n = 0 BY <1>1 DEF Bank!CashOut, Elsewhere, Even
  <1>2. CASE n # 0
    <2> DEFINE m == - n
               u == Bank!Moved(t, a, m)
               T == Bank!Entered(u, "expense", a, n, ref)
               row == [id |-> u.made + 1, kind |-> "expense", acct |-> a, amt |-> n, ref |-> ref]
    <2>1. m \in Int /\ Bank!CashOut(t, a, n, ref) = T BY <1>2 DEF Bank!CashOut
    <2> HIDE DEF m
    <2>2. /\ u \in CashTables /\ RowsGood(u) /\ Elsewhere(t, u) /\ u.rows = t.rows /\ u.journals = t.journals
          /\ \A b \in Accounts :
                /\ u.accounts[b] = Bank!Unused <=> t.accounts[b] = Bank!Unused
                /\ Alive(u, b) <=> Alive(t, b)
                /\ Alive(t, b) => /\ u.accounts[b].opening = t.accounts[b].opening
                                  /\ u.accounts[b].balance = t.accounts[b].balance + (IF a = b THEN m ELSE 0)
      BY <2>1, MovedIs
    <2> HIDE DEF u
    <2>3. a \in Accounts => u.accounts[a] # Bank!Unused BY <2>2, BankRows
    <2>4. "expense" \in CashKinds BY DEF CashKinds
    <2>5. /\ T \in CashTables /\ RowsGood(T) /\ Elsewhere(u, T) /\ T.accounts = u.accounts /\ T.journals = u.journals
          /\ T.rows = u.rows \cup {row} /\ Bank!Signed(row) = - n
          /\ \A b \in Accounts : /\ NetOn(u.rows, b) \in Int
                                 /\ NetOn(T.rows, b) = NetOn(u.rows, b) + (IF a = b THEN Bank!Signed(row) ELSE 0)
      BY <2>2, <2>3, <2>4, EnteredIs
    <2>6. row.kind = "expense" /\ row.acct = a /\ row.amt = n /\ row.ref = ref OBVIOUS
    <2> HIDE DEF T, row
    <2>7. Even(t, T)
      <3> SUFFICES ASSUME NEW b \in Accounts
                   PROVE  /\ T.accounts[b] = Bank!Unused <=> t.accounts[b] = Bank!Unused
                          /\ Alive(T, b) <=> Alive(t, b)
                          /\ Alive(t, b) =>
                                /\ T.accounts[b].opening = t.accounts[b].opening
                                /\ T.accounts[b].balance - NetOn(T.rows, b) = t.accounts[b].balance - NetOn(t.rows, b)
        BY DEF Even
      <3>1. Alive(T, b) <=> Alive(u, b) BY <2>5 DEF Alive
      <3>2. Alive(t, b) => T.accounts[b].balance - NetOn(T.rows, b) = t.accounts[b].balance - NetOn(t.rows, b)
        <4> SUFFICES ASSUME Alive(t, b)
                     PROVE  T.accounts[b].balance - NetOn(T.rows, b) = t.accounts[b].balance - NetOn(t.rows, b)
          OBVIOUS
        <4> DEFINE x == t.accounts[b].balance
                   y == NetOn(t.rows, b)
        <4>1. x \in Int /\ y \in Int BY <2>2, <2>5, BankRows
        <4>2. T.accounts[b].balance = x + (IF a = b THEN m ELSE 0) BY <2>2, <2>5
        <4>3. NetOn(T.rows, b) = y + (IF a = b THEN - n ELSE 0) BY <2>2, <2>5
        <4> HIDE DEF x, y
        <4>4. m = - n BY DEF m
        <4>5. T.accounts[b].balance - NetOn(T.rows, b) = x - y BY <4>1, <4>2, <4>3, <4>4
        <4> QED BY <4>5 DEF x, y
      <3> QED BY <2>2, <2>5, <3>1, <3>2
    <2>8. Elsewhere(t, T) /\ T.journals = t.journals BY <2>2, <2>5 DEF Elsewhere
    <2> QED BY <1>2, <2>1, <2>2, <2>5, <2>6, <2>7, <2>8
  <1> QED BY <1>1, <1>2

LEMMA CashBackIs ==
    ASSUME NEW t \in CashTables, RowsGood(t), NEW ref,
           LET R == Bank!RowsOf(t, "expense", ref) IN R = {} \/ \E r \in R : R = {r}
    PROVE  LET T == Bank!CashBack(t, ref) IN
           /\ T \in CashTables /\ RowsGood(T) /\ Elsewhere(t, T) /\ T.journals = t.journals /\ Even(t, T)
           /\ T.rows = t.rows \ Bank!RowsOf(t, "expense", ref)
  <1> DEFINE R == Bank!RowsOf(t, "expense", ref)
             amount == [r \in R |-> r.amt]
             Back(b) == SumFunctionOnSet(amount, {r \in R : r.acct = b})
             A == [b \in Accounts |-> IF t.accounts[b].st = "live"
                                      THEN [t.accounts[b] EXCEPT !.balance = @ + Back(b)] ELSE t.accounts[b]]
             T == Bank!CashBack(t, ref)
  <1>1. T = [t EXCEPT !.rows = @ \ R, !.accounts = A] BY BankTotal DEF Bank!CashBack, CashTables
  <1>2. R \subseteq t.rows /\ t.rows \in SUBSET CashRow /\ IsFiniteSet(t.rows) /\ \A r \in R : r.kind = "expense"
    BY DEF Bank!RowsOf, RowsGood, CashTables
  <1>3. \A b \in Accounts :
           /\ Back(b) \in Int /\ NetOn(t.rows, b) \in Int
           /\ NetOn(t.rows \ R, b) = NetOn(t.rows, b) + Back(b)
    <2> SUFFICES ASSUME NEW b \in Accounts
                 PROVE  /\ Back(b) \in Int /\ NetOn(t.rows, b) \in Int
                        /\ NetOn(t.rows \ R, b) = NetOn(t.rows, b) + Back(b)
      OBVIOUS
    <2>1. NetOn(t.rows, b) \in Int BY NetInt
    <2> DEFINE Z == {r \in R : r.acct = b}
    <2>2. Back(b) = SumFunctionOnSet(amount, Z) OBVIOUS
    <2>3. CASE R = {} BY <2>3, SumEmpty, <2>2, <2>1
    <2>4. ASSUME NEW r \in R, R = {r}
          PROVE  Back(b) \in Int /\ NetOn(t.rows \ R, b) = NetOn(t.rows, b) + Back(b)
      <3>1. amount[r] = r.amt /\ r.amt \in Int /\ r \in t.rows /\ r.kind = "expense" BY <1>2, <2>4 DEF CashRow
      <3>2. Bank!Signed(r) = - r.amt BY <3>1 DEF Bank!Signed, Bank!Ins
      <3>3. NetOn(t.rows \ {r}, b) = NetOn(t.rows, b) - (IF r.acct = b THEN Bank!Signed(r) ELSE 0)
        BY <1>2, <3>1, NetTake
      <3>4. Z = IF r.acct = b THEN {r} ELSE {} BY <2>4
      <3>5. t.rows \ R = t.rows \ {r} BY <2>4
      <3> HIDE DEF Z, R, amount, Back
      <3>6. SumFunctionOnSet(amount, {r}) = r.amt BY <3>1, SumOne
      <3>7. SumFunctionOnSet(amount, {}) = 0 BY SumEmpty
      <3>8. Back(b) = IF r.acct = b THEN r.amt ELSE 0 BY <2>2, <3>4, <3>6, <3>7
      <3> QED BY <2>1, <3>1, <3>2, <3>3, <3>5, <3>8
    <2> QED BY <2>1, <2>3, <2>4
  <1> HIDE DEF Back
  <1>4. \A b \in Accounts : /\ A[b] \in BankRow /\ (A[b] = Bank!Unused <=> t.accounts[b] = Bank!Unused)
                            /\ A[b].st = "live" <=> t.accounts[b].st = "live"
                            /\ t.accounts[b].st = "live" => /\ A[b].opening = t.accounts[b].opening
                                                            /\ A[b].balance = t.accounts[b].balance + Back(b)
                                                            /\ t.accounts[b].balance \in Int
    BY <1>3 DEF CashTables, BankRow, Bank!Unused
  <1>5. A \in [Accounts -> BankRow] BY <1>4
  <1> HIDE DEF A, T, R
  <1>6. /\ T \in CashTables /\ Elsewhere(t, T) /\ T.journals = t.journals /\ T.rows = t.rows \ R /\ T.accounts = A
        /\ T.made = t.made
    BY <1>1, <1>2, <1>5 DEF CashTables, Elsewhere
  <1>7. RowsGood(T)
    <2>1. IsFiniteSet(t.rows \ R) BY <1>2, FS_Subset
    <2> QED BY <1>4, <1>6, <2>1 DEF RowsGood, Elsewhere
  <1>8. Even(t, T)
    <2> SUFFICES ASSUME NEW b \in Accounts
                 PROVE  /\ T.accounts[b] = Bank!Unused <=> t.accounts[b] = Bank!Unused
                        /\ Alive(T, b) <=> Alive(t, b)
                        /\ Alive(t, b) =>
                              /\ T.accounts[b].opening = t.accounts[b].opening
                              /\ T.accounts[b].balance - NetOn(T.rows, b) = t.accounts[b].balance - NetOn(t.rows, b)
      BY DEF Even
    <2>1. Back(b) \in Int /\ NetOn(t.rows, b) \in Int /\ NetOn(T.rows, b) = NetOn(t.rows, b) + Back(b) BY <1>3, <1>6
    <2>2. \A x, y, z \in Int : (x + z) - (y + z) = x - y OBVIOUS
    <2>3. t.accounts[b].st = "live" => T.accounts[b].balance = t.accounts[b].balance + Back(b) /\ t.accounts[b].balance \in Int
      BY <1>4, <1>6
    <2> QED BY <1>4, <1>6, <2>1, <2>2, <2>3 DEF Alive
  <1> QED BY <1>6, <1>7, <1>8 DEF T, R

LEMMA PostedIs ==
    ASSUME NEW t \in CashTables, NEW d \in PaperIds, NEW n \in Int
    PROVE  LET T == Bank!Posted(t, d, n)
               J == [of |-> d, amt |-> n]
           IN  /\ T \in CashTables /\ Elsewhere(t, T)
               /\ T.accounts = t.accounts /\ T.rows = t.rows /\ T.made = t.made
               /\ \A e : e # d => Papers(T, e) = Papers(t, e)
               /\ n # 0 => Papers(T, d) = Papers(t, d) \cup {J}
  BY DEF Bank!Posted, Elsewhere, CashTables, Papers

LEMMA UnpostedIs ==
    ASSUME NEW t \in CashTables, NEW d
    PROVE  LET T == Bank!Unposted(t, d) IN
           /\ T \in CashTables /\ Elsewhere(t, T)
           /\ T.accounts = t.accounts /\ T.rows = t.rows /\ T.made = t.made
           /\ Papers(T, d) = {} /\ \A e : e # d => Papers(T, e) = Papers(t, e)
  BY DEF Bank!Unposted, CashTables, Papers, Elsewhere

-----------------------------------------------------------------------------
(* What leaves expenses and shares alone *)

LEMMA ExpensesStay ==
    ASSUME NEW t \in CashTables, ExpensesGood(t), NEW T, T.expenses = t.expenses,
           \A r : r.kind = "expense" => (r \in T.rows <=> r \in t.rows),
           \A e \in Expenses : Papers(T, << "expense", e >>) = Papers(t, << "expense", e >>),
           t.removed \subseteq T.removed
    PROVE  ExpensesGood(T)
  BY DEF Bank!RowsOf, ExpensesGood, RowsNamed, ExpenseOK

LEMMA SharesStay ==
    ASSUME NEW t \in CashTables, SharesGood(t), NEW T, T.shares = t.shares,
           \A r : r.kind = "share" => (r \in T.rows <=> r \in t.rows),
           \A s \in Shares : Papers(T, << "share", s >>) = Papers(t, << "share", s >>),
           \A s \in Shares : t.shares[s].st = "live" => T.partners[t.shares[s].partner] = t.partners[t.shares[s].partner]
    PROVE  SharesGood(T)
  <1>1. \A ref : Bank!RowsOf(T, "share", ref) = Bank!RowsOf(t, "share", ref) BY DEF Bank!RowsOf
  <1>2. RowsNamed(T, "share", T.shares) BY DEF SharesGood, RowsNamed
  <1>3. \A s \in Shares : ShareOK(T, s)
    <2> SUFFICES ASSUME NEW s \in Shares PROVE ShareOK(T, s) OBVIOUS
    <2> DEFINE x == t.shares[s]
               R == Bank!RowsOf(t, "share", << "share", x.no >>)
               J == Papers(t, << "share", s >>)
    <2>1. ShareOK(t, s) BY DEF SharesGood
    <2>2. T.shares[s] = x /\ Bank!RowsOf(T, "share", << "share", x.no >>) = R /\ Papers(T, << "share", s >>) = J
      BY <1>1
    <2>3. /\ x.st # "live" => J = {} /\ (x # Bank!Unused => R = {})
          /\ x.st = "live" => /\ OneRow(R, x) /\ T.partners[x.partner] = "live"
                              /\ x.amt # 0 => J = {[of |-> << "share", s >>, amt |-> x.amt]}
      BY <2>1 DEF ShareOK
    <2> HIDE DEF x, R, J
    <2> QED BY <2>2, <2>3 DEF ShareOK
  <1> QED BY <1>2, <1>3 DEF SharesGood

\* OnlyPaper accounts change
LEMMA AccountsIs ==
    ASSUME NEW t \in CashTables, NEW A \in [Accounts -> BankRow], NEW T, T = [t EXCEPT !.accounts = A],
           \A a \in Accounts : A[a] = Bank!Unused => t.accounts[a] = Bank!Unused,
           RowsGood(t), ExpensesGood(t), SharesGood(t)
    PROVE  /\ T \in CashTables /\ RowsGood(T) /\ ExpensesGood(T) /\ SharesGood(T) /\ Elsewhere(t, T)
           /\ T.accounts = A /\ T.rows = t.rows /\ T.made = t.made /\ T.journals = t.journals
  BY ExpensesStay, SharesStay DEF CashTables, Elsewhere, Papers, RowsGood

LEMMA NetNone ==
    ASSUME NEW R, NEW a, \A r \in R : r.acct # a
    PROVE  NetOn(R, a) = 0
  BY SumEmpty DEF NetOn

\* The accounts' balances are as good with T and r under way as with t and q
LEMMA BalancesStay ==
    ASSUME NEW t, NEW q, NEW T, NEW r, Balanced(t, q), T.rows = t.rows, T.cut = t.cut,
           \A b \in Accounts : Alive(T, b) =>
              /\ Alive(t, b) /\ Waits(r, b) = Waits(q, b)
              /\ T.accounts[b].balance = t.accounts[b].balance /\ T.accounts[b].opening = t.accounts[b].opening
    PROVE  Balanced(T, r)
  BY DEF Balanced

CashOutcome(R, t) == \E q \in CashRequests : Under(R, q) /\ CashGood(t, q)

LEMMA CashIs == CashInv <=> CashOutcome(req, db)
  BY DEF CashInv, CashOutcome

\* What nobody waits for
LEMMA IdleWaits == \A b : Waits(Bank!Idle, b) = 0
  BY DEF Waits, Bank!Idle

LEMMA IdleDoes == Bank!Idle \in CashRequests /\ \A t : Doing(t, Bank!Idle)
  BY DEF Doing, Bank!Idle, CashRequests

LEMMA LiveIs == \A a : Bank!Live(a) <=> Alive(db, a)
  BY DEF Bank!Live, Alive

LEMMA AccountTyped ==
    ASSUME NEW t \in CashTables, NEW a \in Accounts
    PROVE  /\ t.accounts[a] \in BankRow /\ t.accounts \in [Accounts -> BankRow] /\ (t.accounts[a].st = "live" => t.accounts[a] # Bank!Unused)
  BY DEF CashTables, BankRow, Bank!Unused

-----------------------------------------------------------------------------
(* Bank accounts *)

LEMMA CreateBankAccountStep ==
    ASSUME OneTeller, CashInv, NEW c \in Clerks, NEW a \in Accounts, NEW n \in Openings, Bank!CreateBankAccount(c, a, n)
    PROVE  CashInv'
  <1>1. PICK q \in CashRequests : Under(req, q) /\ CashGood(db, q) BY DEF CashInv
  <1> DEFINE x == [st |-> "live", active |-> TRUE, primary |-> FALSE, opening |-> n, balance |-> n]
             A == [db.accounts EXCEPT ![a] = x]
             T == [db EXCEPT !.accounts = A]
             r == [op |-> "first", acct |-> a]
  <1>2. /\ db.accounts[a] = Bank!Unused /\ req[c] = Bank!Idle /\ Bank!Free /\ Bank!Go(c, r, T)
    BY DEF Bank!CreateBankAccount
  <1>3. q = Bank!Idle BY <1>1, <1>2, NobodyElse
  <1>4. n \in Int /\ x \in BankRow /\ x # Bank!Unused /\ x.st = "live" /\ x.balance = n /\ x.opening = n
    BY DEF OneTeller, BankRow, Bank!Unused
  <1>5. r \in CashRequests /\ (\A b : Waits(r, b) = 0) /\ r.op = "first" BY DEF CashRequests, First, Waits
  <1> HIDE DEF x, r
  <1>6. /\ db \in CashTables /\ RowsGood(db) /\ ExpensesGood(db) /\ SharesGood(db) /\ Balanced(db, q)
        /\ db.accounts \in [Accounts -> BankRow]
    BY <1>1, AccountTyped DEF CashGood
  <1>7. A \in [Accounts -> BankRow] /\ A[a] = x /\ \A b \in Accounts \ {a} : A[b] = db.accounts[b] BY <1>4, <1>6
  <1> HIDE DEF A
  <1>8. \A b \in Accounts : A[b] = Bank!Unused => db.accounts[b] = Bank!Unused BY <1>4, <1>7
  <1>9. Under(req', r) /\ db' = T BY <1>1, <1>2, <1>3, <1>5, StepGoes
  <1> HIDE DEF T
  <1>10. /\ T \in CashTables /\ RowsGood(T) /\ ExpensesGood(T) /\ SharesGood(T) /\ Elsewhere(db, T)
         /\ T.accounts = A /\ T.rows = db.rows
    BY <1>6, <1>7, <1>8, AccountsIs DEF T
  <1>11. NetOn(db.rows, a) = 0 /\ db.cut[a] = 0 BY <1>2, <1>6, NetNone DEF RowsGood
  <1>12. Balanced(T, r)
    <2> SUFFICES ASSUME NEW b \in Accounts, Alive(T, b)
                 PROVE  T.accounts[b].balance = T.accounts[b].opening + NetOn(T.rows, b) + Waits(r, b) + T.cut[b]
      BY DEF Balanced
    <2>1. CASE b = a BY <1>4, <1>5, <1>7, <1>10, <1>11, <2>1 DEF Elsewhere
    <2>2. CASE b # a
      <3>1. Alive(db, b) /\ T.accounts[b] = db.accounts[b] BY <1>7, <1>10, <2>2 DEF Alive
      <3> QED BY <1>3, <1>5, <1>6, <1>10, <3>1, IdleWaits DEF Balanced, Elsewhere
    <2> QED BY <2>1, <2>2
  <1>13. Doing(T, r) BY <1>5 DEF Doing
  <1> QED BY <1>5, <1>9, <1>10, <1>12, <1>13 DEF CashGood, CashInv

\* A write of an account on its own that leaves its balance
LEMMA AccountWritten ==
    ASSUME OneTeller, CashInv, NEW A \in [Accounts -> BankRow], Bank!Write([db EXCEPT !.accounts = A]),
           \A b \in Accounts :
              /\ A[b] = Bank!Unused => db.accounts[b] = Bank!Unused
              /\ A[b].st = "live" => /\ db.accounts[b].st = "live"
                                     /\ A[b].balance = db.accounts[b].balance /\ A[b].opening = db.accounts[b].opening
    PROVE  CashInv'
  BY WriteGoes, AccountsIs, BalancesStay, IdleDoes DEF CashInv, CashGood, Alive, Elsewhere

LEMMA UpdateBankAccountStep ==
    ASSUME OneTeller, CashInv, NEW a \in Accounts, NEW active \in BOOLEAN, Bank!UpdateBankAccount(a, active)
    PROVE  CashInv'
  <1> DEFINE x == [db.accounts[a] EXCEPT !.active = active]
             A == [db.accounts EXCEPT ![a] = x]
  <1>1. db \in CashTables /\ db.accounts[a].st = "live" /\ Alive(db, a) BY LiveIs DEF CashInv, CashGood, Bank!UpdateBankAccount, Alive
  <1>2. Bank!Write([db EXCEPT !.accounts = A]) BY DEF Bank!UpdateBankAccount
  <1>3. x \in BankRow /\ x # Bank!Unused /\ x.balance = db.accounts[a].balance /\ x.opening = db.accounts[a].opening
    BY <1>1, BankRows DEF BankRow, Bank!Unused
  <1> HIDE DEF x
  <1>4. A \in [Accounts -> BankRow] /\ A[a] = x /\ \A b \in Accounts \ {a} : A[b] = db.accounts[b]
    BY <1>1, <1>3, AccountTyped
  <1> HIDE DEF A
  <1> QED BY <1>1, <1>2, <1>3, <1>4, AccountWritten

LEMMA DeleteBankAccountStep ==
    ASSUME OneTeller, CashInv, NEW a \in Accounts, Bank!DeleteBankAccount(a)
    PROVE  CashInv'
  <1> DEFINE x == [db.accounts[a] EXCEPT !.st = "deleted"]
             A == [db.accounts EXCEPT ![a] = x]
  <1>1. db \in CashTables /\ db.accounts[a].st = "live" /\ Alive(db, a) BY LiveIs DEF CashInv, CashGood, Bank!DeleteBankAccount, Alive
  <1>2. Bank!Write([db EXCEPT !.accounts = A]) BY DEF Bank!DeleteBankAccount
  <1>3. x \in BankRow /\ x # Bank!Unused /\ x.st # "live" BY <1>1, BankRows DEF BankRow, Bank!Unused
  <1> HIDE DEF x
  <1>4. A \in [Accounts -> BankRow] /\ A[a] = x /\ \A b \in Accounts \ {a} : A[b] = db.accounts[b]
    BY <1>1, <1>3, AccountTyped
  <1> HIDE DEF A
  <1> QED BY <1>1, <1>2, <1>3, <1>4, AccountWritten

LEMMA SetPrimaryBankAccountStep ==
    ASSUME OneTeller, CashInv, NEW a \in Accounts, Bank!SetPrimaryBankAccount(a)
    PROVE  CashInv'
  <1> DEFINE A == [b \in Accounts |->
                      CASE b = a   -> [db.accounts[b] EXCEPT !.primary = TRUE, !.active = TRUE]
                        [] Bank!Live(b) /\ b # a -> [db.accounts[b] EXCEPT !.primary = FALSE]
                        [] OTHER   -> db.accounts[b]]
  <1>1. db \in CashTables /\ Alive(db, a) BY LiveIs DEF CashInv, CashGood, Bank!SetPrimaryBankAccount
  <1>2. Bank!Write([db EXCEPT !.accounts = A]) BY DEF Bank!SetPrimaryBankAccount
  <1>3. \A b \in Accounts :
           /\ A[b] \in BankRow /\ (A[b] = Bank!Unused => db.accounts[b] = Bank!Unused)
           /\ A[b].st = "live" => /\ db.accounts[b].st = "live"
                                  /\ A[b].balance = db.accounts[b].balance /\ A[b].opening = db.accounts[b].opening
    <2> SUFFICES ASSUME NEW b \in Accounts
                 PROVE  /\ A[b] \in BankRow /\ (A[b] = Bank!Unused => db.accounts[b] = Bank!Unused)
                        /\ A[b].st = "live" => /\ db.accounts[b].st = "live"
                                               /\ A[b].balance = db.accounts[b].balance /\ A[b].opening = db.accounts[b].opening
      OBVIOUS
    <2>1. CASE Alive(db, b) BY <2>1, LiveIs, <1>1, BankRows DEF Alive, BankRow, Bank!Unused
    <2>2. CASE ~Alive(db, b) BY <1>1, <2>2, LiveIs, AccountTyped
    <2> QED BY <2>1, <2>2
  <1>4. A \in [Accounts -> BankRow] BY <1>3
  <1> HIDE DEF A
  <1> QED BY <1>2, <1>3, <1>4, AccountWritten

LEMMA MarkFirstStep ==
    ASSUME OneTeller, CashInv, NEW c \in Clerks, Bank!MarkFirst(c)
    PROVE  CashInv'
  <1>1. PICK q \in CashRequests : Under(req, q) /\ CashGood(db, q) BY DEF CashInv
  <1> DEFINE a == req[c].acct
             x == [db.accounts[a] EXCEPT !.primary = TRUE]
             A == [db.accounts EXCEPT ![a] = x]
  <1>2. PICK U : Bank!Go(c, Bank!Idle, U) /\ (U = db \/ (U = [db EXCEPT !.accounts = A] /\ Alive(db, a)))
    BY LiveIs DEF Bank!MarkFirst
  <1> HIDE DEF a
  <1>3. req[c].op = "first" BY DEF Bank!MarkFirst
  <1>4. q = req[c] BY <1>1, <1>3, ItIs DEF Bank!Idle
  <1>5. Under(req', Bank!Idle) /\ db' = U BY <1>1, <1>2, <1>4, IdleDoes, StepGoes
  <1>6. \A b : Waits(q, b) = 0 BY <1>3, <1>4 DEF Waits
  <1>7. /\ db \in CashTables /\ RowsGood(db) /\ ExpensesGood(db) /\ SharesGood(db) /\ Balanced(db, q)
    BY <1>1 DEF CashGood
  <1>8. CASE U = db
    <2>1. Balanced(db, Bank!Idle) BY <1>6, <1>7, BalancesStay, IdleWaits
    <2> QED BY <1>5, <1>7, <1>8, <2>1, IdleDoes DEF CashInv, CashGood
  <1>9. CASE U = [db EXCEPT !.accounts = A] /\ Alive(db, a)
    <2>1. x \in BankRow /\ x # Bank!Unused /\ x.balance = db.accounts[a].balance /\ x.opening = db.accounts[a].opening
      BY <1>7, <1>9, BankRows DEF BankRow, Bank!Unused
    <2> HIDE DEF x
    <2>2. a \in Accounts /\ db.accounts[a].st = "live" BY <1>9 DEF Alive
    <2>3. A \in [Accounts -> BankRow] /\ A[a] = x /\ \A b \in Accounts \ {a} : A[b] = db.accounts[b]
      BY <1>7, <2>1, <2>2, AccountTyped
    <2> HIDE DEF A
    <2>4. /\ U \in CashTables /\ RowsGood(U) /\ ExpensesGood(U) /\ SharesGood(U) /\ Elsewhere(db, U)
          /\ U.accounts = A /\ U.rows = db.rows
      BY <1>7, <1>9, <2>1, <2>3, AccountsIs
    <2>5. Balanced(U, Bank!Idle)
      BY <1>6, <1>7, <2>1, <2>2, <2>3, <2>4, BalancesStay, IdleWaits DEF Alive, Elsewhere
    <2> QED BY <1>5, <2>4, <2>5, IdleDoes DEF CashInv, CashGood
  <1> QED BY <1>2, <1>8, <1>9

-----------------------------------------------------------------------------
(* Entries by hand and transfers *)

\* A request that begins, with the tables as they are
LEMMA LoadedIs ==
    ASSUME OneTeller, CashInv, NEW c \in Clerks, NEW r \in CashRequests, Bank!Begin(c, r),
           Doing(db, r), \A b : Alive(db, b) => Waits(r, b) = 0
    PROVE  CashInv'
  <1>1. PICK q \in CashRequests : Under(req, q) /\ CashGood(db, q) BY DEF CashInv
  <1>2. q = Bank!Idle BY <1>1, NobodyElse DEF Bank!Begin
  <1>3. Under(req', r) /\ db' = db BY <1>1, StepGoes
  <1>4. Balanced(db, r) BY <1>1, <1>2, BalancesStay, IdleWaits DEF CashGood
  <1> QED BY <1>1, <1>3, <1>4 DEF CashInv, CashGood

LEMMA LoadMoneyStep ==
    ASSUME OneTeller, CashInv, NEW c \in Clerks, NEW kind \in {"add", "reduce"}, NEW a \in Places, NEW n \in Amounts,
           Bank!LoadMoney(c, kind, a, n)
    PROVE  CashInv'
  <1> DEFINE at   == IF Bank!Live(a) THEN "save" ELSE "row"
             seen == Bank!Seen(a)
             r    == [op |-> "money", at |-> at, kind |-> kind, acct |-> a, amt |-> n, seen |-> seen]
  <1>1. Bank!Begin(c, r) /\ (a # Bank!Cash => db.accounts[a] # Bank!Unused) BY DEF Bank!LoadMoney
  <1>2. db \in CashTables BY DEF CashInv, CashGood
  <1>3. /\ n \in Int /\ at \in {"save", "row"} /\ (at = "save" <=> Alive(db, a)) /\ seen \in Int
        /\ Alive(db, a) => seen = db.accounts[a].balance
    BY <1>2, LiveIs, BankRows DEF OneTeller, Bank!Seen
  <1> HIDE DEF at, seen
  <1>4. r \in CashRequests BY <1>3 DEF CashRequests, ByHandIn
  <1>5. r.op = "money" /\ r.at = at /\ r.acct = a /\ r.seen = seen OBVIOUS
  <1> HIDE DEF r
  <1>6. Doing(db, r) BY <1>1, <1>3, <1>5 DEF Doing, OneTeller
  <1>7. \A b : Alive(db, b) => Waits(r, b) = 0 BY <1>3, <1>5 DEF Waits
  <1> QED BY <1>1, <1>4, <1>6, <1>7, LoadedIs

LEMMA LoadRowStep ==
    ASSUME OneTeller, CashInv, NEW c \in Clerks, NEW row \in db.rows, Bank!LoadRow(c, row)
    PROVE  CashInv'
  <1> DEFINE a    == row.acct
             at   == IF Bank!Live(a) THEN "save" ELSE "row"
             seen == Bank!Seen(a)
             r    == [op |-> "delete", at |-> at, row |-> row, kind |-> row.kind, acct |-> a, amt |-> row.amt, seen |-> seen]
  <1>1. Bank!Begin(c, r) /\ row.kind \in ByHand BY DEF Bank!LoadRow
  <1>2. db \in CashTables /\ RowsGood(db) BY DEF CashInv, CashGood
  <1>3. /\ at \in {"save", "row"} /\ (at = "save" <=> Alive(db, a)) /\ seen \in Int
        /\ Alive(db, a) => seen = db.accounts[a].balance
    BY <1>2, LiveIs, BankRows DEF Bank!Seen
  <1>4. row \in CashRow /\ row.kind \in CashKinds /\ a \in Places /\ row.amt \in Int BY <1>2 DEF CashTables, CashRow
  <1>5. a \in Accounts => db.accounts[a] # Bank!Unused BY <1>2 DEF RowsGood
  <1> HIDE DEF at, seen, a
  <1>6. r \in CashRequests BY <1>3, <1>4 DEF CashRequests, Erasing
  <1>7. /\ r.op = "delete" /\ r.at = at /\ r.acct = a /\ r.seen = seen /\ r.row = row /\ r.kind = row.kind /\ r.amt = row.amt
    OBVIOUS
  <1> HIDE DEF r
  <1>8. Doing(db, r) BY <1>1, <1>3, <1>5, <1>7 DEF Doing, OneTeller, a
  <1>9. \A b : Alive(db, b) => Waits(r, b) = 0 BY <1>3, <1>7 DEF Waits
  <1> QED BY <1>1, <1>6, <1>8, <1>9, LoadedIs

LEMMA LoadTransferStep ==
    ASSUME OneTeller, CashInv, NEW c \in Clerks, NEW from \in Accounts, NEW to \in Accounts, NEW n \in Amounts,
           Bank!LoadTransfer(c, from, to, n)
    PROVE  CashInv'
  <1> DEFINE less == Bank!Seen(from) - n
             more == Bank!Seen(to) + n
             r    == [op |-> "transfer", from |-> from, to |-> to, amt |-> n, less |-> less, more |-> more]
  <1>1. Bank!Begin(c, r) /\ from # to /\ Alive(db, from) /\ Alive(db, to) BY LiveIs DEF Bank!LoadTransfer
  <1>2. db \in CashTables BY DEF CashInv, CashGood
  <1>3. n \in Int /\ less \in Int /\ more \in Int /\ less = db.accounts[from].balance - n /\ more = db.accounts[to].balance + n
    <2>1. ASSUME NEW a, Alive(db, a) PROVE Bank!Seen(a) = db.accounts[a].balance /\ db.accounts[a].balance \in Int
      BY <1>2, <2>1, LiveIs, BankRows DEF Bank!Seen
    <2>2. n \in Int BY DEF OneTeller
    <2> QED BY <1>1, <2>1, <2>2
  <1> HIDE DEF less, more
  <1>4. r \in CashRequests BY <1>3 DEF CashRequests, Moves
  <1>5. r.op = "transfer" /\ r.from = from /\ r.to = to /\ r.amt = n /\ r.less = less /\ r.more = more OBVIOUS
  <1> HIDE DEF r
  <1>6. Doing(db, r) BY <1>1, <1>3, <1>5 DEF Doing
  <1>7. \A b : Alive(db, b) => Waits(r, b) = 0 BY <1>5 DEF Waits
  <1> QED BY <1>1, <1>4, <1>6, <1>7, LoadedIs

LEMMA SaveBalanceStep ==
    ASSUME OneTeller, CashInv, NEW c \in Clerks, Bank!SaveBalance(c)
    PROVE  CashInv'
  <1>1. PICK q \in CashRequests : Under(req, q) /\ CashGood(db, q) BY DEF CashInv
  <1>2. req[c].op \in {"money", "delete"} /\ req[c].at = "save" BY DEF Bank!SaveBalance
  <1>3. q = req[c] BY <1>1, <1>2, ItIs DEF Bank!Idle
  <1> DEFINE a == q.acct
             g == IF q.op = "money" THEN Bank!Signed(q) ELSE - Bank!Signed(q)
             w == q.seen + g
             x == [db.accounts[a] EXCEPT !.balance = w]
             A == [db.accounts EXCEPT ![a] = x]
             T == [db EXCEPT !.accounts = A]
             r == [q EXCEPT !.at = "row"]
  <1>4. Bank!Go(c, r, T) BY <1>3 DEF Bank!SaveBalance
  <1>5. /\ db \in CashTables /\ RowsGood(db) /\ ExpensesGood(db) /\ SharesGood(db) /\ Balanced(db, q) /\ Doing(db, q)
    BY <1>1 DEF CashGood
  <1>6. /\ q \in ByHandIn \cup Erasing /\ q.op \in {"money", "delete"} /\ q.at = "save"
    BY <1>2, <1>3 DEF CashRequests, First, Posts, Moves, Taking, Bank!Idle
  <1>7. q.amt \in Int /\ g \in Int /\ q.seen \in Int BY <1>6 DEF ByHandIn, Erasing, Bank!Signed
  <1>8. /\ r \in CashRequests /\ r.op = q.op /\ r.at = "row" /\ r.acct = a /\ Bank!Signed(r) = Bank!Signed(q)
        /\ r.kind = q.kind /\ r.amt = q.amt /\ (q.op = "delete" => r.row = q.row)
    BY <1>6 DEF ByHandIn, Erasing, CashRequests, Bank!Signed
  <1>9. Alive(db, a) /\ q.seen = db.accounts[a].balance BY <1>5, <1>6 DEF Doing
  <1> HIDE DEF a
  <1>10. \A b : /\ Waits(r, b) = IF b = a THEN g ELSE 0
                /\ Waits(q, b) = 0
    BY <1>6, <1>8 DEF Waits, a
  <1> HIDE DEF r, g
  <1>11. /\ x \in BankRow /\ x # Bank!Unused /\ x.balance = db.accounts[a].balance + g /\ x.opening = db.accounts[a].opening
         /\ x.st = "live" /\ db.accounts[a].balance \in Int /\ db.accounts[a].opening \in Int
    BY <1>7, <1>9, <1>5, BankRows DEF BankRow, Bank!Unused, Alive
  <1> HIDE DEF x
  <1>12. a \in Accounts /\ db.accounts[a].st = "live" BY <1>9 DEF Alive
  <1>13. A \in [Accounts -> BankRow] /\ A[a] = x /\ \A b \in Accounts \ {a} : A[b] = db.accounts[b]
    BY <1>5, <1>11, <1>12, AccountTyped
  <1> HIDE DEF A
  <1>14. Under(req', r) /\ db' = T BY <1>1, <1>3, <1>4, <1>8, StepGoes
  <1> HIDE DEF T
  <1>15. /\ T \in CashTables /\ RowsGood(T) /\ ExpensesGood(T) /\ SharesGood(T) /\ Elsewhere(db, T)
         /\ T.accounts = A /\ T.rows = db.rows
    BY <1>5, <1>11, <1>13, AccountsIs DEF T
  <1>16. Balanced(T, r)
    <2> SUFFICES ASSUME NEW b \in Accounts, Alive(T, b)
                 PROVE  T.accounts[b].balance = T.accounts[b].opening + NetOn(T.rows, b) + Waits(r, b) + T.cut[b]
      BY DEF Balanced
    <2>1. Alive(db, b) BY <1>9, <1>13, <1>15 DEF Alive
    <2>2. db.accounts[b].balance = db.accounts[b].opening + NetOn(db.rows, b) + Waits(q, b) + db.cut[b]
      BY <1>5, <2>1 DEF Balanced
    <2>3. NetOn(db.rows, b) \in Int /\ db.cut[b] \in Int /\ db.accounts[b].opening \in Int BY <1>5, <2>1, NetInt, BankRows DEF CashTables
    <2> DEFINE N == NetOn(db.rows, b)
               k == db.cut[b]
               o == db.accounts[b].opening
    <2>4. T.cut[b] = k /\ NetOn(T.rows, b) = N BY <1>15 DEF Elsewhere
    <2> HIDE DEF N, k, o
    <2>5. N \in Int /\ k \in Int /\ o \in Int BY <2>3 DEF N, k, o
    <2>6. db.accounts[b].balance = o + N + Waits(q, b) + k BY <2>2 DEF N, k, o
    <2>7. CASE b = a
      <3>1. T.accounts[b].balance = o + N + 0 + k + g /\ T.accounts[b].opening = o BY <1>10, <1>11, <1>13, <1>15, <2>6, <2>7 DEF o
      <3> QED BY <1>7, <1>10, <2>4, <2>5, <2>7, <3>1 DEF g
    <2>8. CASE b # a BY <1>13, <1>15, <2>8, <1>10, <2>6, <2>4, <2>5 DEF o
    <2> QED BY <2>7, <2>8
  <1>17. Doing(T, r) BY <1>6, <1>8, <1>11, <1>13, <1>15, <1>5 DEF Doing, a
  <1> QED BY <1>8, <1>14, <1>15, <1>16, <1>17 DEF CashGood, CashInv

LEMMA StoreRowStep ==
    ASSUME OneTeller, CashInv, NEW c \in Clerks, Bank!StoreRow(c)
    PROVE  CashInv'
  <1>1. PICK q \in CashRequests : Under(req, q) /\ CashGood(db, q) BY DEF CashInv
  <1>2. req[c].op = "money" /\ req[c].at = "row" BY DEF Bank!StoreRow
  <1>3. q = req[c] BY <1>1, <1>2, ItIs DEF Bank!Idle
  <1> DEFINE a == q.acct
             T == Bank!Entered(db, q.kind, a, q.amt, Bank!Hand)
             row == [id |-> db.made + 1, kind |-> q.kind, acct |-> a, amt |-> q.amt, ref |-> Bank!Hand]
             r == [op |-> "post", id |-> db.made + 1, amt |-> q.amt]
  <1>4. Bank!Go(c, r, T) BY <1>3 DEF Bank!StoreRow
  <1>5. /\ db \in CashTables /\ RowsGood(db) /\ ExpensesGood(db) /\ SharesGood(db) /\ Balanced(db, q) /\ Doing(db, q)
    BY <1>1 DEF CashGood
  <1>6. q \in ByHandIn /\ q.at = "row"
    BY <1>2, <1>3 DEF CashRequests, First, Posts, Moves, Taking, Erasing, Bank!Idle
  <1>7. q.amt \in Int /\ q.kind \in {"add", "reduce"} /\ q.kind \in CashKinds /\ a \in Places BY <1>6 DEF ByHandIn, CashKinds
  <1>8. r \in CashRequests /\ (\A b : Waits(r, b) = 0) /\ \A t : Doing(t, r)
    BY <1>5, <1>7 DEF CashRequests, Posts, Waits, Doing, CashTables
  <1>9. a \in Accounts => db.accounts[a] # Bank!Unused BY <1>2, <1>3, <1>5 DEF Doing
  <1>10. Bank!Signed(q) = (IF q.kind \in {"add", "transfer_in"} THEN q.amt ELSE - q.amt) BY DEF Bank!Signed, Bank!Ins
  <1>11. \A b : Waits(q, b) = IF b = a THEN Bank!Signed(q) ELSE 0 BY <1>2, <1>3 DEF Waits
  <1>12. row.kind = q.kind OBVIOUS
  <1> HIDE DEF a, r
  <1>13. Bank!Hand \in CashRefs BY DEF CashRefs
  <1>14. /\ T \in CashTables /\ RowsGood(T) /\ Elsewhere(db, T) /\ T.accounts = db.accounts /\ T.journals = db.journals
         /\ T.rows = db.rows \cup {row} /\ row \notin db.rows
         /\ Bank!Signed(row) = (IF q.kind \in {"add", "transfer_in"} THEN q.amt ELSE - q.amt)
         /\ \A b \in Accounts : /\ NetOn(db.rows, b) \in Int
                                /\ NetOn(T.rows, b) = NetOn(db.rows, b) + (IF a = b THEN Bank!Signed(row) ELSE 0)
    BY <1>5, <1>7, <1>9, <1>13, EnteredIs
  <1> HIDE DEF T, row
  <1>15. Under(req', r) /\ db' = T BY <1>1, <1>3, <1>4, <1>8, StepGoes
  <1>16. Balanced(T, r)
    <2> SUFFICES ASSUME NEW b \in Accounts, Alive(T, b)
                 PROVE  T.accounts[b].balance = T.accounts[b].opening + NetOn(T.rows, b) + Waits(r, b) + T.cut[b]
      BY DEF Balanced
    <2>1. Alive(db, b) /\ T.accounts[b] = db.accounts[b] /\ T.cut[b] = db.cut[b] BY <1>14 DEF Alive, Elsewhere
    <2> DEFINE N == NetOn(db.rows, b)
               k == db.cut[b]
               o == db.accounts[b].opening
               g == Bank!Signed(q)
    <2>2. N \in Int /\ k \in Int /\ o \in Int /\ g \in Int BY <1>5, <1>7, <1>10, <1>14, <2>1, BankRows DEF CashTables
    <2>3. db.accounts[b].balance = o + N + (IF b = a THEN g ELSE 0) + k BY <1>5, <1>11, <2>1 DEF Balanced
    <2>4. NetOn(T.rows, b) = N + (IF b = a THEN g ELSE 0) BY <1>10, <1>14
    <2>5. T.accounts[b].balance = db.accounts[b].balance /\ T.accounts[b].opening = o /\ T.cut[b] = k /\ Waits(r, b) = 0
      BY <1>8, <2>1
    <2> HIDE DEF N, k, o, g
    <2> QED BY <2>2, <2>3, <2>4, <2>5
  <1>17. \A d : Papers(T, d) = Papers(db, d) BY <1>14 DEF Papers
  <1>18. \A x : x.kind \in {"expense", "share"} => (x \in T.rows <=> x \in db.rows) BY <1>7, <1>12, <1>14
  <1>19. ExpensesGood(T) BY <1>5, <1>14, <1>17, <1>18, ExpensesStay DEF Elsewhere
  <1>20. SharesGood(T) BY <1>5, <1>14, <1>17, <1>18, SharesStay DEF Elsewhere
  <1> QED BY <1>8, <1>14, <1>15, <1>16, <1>19, <1>20 DEF CashGood, CashInv

LEMMA PostMoneyStep ==
    ASSUME OneTeller, CashInv, NEW c \in Clerks, Bank!PostMoney(c)
    PROVE  CashInv'
  <1>1. PICK q \in CashRequests : Under(req, q) /\ CashGood(db, q) BY DEF CashInv
  <1>2. req[c].op = "post" BY DEF Bank!PostMoney
  <1>3. q = req[c] BY <1>1, <1>2, ItIs DEF Bank!Idle
  <1> DEFINE d == << "row", q.id >>
             T == Bank!Posted(db, d, q.amt)
  <1>4. Bank!Go(c, Bank!Idle, T) BY <1>3 DEF Bank!PostMoney
  <1>5. /\ db \in CashTables /\ RowsGood(db) /\ ExpensesGood(db) /\ SharesGood(db) /\ Balanced(db, q)
    BY <1>1 DEF CashGood
  <1>6. q \in Posts BY <1>2, <1>3 DEF CashRequests, First, ByHandIn, Moves, Taking, Erasing, Bank!Idle
  <1>7. q.amt \in Int /\ d \in PaperIds BY <1>6 DEF Posts, PaperIds
  <1>8. \A b : Waits(q, b) = 0 BY <1>2, <1>3 DEF Waits
  <1>9. \A e : << "expense", e >> # d /\ << "share", e >> # d OBVIOUS
  <1> HIDE DEF d
  <1>10. /\ T \in CashTables /\ Elsewhere(db, T) /\ T.accounts = db.accounts /\ T.rows = db.rows /\ T.made = db.made
         /\ \A e : e # d => Papers(T, e) = Papers(db, e)
    BY <1>5, <1>7, PostedIs
  <1> HIDE DEF T
  <1>11. Under(req', Bank!Idle) /\ db' = T BY <1>1, <1>3, <1>4, IdleDoes, StepGoes
  <1>12. ExpensesGood(T) BY <1>5, <1>9, <1>10, ExpensesStay DEF Elsewhere
  <1>13. SharesGood(T) BY <1>5, <1>9, <1>10, SharesStay DEF Elsewhere
  <1>14. Balanced(T, Bank!Idle) BY <1>5, <1>8, <1>10, BalancesStay, IdleWaits DEF Alive, Elsewhere
  <1>15. RowsGood(T) BY <1>5, <1>10 DEF RowsGood, Elsewhere
  <1> QED BY <1>10, <1>11, <1>12, <1>13, <1>14, <1>15, IdleDoes DEF CashGood, CashInv

LEMMA TransferMoneyStep ==
    ASSUME OneTeller, CashInv, NEW c \in Clerks, Bank!TransferMoney(c)
    PROVE  CashInv'
  <1>1. PICK q \in CashRequests : Under(req, q) /\ CashGood(db, q) BY DEF CashInv
  <1>2. req[c].op = "transfer" BY DEF Bank!TransferMoney
  <1>3. q = req[c] BY <1>1, <1>2, ItIs DEF Bank!Idle
  <1> DEFINE a == q.from
             e == q.to
             x == [db.accounts[a] EXCEPT !.balance = q.less]
             y == [db.accounts[e] EXCEPT !.balance = q.more]
             A == [[db.accounts EXCEPT ![a] = x] EXCEPT ![e] = y]
             T == [db EXCEPT !.accounts = A]
             V == Bank!Entered(T, "transfer_out", a, q.amt, Bank!Hand)
             W == Bank!Entered(V, "transfer_in", e, q.amt, Bank!Hand)
             out == [id |-> T.made + 1, kind |-> "transfer_out", acct |-> a, amt |-> q.amt, ref |-> Bank!Hand]
             in  == [id |-> V.made + 1, kind |-> "transfer_in", acct |-> e, amt |-> q.amt, ref |-> Bank!Hand]
  <1>4. /\ db \in CashTables /\ RowsGood(db) /\ ExpensesGood(db) /\ SharesGood(db) /\ Balanced(db, q) /\ Doing(db, q)
    BY <1>1 DEF CashGood
  <1>5. /\ a # e /\ Alive(db, a) /\ Alive(db, e)
        /\ q.less = db.accounts[a].balance - q.amt /\ q.more = db.accounts[e].balance + q.amt
    BY <1>2, <1>3, <1>4 DEF Doing
  <1>6. q \in Moves BY <1>2, <1>3 DEF CashRequests, First, ByHandIn, Posts, Taking, Erasing, Bank!Idle
  <1>7. q.amt \in Int /\ a \in Accounts /\ e \in Accounts /\ q.less \in Int /\ q.more \in Int BY <1>6 DEF Moves
  <1>8. \A b : Waits(q, b) = 0 BY <1>2, <1>3 DEF Waits
  <1>9. Bank!Go(c, Bank!Idle, W) BY <1>4, <1>5, <1>7, AccountTyped, <1>3 DEF CashTables, Bank!TransferMoney
  <1> HIDE DEF a, e
  <1>10. /\ x \in BankRow /\ x # Bank!Unused /\ x.st = "live" /\ x.balance = db.accounts[a].balance - q.amt
         /\ x.opening = db.accounts[a].opening /\ db.accounts[a].balance \in Int
    BY <1>4, <1>5, <1>7, BankRows DEF BankRow, Bank!Unused, Alive
  <1>11. /\ y \in BankRow /\ y # Bank!Unused /\ y.st = "live" /\ y.balance = db.accounts[e].balance + q.amt
         /\ y.opening = db.accounts[e].opening /\ db.accounts[e].balance \in Int
    BY <1>4, <1>5, <1>7, BankRows DEF BankRow, Bank!Unused, Alive
  <1> HIDE DEF x, y
  <1>12. /\ A \in [Accounts -> BankRow] /\ A[a] = x /\ A[e] = y
         /\ \A b \in Accounts : b # a /\ b # e => A[b] = db.accounts[b]
    BY <1>4, <1>5, <1>7, <1>10, <1>11, AccountTyped
  <1> HIDE DEF A
  <1>13. /\ T \in CashTables /\ RowsGood(T) /\ ExpensesGood(T) /\ SharesGood(T) /\ Elsewhere(db, T)
         /\ T.accounts = A /\ T.rows = db.rows
    BY <1>4, <1>10, <1>11, <1>12, AccountsIs
  <1> HIDE DEF T
  <1>14. /\ "transfer_out" \in CashKinds /\ "transfer_in" \in CashKinds /\ Bank!Hand \in CashRefs
         /\ a \in Places /\ e \in Places /\ T.accounts[a] # Bank!Unused /\ T.accounts[e] # Bank!Unused
    BY <1>7, <1>10, <1>11, <1>12, <1>13 DEF CashKinds, CashRefs, Places
  <1>15. out.kind = "transfer_out" /\ in.kind = "transfer_in" OBVIOUS
  <1>16. /\ V \in CashTables /\ RowsGood(V) /\ Elsewhere(T, V) /\ V.accounts = T.accounts /\ V.journals = T.journals
         /\ V.rows = T.rows \cup {out} /\ Bank!Signed(out) = - q.amt
         /\ \A b \in Accounts : /\ NetOn(T.rows, b) \in Int
                                /\ NetOn(V.rows, b) = NetOn(T.rows, b) + (IF a = b THEN Bank!Signed(out) ELSE 0)
    BY <1>7, <1>13, <1>14, EnteredIs
  <1> HIDE DEF V, out
  <1>17. /\ W \in CashTables /\ RowsGood(W) /\ Elsewhere(V, W) /\ W.accounts = V.accounts /\ W.journals = V.journals
         /\ W.rows = V.rows \cup {in} /\ Bank!Signed(in) = q.amt
         /\ \A b \in Accounts : /\ NetOn(V.rows, b) \in Int
                                /\ NetOn(W.rows, b) = NetOn(V.rows, b) + (IF e = b THEN Bank!Signed(in) ELSE 0)
    <2>1. V \in CashTables /\ RowsGood(V) /\ V.accounts[e] # Bank!Unused BY <1>14, <1>16
    <2> QED BY <1>7, <1>14, <2>1, EnteredIs
  <1> HIDE DEF W, in
  <1>18. Under(req', Bank!Idle) /\ db' = W BY <1>1, <1>3, <1>9, IdleDoes, StepGoes
  <1>19. Elsewhere(T, W) /\ (\A d : Papers(W, d) = Papers(T, d)) /\ \A r : r.kind \in {"expense", "share"} => (r \in W.rows <=> r \in T.rows)
    BY <1>15, <1>16, <1>17 DEF Elsewhere, Papers
  <1>20. ExpensesGood(W) BY <1>13, <1>19, ExpensesStay DEF Elsewhere
  <1>21. SharesGood(W) BY <1>13, <1>19, SharesStay DEF Elsewhere
  <1>22. Balanced(W, Bank!Idle)
    <2> SUFFICES ASSUME NEW b \in Accounts, Alive(W, b)
                 PROVE  W.accounts[b].balance = W.accounts[b].opening + NetOn(W.rows, b) + 0 + W.cut[b]
      BY IdleWaits DEF Balanced
    <2>1. Alive(db, b) /\ W.accounts = A /\ W.cut = db.cut
      <3>1. W.accounts = A /\ W.cut = db.cut BY <1>13, <1>16, <1>17 DEF Elsewhere
      <3> QED BY <1>5, <1>12, <3>1 DEF Alive
    <2> DEFINE N == NetOn(db.rows, b)
               k == db.cut[b]
               o == db.accounts[b].opening
               m == IF b = a THEN - q.amt ELSE IF b = e THEN q.amt ELSE 0
    <2>2. N \in Int /\ k \in Int /\ o \in Int /\ m \in Int BY <1>4, <1>7, <1>13, <1>16, <2>1, BankRows DEF CashTables
    <2>3. db.accounts[b].balance = o + N + 0 + k BY <1>4, <1>8, <2>1 DEF Balanced
    <2>4. NetOn(W.rows, b) = N + m
      <3>1. NetOn(V.rows, b) = N + (IF a = b THEN - q.amt ELSE 0) BY <1>13, <1>16
      <3>2. NetOn(W.rows, b) = NetOn(V.rows, b) + (IF e = b THEN q.amt ELSE 0) BY <1>17
      <3> HIDE DEF N
      <3> QED BY <1>5, <1>7, <2>2, <3>1, <3>2 DEF a, e
    <2>5. A[b].balance = db.accounts[b].balance + m /\ A[b].opening = o
      <3>1. db.accounts[b].balance \in Int /\ \A i, j \in Int : i - j = i + (- j) BY <1>4, <2>1, BankRows
      <3> QED BY <1>5, <1>7, <1>10, <1>11, <1>12, <3>1 DEF a, e
    <2>6. W.accounts[b].balance = db.accounts[b].balance + m /\ W.accounts[b].opening = o /\ W.cut[b] = k BY <2>1, <2>5
    <2> HIDE DEF N, k, o, m
    <2> QED BY <2>2, <2>3, <2>4, <2>6
  <1> QED BY <1>17, <1>18, <1>20, <1>21, <1>22, IdleDoes DEF CashGood, CashInv

LEMMA DeleteCashTransactionStep ==
    ASSUME OneTeller, CashInv, NEW c \in Clerks, Bank!DeleteCashTransaction(c)
    PROVE  CashInv'
  <1>1. PICK q \in CashRequests : Under(req, q) /\ CashGood(db, q) BY DEF CashInv
  <1>2. req[c].op = "delete" /\ req[c].at = "row" BY DEF Bank!DeleteCashTransaction
  <1>3. q = req[c] BY <1>1, <1>2, ItIs DEF Bank!Idle
  <1> DEFINE row == q.row
             R   == db.rows \ {row}
             M   == db.removed \cup ({row.ref} \ {Bank!Hand})
             T   == [db EXCEPT !.rows = R, !.removed = M]
  <1>4. Bank!Go(c, Bank!Idle, T) BY <1>3 DEF Bank!DeleteCashTransaction
  <1>5. /\ db \in CashTables /\ RowsGood(db) /\ ExpensesGood(db) /\ SharesGood(db) /\ Balanced(db, q) /\ Doing(db, q)
    BY <1>1 DEF CashGood
  <1>6. row \in db.rows /\ row.kind # "share" /\ q.kind = row.kind /\ q.acct = row.acct /\ q.amt = row.amt
    BY <1>2, <1>3, <1>5 DEF Doing
  <1>7. row \in CashRow /\ IsFiniteSet(db.rows) /\ db.rows \in SUBSET CashRow BY <1>5, <1>6 DEF CashTables, RowsGood
  <1>8. Bank!Signed(q) = Bank!Signed(row) BY <1>6 DEF Bank!Signed
  <1>9. \A b : Waits(q, b) = IF b = row.acct THEN - Bank!Signed(row) ELSE 0 BY <1>2, <1>3, <1>6, <1>8 DEF Waits
  <1>10. R \in SUBSET CashRow /\ IsFiniteSet(R) /\ M \in SUBSET CashRefs /\ db.removed \subseteq M /\ R \subseteq db.rows
    <2>1. row.ref \in CashRefs BY <1>7 DEF CashRow
    <2> QED BY <1>5, <1>7, <2>1, FS_Subset DEF CashTables
  <1>11. \A b \in Accounts : /\ NetOn(db.rows, b) \in Int /\ Bank!Signed(row) \in Int
                             /\ NetOn(R, b) = NetOn(db.rows, b) - (IF row.acct = b THEN Bank!Signed(row) ELSE 0)
    <2>1. \A b : /\ NetOn(db.rows, b) \in Int /\ Bank!Signed(row) \in Int
                 /\ NetOn(R, b) = NetOn(db.rows, b) - (IF row.acct = b THEN Bank!Signed(row) ELSE 0)
      <3>1. row \in db.rows /\ IsFiniteSet(db.rows) /\ db.rows \in SUBSET CashRow BY <1>6, <1>7
      <3> HIDE DEF row
      <3> QED BY <3>1, NetTake
    <2> QED BY <2>1
  <1>12. row.kind = "expense" => row.ref # Bank!Hand BY <1>5, <1>6 DEF ExpensesGood, RowsNamed, Bank!Hand
  <1>13. \A r : r \in R <=> r \in db.rows /\ r # row OBVIOUS
  <1>14. M = db.removed \cup ({row.ref} \ {Bank!Hand}) OBVIOUS
  <1> HIDE DEF R, M
  <1>15. /\ T \in CashTables /\ T.accounts = db.accounts /\ T.journals = db.journals /\ T.rows = R /\ T.removed = M
         /\ T.made = db.made /\ T.expenses = db.expenses /\ T.shares = db.shares /\ T.partners = db.partners /\ T.cut = db.cut
    BY <1>5, <1>10 DEF CashTables
  <1> HIDE DEF T
  <1>16. Under(req', Bank!Idle) /\ db' = T BY <1>1, <1>3, <1>4, IdleDoes, StepGoes
  <1>17. RowsGood(T) BY <1>5, <1>10, <1>15 DEF RowsGood
  <1>18. \A d : Papers(T, d) = Papers(db, d) BY <1>15 DEF Papers
  <1>19. SharesGood(T) BY <1>5, <1>6, <1>13, <1>15, <1>18, SharesStay
  <1>20. ExpensesGood(T)
    <2>1. RowsNamed(T, "expense", T.expenses) /\ NumberedOnce(T.expenses) BY <1>5, <1>13, <1>15 DEF ExpensesGood, RowsNamed
    <2>2. ASSUME NEW e \in Expenses PROVE ExpenseOK(T, e)
      <3> DEFINE x == db.expenses[e]
                 u == << "expense", x.no >>
                 X == Bank!RowsOf(db, "expense", u)
                 Y == Bank!RowsOf(T, "expense", u)
                 J == Papers(db, << "expense", e >>)
      <3>1. T.expenses[e] = x /\ Papers(T, << "expense", e >>) = J BY <1>15, <1>18
      <3>2. Y \subseteq X /\ (row \notin X => Y = X) /\ \A r \in X : r \in Y \/ r = row BY <1>13, <1>15 DEF Bank!RowsOf
      <3>3. row \notin Y BY <1>13, <1>15 DEF Bank!RowsOf
      <3>4. row \in X => u \in M BY <1>12, <1>14 DEF Bank!RowsOf
      <3>5. /\ x.st # "active" => J = {} /\ (x # Bank!Unused => X = {})
            /\ x.st = "active" => /\ OneRow(X, x) \/ (X = {} /\ (x.amt # 0 => u \in db.removed))
                                  /\ x.amt # 0 => J = {[of |-> << "expense", e >>, amt |-> x.amt]}
        BY <1>5 DEF ExpensesGood, ExpenseOK
      <3> HIDE DEF X, Y, J, u, x
      <3>6. x.st = "active" => OneRow(Y, x) \/ (Y = {} /\ (x.amt # 0 => u \in M))
        BY <1>10, <3>2, <3>3, <3>4, <3>5 DEF OneRow
      <3>7. x.st # "active" /\ x # Bank!Unused => Y = {} BY <3>2, <3>5
      <3> QED BY <1>15, <3>1, <3>5, <3>6, <3>7 DEF ExpenseOK, u, Y
    <2> QED BY <2>1, <2>2 DEF ExpensesGood
  <1>21. Balanced(T, Bank!Idle)
    <2> SUFFICES ASSUME NEW b \in Accounts, Alive(T, b)
                 PROVE  T.accounts[b].balance = T.accounts[b].opening + NetOn(T.rows, b) + 0 + T.cut[b]
      BY IdleWaits DEF Balanced
    <2>1. Alive(db, b) BY <1>15 DEF Alive
    <2> DEFINE N == NetOn(db.rows, b)
               k == db.cut[b]
               o == db.accounts[b].opening
               g == Bank!Signed(row)
    <2>2. N \in Int /\ k \in Int /\ o \in Int /\ g \in Int BY <1>5, <1>11, <2>1, BankRows DEF CashTables
    <2>3. db.accounts[b].balance = o + N + (IF b = row.acct THEN - g ELSE 0) + k BY <1>5, <1>9, <2>1 DEF Balanced
    <2>4. NetOn(T.rows, b) = N - (IF row.acct = b THEN g ELSE 0) BY <1>11, <1>15
    <2>5. T.accounts[b].balance = db.accounts[b].balance /\ T.accounts[b].opening = o /\ T.cut[b] = k BY <1>15
    <2> HIDE DEF N, k, o, g
    <2> QED BY <2>2, <2>3, <2>4, <2>5
  <1> QED BY <1>15, <1>16, <1>17, <1>19, <1>20, <1>21, IdleDoes DEF CashGood, CashInv

-----------------------------------------------------------------------------
(* Expenses *)

\* T is t but for what an operation on one paper may do: rows of its kind and number,
\* journals of it, and balances together with the rows.
OnlyPaper(t, T, kind, no, d) ==
    /\ T \in CashTables /\ RowsGood(T) /\ Elsewhere(t, T) /\ Even(t, T)
    /\ \A r : ~(r.kind = kind /\ r.ref = << kind, no >>) => (r \in T.rows <=> r \in t.rows)
    /\ \A f : f # d => Papers(T, f) = Papers(t, f)

LEMMA OnlyItself ==
    ASSUME NEW t \in CashTables, RowsGood(t), NEW kind, NEW no, NEW d
    PROVE  OnlyPaper(t, t, kind, no, d)
  BY DEF OnlyPaper, Elsewhere, Even

LEMMA OnlyThen ==
    ASSUME NEW t, NEW u, NEW T, NEW kind, NEW no, NEW d, OnlyPaper(t, u, kind, no, d), OnlyPaper(u, T, kind, no, d)
    PROVE  OnlyPaper(t, T, kind, no, d)
  BY DEF OnlyPaper, Elsewhere, Even

LEMMA OnlyJournals ==
    ASSUME NEW t \in CashTables, RowsGood(t), NEW T \in CashTables, Elsewhere(t, T), NEW kind, NEW no, NEW d,
           T.accounts = t.accounts, T.rows = t.rows, T.made = t.made, \A f : f # d => Papers(T, f) = Papers(t, f)
    PROVE  OnlyPaper(t, T, kind, no, d)
  BY DEF RowsGood, Elsewhere, Even, Alive, OnlyPaper

LEMMA EvenBalances ==
    ASSUME NEW t \in CashTables, RowsGood(t), NEW T \in CashTables, RowsGood(T), Even(t, T), T.cut = t.cut, NEW q, Balanced(t, q),
           \A b : Waits(q, b) = 0
    PROVE  Balanced(T, q)
  <1> SUFFICES ASSUME NEW b \in Accounts, Alive(T, b)
               PROVE  T.accounts[b].balance = T.accounts[b].opening + NetOn(T.rows, b) + 0 + T.cut[b]
    BY DEF Balanced
  <1> DEFINE N == NetOn(t.rows, b)
             M == NetOn(T.rows, b)
             k == t.cut[b]
             o == t.accounts[b].opening
             x == t.accounts[b].balance
             y == T.accounts[b].balance
  <1>1. Alive(t, b) /\ T.accounts[b].opening = o /\ y - M = x - N BY DEF Even
  <1>2. N \in Int /\ M \in Int /\ k \in Int /\ o \in Int /\ x \in Int /\ y \in Int BY <1>1, NetInt, BankRows DEF CashTables
  <1>3. x = o + N + 0 + k BY <1>1 DEF Balanced
  <1>4. T.cut[b] = k OBVIOUS
  <1> HIDE DEF N, M, k, o, x, y
  <1>5. y = o + M + 0 + k BY <1>1, <1>2, <1>3
  <1> QED BY <1>1, <1>4, <1>5 DEF M, y

\* Expense e is x
Spent(t, e, x) == [t EXCEPT !.expenses = [t.expenses EXCEPT ![e] = x]]

LEMMA SpentIs ==
    ASSUME NEW t \in CashTables, RowsGood(t), NEW e \in Expenses, NEW x \in ExpenseRow
    PROVE  LET T == Spent(t, e, x) IN
           /\ T \in CashTables /\ RowsGood(T) /\ Even(t, T)
           /\ T.expenses = [t.expenses EXCEPT ![e] = x] /\ T.expenses[e] = x
           /\ T.accounts = t.accounts /\ T.rows = t.rows /\ T.made = t.made /\ T.journals = t.journals /\ T.cut = t.cut
           /\ T.shares = t.shares /\ T.partners = t.partners /\ T.removed = t.removed
  BY DEF CashTables, RowsGood, Even, Alive, Spent

\* A write of one expense, with a number that no other has, leaves the others as good.
LEMMA ExpenseWritten ==
    ASSUME OneTeller, CashInv, NEW e \in Expenses, NEW x \in ExpenseRow, x # Bank!Unused,
           \A f \in Expenses : Owned(db.expenses, f) => (db.expenses[f].no = x.no <=> f = e),
           NEW T, Bank!Write(T), OnlyPaper(Spent(db, e, x), T, "expense", x.no, << "expense", e >>), ExpenseOK(T, e)
    PROVE  CashInv'
  <1>1. PICK q \in CashRequests : Under(req, q) /\ CashGood(db, q) BY DEF CashInv
  <1>2. q = Bank!Idle /\ db' = T /\ Under(req', q) BY <1>1, WriteGoes
  <1> DEFINE u == Spent(db, e, x)
             d == << "expense", e >>
             n == << "expense", x.no >>
  <1>3. /\ db \in CashTables /\ RowsGood(db) /\ ExpensesGood(db) /\ SharesGood(db) /\ Balanced(db, q)
        /\ db.expenses \in [Expenses -> ExpenseRow]
    BY <1>1 DEF CashGood, CashTables
  <1>4. /\ u \in CashTables /\ RowsGood(u) /\ Even(db, u)
        /\ u.expenses = [db.expenses EXCEPT ![e] = x] /\ u.rows = db.rows /\ u.journals = db.journals /\ u.cut = db.cut
        /\ u.shares = db.shares /\ u.partners = db.partners /\ u.removed = db.removed
    BY <1>3, SpentIs
  <1> HIDE DEF u
  <1>5. /\ T \in CashTables /\ RowsGood(T) /\ Even(u, T)
        /\ T.expenses = [db.expenses EXCEPT ![e] = x] /\ T.shares = db.shares /\ T.partners = db.partners
        /\ T.removed = db.removed /\ T.cut = db.cut
        /\ \A r : ~(r.kind = "expense" /\ r.ref = n) => (r \in T.rows <=> r \in db.rows)
        /\ \A f : f # d => Papers(T, f) = Papers(db, f)
    BY <1>4 DEF OnlyPaper, Elsewhere, Papers, u
  <1>6. Even(db, T) BY <1>4, <1>5 DEF Even
  <1>7. Balanced(T, q) BY <1>2, <1>3, <1>5, <1>6, IdleWaits, EvenBalances
  <1>8. SharesGood(T) BY <1>3, <1>5, SharesStay
  <1>9. \A f \in Expenses : T.expenses[f] = IF f = e THEN x ELSE db.expenses[f] BY <1>3, <1>5
  <1>10. DOMAIN T.expenses = Expenses /\ DOMAIN db.expenses = Expenses BY <1>3, <1>5
  <1>11. NumberedOnce(T.expenses) BY <1>3, <1>9, <1>10 DEF ExpensesGood, NumberedOnce, Owned
  <1>12. RowsNamed(T, "expense", T.expenses) BY <1>10, <1>9, <1>3, <1>5 DEF RowsNamed, Owned, ExpensesGood
  <1>13. ASSUME NEW f \in Expenses, f # e PROVE ExpenseOK(T, f)
    <2> DEFINE y == db.expenses[f]
               m == << "expense", y.no >>
               R == Bank!RowsOf(db, "expense", m)
               J == Papers(db, << "expense", f >>)
    <2>1. ExpenseOK(db, f) BY <1>3 DEF ExpensesGood
    <2>2. T.expenses[f] = y /\ Papers(T, << "expense", f >>) = J BY <1>5, <1>9, <1>13
    <2>3. y # Bank!Unused => Bank!RowsOf(T, "expense", m) = R BY <1>13, <1>5 DEF Owned, Bank!RowsOf
    <2>4. /\ y.st # "active" => J = {} /\ (y # Bank!Unused => R = {})
          /\ y.st = "active" => /\ OneRow(R, y) \/ (R = {} /\ (y.amt # 0 => m \in db.removed))
                                /\ y.amt # 0 => J = {[of |-> << "expense", f >>, amt |-> y.amt]}
      BY <2>1 DEF ExpenseOK
    <2>5. y.st = "active" => y # Bank!Unused BY DEF Bank!Unused
    <2> HIDE DEF y, R, J
    <2> QED BY <1>5, <2>2, <2>3, <2>4, <2>5 DEF ExpenseOK
  <1>14. ExpensesGood(T) BY <1>11, <1>12, <1>13 DEF ExpensesGood
  <1> QED BY <1>2, <1>5, <1>7, <1>8, <1>14, IdleDoes DEF CashGood, CashInv

\* What pays an expense out, when no row of it is there
LEMMA PaidIs ==
    ASSUME OneTeller, NEW t \in CashTables, RowsGood(t), NEW e \in Expenses, t.expenses[e].st = "active",
           t.expenses[e].acct \in Accounts => Alive(t, t.expenses[e].acct),
           Bank!RowsOf(t, "expense", << "expense", t.expenses[e].no >>) = {},
           NEW w, LET v == Bank!CashOut(t, t.expenses[e].acct, t.expenses[e].amt, << "expense", t.expenses[e].no >>)
                      d == << "expense", e >>
                  IN  (w = v /\ Papers(t, d) = {}) \/ w = Bank!Unposted(v, d)
    PROVE  LET T == Bank!Posted(w, << "expense", e >>, t.expenses[e].amt) IN
           OnlyPaper(t, T, "expense", t.expenses[e].no, << "expense", e >>) /\ ExpenseOK(T, e)
  <1> DEFINE x == t.expenses[e]
             n == x.amt
             no == x.no
             ref == << "expense", no >>
             d == << "expense", e >>
             v == Bank!CashOut(t, x.acct, n, ref)
             T == Bank!Posted(w, d, n)
  <1>1. /\ x \in ExpenseRow /\ x # Bank!Unused /\ n \in Int /\ x.acct \in Places /\ no \in NumbersOf(Expenses) /\ x.st = "active"
    BY DEF CashTables, ExpenseRow, Bank!Unused
  <1>2. ref \in CashRefs /\ d \in PaperIds BY <1>1 DEF CashRefs, PaperIds
  <1> HIDE DEF d, n
  <1>3. /\ v \in CashTables /\ RowsGood(v) /\ Elsewhere(t, v) /\ v.journals = t.journals /\ Even(t, v)
        /\ n = 0 => v.rows = t.rows
        /\ n # 0 => \E r : v.rows = t.rows \cup {r} /\ r.kind = "expense" /\ r.acct = x.acct /\ r.amt = n /\ r.ref = ref
    BY <1>1, <1>2, CashOutIs
  <1> HIDE DEF v
  <1>4. OnlyPaper(t, v, "expense", no, d) /\ \A f : Papers(v, f) = Papers(t, f) BY <1>3 DEF OnlyPaper, Papers
  <1>5. /\ n = 0 => Bank!RowsOf(v, "expense", ref) = {}
        /\ n # 0 => OneRow(Bank!RowsOf(v, "expense", ref), x)
    BY <1>3 DEF Bank!RowsOf, OneRow, n
  <1>6. /\ w \in CashTables /\ RowsGood(w) /\ OnlyPaper(v, w, "expense", no, d) /\ w.rows = v.rows /\ w.expenses = v.expenses
        /\ Papers(w, d) = {}
    <2>1. CASE w = v /\ Papers(t, d) = {} BY <1>3, <1>4, <2>1, OnlyItself
    <2>2. CASE w = Bank!Unposted(v, d) BY <1>3, <2>2, UnpostedIs, OnlyJournals DEF Elsewhere, OnlyPaper
    <2>3. (w = v /\ Papers(t, d) = {}) \/ w = Bank!Unposted(v, d) BY DEF v, d, n
    <2> QED BY <2>1, <2>2, <2>3
  <1>7. /\ T \in CashTables /\ Elsewhere(w, T) /\ T.accounts = w.accounts /\ T.rows = w.rows /\ T.made = w.made
        /\ \A f : f # d => Papers(T, f) = Papers(w, f)
        /\ n # 0 => Papers(T, d) = Papers(w, d) \cup {[of |-> d, amt |-> n]}
    BY <1>1, <1>2, <1>6, PostedIs
  <1> HIDE DEF T
  <1>8. OnlyPaper(w, T, "expense", no, d) BY <1>6, <1>7, OnlyJournals
  <1>9. OnlyPaper(t, T, "expense", no, d) BY <1>4, <1>6, <1>8, OnlyThen
  <1>10. T.expenses[e] = x BY <1>3, <1>6, <1>7 DEF Elsewhere
  <1>11. Bank!RowsOf(T, "expense", ref) = Bank!RowsOf(v, "expense", ref) BY <1>6, <1>7 DEF Bank!RowsOf
  <1>12. n # 0 => Papers(T, d) = {[of |-> d, amt |-> n]} BY <1>6, <1>7
  <1> DEFINE R == Bank!RowsOf(T, "expense", ref)
             J == Papers(T, d)
  <1>13. (n = 0 => R = {}) /\ (n # 0 => OneRow(R, x) /\ J = {[of |-> d, amt |-> n]}) BY <1>5, <1>11, <1>12
  <1> HIDE DEF R, J
  <1>14. ExpenseOK(T, e) BY <1>1, <1>10, <1>13 DEF R, J, d, ExpenseOK, n
  <1> QED BY <1>9, <1>14 DEF T, d, n

LEMMA NumberIs ==
    ASSUME NEW X, NEW f \in [X -> {Bank!Unused} \cup ExpenseRow \cup ShareRow]
    PROVE  /\ Bank!NextNo(f) \in NumbersOf(X)
           /\ \A x \in X : Owned(f, x) => f[x].no \in Bank!Given(f)
  BY DEF Bank!LeftOf, Owned, ExpenseRow, ShareRow, Bank!Unused, Bank!NextNo, NumbersOf, Bank!Given

LEMMA PayableIs ==
    ASSUME NEW a \in Places, Bank!Payable(a), OneTeller
    PROVE  a \in Accounts => Alive(db, a)
  BY LiveIs DEF Bank!Payable, Bank!Active, OneTeller

LEMMA CreateExpenseStep ==
    ASSUME OneTeller, CashInv, NEW e \in Expenses, NEW n \in Amounts \cup {0}, NEW a \in Places, Bank!CreateExpense(e, n, a)
    PROVE  CashInv'
  <1> DEFINE no == Bank!NextNo(db.expenses)
             x == [st |-> "active", no |-> no, amt |-> n, acct |-> a]
             u == Spent(db, e, x)
             d == << "expense", e >>
             v == Bank!CashOut(u, a, n, << "expense", no >>)
             T == Bank!Posted(v, d, n)
  <1>1. /\ db.expenses[e] = Bank!Unused /\ no \notin Bank!Given(db.expenses) /\ Bank!Payable(a)
    BY DEF Bank!CreateExpense, Bank!Fresh, OneTeller
  <1>2. Bank!Write(T) BY DEF Spent, Bank!CreateExpense, Bank!Of, x
  <1>3. /\ db \in CashTables /\ RowsGood(db) /\ ExpensesGood(db) /\ db.expenses \in [Expenses -> ExpenseRow]
    BY DEF CashInv, CashGood, CashTables
  <1>4. no \in NumbersOf(Expenses) /\ \A f \in Expenses : Owned(db.expenses, f) => db.expenses[f].no # no
    BY <1>1, <1>3, NumberIs
  <1> HIDE DEF no
  <1>5. /\ n \in Int /\ x \in ExpenseRow /\ x # Bank!Unused /\ x.st = "active" /\ x.no = no /\ x.amt = n /\ x.acct = a
    <2>1. n \in Int BY DEF OneTeller
    <2>2. x \in ExpenseRow BY <1>4, <2>1 DEF ExpenseRow
    <2>3. Bank!Unused.st = "unused" BY DEF Bank!Unused
    <2> QED BY <2>1, <2>2, <2>3
  <1> HIDE DEF x
  <1>6. \A f \in Expenses : Owned(db.expenses, f) => (db.expenses[f].no = x.no <=> f = e) BY <1>1, <1>4, <1>5 DEF Owned
  <1>7. /\ u \in CashTables /\ RowsGood(u) /\ u.expenses[e] = x /\ u.accounts = db.accounts /\ u.rows = db.rows
        /\ u.journals = db.journals
    <2>1. db \in CashTables /\ RowsGood(db) /\ x \in ExpenseRow BY <1>3, <1>5
    <2> QED BY <2>1, SpentIs
  <1>8. Bank!RowsOf(u, "expense", << "expense", no >>) = {}
    BY <1>3, <1>4, <1>7 DEF ExpensesGood, RowsNamed, Bank!RowsOf
  <1>9. Papers(u, d) = {}
    <2>1. db.expenses[e].st # "active" /\ ExpenseOK(db, e) BY <1>1, <1>3 DEF Bank!Unused, ExpensesGood
    <2> QED BY <1>7, <2>1 DEF ExpenseOK, Papers
  <1>10. a \in Accounts => Alive(u, a) BY <1>1, <1>7, PayableIs DEF Alive
  <1> HIDE DEF u
  <1>11. OnlyPaper(u, T, "expense", no, d) /\ ExpenseOK(T, e) BY <1>5, <1>7, <1>8, <1>9, <1>10, PaidIs
  <1> HIDE DEF T
  <1> QED BY <1>2, <1>5, <1>6, <1>11, ExpenseWritten DEF u

\* An expense's own row, and what is left when it is given back
LEMMA GivenBackIs ==
    ASSUME NEW t \in CashTables, RowsGood(t), ExpensesGood(t), NEW e \in Expenses, Owned(t.expenses, e),
           NEW x \in ExpenseRow, x # Bank!Unused, x.no = t.expenses[e].no
    PROVE  LET u == Spent(t, e, x)
               v == Bank!CashBack(u, << "expense", x.no >>)
           IN  /\ u \in CashTables /\ RowsGood(u) /\ v \in CashTables /\ RowsGood(v) /\ OnlyPaper(u, v, "expense", x.no, << "expense", e >>)
               /\ Bank!RowsOf(v, "expense", << "expense", x.no >>) = {}
               /\ v.expenses[e] = x /\ \A a \in Accounts : Alive(v, a) <=> Alive(t, a)
               /\ \A f \in Expenses : Owned(t.expenses, f) => (t.expenses[f].no = x.no <=> f = e)
  <1> DEFINE u == Spent(t, e, x)
             ref == << "expense", x.no >>
             v == Bank!CashBack(u, ref)
             R == Bank!RowsOf(u, "expense", ref)
  <1>1. /\ u \in CashTables /\ RowsGood(u) /\ u.expenses[e] = x /\ u.accounts = t.accounts /\ u.rows = t.rows
        /\ u.journals = t.journals
    BY SpentIs
  <1> HIDE DEF u
  <1>2. R = {} \/ \E r \in R : R = {r} BY <1>1 DEF Bank!RowsOf, ExpensesGood, Owned, ExpenseOK, OneRow
  <1>3. /\ v \in CashTables /\ RowsGood(v) /\ Elsewhere(u, v) /\ v.journals = u.journals /\ Even(u, v)
        /\ v.rows = u.rows \ R
    BY <1>1, <1>2, CashBackIs
  <1>4. \A r \in R : r.kind = "expense" /\ r.ref = ref BY DEF Bank!RowsOf
  <1>5. \A r \in u.rows : r.kind = "expense" /\ r.ref = ref => r \in R BY DEF Bank!RowsOf
  <1> HIDE DEF R, v, ref
  <1>6. Bank!RowsOf(v, "expense", ref) = {} BY <1>3, <1>5 DEF Bank!RowsOf
  <1>7. OnlyPaper(u, v, "expense", x.no, << "expense", e >>) BY <1>3, <1>4 DEF OnlyPaper, Papers, ref
  <1>8. v.expenses[e] = x /\ \A a \in Accounts : Alive(v, a) <=> Alive(t, a) BY <1>1, <1>3 DEF Elsewhere, Even, Alive
  <1>9. \A f \in Expenses : Owned(t.expenses, f) => (t.expenses[f].no = x.no <=> f = e)
    <2>1. DOMAIN t.expenses = Expenses BY DEF CashTables
    <2> QED BY <2>1 DEF ExpensesGood, NumberedOnce
  <1> QED BY <1>1, <1>3, <1>6, <1>7, <1>8, <1>9 DEF u, v, ref

LEMMA UpdateExpenseStep ==
    ASSUME OneTeller, CashInv, NEW e \in Expenses, NEW n \in Amounts \cup {0}, NEW a \in Places, NEW redated \in BOOLEAN,
           Bank!UpdateExpense(e, n, a, redated)
    PROVE  CashInv'
  <1> DEFINE y == db.expenses[e]
             x == [[y EXCEPT !.amt = n] EXCEPT !.acct = a]
             u == Spent(db, e, x)
             d == << "expense", e >>
             ref == << "expense", y.no >>
             v == Bank!CashBack(u, ref)
             o == Bank!CashOut(v, a, n, ref)
             w == Bank!Unposted(o, d)
             T == Bank!Posted(w, d, n)
  <1>1. /\ y.st = "active" /\ Bank!Payable(a) BY DEF Bank!UpdateExpense
  <1>2. /\ db \in CashTables /\ RowsGood(db) /\ ExpensesGood(db) /\ db.expenses \in [Expenses -> ExpenseRow] /\ y \in ExpenseRow
    BY DEF CashInv, CashGood, CashTables
  <1>3. /\ n \in Int /\ x \in ExpenseRow /\ x # Bank!Unused /\ x.st = "active" /\ x.no = y.no /\ x.amt = n /\ x.acct = a
        /\ y # Bank!Unused /\ (y.amt = n /\ y.acct = a => x = y)
    <2>1. n \in Int BY DEF OneTeller
    <2>2. Bank!Unused.st = "unused" BY DEF Bank!Unused
    <2>3. y \in [st : {"active", "cancelled", "deleted"}, no : NumbersOf(Expenses), amt : Int, acct : Places] /\ y # Bank!Unused
      BY <1>1, <1>2, <2>2 DEF ExpenseRow
    <2> HIDE DEF y
    <2>4. x \in [st : {"active", "cancelled", "deleted"}, no : NumbersOf(Expenses), amt : Int, acct : Places] BY <2>1, <2>3
    <2>5. x.st = "active" /\ x.no = y.no /\ x.amt = n /\ x.acct = a /\ (y.amt = n /\ y.acct = a => x = y) BY <1>1, <2>3
    <2> HIDE DEF x
    <2> QED BY <2>1, <2>2, <2>3, <2>4, <2>5 DEF ExpenseRow
  <1>4. [db EXCEPT !.expenses[e].amt = n, !.expenses[e].acct = a] = u
    BY <1>1, <1>2, <1>3 DEF ExpenseRow, Bank!Unused, CashTables, Spent
  <1> HIDE DEF x
  <1>5. /\ u \in CashTables /\ RowsGood(u) /\ v \in CashTables /\ RowsGood(v) /\ OnlyPaper(u, v, "expense", x.no, d)
        /\ Bank!RowsOf(v, "expense", << "expense", x.no >>) = {}
        /\ v.expenses[e] = x /\ \A b \in Accounts : Alive(v, b) <=> Alive(db, b)
        /\ \A f \in Expenses : Owned(db.expenses, f) => (db.expenses[f].no = x.no <=> f = e)
    BY <1>2, <1>3, GivenBackIs DEF Owned
  <1>6. Bank!Write(T) \/ (Bank!Write(u) /\ y.amt = n /\ y.acct = a)
    <2> HIDE DEF u
    <2> QED BY <1>4 DEF Bank!UpdateExpense, Bank!Ref, Bank!Of
  <1>11. y.amt = n /\ y.acct = a => ExpenseOK(u, e)
    <2>1. db \in CashTables /\ x \in ExpenseRow /\ y = db.expenses[e] BY <1>2, <1>3
    <2> HIDE DEF x, y
    <2>2. u.expenses[e] = x /\ u.rows = db.rows /\ u.journals = db.journals /\ u.removed = db.removed
      BY <2>1 DEF CashTables, Spent
    <2>3. ExpenseOK(db, e) BY <1>2 DEF ExpensesGood
    <2> HIDE DEF u
    <2> QED BY <1>3, <2>1, <2>2, <2>3 DEF ExpenseOK, Papers, Bank!RowsOf
  <1> HIDE DEF u, v
  <1>7. a \in Accounts => Alive(v, a) BY <1>1, <1>5, PayableIs
  <1>8. OnlyPaper(v, T, "expense", x.no, d) /\ ExpenseOK(T, e) BY <1>3, <1>5, <1>7, PaidIs
  <1> HIDE DEF T
  <1>9. OnlyPaper(u, T, "expense", x.no, d) BY <1>5, <1>8, OnlyThen
  <1>10. CASE Bank!Write(T) BY <1>3, <1>5, <1>8, <1>9, <1>10, ExpenseWritten DEF u
  <1>12. CASE Bank!Write(u) /\ y.amt = n /\ y.acct = a
    <2>1. OnlyPaper(u, u, "expense", x.no, d) BY <1>5, OnlyItself
    <2> QED BY <1>3, <1>5, <1>11, <1>12, <2>1, ExpenseWritten DEF u
  <1> QED BY <1>6, <1>10, <1>12

LEMMA EndedExpenseStep ==
    ASSUME OneTeller, CashInv, NEW e \in Expenses, Owned(db.expenses, e), NEW st \in {"cancelled", "deleted"},
           Bank!Write(Bank!EndedExpense(e, st))
    PROVE  CashInv'
  <1> DEFINE y == db.expenses[e]
             x == [y EXCEPT !.st = st]
             u == Spent(db, e, x)
             d == << "expense", e >>
             v == Bank!CashBack(u, << "expense", y.no >>)
             T == Bank!Unposted(v, d)
  <1>1. /\ db \in CashTables /\ RowsGood(db) /\ ExpensesGood(db) /\ y \in ExpenseRow BY DEF CashInv, CashGood, CashTables
  <1>2. /\ x \in ExpenseRow /\ x # Bank!Unused /\ x.st # "active" /\ x.no = y.no
    BY <1>1 DEF ExpenseRow, Owned, Bank!Unused
  <1>3. Bank!Write(T) BY DEF Bank!EndedExpense, Spent, Bank!Ref, Bank!Of
  <1> HIDE DEF x
  <1>4. /\ u \in CashTables /\ v \in CashTables /\ RowsGood(v) /\ OnlyPaper(u, v, "expense", x.no, d)
        /\ Bank!RowsOf(v, "expense", << "expense", x.no >>) = {} /\ v.expenses[e] = x
        /\ \A f \in Expenses : Owned(db.expenses, f) => (db.expenses[f].no = x.no <=> f = e)
    BY <1>1, <1>2, GivenBackIs
  <1> HIDE DEF u, v
  <1>5. /\ T \in CashTables /\ Elsewhere(v, T) /\ T.accounts = v.accounts /\ T.rows = v.rows /\ T.made = v.made
        /\ Papers(T, d) = {} /\ \A f : f # d => Papers(T, f) = Papers(v, f)
    BY <1>4, UnpostedIs
  <1> HIDE DEF T
  <1>6. OnlyPaper(v, T, "expense", x.no, d) BY <1>4, <1>5, OnlyJournals
  <1>7. OnlyPaper(u, T, "expense", x.no, d) BY <1>4, <1>6, OnlyThen
  <1>8. ExpenseOK(T, e) BY <1>4, <1>5, <1>2 DEF Elsewhere, Bank!RowsOf, ExpenseOK
  <1> QED BY <1>2, <1>3, <1>4, <1>7, <1>8, ExpenseWritten DEF u

LEMMA CancelExpenseStep ==
    ASSUME OneTeller, CashInv, NEW e \in Expenses, Bank!CancelExpense(e)
    PROVE  CashInv'
  BY EndedExpenseStep DEF Bank!CancelExpense, Owned, Bank!Unused

LEMMA DeleteExpenseStep ==
    ASSUME OneTeller, CashInv, NEW e \in Expenses, Bank!DeleteExpense(e)
    PROVE  CashInv'
  BY EndedExpenseStep DEF Bank!DeleteExpense, Bank!LeftOf, Owned, Bank!Unused

-----------------------------------------------------------------------------
(* Partners and their shares of the profit *)

LEMMA PartnerWritten ==
    ASSUME OneTeller, CashInv, NEW p \in Partners, NEW st \in {"live", "deleted"},
           Bank!Write([db EXCEPT !.partners = [db.partners EXCEPT ![p] = st]]),
           \A s \in Shares : db.shares[s].st = "live" => db.shares[s].partner # p
    PROVE  CashInv'
  <1>1. PICK q \in CashRequests : Under(req, q) /\ CashGood(db, q) BY DEF CashInv
  <1> DEFINE P == [db.partners EXCEPT ![p] = st]
             T == [db EXCEPT !.partners = P]
  <1>2. q = Bank!Idle /\ db' = T /\ Under(req', q) BY <1>1, WriteGoes
  <1>3. /\ db \in CashTables /\ RowsGood(db) /\ ExpensesGood(db) /\ SharesGood(db) /\ Balanced(db, q) BY <1>1 DEF CashGood
  <1>4. P \in [Partners -> {"unused", "live", "deleted"}] /\ \A o : o # p => P[o] = db.partners[o]
    BY <1>3 DEF CashTables
  <1> HIDE DEF P
  <1>5. /\ T \in CashTables /\ T.accounts = db.accounts /\ T.rows = db.rows /\ T.made = db.made /\ T.journals = db.journals
        /\ T.expenses = db.expenses /\ T.shares = db.shares /\ T.partners = P /\ T.removed = db.removed /\ T.cut = db.cut
    BY <1>3, <1>4 DEF CashTables
  <1> HIDE DEF T
  <1>6. RowsGood(T) /\ \A d : Papers(T, d) = Papers(db, d) BY <1>3, <1>5 DEF RowsGood, Papers
  <1>7. ExpensesGood(T) BY <1>3, <1>5, <1>6, ExpensesStay
  <1>8. SharesGood(T) BY <1>3, <1>4, <1>5, <1>6, SharesStay
  <1>9. Balanced(T, q) BY <1>3, <1>5, BalancesStay DEF Alive
  <1> QED BY <1>2, <1>5, <1>6, <1>7, <1>8, <1>9, IdleDoes DEF CashGood, CashInv

LEMMA PartnerSteps ==
    ASSUME OneTeller, CashInv, NEW p \in Partners, Bank!CreatePartner(p) \/ Bank!DeletePartner(p)
    PROVE  CashInv'
  <1>1. CASE Bank!CreatePartner(p)
    BY <1>1, PartnerWritten DEF CashInv, CashGood, SharesGood, ShareOK, Bank!CreatePartner
  <1>2. CASE Bank!DeletePartner(p)
    BY <1>2, PartnerWritten DEF CashInv, CashGood, CashTables, Bank!DeletePartner, Bank!SharesOf, Bank!LeftOf
  <1> QED BY <1>1, <1>2

LEMMA LoadShareStep ==
    ASSUME OneTeller, CashInv, NEW c \in Clerks, NEW s \in Shares, NEW p \in Partners, NEW n \in Amounts, NEW a \in Places,
           Bank!LoadShare(c, s, p, n, a)
    PROVE  CashInv'
  <1> DEFINE seen == Bank!Seen(a)
             no   == Bank!NextNo(db.shares)
             r    == [op |-> "share", s |-> s, p |-> p, amt |-> n, acct |-> a, seen |-> seen, no |-> no]
  <1>1. /\ Bank!Begin(c, r) /\ db.shares[s] = Bank!Unused /\ no \notin Bank!Given(db.shares) /\ db.partners[p] = "live"
        /\ Bank!Payable(a)
    BY DEF Bank!LoadShare, Bank!Fresh, OneTeller
  <1>2. db \in CashTables /\ db.shares \in [Shares -> {Bank!Unused} \cup ExpenseRow \cup ShareRow]
    BY DEF CashInv, CashGood, CashTables
  <1>3. a \in Accounts => Alive(db, a) BY <1>1, PayableIs
  <1>4. n \in Int /\ seen \in Int /\ (Alive(db, a) => seen = db.accounts[a].balance)
    BY <1>2, LiveIs, BankRows DEF OneTeller, Bank!Seen
  <1>5. no \in NumbersOf(Shares) /\ \A x \in Shares : Owned(db.shares, x) => db.shares[x].no # no BY <1>1, <1>2, NumberIs
  <1> HIDE DEF seen, no
  <1>6. r \in CashRequests BY <1>4, <1>5 DEF CashRequests, Taking
  <1>7. r.op = "share" /\ r.s = s /\ r.p = p /\ r.acct = a /\ r.seen = seen /\ r.no = no OBVIOUS
  <1> HIDE DEF r
  <1>8. Doing(db, r) BY <1>1, <1>3, <1>4, <1>5, <1>7 DEF Doing
  <1>9. \A b : Alive(db, b) => Waits(r, b) = 0 BY <1>7 DEF Waits
  <1> QED BY <1>1, <1>6, <1>8, <1>9, LoadedIs

\* Share s is x
Shared(t, s, x) == [t EXCEPT !.shares = [t.shares EXCEPT ![s] = x]]

LEMMA SharedIs ==
    ASSUME NEW t \in CashTables, RowsGood(t), NEW s \in Shares, NEW x \in ShareRow
    PROVE  LET T == Shared(t, s, x) IN
           /\ T \in CashTables /\ RowsGood(T) /\ Even(t, T)
           /\ T.shares = [t.shares EXCEPT ![s] = x] /\ T.shares[s] = x
           /\ T.accounts = t.accounts /\ T.rows = t.rows /\ T.made = t.made /\ T.journals = t.journals /\ T.cut = t.cut
           /\ T.expenses = t.expenses /\ T.partners = t.partners /\ T.removed = t.removed
  BY DEF CashTables, RowsGood, Even, Alive, Shared

\* A write of one share, with a number that no other has, leaves the others as good.
LEMMA ShareWritten ==
    ASSUME OneTeller, NEW q \in CashRequests, CashGood(db, q), \A b : Waits(q, b) = 0,
           NEW s \in Shares, NEW x \in ShareRow, x # Bank!Unused,
           \A f \in Shares : Owned(db.shares, f) => (db.shares[f].no = x.no <=> f = s),
           NEW T, OnlyPaper(Shared(db, s, x), T, "share", x.no, << "share", s >>), ShareOK(T, s)
    PROVE  CashGood(T, Bank!Idle)
  <1> DEFINE u == Shared(db, s, x)
             d == << "share", s >>
             n == << "share", x.no >>
  <1>3. /\ db \in CashTables /\ RowsGood(db) /\ ExpensesGood(db) /\ SharesGood(db) /\ Balanced(db, q)
        /\ db.shares \in [Shares -> ShareRow]
    BY DEF CashGood, CashTables
  <1>4. /\ u \in CashTables /\ RowsGood(u) /\ Even(db, u)
        /\ u.shares = [db.shares EXCEPT ![s] = x] /\ u.rows = db.rows /\ u.journals = db.journals /\ u.cut = db.cut
        /\ u.expenses = db.expenses /\ u.partners = db.partners /\ u.removed = db.removed
    BY <1>3, SharedIs
  <1> HIDE DEF u
  <1>5. /\ T \in CashTables /\ RowsGood(T) /\ Even(u, T)
        /\ T.shares = [db.shares EXCEPT ![s] = x] /\ T.expenses = db.expenses /\ T.partners = db.partners
        /\ T.removed = db.removed /\ T.cut = db.cut
        /\ \A r : ~(r.kind = "share" /\ r.ref = n) => (r \in T.rows <=> r \in db.rows)
        /\ \A f : f # d => Papers(T, f) = Papers(db, f)
    BY <1>4 DEF OnlyPaper, Elsewhere, Papers, u
  <1>6. Even(db, T) BY <1>4, <1>5 DEF Even
  <1>7. Balanced(T, Bank!Idle) BY <1>3, IdleWaits, <1>5, <1>6, EvenBalances DEF Balanced
  <1>8. ExpensesGood(T) BY <1>3, <1>5, ExpensesStay
  <1>9. \A f \in Shares : T.shares[f] = IF f = s THEN x ELSE db.shares[f] BY <1>3, <1>5
  <1>10. DOMAIN T.shares = Shares /\ DOMAIN db.shares = Shares BY <1>3, <1>5
  <1>11. NumberedOnce(T.shares) BY <1>3, <1>9, <1>10 DEF SharesGood, NumberedOnce, Owned
  <1>12. RowsNamed(T, "share", T.shares) BY <1>10, <1>9, <1>3, <1>5 DEF RowsNamed, Owned, SharesGood
  <1>13. ASSUME NEW f \in Shares, f # s PROVE ShareOK(T, f)
    <2> DEFINE y == db.shares[f]
               m == << "share", y.no >>
               R == Bank!RowsOf(db, "share", m)
               J == Papers(db, << "share", f >>)
    <2>1. ShareOK(db, f) BY <1>3 DEF SharesGood
    <2>2. T.shares[f] = y /\ Papers(T, << "share", f >>) = J BY <1>5, <1>9, <1>13
    <2>3. y # Bank!Unused => Bank!RowsOf(T, "share", m) = R BY <1>13, <1>5 DEF Owned, Bank!RowsOf
    <2>4. /\ y.st # "live" => J = {} /\ (y # Bank!Unused => R = {})
          /\ y.st = "live" => /\ OneRow(R, y) /\ db.partners[y.partner] = "live"
                              /\ y.amt # 0 => J = {[of |-> << "share", f >>, amt |-> y.amt]}
      BY <2>1 DEF ShareOK
    <2>5. y.st = "live" => y # Bank!Unused BY DEF Bank!Unused
    <2> HIDE DEF y, R, J
    <2> QED BY <1>5, <2>2, <2>3, <2>4, <2>5 DEF ShareOK
  <1>14. SharesGood(T) BY <1>11, <1>12, <1>13 DEF SharesGood
  <1> QED BY <1>5, <1>7, <1>8, <1>14, IdleDoes DEF CashGood

LEMMA CreateProfitDistributionStep ==
    ASSUME OneTeller, CashInv, NEW c \in Clerks, Bank!CreateProfitDistribution(c)
    PROVE  CashInv'
  <1>1. PICK q \in CashRequests : Under(req, q) /\ CashGood(db, q) BY DEF CashInv
  <1>2. req[c].op = "share" BY DEF Bank!CreateProfitDistribution
  <1>3. q = req[c] BY <1>1, <1>2, ItIs DEF Bank!Idle
  <1> DEFINE s == q.s
             n == q.amt
             a == q.acct
             no == q.no
             x == [st |-> "live", no |-> no, amt |-> n, acct |-> a, partner |-> q.p]
             A == [b \in Accounts |-> IF b = a THEN [db.accounts[b] EXCEPT !.balance = q.seen - n] ELSE db.accounts[b]]
             u == Shared(db, s, x)
             B == [u EXCEPT !.accounts = A]
             ref == << "share", no >>
             d == << "share", s >>
             row == [id |-> B.made + 1, kind |-> "share", acct |-> a, amt |-> n, ref |-> ref]
             V == Bank!Entered(B, "share", a, n, ref)
             T == Bank!Posted(V, d, n)
  <1>4. /\ db \in CashTables /\ RowsGood(db) /\ SharesGood(db) /\ Doing(db, q) BY <1>1 DEF CashGood
  <1>5. Bank!Go(c, Bank!Idle, T) BY <1>4, <1>3 DEF Shared, CashTables, Bank!CreateProfitDistribution
  <1>6. q \in Taking BY <1>2, <1>3 DEF CashRequests, First, ByHandIn, Posts, Moves, Erasing, Bank!Idle
  <1>7. s \in Shares /\ n \in Int /\ a \in Places /\ no \in NumbersOf(Shares) /\ q.p \in Partners /\ q.seen \in Int
    BY <1>6 DEF Taking
  <1>8. /\ db.shares[s] = Bank!Unused /\ db.partners[q.p] = "live"
        /\ \A f \in Shares : Owned(db.shares, f) => db.shares[f].no # no
        /\ a \in Accounts => Alive(db, a) /\ q.seen = db.accounts[a].balance
    BY <1>2, <1>3, <1>4 DEF Doing
  <1>9. /\ x \in ShareRow /\ x # Bank!Unused /\ x.no = no /\ x.st = "live" /\ x.amt = n /\ x.acct = a /\ x.partner = q.p
    BY <1>7 DEF Bank!Unused, ShareRow
  <1>10. \A f \in Shares : Owned(db.shares, f) => (db.shares[f].no = x.no <=> f = s) BY <1>8, <1>9 DEF Owned
  <1>11. /\ "share" \in CashKinds /\ ref \in CashRefs /\ d \in PaperIds BY <1>7 DEF CashKinds, CashRefs, PaperIds
  <1>12. \A b : Waits(q, b) = 0 BY <1>2, <1>3 DEF Waits
  <1> HIDE DEF s, n, a, no, x
  <1>13. /\ u \in CashTables /\ RowsGood(u) /\ u.shares[s] = x /\ u.accounts = db.accounts /\ u.rows = db.rows
         /\ u.journals = db.journals /\ u.partners = db.partners
    <2>1. db \in CashTables /\ RowsGood(db) BY <1>4
    <2>2. s \in Shares /\ x \in ShareRow BY <1>7, <1>9
    <2>3. u \in CashTables /\ RowsGood(u) BY <2>1, <2>2, SharedIs
    <2>4. u.shares[s] = x /\ u.accounts = db.accounts /\ u.rows = db.rows BY <2>1, <2>2 DEF CashTables, Shared
    <2>5. u.journals = db.journals /\ u.partners = db.partners BY <2>1, <2>2 DEF CashTables, Shared
    <2> QED BY <2>3, <2>4, <2>5
  <1> HIDE DEF u
  <1>14. \A b \in Accounts :
            /\ A[b] \in BankRow /\ (A[b] = Bank!Unused <=> db.accounts[b] = Bank!Unused)
            /\ A[b].st = "live" <=> db.accounts[b].st = "live"
            /\ db.accounts[b].st = "live" => /\ A[b].opening = db.accounts[b].opening /\ db.accounts[b].balance \in Int
                                             /\ A[b].balance = db.accounts[b].balance - (IF b = a THEN n ELSE 0)
    BY <1>8, <1>4, <1>7, BankRows, AccountTyped DEF BankRow, Bank!Unused, Alive
  <1>15. A \in [Accounts -> BankRow] BY <1>14
  <1> HIDE DEF A
  <1>16. /\ B \in CashTables /\ Elsewhere(u, B) /\ B.accounts = A /\ B.rows = u.rows /\ B.made = u.made /\ B.journals = u.journals
    BY <1>13, <1>15 DEF CashTables, Elsewhere
  <1> HIDE DEF B
  <1>17. RowsGood(B) BY <1>13, <1>14, <1>16 DEF RowsGood, Elsewhere
  <1>18. a \in Accounts => B.accounts[a] # Bank!Unused BY <1>4, <1>8, <1>14, <1>16, BankRows
  <1>19. row.kind = "share" /\ row.acct = a /\ row.amt = n /\ row.ref = ref OBVIOUS
  <1>20. /\ V \in CashTables /\ RowsGood(V) /\ Elsewhere(B, V) /\ V.accounts = B.accounts /\ V.journals = B.journals
         /\ V.rows = B.rows \cup {row} /\ Bank!Signed(row) = - n
         /\ \A b \in Accounts : /\ NetOn(B.rows, b) \in Int
                                /\ NetOn(V.rows, b) = NetOn(B.rows, b) + (IF a = b THEN Bank!Signed(row) ELSE 0)
    BY <1>7, <1>11, <1>16, <1>17, <1>18, EnteredIs
  <1> HIDE DEF V, row
  <1>21. Even(u, V)
    <2> SUFFICES ASSUME NEW b \in Accounts
                 PROVE  /\ V.accounts[b] = Bank!Unused <=> u.accounts[b] = Bank!Unused
                        /\ Alive(V, b) <=> Alive(u, b)
                        /\ Alive(u, b) =>
                              /\ V.accounts[b].opening = u.accounts[b].opening
                              /\ V.accounts[b].balance - NetOn(V.rows, b) = u.accounts[b].balance - NetOn(u.rows, b)
      BY DEF Even
    <2>1. V.accounts[b] = A[b] /\ u.accounts[b] = db.accounts[b] BY <1>13, <1>16, <1>20
    <2> DEFINE N == NetOn(u.rows, b)
               m == IF b = a THEN n ELSE 0
    <2>2. N \in Int /\ m \in Int /\ NetOn(V.rows, b) = N - m
      <3>1. N \in Int /\ m \in Int BY <1>7, <1>16, <1>20
      <3>2. NetOn(V.rows, b) = N + (IF a = b THEN - n ELSE 0) BY <1>16, <1>20
      <3> HIDE DEF N
      <3> QED BY <1>7, <3>1, <3>2
    <2> HIDE DEF N, m
    <2>3. db.accounts[b].st = "live" => db.accounts[b].balance \in Int /\ A[b].balance = db.accounts[b].balance - m
      BY <1>14 DEF m
    <2>4. \A i, j, k \in Int : (i - k) - (j - k) = i - j OBVIOUS
    <2> QED BY <1>14, <2>1, <2>2, <2>3, <2>4 DEF Alive, N
  <1>22. /\ T \in CashTables /\ Elsewhere(V, T) /\ T.accounts = V.accounts /\ T.rows = V.rows /\ T.made = V.made
         /\ \A f : f # d => Papers(T, f) = Papers(V, f)
         /\ n # 0 => Papers(T, d) = Papers(V, d) \cup {[of |-> d, amt |-> n]}
    <2>1. V \in CashTables /\ d \in PaperIds /\ n \in Int BY <1>7, <1>11, <1>20
    <2> HIDE DEF d
    <2> QED BY <2>1, PostedIs
  <1> HIDE DEF T
  <1>23. OnlyPaper(u, T, "share", no, d)
    <2>1. OnlyPaper(u, V, "share", no, d) BY <1>16, <1>19, <1>20, <1>21 DEF OnlyPaper, Elsewhere, Papers, ref
    <2>2. OnlyPaper(V, T, "share", no, d) BY <1>20, <1>22, OnlyJournals
    <2> QED BY <2>1, <2>2, OnlyThen
  <1>24. ShareOK(T, s)
    <2> DEFINE R == Bank!RowsOf(T, "share", ref)
               J == Papers(T, d)
    <2>1. \A r \in db.rows : ~(r.kind = "share" /\ r.ref = ref)
      BY <1>4, <1>8 DEF CashTables, SharesGood, RowsNamed
    <2>2. R = {row} BY <1>13, <1>16, <1>19, <1>20, <1>22, <2>1 DEF Bank!RowsOf
    <2>3. Papers(V, d) = {}
      <3>1. db.shares[s].st # "live" /\ ShareOK(db, s) BY <1>4, <1>7, <1>8 DEF Bank!Unused, SharesGood
      <3> QED BY <1>13, <1>16, <1>20, <3>1 DEF ShareOK, Papers
    <2>4. T.shares[s] = x /\ T.partners[x.partner] = "live" BY <1>8, <1>9, <1>13, <1>16, <1>20, <1>22 DEF Elsewhere
    <2>5. n # 0 => J = {[of |-> d, amt |-> n]} BY <1>22, <2>3
    <2>6. OneRow(R, x) BY <1>9, <1>19, <2>2 DEF OneRow
    <2> HIDE DEF R, J
    <2> QED BY <1>9, <2>4, <2>5, <2>6 DEF ShareOK, R, J
  <1>25. CashGood(T, Bank!Idle)
    <2> HIDE DEF d
    <2> QED BY <1>1, <1>7, <1>9, <1>10, <1>12, <1>23, <1>24, ShareWritten DEF u, d
  <1>26. Under(req', Bank!Idle) /\ db' = T BY <1>1, <1>3, <1>5, IdleDoes, StepGoes
  <1> QED BY <1>25, <1>26, IdleDoes DEF CashInv

LEMMA DeleteProfitDistributionStep ==
    ASSUME OneTeller, CashInv, NEW s \in Shares, Bank!DeleteProfitDistribution(s)
    PROVE  CashInv'
  <1>1. PICK q \in CashRequests : Under(req, q) /\ CashGood(db, q) BY DEF CashInv
  <1> DEFINE y == db.shares[s]
             x == [y EXCEPT !.st = "deleted"]
             no == y.no
             a == y.acct
             n == y.amt
             ref == << "share", no >>
             d == << "share", s >>
             u == Shared(db, s, x)
             R == Bank!RowsOf(db, "share", ref)
             Q == db.rows \ R
             B == [u EXCEPT !.rows = Q]
             V == Bank!Moved(B, a, n)
             T == Bank!Unposted(V, d)
  <1>2. y.st = "live" BY DEF Bank!DeleteProfitDistribution
  <1>3. /\ db \in CashTables /\ RowsGood(db) /\ SharesGood(db) /\ y \in ShareRow BY <1>1 DEF CashGood, CashTables
  <1>4. Bank!Write(T) BY <1>3 DEF Shared, CashTables, Bank!DeleteProfitDistribution, Bank!GivenBack, R
  <1>5. q = Bank!Idle /\ db' = T /\ Under(req', q) BY <1>1, <1>4, WriteGoes
  <1>6. /\ x \in ShareRow /\ x # Bank!Unused /\ x.st = "deleted" /\ x.no = no /\ a \in Places /\ n \in Int /\ y # Bank!Unused
    BY <1>2, <1>3 DEF Bank!Unused, ShareRow
  <1>7. \A f \in Shares : Owned(db.shares, f) => (db.shares[f].no = x.no <=> f = s)
    BY <1>3, <1>6 DEF CashTables, Owned, SharesGood, NumberedOnce
  <1>8. OneRow(R, y) BY <1>2, <1>3 DEF SharesGood, ShareOK
  <1>9. \A r \in R : r \in db.rows /\ r.kind = "share" /\ r.ref = ref BY DEF Bank!RowsOf
  <1>10. \A r \in db.rows : r.kind = "share" /\ r.ref = ref => r \in R BY DEF Bank!RowsOf
  <1> HIDE DEF R
  <1>11. PICK r : R = {r} /\ r.acct = a /\ r.amt = n BY <1>8 DEF OneRow
  <1> HIDE DEF y, x, no, a, n, ref, d
  <1>12. /\ u \in CashTables /\ RowsGood(u) /\ u.shares[s] = x /\ u.accounts = db.accounts /\ u.rows = db.rows
         /\ u.journals = db.journals /\ u.partners = db.partners
    <2>1. db \in CashTables /\ RowsGood(db) /\ x \in ShareRow BY <1>3, <1>6
    <2> QED BY <2>1, SharedIs
  <1> HIDE DEF u
  <1>13. /\ Q = u.rows \ {r} /\ r \in u.rows /\ u.rows \in SUBSET CashRow /\ IsFiniteSet(u.rows)
         /\ Q \in SUBSET CashRow /\ Q \subseteq u.rows /\ IsFiniteSet(Q)
    <2>1. IsFiniteSet(db.rows \ R) BY <1>3, FS_Subset DEF RowsGood
    <2> QED BY <1>9, <1>11, <1>12, <2>1 DEF CashTables, RowsGood
  <1>14. Bank!Signed(r) = - n BY <1>9, <1>11 DEF Bank!Signed, Bank!Ins
  <1>15. \A b : /\ NetOn(u.rows, b) \in Int
                /\ NetOn(Q, b) = NetOn(u.rows, b) - (IF r.acct = b THEN Bank!Signed(r) ELSE 0)
    BY <1>13, NetTake
  <1>16. \A z : z \in Q <=> z \in u.rows /\ ~(z.kind = "share" /\ z.ref = ref) BY <1>9, <1>10, <1>12
  <1> HIDE DEF Q
  <1>17. /\ B \in CashTables /\ Elsewhere(u, B) /\ B.accounts = u.accounts /\ B.rows = Q /\ B.made = u.made /\ B.journals = u.journals
    BY <1>12, <1>13 DEF CashTables, Elsewhere
  <1> HIDE DEF B
  <1>18. RowsGood(B) BY <1>12, <1>13, <1>17 DEF RowsGood, Elsewhere
  <1>19. /\ V \in CashTables /\ RowsGood(V) /\ Elsewhere(B, V)
         /\ V.rows = B.rows /\ V.made = B.made /\ V.journals = B.journals
         /\ \A b \in Accounts :
               /\ V.accounts[b] = Bank!Unused <=> B.accounts[b] = Bank!Unused
               /\ Alive(V, b) <=> Alive(B, b)
               /\ Alive(B, b) => /\ V.accounts[b].opening = B.accounts[b].opening
                                 /\ V.accounts[b].balance = B.accounts[b].balance + (IF a = b THEN n ELSE 0)
    BY <1>6, <1>17, <1>18, MovedIs
  <1> HIDE DEF V
  <1>20. Even(u, V)
    <2> SUFFICES ASSUME NEW b \in Accounts
                 PROVE  /\ V.accounts[b] = Bank!Unused <=> u.accounts[b] = Bank!Unused
                        /\ Alive(V, b) <=> Alive(u, b)
                        /\ Alive(u, b) =>
                              /\ V.accounts[b].opening = u.accounts[b].opening
                              /\ V.accounts[b].balance - NetOn(V.rows, b) = u.accounts[b].balance - NetOn(u.rows, b)
      BY DEF Even
    <2>1. (Alive(B, b) <=> Alive(u, b)) /\ B.accounts[b] = u.accounts[b] BY <1>17 DEF Alive
    <2> DEFINE N == NetOn(u.rows, b)
               m == IF b = a THEN n ELSE 0
    <2>2. N \in Int /\ m \in Int /\ NetOn(V.rows, b) = N + m BY <1>6, <1>15, <1>11, <1>14, <1>17, <1>19
    <2> HIDE DEF N, m
    <2>3. Alive(u, b) => u.accounts[b].balance \in Int /\ V.accounts[b].balance = u.accounts[b].balance + m
      BY <1>12, <1>19, <2>1, BankRows DEF m
    <2>4. \A i, j, k \in Int : (i + k) - (j + k) = i - j OBVIOUS
    <2> QED BY <1>19, <2>1, <2>2, <2>3, <2>4 DEF N
  <1>21. /\ T \in CashTables /\ Elsewhere(V, T) /\ T.accounts = V.accounts /\ T.rows = V.rows /\ T.made = V.made
         /\ Papers(T, d) = {} /\ \A f : f # d => Papers(T, f) = Papers(V, f)
    BY <1>19, UnpostedIs
  <1> HIDE DEF T
  <1>22. OnlyPaper(u, T, "share", no, d)
    <2>1. OnlyPaper(u, V, "share", no, d) BY <1>16, <1>17, <1>19, <1>20 DEF OnlyPaper, Elsewhere, Papers, ref
    <2>2. OnlyPaper(V, T, "share", no, d) BY <1>19, <1>21, OnlyJournals
    <2> QED BY <2>1, <2>2, OnlyThen
  <1>23. ShareOK(T, s)
    <2>1. T.shares[s] = x BY <1>12, <1>17, <1>19, <1>21 DEF Elsewhere
    <2>2. Bank!RowsOf(T, "share", ref) = {} BY <1>16, <1>17, <1>19, <1>21 DEF Bank!RowsOf
    <2> QED BY <1>6, <1>21, <2>1, <2>2 DEF ShareOK, ref, d
  <1>24. CashGood(T, Bank!Idle) BY <1>1, <1>5, <1>6, <1>7, <1>22, <1>23, IdleWaits, ShareWritten DEF u, d
  <1> QED BY <1>5, <1>24, IdleDoes DEF CashInv

-----------------------------------------------------------------------------
(* The server dies *)

LEMMA InFlightIs ==
    ASSUME OneTeller, NEW q \in CashRequests, Under(req, q), NEW a \in Accounts, Alive(db, a)
    PROVE  Bank!InFlight(a) = Waits(q, a)
  <1> DEFINE f == [c \in Clerks |-> Bank!Unbooked(c, a)]
  <1>1. \A c \in Clerks : f[c] = Waits(req[c], a) BY LiveIs DEF Bank!Unbooked, Waits
  <1>2. Bank!InFlight(a) = SumFunctionOnSet(f, Clerks) BY BankTotal DEF Bank!InFlight
  <1>3. IsFiniteSet(Clerks) BY DEF OneTeller
  <1> HIDE DEF f
  <1>4. CASE q = Bank!Idle BY <1>1, <1>4, IdleWaits, <1>2, <1>3, SumZero DEF Under
  <1>5. CASE q # Bank!Idle
    <2>1. PICK c \in Clerks : req[c] = q /\ \A d \in Clerks \ {c} : req[d] = Bank!Idle BY <1>5 DEF Under
    <2>2. Waits(q, a) \in Int
      <3>1. q.op \in {"money", "delete"} => q.amt \in Int
        BY DEF CashRequests, First, ByHandIn, Posts, Moves, Erasing, Taking, Bank!Idle
      <3> QED BY <3>1 DEF Waits, Bank!Signed
    <2>3. f[c] = Waits(q, a) /\ \A d \in Clerks \ {c} : f[d] = 0 BY <1>1, <2>1, IdleWaits
    <2>4. \A d \in Clerks : f[d] \in Int BY <2>2, <2>3
    <2>5. SumFunctionOnSet(f, Clerks) = f[c] + SumFunctionOnSet(f, Clerks \ {c}) BY <1>3, <2>4, SumTakes
    <2>6. IsFiniteSet(Clerks \ {c}) BY <1>3, FS_Subset
    <2>7. SumFunctionOnSet(f, Clerks \ {c}) = 0 BY <2>3, <2>6, SumZero
    <2> QED BY <1>2, <2>2, <2>3, <2>5, <2>7
  <1> QED BY <1>4, <1>5

LEMMA NoneInFlight ==
    ASSUME OneTeller, NEW a \in Accounts, ~Alive(db, a)
    PROVE  Bank!InFlight(a) = 0
  BY LiveIs, BankTotal, SumZero DEF Bank!Unbooked, Bank!InFlight, OneTeller

LEMMA BankDieStep ==
    ASSUME OneTeller, CashInv, Bank!Die
    PROVE  CashInv'
  <1>1. PICK q \in CashRequests : Under(req, q) /\ CashGood(db, q) BY DEF CashInv
  <1> DEFINE D == db.deaths + 1
             K == [a \in Accounts |-> db.cut[a] + Bank!InFlight(a)]
             T == [[db EXCEPT !.deaths = D] EXCEPT !.cut = K]
  <1>2. /\ db \in CashTables /\ RowsGood(db) /\ ExpensesGood(db) /\ SharesGood(db) /\ Balanced(db, q) BY <1>1 DEF CashGood
  <1>3. db' = T /\ req' = [c \in Clerks |-> Bank!Idle] BY <1>2 DEF Bank!Die, CashTables
  <1>4. Under(req', Bank!Idle) BY <1>3, IdleDoes DEF Under
  <1>5. \A a \in Accounts : Waits(q, a) \in Int
    <2>1. q.op \in {"money", "delete"} => q.amt \in Int
      BY DEF CashRequests, First, ByHandIn, Posts, Moves, Erasing, Taking, Bank!Idle
    <2> QED BY <2>1 DEF Waits, Bank!Signed
  <1>6. \A a \in Accounts : Bank!InFlight(a) = IF Alive(db, a) THEN Waits(q, a) ELSE 0 BY <1>1, InFlightIs, NoneInFlight
  <1>7. \A a \in Accounts : db.cut[a] \in Int /\ K[a] = db.cut[a] + (IF Alive(db, a) THEN Waits(q, a) ELSE 0) BY <1>2, <1>6 DEF CashTables
  <1>8. K \in [Accounts -> Int] /\ D \in Nat BY <1>2, <1>5, <1>6 DEF CashTables
  <1> HIDE DEF K, D
  <1>9. /\ T \in CashTables /\ T.accounts = db.accounts /\ T.rows = db.rows /\ T.made = db.made /\ T.journals = db.journals
        /\ T.expenses = db.expenses /\ T.shares = db.shares /\ T.partners = db.partners /\ T.removed = db.removed /\ T.cut = K
    BY <1>2, <1>8 DEF CashTables
  <1> HIDE DEF T
  <1>10. \A d : Papers(T, d) = Papers(db, d) BY <1>9 DEF Papers
  <1>11. ExpensesGood(T) BY <1>2, <1>9, <1>10, ExpensesStay
  <1>12. SharesGood(T) BY <1>2, <1>9, <1>10, SharesStay
  <1>13. RowsGood(T) BY <1>2, <1>7, BankRows, <1>9 DEF RowsGood
  <1>14. Balanced(T, Bank!Idle)
    <2> SUFFICES ASSUME NEW b \in Accounts, Alive(T, b)
                 PROVE  T.accounts[b].balance = T.accounts[b].opening + NetOn(T.rows, b) + 0 + T.cut[b]
      BY IdleWaits DEF Balanced
    <2>1. Alive(db, b) BY <1>9 DEF Alive
    <2> DEFINE N == NetOn(db.rows, b)
               k == db.cut[b]
               o == db.accounts[b].opening
               w == Waits(q, b)
    <2>2. N \in Int /\ k \in Int /\ o \in Int /\ w \in Int BY <1>2, <1>5, <2>1, NetInt, BankRows DEF CashTables
    <2>3. db.accounts[b].balance = o + N + w + k BY <1>2, <2>1 DEF Balanced
    <2>4. K[b] = k + w BY <1>7, <2>1
    <2>5. T.accounts[b].balance = db.accounts[b].balance /\ T.accounts[b].opening = o /\ NetOn(T.rows, b) = N /\ T.cut[b] = K[b] BY <1>9
    <2> HIDE DEF N, k, o, w
    <2> QED BY <2>2, <2>3, <2>4, <2>5
  <1> QED BY <1>3, <1>4, <1>9, <1>11, <1>12, <1>13, <1>14, IdleDoes DEF CashGood, CashInv

-----------------------------------------------------------------------------
LEMMA CashInit == OneTeller /\ Bank!Init => CashInv
  <1> SUFFICES ASSUME OneTeller, Bank!Init PROVE CashInv OBVIOUS
  <1>1. Under(req, Bank!Idle) BY IdleDoes DEF Bank!Init, Under
  <1>2. /\ db.accounts = [a \in Accounts |-> Bank!Unused] /\ db.rows = {} /\ db.made = 0 /\ db.journals = {} /\ db.removed = {}
        /\ db.expenses = [e \in Expenses |-> Bank!Unused] /\ db.shares = [s \in Shares |-> Bank!Unused]
        /\ db.cut = [a \in Accounts |-> 0]
    BY DEF Bank!Init
  <1>3. db \in CashTables BY DEF Bank!Init, CashTables, BankRow, ExpenseRow, ShareRow
  <1>4. Bank!Unused.st = "unused" BY DEF Bank!Unused
  <1>5. RowsGood(db) BY <1>2, FS_EmptySet DEF RowsGood
  <1>6. Balanced(db, Bank!Idle) BY <1>2, <1>4 DEF Balanced, Alive
  <1>7. ExpensesGood(db) BY <1>2, <1>4 DEF ExpensesGood, NumberedOnce, RowsNamed, ExpenseOK, Owned, Papers
  <1>8. SharesGood(db) BY <1>2, <1>4 DEF SharesGood, NumberedOnce, RowsNamed, ShareOK, Owned, Papers
  <1> QED BY <1>1, <1>3, <1>5, <1>6, <1>7, <1>8, IdleDoes DEF CashInv, CashGood

LEMMA CashNext ==
    ASSUME OneTeller, CashInv, [Bank!Next]_<< db, req >>
    PROVE  CashInv'
  <1>1. CASE Bank!AccountSteps
    BY <1>1, CreateBankAccountStep, UpdateBankAccountStep, DeleteBankAccountStep, SetPrimaryBankAccountStep, MarkFirstStep
    DEF Bank!AccountSteps
  <1>2. CASE Bank!MoneySteps
    BY <1>2, LoadMoneyStep, SaveBalanceStep, StoreRowStep, PostMoneyStep, LoadTransferStep, TransferMoneyStep,
       LoadRowStep, DeleteCashTransactionStep DEF Bank!MoneySteps, Places
  <1>3. CASE Bank!ExpenseSteps
    BY <1>3, CreateExpenseStep, UpdateExpenseStep, CancelExpenseStep, DeleteExpenseStep DEF Bank!ExpenseSteps, Places
  <1>4. CASE Bank!ShareSteps
    BY <1>4, PartnerSteps, LoadShareStep, CreateProfitDistributionStep, DeleteProfitDistributionStep DEF Bank!ShareSteps, Places
  <1>5. CASE Bank!Die BY <1>5, BankDieStep
  <1>6. CASE UNCHANGED << db, req >> BY <1>6 DEF CashInv, CashGood
  <1> QED BY <1>1, <1>2, <1>3, <1>4, <1>5, <1>6 DEF Bank!Next

LEMMA CashFollows ==
    ASSUME OneTeller, CashInv
    PROVE  Bank!BookMatchesBank /\ Bank!PaidOutOnce
  <1>1. PICK q \in CashRequests : Under(req, q) /\ CashGood(db, q) BY DEF CashInv
  <1>2. /\ db \in CashTables /\ RowsGood(db) /\ ExpensesGood(db) /\ SharesGood(db) /\ Balanced(db, q) BY <1>1 DEF CashGood
  <1>3. Bank!BookMatchesBank
    <2> DEFINE signed == [r \in db.rows |-> Bank!Signed(r)]
    <2> SUFFICES ASSUME NEW a \in Accounts, Alive(db, a)
                 PROVE  db.accounts[a].balance =
                           db.accounts[a].opening + Bank!Total(signed, {r \in db.rows : r.acct = a}) + Bank!InFlight(a) + db.cut[a]
      BY LiveIs DEF Bank!BookMatchesBank
    <2> DEFINE Z == {r \in db.rows : r.acct = a}
    <2>1. IsFiniteSet(Z) /\ Z \subseteq db.rows BY <1>2, FS_Subset DEF RowsGood
    <2>2. \A r \in Z : signed[r] \in Int /\ signed[r] = Signs[r]
      BY <1>2, <2>1 DEF CashTables, CashRow, Signs, Bank!Signed
    <2> HIDE DEF Z, signed
    <2>3. Bank!Total(signed, Z) = SumFunctionOnSet(Signs, Z) BY <2>1, <2>2, BankTotal, SumAgrees
    <2>4. Bank!InFlight(a) = Waits(q, a) BY <1>1, InFlightIs
    <2>5. db.accounts[a].balance = db.accounts[a].opening + NetOn(db.rows, a) + Waits(q, a) + db.cut[a] BY <1>2 DEF Balanced
    <2> QED BY <2>3, <2>4, <2>5 DEF NetOn, Z
  <1>4. ASSUME NEW e \in Expenses, db.expenses[e].st # "unused"
        PROVE  LET x == db.expenses[e]
                   R == Bank!RowsOf(db, "expense", << "expense", x.no >>)
                   d == << "expense", e >>
               IN  /\ x.st # "active" => R = {} /\ \A j \in db.journals : j.of # d
                   /\ x.st = "active" /\ x.amt > 0 =>
                         /\ R = {} => << "expense", x.no >> \in db.removed
                         /\ R # {} => \E r \in R : R = {r} /\ r.acct = x.acct /\ r.amt = x.amt
                         /\ {j \in db.journals : j.of = d} = {[of |-> d, amt |-> x.amt]}
    <2>1. ExpenseOK(db, e) /\ db.expenses[e] # Bank!Unused BY <1>2, <1>4 DEF ExpensesGood, Bank!Unused
    <2>2. db.expenses[e].amt > 0 => db.expenses[e].amt # 0 OBVIOUS
    <2> QED BY <2>1, <2>2 DEF ExpenseOK, OneRow, Papers
  <1>5. ASSUME NEW s \in Shares, db.shares[s].st # "unused"
        PROVE  LET x == db.shares[s]
                   R == Bank!RowsOf(db, "share", << "share", x.no >>)
                   d == << "share", s >>
               IN  /\ x.st # "live" => R = {} /\ \A j \in db.journals : j.of # d
                   /\ x.st = "live" /\ x.amt > 0 =>
                         /\ R = {} => << "share", x.no >> \in db.removed
                         /\ R # {} => \E r \in R : R = {r} /\ r.acct = x.acct /\ r.amt = x.amt
                         /\ {j \in db.journals : j.of = d} = {[of |-> d, amt |-> x.amt]}
                   /\ x.st = "live" => db.partners[x.partner] = "live"
    BY <1>2, <1>5 DEF SharesGood, Bank!Unused, ShareOK, OneRow, Papers
  <1>6. Bank!PaidOutOnce BY <1>4, <1>5 DEF Bank!PaidOutOnce, Bank!Ref, Bank!Of
  <1> QED BY <1>3, <1>6

\* Of CashBook, with one request at a time, numbers that are not given again and no share
\* deleted by hand: a living account's balance is its opening balance and its rows, with
\* what is under way and what died (cashbank.go, expense.go, profit_distribution.go).
THEOREM BookMatchesBankHolds == ASSUME OneTeller PROVE Bank!Spec => []Bank!BookMatchesBank
  <1>1. CashInv /\ [Bank!Next]_<< db, req >> => CashInv' BY CashNext
  <1>2. CashInv => Bank!BookMatchesBank BY CashFollows
  <1>3. OneTeller /\ Bank!Init => CashInv BY CashInit
  <1> QED BY <1>1, <1>2, <1>3, PTL DEF Bank!Spec, Bank!vars

\* Of CashBook, likewise: an expense or a share that stands has its one row and its journal,
\* but for a row deleted by hand, and one that was taken back has neither.
THEOREM PaidOutOnceHolds == ASSUME OneTeller PROVE Bank!Spec => []Bank!PaidOutOnce
  <1>1. CashInv /\ [Bank!Next]_<< db, req >> => CashInv' BY CashNext
  <1>2. CashInv => Bank!PaidOutOnce BY CashFollows
  <1>3. OneTeller /\ Bank!Init => CashInv BY CashInit
  <1> QED BY <1>1, <1>2, <1>3, PTL DEF Bank!Spec, Bank!vars

-----------------------------------------------------------------------------
(* The specification that MCOffice checks: a behaviour of it is one of the  *)
(* component its focus names.                                               *)

LEMMA OfficeStarts ==
    ASSUME OfficeInit
    PROVE  /\ focus = "books" => Chart!Init
           /\ focus \in {"banking", "spending"} => Bank!Init
           /\ focus \in {"goods", "depots"} => Init
           /\ focus \in {"catalogue", "gallery"} => Wares!Init
  BY DEF OfficeInit

LEMMA OfficeGoesOn ==
    ASSUME [OfficeNext]_<< focus, vars >>
    PROVE  /\ focus' = focus
           /\ focus = "books" => [Chart!Next]_<< db, req >>
           /\ focus \in {"banking", "spending"} => [Bank!Next]_<< db, req >>
           /\ focus \in {"goods", "depots"} => [Next]_vars
           /\ focus \in {"catalogue", "gallery"} => [Wares!Next]_<< db, req >>
  <1> USE DEF vars
  <1>1. CASE PayrollStep BY <1>1 DEF PayrollStep
  <1>2. CASE BooksStep BY <1>2 DEF BooksStep
  <1>3. CASE BankingStep \/ SpendingStep BY <1>3 DEF BankingStep, SpendingStep, Bank!Next
  <1>4. CASE QuotesStep BY <1>4 DEF QuotesStep
  <1>5. CASE GoodsStep \/ DepotsStep BY <1>5 DEF GoodsStep, DepotsStep, Next
  <1>6. CASE CatalogueStep \/ GalleryStep BY <1>6 DEF CatalogueStep, GalleryStep
  <1>7. CASE UNCHANGED << focus, vars >> BY <1>7
  <1> QED BY <1>1, <1>2, <1>3, <1>4, <1>5, <1>6, <1>7 DEF OfficeNext

\* BooksBalanceHolds, of the specification that is checked: balances follow the ledger and
\* the reports are out by the opening balances and inactive accounts only (accounting.go:488, 684).
THEOREM OfficeBooksBalance == ASSUME Chartered PROVE OfficeSpec => []BooksBalance
  <1> DEFINE I == focus = "books" => BooksInv
  <1>1. OfficeInit => I BY OfficeStarts, BooksInit
  <1>2. I /\ [OfficeNext]_<< focus, vars >> => I' BY OfficeGoesOn, BooksNext
  <1>3. I => BooksBalance BY BooksFollow DEF BooksBalance
  <1> QED BY <1>1, <1>2, <1>3, PTL DEF OfficeSpec

\* CodesUniqueHolds and NumbersUniqueHolds, of the specification that is checked: no two
\* accounts have one code, no two products a PLU or an SKU (accounting_helpers.go:105,
\* utils/sku.go:70).
THEOREM OfficeNumbersUnique == ASSUME Chartered, Room, OneItemEach PROVE OfficeSpec => []NumbersUnique
  <1> DEFINE I == /\ focus = "books" => BooksInv /\ CodedBooks(db)
                  /\ focus \in {"catalogue", "gallery"} => WaresInv
  <1>1. OfficeInit => I BY OfficeStarts, BooksInit, WaresInit
  <1>2. I /\ [OfficeNext]_<< focus, vars >> => I' BY OfficeGoesOn, BooksNext, WaresNext
  <1>3. I => NumbersUnique BY CodesFollow, WaresMeans DEF NumbersUnique
  <1> QED BY <1>1, <1>2, <1>3, PTL DEF OfficeSpec

\* BookMatchesBankHolds and PaidOutOnceHolds, of the specification that is checked: the book
\* and the balances agree and an expense or a share is paid once (cashbank.go, expense.go).
THEOREM OfficeCashBookExact == ASSUME OneTeller PROVE OfficeSpec => []CashBookExact
  <1> DEFINE I == focus \in {"banking", "spending"} => CashInv
  <1>1. OfficeInit => I BY OfficeStarts, CashInit
  <1>2. I /\ [OfficeNext]_<< focus, vars >> => I' BY OfficeGoesOn, CashNext
  <1>3. I => CashBookExact BY CashFollows DEF CashBookExact
  <1> QED BY <1>1, <1>2, <1>3, PTL DEF OfficeSpec
=============================================================================
