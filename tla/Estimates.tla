------------------------------ MODULE Estimates ------------------------------
(***************************************************************************)
(* Documents that become invoices: estimates with their versions, and the  *)
(* carts a till has put aside.  (controllers/quotation.go, pos_draft.go)   *)
(*                                                                         *)
(* A handler loads a row, and Save writes every column of what it loaded:  *)
(* req holds that row.  The server may die between two writes, and any     *)
(* write may fail; the handlers look at few of the errors.                 *)
(***************************************************************************)
EXTENDS Naturals, FiniteSets

CONSTANTS
    Clerks,         \* requests under way at a time
    Estimates,
    Carts,
    Bodies,         \* what an estimate says: its lines, its totals
    Deaths,         \* whether the server dies, and statements fail
    Meanwhile,      \* whether two requests are about one estimate
    Reopens,        \* whether an estimate is accepted, rejected or sent once it is converted
    MaxVersions, MaxInvoices, MaxCuts   \* bounds

VARIABLES
    db,     \* the tables
    req     \* what each request has read

vars   == << db, req >>
Idle   == [op |-> "idle"]
Unused == [st |-> "unused"]
Steps  == 1 .. 4      \* the steps of booking an invoice: stock, journal, payment, balance

Init ==
    /\ db = [estimates |-> [q \in Estimates |-> Unused],
             lines     |-> [q \in Estimates |-> {}],     \* quotation_items: by the version that wrote them
             versions  |-> {},      \* quotation_versions; full: the lines are in it
             carts     |-> [k \in Carts |-> "unused"],
             invoices  |-> {},
             cut       |-> {}]      \* the writes that a death or an error kept from being made
    /\ req = [c \in Clerks |-> Idle]

Busy(d)      == \E c \in Clerks : req[c] # Idle /\ req[c].doc = d
Free(c, d)   == req[c] = Idle /\ (Meanwhile \/ ~Busy(d))
Load(c, r)   == Free(c, r.doc) /\ req' = [req EXCEPT ![c] = r] /\ UNCHANGED db
Go(c, op, to) == req' = [req EXCEPT ![c].op = op] /\ db' = to
Done(c, to)  == req' = [req EXCEPT ![c] = Idle] /\ db' = to
On(c, op)    == req[c].op = op
Write(c, row) == [db EXCEPT !.estimates[req[c].doc] = row]
Live(q)      == db.estimates[q].st \notin {"unused", "deleted"}

Cut(c, op, n) == [of |-> req[c].doc, op |-> op, at |-> n]
Slips  == Cardinality(db.cut) + Cardinality({x \in db.invoices \X Steps : x[2] \in x[1].missed})
Slip   == Deaths /\ Slips < MaxCuts
\* A write fails, and the handler goes on or ends
Lost(x, to)  == Slip /\ db' = [to EXCEPT !.cut = @ \cup {x}]

-----------------------------------------------------------------------------
(* Estimates *)

Written(n, b) == {[no |-> n, body |-> b]}

CreateQuotation(c, q, b) ==
    /\ db.estimates[q] = Unused /\ Free(c, q)
    /\ req' = [req EXCEPT ![c] = [op |-> "version", doc |-> q, no |-> 1, body |-> b, full |-> TRUE]]
    /\ db' = [db EXCEPT !.estimates[q] = [st |-> "draft", approval |-> "pending", body |-> b, version |-> 1, invoice |-> 0],
                        !.lines[q] = Written(1, b)]

Editable(q) == Live(q) /\ db.estimates[q].st \notin {"accepted", "converted"}

LoadQuotation(c, q) ==
    /\ Editable(q) /\ db.estimates[q].version < MaxVersions
    /\ Load(c, [op |-> "edit", doc |-> q, seen |-> db.estimates[q]])

\* Lines were sent: those there are go first, in a statement of their own
DropLines(c) ==
    /\ On(c, "edit")
    /\ req' = [req EXCEPT ![c].op = "lines"]
    /\ \/ db' = [db EXCEPT !.lines[req[c].doc] = {}]
       \/ Lost(Cut(c, "lines", req[c].seen.version + 1), db)

Edited_InPlace(row, b) == [row EXCEPT !.body = b]

Edited(row, b) == [row EXCEPT !.body = b, !.version = @ + 1]

\* Without lines the totals stay, and the version is written without lines
UpdateQuotation(c, b) ==
    LET row == Edited(req[c].seen, b)  full == On(c, "lines") IN
    /\ \/ On(c, "lines")
       \/ On(c, "edit") /\ b = req[c].seen.body
    /\ req' = [req EXCEPT ![c] = [op |-> "version", doc |-> req[c].doc, no |-> row.version, body |-> b, full |-> full]]
    /\ db' = [Write(c, row) EXCEPT !.lines[req[c].doc] = IF full THEN @ \cup Written(row.version, b) ELSE @]

AddVersion(c) ==
    /\ On(c, "version")
    /\ req' = [req EXCEPT ![c] = Idle]
    /\ \/ db' = [db EXCEPT !.versions = @ \cup {[of |-> req[c].doc, no |-> req[c].no, body |-> req[c].body, full |-> req[c].full]}]
       \/ Lost(Cut(c, "version", req[c].no), db)

DeleteQuotation(c, q) == Editable(q) /\ Free(c, q) /\ UNCHANGED req /\ db' = [db EXCEPT !.estimates[q].st = "deleted"]

LoadApproval(c, q) == Live(q) /\ Load(c, [op |-> "approve", doc |-> q, seen |-> db.estimates[q]])

ApproveQuotation(c, yes) ==
    /\ On(c, "approve")
    /\ Done(c, Write(c, [req[c].seen EXCEPT !.approval = IF yes THEN "approved" ELSE "rejected"]))

\* SendQuotation, AcceptQuotation, RejectQuotation: none looks at the status
LoadDecision(c, q, to) ==
    /\ Live(q) /\ (Reopens \/ db.estimates[q].st # "converted")
    /\ Load(c, [op |-> "decide", doc |-> q, to |-> to, seen |-> db.estimates[q]])

Decide(c) == On(c, "decide") /\ Done(c, Write(c, [req[c].seen EXCEPT !.st = req[c].to]))

-----------------------------------------------------------------------------
(* Conversion: the invoice, its stock, journal and payment, the customer's *)
(* balance, and the estimate last                                          *)

Convertible_Any(q) == Live(q)

Convertible(q) == Live(q) /\ db.estimates[q].st # "converted"

NextId == Cardinality(db.invoices) + 1

LoadConversion(c, q) ==
    /\ Convertible(q) /\ NextId <= MaxInvoices
    /\ Load(c, [op |-> "convert", doc |-> q, seen |-> db.estimates[q], lines |-> db.lines[q], invoice |-> 0, steps |-> 0])

StoreInvoice(c) ==
    /\ On(c, "convert") /\ NextId <= MaxInvoices
    /\ req' = [req EXCEPT ![c].op = "book", ![c].invoice = NextId]
    /\ db' = [db EXCEPT !.invoices = @ \cup {[id |-> NextId, of |-> req[c].doc, body |-> req[c].seen.body,
                                              lines |-> req[c].lines, booked |-> {}, missed |-> {}]}]

Due_BeforeBalance(c) == req[c].steps = 3

Due(c) == req[c].steps = 4

\* The next step; an error is printed at most
Book(c) ==
    LET n == req[c].steps + 1
        Noted(f) == [db EXCEPT !.invoices = {IF i.id = req[c].invoice THEN f[i] ELSE i : i \in @}]
    IN
    /\ On(c, "book") /\ ~Due(c)
    /\ req' = [req EXCEPT ![c].steps = n]
    /\ \/ db' = Noted([i \in db.invoices |-> [i EXCEPT !.booked = @ \cup {n}]])
       \/ Slip /\ db' = Noted([i \in db.invoices |-> [i EXCEPT !.missed = @ \cup {n}]])

ConvertToInvoice(c) ==
    /\ On(c, "book") /\ Due(c)
    /\ req' = [req EXCEPT ![c] = Idle]
    /\ \/ db' = Write(c, [req[c].seen EXCEPT !.st = "converted", !.invoice = req[c].invoice])
       \/ Lost(Cut(c, "book", Cardinality(db.invoices)), db)

-----------------------------------------------------------------------------
(* Carts put aside: the invoice has neither lines nor a total *)

CreatePOSDraft(k) == db.carts[k] = "unused" /\ db' = [db EXCEPT !.carts[k] = "held"] /\ UNCHANGED req

DeletePOSDraft(k) ==
    db.carts[k] = "held" /\ (Meanwhile \/ ~Busy(k)) /\ db' = [db EXCEPT !.carts[k] = "deleted"] /\ UNCHANGED req

LoadPOSDraft(c, k) ==
    db.carts[k] = "held" /\ NextId <= MaxInvoices /\ Load(c, [op |-> "cart", doc |-> k])

StoreCart(c) ==
    /\ On(c, "cart") /\ NextId <= MaxInvoices
    /\ Go(c, "drop", [db EXCEPT !.invoices = @ \cup {[id |-> NextId, of |-> req[c].doc, body |-> "empty", lines |-> {}, booked |-> {}, missed |-> {}]}])

ConvertDraftToInvoice(c) ==
    /\ On(c, "drop")
    /\ req' = [req EXCEPT ![c] = Idle]
    /\ \/ db' = [db EXCEPT !.carts[req[c].doc] = "deleted"]
       \/ Lost(Cut(c, "drop", Cardinality(db.invoices)), db)

-----------------------------------------------------------------------------
At(c) ==
    CASE On(c, "version") -> req[c].no
      [] On(c, "lines")   -> req[c].seen.version + 1
      [] OTHER            -> Cardinality(db.invoices)

\* The first write of what is left to do fails, which is answered
Fail(c) ==
    /\ Slip /\ req[c].op \in {"edit", "lines", "approve", "decide", "convert", "cart"}
    /\ Done(c, [db EXCEPT !.cut = @ \cup {Cut(c, "lines", At(c)) : x \in {e \in {c} : On(e, "lines")}}])

Die ==
    /\ Slip /\ \E c \in Clerks : req[c] # Idle
    /\ db' = [db EXCEPT !.cut = @ \cup {Cut(c, req[c].op, At(c)) :
                                        c \in {e \in Clerks : req[e].op \in {"lines", "version", "book", "drop"}}}]
    /\ req' = [c \in Clerks |-> Idle]

EstimateSteps(c) ==
    \/ \E q \in Estimates :
          \/ \E b \in Bodies : CreateQuotation(c, q, b)
          \/ LoadQuotation(c, q) \/ DeleteQuotation(c, q) \/ LoadApproval(c, q) \/ LoadConversion(c, q)
          \/ \E to \in {"sent", "accepted", "rejected"} : LoadDecision(c, q, to)
    \/ \E b \in Bodies : UpdateQuotation(c, b)
    \/ \E yes \in BOOLEAN : ApproveQuotation(c, yes)
    \/ DropLines(c) \/ AddVersion(c) \/ Decide(c) \/ Fail(c) \/ StoreInvoice(c) \/ Book(c) \/ ConvertToInvoice(c)

CartSteps ==
    \/ \E k \in Carts : CreatePOSDraft(k) \/ DeletePOSDraft(k) \/ \E c \in Clerks : LoadPOSDraft(c, k)
    \/ \E c \in Clerks : StoreCart(c) \/ ConvertDraftToInvoice(c)

Next == CartSteps \/ Die \/ \E c \in Clerks : EstimateSteps(c)

Spec == Init /\ [][Next]_vars

-----------------------------------------------------------------------------
(* Properties *)

CutShort(d, ops) == {x \in db.cut : x.of = d /\ x.op \in ops}

\* "Estimate already converted to invoice" (quotation.go:626): an estimate or a
\* cart becomes one invoice, and one more for every conversion whose last write a
\* death or an ignored error kept from being made (quotation.go:728,
\* pos_draft.go:208).  An estimate that is converted names an invoice that says
\* what it says, lines and totals, and of which every step was taken: what is not
\* booked is what failed.
SoldOnce ==
    /\ \A d \in Estimates \cup Carts :
          Cardinality({i \in db.invoices : i.of = d}) <= 1 + Cardinality(CutShort(d, {"book", "drop"}))
    /\ \A q \in Estimates : LET e == db.estimates[q] IN
          e.st = "converted" => \E i \in db.invoices :
              i.id = e.invoice /\ i.of = q /\ i.body = e.body /\ i.lines = db.lines[q] /\ i.booked = Steps \ i.missed

Missing(q) == {x.at : x \in CutShort(q, {"version"})}

\* While no request is about it, the versions of an estimate have its numbers but
\* for those that were not stored, and the last one has its totals.  Unless an
\* edit was cut short after it dropped the lines (quotation.go:355), or failed to
\* drop them, the lines are those of one version, which has them if it was stored:
\* they are what the estimate's totals are about.
VersionsKept ==
    \A q \in Estimates : LET e == db.estimates[q]  mine == {x \in db.versions : x.of = q} IN
        Live(q) /\ ~Busy(q) =>
            /\ {v.no : v \in mine} = 1 .. e.version \ Missing(q)
            /\ \A v, w \in mine : v.no = w.no => v = w
            /\ \A v \in mine : v.no = e.version => v.body = e.body
            /\ CutShort(q, {"lines"}) = {} => \E n \in 1 .. e.version :
                  /\ db.lines[q] = Written(n, e.body)
                  /\ \A v \in mine : v.no = n => v.full /\ v.body = e.body

=============================================================================
