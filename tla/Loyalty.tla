------------------------------- MODULE Loyalty -------------------------------
(***************************************************************************)
(* The loyalty programme: the points a customer earns and redeems on       *)
(* invoices, the log of their movements, and the numbered cards a store    *)
(* hands out.  (controllers/loyalty.go, loyalty_helpers.go,                *)
(* loyalty_cards.go, and what invoice.go does with points)                 *)
(*                                                                         *)
(* A handler reads the customer before its transaction and writes the      *)
(* balance it computed: req holds what was read in between.  The server    *)
(* may die between two statements.                                         *)
(***************************************************************************)
EXTENDS Integers, FiniteSets, Functions

CONSTANTS
    Desks,          \* requests under way at a time
    Customers,
    Slips,          \* invoices
    SlipTotals,
    Spend, PerSpend,            \* PerSpend points for every Spend of an invoice
    PointValue, MaxPercent,     \* what a point pays, and how much of an invoice
    MinRedeem,
    Adjustments,    \* corrections by hand
    BatchSizes,     \* cards made at a time
    MaxMoves, MaxCards          \* bounds: entries in the log, cards made

VARIABLES
    db,     \* the tables
    req     \* what each request has read

vars   == << db, req >>
Idle   == [op |-> "idle"]
Unused == [doc |-> "unused"]

Init ==
    /\ \E store \in BOOLEAN :
       db = [enabled |-> FALSE,
             points  |-> [p \in Customers |-> 0],
             log     |-> {},        \* loyalty_transactions
             slips   |-> [s \in Slips |-> Unused],
             cards   |-> {},
             next    |-> 1,         \* next_serial of the design
             store   |-> store,     \* whether requests are about a store: cards and design have its id
             overrun |-> FALSE]     \* whether a design was saved over a batch
    /\ req = [d \in Desks |-> Idle]

Start(d, rec) == req[d] = Idle /\ req' = [req EXCEPT ![d] = rec] /\ UNCHANGED db
Finish(d, to) == req' = [req EXCEPT ![d] = Idle] /\ db' = to
Room(n)       == Cardinality(db.log) + n <= MaxMoves

-----------------------------------------------------------------------------
(* Points *)

UpdateLoyaltySettings ==
    /\ db' = [db EXCEPT !.enabled = ~@]
    /\ UNCHANGED req

Earned(on, total) == IF on THEN (total * PerSpend) \div Spend ELSE 0

\* ComputeLoyaltyRedemption; nothing to redeem is always allowed
Redeemable(p, total, n) ==
    n > 0 => /\ db.enabled
             /\ n >= MinRedeem /\ n <= db.points[p]
             /\ 100 * n * PointValue <= total * MaxPercent

\* recordLoyaltyTransaction
Logged(t, p, kind, n, after) ==
    IF n = 0 THEN t
    ELSE [t EXCEPT !.log = @ \cup {[no |-> Cardinality(@) + 1, party |-> p, kind |-> kind, points |-> n, after |-> after]}]

\* CreateInvoice looks at the customer and the settings, ...
LoadSale(d, s, p, total, n, st) ==
    /\ db.slips[s] = Unused
    /\ Redeemable(p, total, n)
    /\ Start(d, [op |-> "sale", slip |-> s, party |-> p, total |-> total - n * PointValue,
                 redeem |-> n, st |-> st, on |-> db.enabled, seen |-> db.points[p]])

\* ... stores the invoice, ...
SaveSale(d) ==
    LET r == req[d] IN
    /\ r.op = "sale"
    /\ db.slips[r.slip] = Unused
    /\ req' = [req EXCEPT ![d].op = "points"]
    /\ db' = [db EXCEPT !.slips[r.slip] =
                [doc |-> "live", party |-> r.party, earned |-> 0, redeemed |-> r.redeem, taken |-> FALSE]]

\* ... and applyLoyaltyForInvoice moves the points in a transaction of its own.
\* If that fails the invoice is deleted, unless this fails as well.
ApplyPoints(d) ==
    LET r     == req[d]
        earn  == IF r.st = "draft" THEN 0 ELSE Earned(r.on, r.total)
        left  == r.seen - r.redeem
        kept  == [db EXCEPT !.slips[r.slip].earned = earn, !.slips[r.slip].taken = TRUE]
        moved == Logged(Logged(kept, r.party, "redeem", -r.redeem, left), r.party, "earn", earn, left + earn)
    IN
    /\ r.op = "points" /\ Room(2)
    /\ \/ Finish(d, IF r.redeem = 0 /\ earn = 0 THEN kept ELSE [moved EXCEPT !.points[r.party] = left + earn])
       \/ Finish(d, [db EXCEPT !.slips[r.slip].doc = "undone"])
       \/ Finish(d, db)

\* UpdateInvoice may move an invoice to another customer; points stay put
MoveSlip(s, p) ==
    /\ db.slips[s].doc = "live"
    /\ db' = [db EXCEPT !.slips[s].party = p]
    /\ UNCHANGED req

LoadDeletion(d, s) ==
    /\ db.slips[s].doc = "live"
    /\ Start(d, [op |-> "delete", slip |-> s, seen |-> db.points[db.slips[s].party], was |-> db.slips[s]])

GivenBack_EarnedOnly(was) == -was.earned

GivenBack(was) == was.redeemed - was.earned

\* reverseLoyaltyForInvoice, in the transaction of DeleteInvoice
DeleteSlip(d) ==
    LET r == req[d]  p == r.was.party
        kept == [db EXCEPT !.slips[r.slip].doc = "deleted"]
        moved == Logged(Logged(kept, p, "adjust", -r.was.earned, r.seen - r.was.earned),
                        p, "adjust", r.was.redeemed, r.seen + GivenBack(r.was))
    IN
    /\ r.op = "delete" /\ Room(2)
    /\ Finish(d, IF r.was.earned = 0 /\ r.was.redeemed = 0 THEN kept
                 ELSE [moved EXCEPT !.points[p] = r.seen + GivenBack(r.was)])

LoadAdjustment(d, p, n) == Start(d, [op |-> "adjust", party |-> p, n |-> n, seen |-> db.points[p]])

\* AdjustPartyLoyaltyPoints refuses to go below zero
AdjustPoints(d) ==
    LET r == req[d]  new == r.seen + r.n IN
    /\ r.op = "adjust" /\ Room(1)
    /\ Finish(d, IF new < 0 THEN db ELSE [Logged(db, r.party, "manual", r.n, new) EXCEPT !.points[r.party] = new])

-----------------------------------------------------------------------------
(* Cards *)

NextSerial_Again(start, n) == start + n - 1

NextSerial(start, n) == start + n

\* The unique index over store and number counts deleted cards as well, but no
\* two rows without a store are alike to it.
Taken(numbers) == IF db.store THEN numbers \cap {c.serial : c \in db.cards} ELSE {}

\* GenerateLoyaltyCards, with the design locked; a number that is taken fails the
\* batch
GenerateLoyaltyCards(n) ==
    LET given == db.next .. db.next + n - 1 IN
    /\ Cardinality(db.cards) + n <= MaxCards
    /\ Taken(given) = {}
    /\ db' = [db EXCEPT !.cards = @ \cup {[no |-> Cardinality(@) + 1 + i - db.next, serial |-> i, live |-> TRUE, holder |-> {}] :
                                          i \in given},
                        !.next = NextSerial(@, n)]
    /\ UNCHANGED req

SetCard(c, new) == db' = [db EXCEPT !.cards = (@ \ {c}) \cup {new}] /\ UNCHANGED req

DeleteLoyaltyCard(c) == c.live /\ SetCard(c, [c EXCEPT !.live = FALSE])

AssignLoyaltyCard(c, to) == c.live /\ SetCard(c, [c EXCEPT !.holder = to])

\* UpdateLoyaltyCardDesign reads the row, counter and all, and saves it
LoadDesign(d) == Start(d, [op |-> "design", next |-> db.next])

SaveDesign(d) ==
    /\ req[d].op = "design"
    /\ Finish(d, [db EXCEPT !.next = req[d].next, !.overrun = @ \/ req[d].next < db.next])

Die == (\E d \in Desks : req[d] # Idle) /\ req' = [d \in Desks |-> Idle] /\ UNCHANGED db

-----------------------------------------------------------------------------
PointSteps(d) ==
    \/ \E s \in Slips, p \in Customers, total \in SlipTotals, n \in 0 .. MaxMoves, st \in {"draft", "sent"} :
          LoadSale(d, s, p, total, n, st)
    \/ SaveSale(d) \/ ApplyPoints(d)
    \/ \E s \in Slips : LoadDeletion(d, s)
    \/ DeleteSlip(d)
    \/ \E p \in Customers, n \in Adjustments : LoadAdjustment(d, p, n)
    \/ AdjustPoints(d)

CardSteps ==
    \/ \E n \in BatchSizes : GenerateLoyaltyCards(n)
    \/ \E c \in db.cards :
          DeleteLoyaltyCard(c) \/ \E to \in {{}} \cup {{p} : p \in Customers} : AssignLoyaltyCard(c, to)

Next ==
    \/ \E d \in Desks : PointSteps(d) \/ LoadDesign(d) \/ SaveDesign(d)
    \/ \E s \in Slips, p \in Customers : MoveSlip(s, p)
    \/ UpdateLoyaltySettings
    \/ CardSteps
    \/ Die

Spec == Init /\ [][Next]_vars

-----------------------------------------------------------------------------
(* Properties *)

\* The points an invoice moved, all in all.  The invoice and its points are stored
\* apart (invoice.go:433, 441): one whose points were never taken, because the
\* server died or the compensating delete failed, moved none, and gives back what
\* it never took when it is deleted.
Net(s) ==
    LET i == db.slips[s] IN
    CASE i.doc = "live" /\ i.taken     -> i.earned - i.redeemed
      [] i.doc = "deleted" /\ ~i.taken -> i.redeemed
      [] OTHER                         -> 0

\* The points customers hold are those corrections gave and invoices moved,
\* through deletions and moves of invoices from one customer to another; and a
\* customer's last log entry says what the customer holds.
PointsConserved ==
    LET ByHand   == {e \in db.log : e.kind = "manual"}
        LogOf(p) == {e \in db.log : e.party = p}
    IN  /\ SumFunctionOnSet(db.points, Customers)
             = SumFunctionOnSet([e \in ByHand |-> e.points], ByHand) + SumFunctionOnSet([s \in Slips |-> Net(s)], Slips)
        /\ \A p \in Customers :
              LogOf(p) # {} => \E e \in LogOf(p) : e.after = db.points[p] /\ \A f \in LogOf(p) : f.no <= e.no

\* "card numbers can never repeat" (loyalty_cards.go:457): of a store they never
\* do, deleted cards counted; without a store, and for the counter to be past
\* every number given, no design may have been saved over a batch.
CardsNeverRepeat ==
    /\ db.store \/ ~db.overrun => \A c, e \in db.cards : c.serial = e.serial => c = e
    /\ ~db.overrun => \A c \in db.cards : c.serial < db.next

\* The same said of every design and store.  Not checked: refuted without a store.
NumbersNeverRepeat == \A c, e \in db.cards : c.serial = e.serial => c = e

=============================================================================
