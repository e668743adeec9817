------------------------------- MODULE Payroll -------------------------------
(***************************************************************************)
(* What a member of staff earns, is advanced and is paid: attendance,      *)
(* advances, extra amounts, deductions, payrolls, their payments and the   *)
(* cash rows behind them.  (controllers/payroll.go, staff_advance.go,      *)
(* staff_extras.go, staff_deductions.go, staff_balance.go, attendance.go,  *)
(* and the payroll part of cashbank_helpers.go)                            *)
(*                                                                         *)
(* One member of staff on a daily rate, one request at a time; each        *)
(* handler is one transaction.  A half day is the unit of attendance.      *)
(***************************************************************************)
EXTENDS Integers, Sequences, FiniteSets, FiniteSetsExt, SequencesExt

CONSTANTS
    LastDay,                    \* days are 1 .. LastDay
    Statuses,                   \* of attendance
    Basic,                      \* the day's pay: twice that of a half day
    Payrolls,                   \* 1 .. n, given out in this order
    Advances, Extras, Deductions,
    Amounts,
    Sent,                       \* deductions an update of a payroll asks for
    MaxEntries,                 \* bound: advances, extra amounts and deductions made
    MaxPayments,                \* bound: payments of all payrolls
    Reuse                       \* whether a number is given again after a deletion

VARIABLE db

Days   == 1 .. LastDay
None   == 0
Absent == [at |-> "none"]

Init ==
    db = [days       |-> [d \in Days |-> "unmarked"],
          advances   |-> [a \in Advances |-> Absent],
          extras     |-> [x \in Extras |-> Absent],
          deductions |-> [x \in Deductions |-> Absent],
          payrolls   |-> [p \in Payrolls |-> Absent],
          payments   |-> {},
          rows       |-> {}]            \* cash transactions

Sum(S, m(_)) == MapThenSumSet(m, S)
Lower(a, b)  == IF a < b THEN a ELSE b
Clamped(n)   == IF n < 0 THEN 0 ELSE n

-----------------------------------------------------------------------------
(* Attendance *)

Weight(status) == CASE status \in {"present", "paid_leave", "weekly_off"} -> 2
                    [] status = "half_day" -> 1
                    [] OTHER -> 0

PayFor(S) == LET W(d) == Weight(db.days[d]) IN (Sum(S, W) * Basic) \div 2

MarkAttendance(d, st) == db' = [db EXCEPT !.days[d] = st]

DeleteAttendance(d) == db.days[d] # "unmarked" /\ db' = [db EXCEPT !.days[d] = "unmarked"]

-----------------------------------------------------------------------------
(* Cash rows and numbers.  A row is found by its reference alone. *)

\* nextExpenseNumber counts the expenses that are left
ExpenseCount ==
    Cardinality({y \in db.payments : db.payrolls[y.payroll].at = "active"})
    + Cardinality({a \in Advances : db.advances[a].at = "live"})
    + Cardinality({x \in Extras : db.extras[x].at = "live" /\ db.extras[x].redeemed})

ExpenseNo == ExpenseCount + 1

ExpenseRef(n) == << None, n >>

FreshExpense == Reuse \/ \A r \in db.rows : r.ref # ExpenseRef(ExpenseNo)

\* recordPayrollPaymentTx numbers a payment by counting those that are left
PaymentsOf(t, p) == {y \in t.payments : y.payroll = p}

PaymentNo(t, p) == Cardinality(PaymentsOf(t, p)) + 1

FreshPayments ==
    /\ Reuse \/ \A p \in Payrolls : \A y \in PaymentsOf(db, p) : y.no # PaymentNo(db, p)
    /\ Cardinality(db.payments) < MaxPayments

LastId(t) == Max({0} \cup {r.id : r \in t.rows})

\* Rows need an id to be told apart only where a number is given again
FreeId(t) == IF Reuse THEN Min((1 .. LastId(t) + 1) \ {r.id : r \in t.rows}) ELSE None

Out(t, ref, n) == [t EXCEPT !.rows = @ \cup {[id |-> FreeId(t), ref |-> ref, kind |-> "out", amt |-> n]}]

Unrowed(t, refs, kinds) == [t EXCEPT !.rows = {r \in @ : r.ref \notin refs \/ r.kind \notin kinds}]

Refs(t, p) == {<< p, y.no >> : y \in PaymentsOf(t, p)}

-----------------------------------------------------------------------------
(* Payments of a payroll *)

StatusFor(net, paid) == IF paid >= net THEN "paid" ELSE IF paid <= 0 THEN "pending" ELSE "partial"

\* refreshPayrollPaymentState
Refreshed(t, p) ==
    LET Amt(y) == y.amt
        paid   == Sum(PaymentsOf(t, p), Amt)
    IN  [t EXCEPT !.payrolls[p].paid = paid, !.payrolls[p].status = StatusFor(t.payrolls[p].net, paid)]

Pay(t, p, n) ==
    IF n <= 0 THEN t
    ELSE LET y == [payroll |-> p, no |-> PaymentNo(t, p), amt |-> n, id |-> FreeId(t)]
         IN  Out([t EXCEPT !.payments = @ \cup {y}], << p, y.no >>, n)

\* reversePayrollPayment; a cancelled payroll's refunds go with its payments
Unpaid_RefundsKept(t, p) ==
    [Unrowed(t, Refs(t, p), {"out"}) EXCEPT !.payments = @ \ PaymentsOf(t, p), !.payrolls[p].paid = 0]

Unpaid(t, p) ==
    [Unrowed(t, Refs(t, p), IF t.payrolls[p].at = "cancelled" THEN {"out", "in"} ELSE {"out"})
        EXCEPT !.payments = @ \ PaymentsOf(t, p), !.payrolls[p].paid = 0]

\* refundPayrollPayments: a refund beside every row that has none
Refunded(t, p) ==
    LET refs == {f \in Refs(t, p) : \A r \in t.rows : r.ref = f => r.kind = "out"}
        outs == {r \in t.rows : r.ref \in refs}
    IN  [t EXCEPT !.rows = @ \cup {[id |-> LastId(t) + r.id, ref |-> r.ref, kind |-> "in", amt |-> r.amt] : r \in outs}]

-----------------------------------------------------------------------------
(* What a payroll takes up: advances and extra amounts *)

PendingAdvances(upto) == {a \in Advances : db.advances[a].at = "live" /\ db.advances[a].pending > 0 /\ db.advances[a].day <= upto}
PendingExtras(upto)   == {x \in Extras : db.extras[x].at = "live" /\ db.extras[x].status = "pending" /\ db.extras[x].day <= upto}
Toward(S, dir)        == {x \in S : db.extras[x].dir = dir}
ActiveDeductions(S)   == {x \in Deductions : db.deductions[x].at = "live" /\ db.deductions[x].day \in S}

PendingOf(a)  == db.advances[a].pending
ExtraOf(x)    == db.extras[x].amt
DeductedBy(x) == db.deductions[x].amt

Recovered(t, S, p) ==
    [t EXCEPT !.advances = [a \in Advances |-> IF a \notin S THEN @[a]
        ELSE [@[a] EXCEPT !.recovered = @ + t.advances[a].pending, !.pending = 0, !.by = p, !.share = t.advances[a].pending]]]

Settled(t, S, p) ==
    [t EXCEPT !.extras = [x \in Extras |-> IF x \in S THEN [@[x] EXCEPT !.status = "settled", !.by = p] ELSE @[x]]]

\* reversePayrollAdvanceRecovery and reversePayrollExtraSettlement
Reopened_Wholly(t, p) ==
    [t EXCEPT !.advances = [a \in Advances |-> IF @[a].at = "live" /\ @[a].by = p
                                THEN [@[a] EXCEPT !.pending = @ + t.advances[a].recovered, !.by = None, !.share = 0]
                                ELSE @[a]]]

Reopened(t, p) ==
    [t EXCEPT
        !.advances = [a \in Advances |-> IF @[a].at = "live" /\ @[a].by = p
                         THEN [@[a] EXCEPT !.pending = @ + t.advances[a].share, !.recovered = @ - t.advances[a].share, !.by = None, !.share = 0]
                         ELSE @[a]],
        !.extras = [x \in Extras |-> IF @[x].at = "live" /\ @[x].by = p
                         THEN [@[x] EXCEPT !.status = "pending", !.by = None] ELSE @[x]]]

-----------------------------------------------------------------------------
(* The balance: computeStaffBalance *)

Active        == {p \in Payrolls : db.payrolls[p].at = "active"}
Period(p)     == db.payrolls[p].from .. db.payrolls[p].to
Ahead(p, q)   == \/ ~db.payrolls[p].settlement /\ db.payrolls[q].settlement
                 \/ /\ db.payrolls[p].settlement = db.payrolls[q].settlement
                    /\ \/ db.payrolls[p].from < db.payrolls[q].from
                       \/ db.payrolls[p].from = db.payrolls[q].from /\ p < q
Covered       == UNION {Period(p) : p \in Active}

\* A period pays all its days, and one day's pay when none is marked; a
\* settlement pays the days that no payroll ahead of it covers.
PayOver(S) == IF \A d \in S : db.days[d] = "unmarked" THEN Basic ELSE PayFor(S)

Payable(p) ==
    IF db.payrolls[p].settlement THEN PayFor(Period(p) \ UNION {Period(q) : q \in {r \in Active : Ahead(r, p)}})
    ELSE PayOver(Period(p))

Due(p) == Payable(p) + db.payrolls[p].bonus - db.payrolls[p].deductions - db.payrolls[p].paid

Balance ==
    Sum(Active, Due) + PayFor(Days \ Covered)
        - Sum(PendingAdvances(LastDay), PendingOf) - Sum(ActiveDeductions(Days \ Covered), DeductedBy)
        + Sum(Toward(PendingExtras(LastDay), "add"), ExtraOf) - Sum(Toward(PendingExtras(LastDay), "deduct"), ExtraOf)

-----------------------------------------------------------------------------
(* Payrolls *)

Unused(p) == db.payrolls[p] = Absent /\ \A q \in Payrolls : q < p => db.payrolls[q] # Absent

\* A payroll that takes up advances fa and extra amounts fx, and pays at most n
Created(t, p, settles, from, to, pay, deducted, fa, fx, n) ==
    LET less == deducted + Sum(fa, PendingOf) + Sum(Toward(fx, "deduct"), ExtraOf)
        more == Sum(Toward(fx, "add"), ExtraOf)
        net  == Clamped(pay - less + more)
        new  == [t EXCEPT !.payrolls[p] = [at |-> "active", settlement |-> settles, from |-> from, to |-> to,
                    deductions |-> less, bonus |-> more, net |-> net, paid |-> 0, status |-> "pending"]]
    IN  Refreshed(Pay(Settled(Recovered(new, fa, p), fx, p), p, Lower(net, n)), p)

CreatePayroll(p, from, to, n) ==
    /\ Unused(p) /\ from <= to /\ FreshPayments
    /\ db' = Created(db, p, FALSE, from, to, PayOver(from .. to), Sum(ActiveDeductions(from .. to), DeductedBy),
                     PendingAdvances(to), PendingExtras(to), n)

\* The part of settleStaffDuesTx that pays what payrolls still owe, in order
DuesPaid(n) ==
    LET PayDue(acc, p) == LET share == Lower(Clamped(Due(p)), acc.left)
                          IN  IF share = 0 THEN acc
                              ELSE [t |-> Refreshed(Pay(acc.t, p, share), p), left |-> acc.left - share]
    IN  FoldLeft(PayDue, [t |-> db, left |-> n], SetToSortSeq(Active, Ahead))

SettledFrom_Attended(day, days, fd, fx) == Min({day} \cup days)

SettledFrom(day, days, fd, fx) ==
    Min({day} \cup days \cup {db.deductions[x].day : x \in fd} \cup {db.extras[x].day : x \in fx})

\* handlePayAllDue: what is left of the balance becomes a settlement
PayAllDue(p, day, n) ==
    LET amount == IF n = 0 \/ n > Balance THEN Balance ELSE n
        paid   == DuesPaid(amount)
        free   == (1 .. day) \ Covered
        days   == {d \in free : db.days[d] # "unmarked"}
        fd     == ActiveDeductions(free)
        fa     == PendingAdvances(day)
        fx     == PendingExtras(day)
    IN
    /\ Unused(p) /\ Balance > 0 /\ FreshPayments
    /\ db' = IF days \cup fd \cup fa \cup fx = {} THEN paid.t
             ELSE Created(paid.t, p, TRUE, SettledFrom(day, days, fd, fx), day, PayFor(days),
                          Sum(fd, DeductedBy), fa, fx, paid.left)

\* UpdatePayroll takes the deductions sent; "pending" takes payments back, and
\* "paid" pays the rest
UpdatePayroll(p, less, status) ==
    LET pay  == IF ~db.payrolls[p].settlement THEN Basic
                ELSE PayFor(Period(p) \ UNION {Period(q) : q \in Active \ {p}})
        back == IF status = "pending" THEN Unpaid(db, p) ELSE db
        new  == [back EXCEPT !.payrolls[p].deductions = less, !.payrolls[p].net = Clamped(pay - less + db.payrolls[p].bonus)]
        rest == new.payrolls[p].net - new.payrolls[p].paid
    IN
    /\ p \in Active /\ FreshPayments
    /\ db' = Refreshed(IF status = "paid" THEN Pay(new, p, rest) ELSE new, p)

BulkUpdatePayrollStatus(S, status) ==
    LET Change(p, t) == Refreshed(IF status = "pending" THEN Unpaid(t, p)
                                  ELSE Pay(t, p, t.payrolls[p].net - t.payrolls[p].paid), p)
    IN  S # {} /\ FreshPayments /\ db' = FoldSet(Change, db, S)

CreatePayrollPayment(p, n) ==
    /\ p \in Active /\ FreshPayments
    /\ n <= db.payrolls[p].net - db.payrolls[p].paid
    /\ db' = Refreshed(Pay(db, p, n), p)

\* reversePayrollPaymentTx
DeletePayrollPayment(y) ==
    /\ y.payroll \in Active
    /\ db' = Refreshed([Unrowed(db, {<< y.payroll, y.no >>}, {"out"}) EXCEPT !.payments = @ \ {y}], y.payroll)

Gone(p, t) == [Reopened(Unpaid(t, p), p) EXCEPT !.payrolls[p] = [at |-> "deleted"]]

DeletePayroll(p) == db.payrolls[p].at \in {"active", "cancelled"} /\ db' = Gone(p, db)

BulkDeletePayrolls(S) == S # {} /\ db' = FoldSet(Gone, db, S)

CancelPayroll(p) ==
    /\ p \in Active
    /\ db' = [Reopened(Refunded(db, p), p) EXCEPT !.payrolls[p].at = "cancelled"]

-----------------------------------------------------------------------------
(* Advances, extra amounts, deductions *)

Room ==
    Cardinality({a \in Advances : db.advances[a] # Absent}) + Cardinality({x \in Extras : db.extras[x] # Absent})
        + Cardinality({x \in Deductions : db.deductions[x] # Absent}) < MaxEntries

CreateStaffAdvance(a, day, n) ==
    /\ db.advances[a] = Absent /\ Room /\ FreshExpense
    /\ db' = [Out(db, ExpenseRef(ExpenseNo), n) EXCEPT !.advances[a] =
                [at |-> "live", day |-> day, amt |-> n, pending |-> n, recovered |-> 0, by |-> None, share |-> 0,
                 ref |-> ExpenseRef(ExpenseNo)]]

RecoverStaffAdvance(a, n) ==
    /\ db.advances[a].at = "live" /\ n <= db.advances[a].pending
    /\ db' = [db EXCEPT !.advances[a].pending = @ - n, !.advances[a].recovered = @ + n]

DeleteStaffAdvance(a) ==
    /\ db.advances[a].at = "live"
    /\ db' = [Unrowed(db, {db.advances[a].ref}, {"out"}) EXCEPT !.advances[a] = [at |-> "deleted"]]

\* applyStaffExtraPayout; one to be deducted waits for a payroll all the same
PaidOut(t, x, e) ==
    [Out(t, ExpenseRef(ExpenseNo), e.amt) EXCEPT !.extras[x] =
        [e EXCEPT !.redeemed = TRUE, !.ref = ExpenseRef(ExpenseNo), !.status = IF e.dir = "add" THEN "settled" ELSE @]]

CreateStaffExtra(x, dir, day, n, now) ==
    LET e == [at |-> "live", dir |-> dir, day |-> day, amt |-> n, status |-> "pending", redeemed |-> FALSE,
              by |-> None, ref |-> << >>]
    IN
    /\ db.extras[x] = Absent /\ Room /\ FreshExpense
    /\ db' = IF now THEN PaidOut(db, x, e) ELSE [db EXCEPT !.extras[x] = e]

Unsettled(x) == db.extras[x].at = "live" /\ db.extras[x].status = "pending" /\ ~db.extras[x].redeemed

UpdateStaffExtra(x, dir, day, n, st) ==
    /\ Unsettled(x)
    /\ db' = [db EXCEPT !.extras[x].dir = dir, !.extras[x].day = day, !.extras[x].amt = n, !.extras[x].status = st]

RedeemStaffExtra(x) == Unsettled(x) /\ FreshExpense /\ db' = PaidOut(db, x, db.extras[x])

DeleteStaffExtra(x) ==
    /\ db.extras[x].at = "live" /\ db.extras[x].by = None
    /\ db' = [Unrowed(db, {db.extras[x].ref}, {"out"}) EXCEPT !.extras[x] = [at |-> "deleted"]]

CreateStaffDeduction(x, day, n) ==
    db.deductions[x] = Absent /\ Room /\ db' = [db EXCEPT !.deductions[x] = [at |-> "live", day |-> day, amt |-> n]]

UpdateStaffDeduction(x, day, n) ==
    /\ db.deductions[x].at = "live"
    /\ db' = [db EXCEPT !.deductions[x].day = day, !.deductions[x].amt = n]

DeleteStaffDeduction(x) == db.deductions[x].at = "live" /\ db' = [db EXCEPT !.deductions[x] = [at |-> "deleted"]]

-----------------------------------------------------------------------------
PayrollSteps ==
    \E p \in Payrolls :
        \/ \E from, to \in Days, n \in {0, Basic} : CreatePayroll(p, from, to, n)
        \/ \E day \in Days, n \in {0} \cup Amounts : PayAllDue(p, day, n)
        \/ \E less \in Sent, st \in {"pending", "paid", ""} : UpdatePayroll(p, less, st)
        \/ \E n \in Amounts : CreatePayrollPayment(p, n)
        \/ DeletePayroll(p) \/ CancelPayroll(p)

StaffSteps ==
    \/ \E d \in Days : DeleteAttendance(d) \/ \E st \in Statuses : MarkAttendance(d, st)
    \/ \E a \in Advances :
          \/ \E n \in Amounts : RecoverStaffAdvance(a, n) \/ \E day \in Days : CreateStaffAdvance(a, day, n)
          \/ DeleteStaffAdvance(a)
    \/ \E x \in Extras :
          \/ \E dir \in {"add", "deduct"}, day \in Days, n \in Amounts :
                \/ \E now \in BOOLEAN : CreateStaffExtra(x, dir, day, n, now)
                \/ \E st \in {"pending", "cancelled"} : UpdateStaffExtra(x, dir, day, n, st)
          \/ RedeemStaffExtra(x) \/ DeleteStaffExtra(x)
    \/ \E x \in Deductions : DeleteStaffDeduction(x) \/ \E day \in Days, n \in Amounts : CreateStaffDeduction(x, day, n) \/ UpdateStaffDeduction(x, day, n)

Next ==
    \/ PayrollSteps
    \/ \E S \in SUBSET Active : BulkDeletePayrolls(S) \/ \E st \in {"pending", "paid"} : BulkUpdatePayrollStatus(S, st)
    \/ \E y \in db.payments : DeletePayrollPayment(y)
    \/ StaffSteps

Spec == Init /\ [][Next]_db

-----------------------------------------------------------------------------
(* Properties *)

PaidTotal == LET Amt(y) == y.amt IN Sum(db.payments, Amt)

\* "The staff's balance drops by exactly the amount paid" (payroll.go:753): what
\* handlePayAllDue turns into a settlement - days, deductions, advances, extra
\* amounts - changes nothing else in the balance, whatever payrolls there are.
DuesSettledStep ==
    (\E p \in Payrolls, day \in Days, n \in {0} \cup Amounts : PayAllDue(p, day, n))
        => Balance' = Balance - (PaidTotal' - PaidTotal)

\* The cash that went out is what the payments of payrolls that stand, the
\* advances and the extra amounts paid out add up to, and a payroll's amount
\* paid is that of its payments; a cancelled payroll's rows cancel out.
CashExact ==
    LET Amt(r)     == r.amt
        Cash(S)    == Sum({r \in S : r.kind = "out"}, Amt) - Sum({r \in S : r.kind = "in"}, Amt)
        Advanced(a) == db.advances[a].amt
    IN  /\ Cash(db.rows) = Sum({y \in db.payments : y.payroll \in Active}, Amt)
                             + Sum({a \in Advances : db.advances[a].at = "live"}, Advanced)
                             + Sum({x \in Extras : db.extras[x].at = "live" /\ db.extras[x].redeemed}, ExtraOf)
        /\ \A p \in Active : db.payrolls[p].paid = Sum(PaymentsOf(db, p), Amt)

\* What a payroll took up is open again once the payroll is cancelled or
\* deleted, and no more than it took up.
TakenUpOnce ==
    /\ \A a \in Advances : LET v == db.advances[a] IN
          v.at = "live" => /\ v.pending + v.recovered = v.amt /\ v.pending >= 0 /\ v.recovered >= 0
                           /\ v.by # None => v.by \in Active /\ v.share > 0
    /\ \A x \in Extras : db.extras[x].at = "live" =>
          (db.extras[x].by # None => db.extras[x].by \in Active /\ db.extras[x].status = "settled")

=============================================================================
