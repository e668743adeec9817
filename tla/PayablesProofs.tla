--------------------------- MODULE PayablesProofs ---------------------------
(***************************************************************************)
(* The payables module, for any numbers of vendors, bills, payments,       *)
(* returns and notes, any totals, amounts and modes.  First, whatever      *)
(* interleaves and fails: the types of the tables.  Then, with one request  *)
(* at a time, what the documents                                           *)
(* say of each other: journals, rows and the bank (crashes and discounts   *)
(* allowed), the balance of every vendor, and what each bill counts as     *)
(* paid (without crashes).                                                 *)
(***************************************************************************)
EXTENDS Payables, FoldTheorems

-----------------------------------------------------------------------------
(* Types *)

JournalType ==
    [kind : {"purchase_bill", "payment_out", "payment_out_record"}, id : Bills \cup (1 .. MaxOuts), amt : Int]
DbType ==
    [bills : [Bills -> BillType \cup Gone], due : [Bills -> Int], outs : SUBSET OutType, rows : SUBSET RowType, bank : Int,
     owed : [Vendors -> Int], gl : SUBSET JournalType, returns : [Returns -> ReturnType \cup Gone],
     notes : [Notes \cup Returns -> NoteType \cup Gone], goods : [Returns -> Nat]]
BillRequest   == [op : {"update_bill", "mark_paid", "delete_bill", "pay_bill"}, id : Bills, seen : BillType, step : 1 .. 3]
OutRequest    == [op : {"cancel_out", "delete_out"}, id : 1 .. MaxOuts, seen : OutType, step : {1}]
ReturnRequest == [op : {"process_return"}, id : Returns, seen : ReturnType, step : 1 .. 3]
NoteRequest   == [op : {"issue_note", "cancel_note"}, id : Notes \cup Returns, seen : NoteType, step : {1}]
RequestType   == {Idle} \cup BillRequest \cup OutRequest \cup ReturnRequest \cup NoteRequest

\* A database of the right types, with finitely many payments and rows.
Db(d) == d \in DbType /\ IsFiniteSet(d.outs) /\ IsFiniteSet(d.rows)

TypeInv == Db(db) /\ req \in [Requests -> RequestType]

LEMMA NoOverlap == ASSUME NEW b \in Bills PROVE NumbersOf(b) \subseteq Numbers
  BY PayablesAssumption DEF PayablesAssumption

-----------------------------------------------------------------------------
(* What each operator on the database changes *)

SameDocs(d, e)  == e.bills = d.bills /\ e.returns = d.returns /\ e.notes = d.notes /\ e.goods = d.goods
SameMoney(d, e) == e.outs = d.outs /\ e.rows = d.rows /\ e.bank = d.bank /\ e.owed = d.owed /\ e.gl = d.gl

LEMMA OweIs ==
    ASSUME NEW d, Db(d), NEW v \in Vendors, NEW x \in Int
    PROVE  LET e == Owe(d, v, x)
           IN  /\ Db(e) /\ SameDocs(d, e)
               /\ e.outs = d.outs /\ e.rows = d.rows /\ e.bank = d.bank /\ e.gl = d.gl
               /\ e.owed = [d.owed EXCEPT ![v] = @ + x]
  BY DEF Owe, Db, DbType, SameDocs

LEMMA PostRowIs ==
    ASSUME NEW d, Db(d), NEW x \in RowType
    PROVE  LET e == PostRow(d, x)
           IN  /\ Db(e) /\ SameDocs(d, e)
               /\ e.outs = d.outs /\ e.gl = d.gl /\ e.owed = d.owed
               /\ e.rows = d.rows \cup {x} /\ e.bank = d.bank + Signed(x)
  <1>1. IsFiniteSet(d.rows \cup {x}) BY FS_AddElement DEF Db
  <1>2. Signed(x) \in Int BY DEF Signed, RowType
  <1> DEFINE R == d.rows \cup {x}
             n == d.bank + Signed(x)
  <1>3. PostRow(d, x) = [d EXCEPT !.rows = R, !.bank = n] BY DEF PostRow, Db, DbType
  <1>4. R \in SUBSET RowType /\ IsFiniteSet(R) /\ n \in Int BY <1>1, <1>2 DEF Db, DbType
  <1> HIDE DEF R, n
  <1>5. LET e == [d EXCEPT !.rows = R, !.bank = n]
        IN  /\ Db(e) /\ SameDocs(d, e)
            /\ e.outs = d.outs /\ e.gl = d.gl /\ e.owed = d.owed
            /\ e.rows = R /\ e.bank = n
    BY <1>4 DEF Db, DbType, SameDocs
  <1> QED BY <1>3, <1>5 DEF R, n

LEMMA JournalIs ==
    ASSUME NEW d, Db(d), NEW kind, NEW id, NEW amt, [kind |-> kind, id |-> id, amt |-> amt] \in JournalType
    PROVE  LET e == Journal(d, kind, id, amt)
           IN  /\ Db(e) /\ SameDocs(d, e)
               /\ e.outs = d.outs /\ e.rows = d.rows /\ e.bank = d.bank /\ e.owed = d.owed
               /\ e.gl = d.gl \cup {[kind |-> kind, id |-> id, amt |-> amt]}
  BY DEF Journal, Db, DbType, SameDocs

LEMMA UnjournalIs ==
    ASSUME NEW d, Db(d), NEW kind, NEW ids
    PROVE  LET e == Unjournal(d, kind, ids)
           IN  /\ Db(e) /\ SameDocs(d, e)
               /\ e.outs = d.outs /\ e.rows = d.rows /\ e.bank = d.bank /\ e.owed = d.owed
               /\ e.gl = {g \in d.gl : ~(g.kind = kind /\ g.id \in ids)}
  BY DEF Db, DbType, Unjournal, SameDocs

LEMMA SignedInt == ASSUME NEW x \in RowType PROVE Signed(x) \in Int
  BY DEF Signed, RowType

LEMMA BankOfInt == ASSUME NEW S, IsFiniteSet(S), S \subseteq RowType PROVE BankOf(S) \in Int
  BY SignedInt, SumInt DEF BankOf

LEMMA DropRowsIs ==
    ASSUME NEW d, Db(d), NEW R \in SUBSET d.rows
    PROVE  LET e == DropRows(d, R)
           IN  /\ Db(e) /\ SameDocs(d, e) /\ e.outs = d.outs /\ e.owed = d.owed
               /\ e.rows = d.rows \ R /\ e.bank = d.bank - BankOf(R)
               /\ e.gl = {g \in d.gl : ~(g.kind = "payment_out" /\ g.id \in {x.no : x \in R})}
  <1> DEFINE c == [d EXCEPT !.rows = @ \ R, !.bank = @ - BankOf(R)]
  <1>1. IsFiniteSet(R) /\ IsFiniteSet(d.rows \ R) /\ R \subseteq RowType BY FS_Subset DEF Db, DbType
  <1>2. BankOf(R) \in Int BY <1>1, BankOfInt
  <1>3. /\ Db(c) /\ SameDocs(d, c) /\ c.outs = d.outs /\ c.owed = d.owed /\ c.gl = d.gl
        /\ c.rows = d.rows \ R /\ c.bank = d.bank - BankOf(R)
    <2> DEFINE S == d.rows \ R
               n == d.bank - BankOf(R)
    <2>1. S \in SUBSET RowType /\ IsFiniteSet(S) /\ n \in Int BY <1>1, <1>2 DEF Db, DbType
    <2>2. c = [d EXCEPT !.rows = S, !.bank = n] BY DEF Db, DbType
    <2> HIDE DEF c, S, n
    <2>3. LET e == [d EXCEPT !.rows = S, !.bank = n]
          IN  /\ Db(e) /\ SameDocs(d, e)
              /\ e.outs = d.outs /\ e.gl = d.gl /\ e.owed = d.owed
              /\ e.rows = S /\ e.bank = n
      BY <2>1 DEF Db, DbType, SameDocs
    <2> QED BY <2>2, <2>3 DEF S, n
  <1>4. DropRows(d, R) = Unjournal(c, "payment_out", {x.no : x \in R}) BY DEF DropRows
  <1> HIDE DEF c
  <1> QED BY <1>3, <1>4, UnjournalIs DEF SameDocs

LEMMA WithOuts ==
    ASSUME NEW d, Db(d), NEW S \in SUBSET OutType, IsFiniteSet(S)
    PROVE  LET e == [d EXCEPT !.outs = S]
           IN  /\ Db(e) /\ SameDocs(d, e) /\ e.outs = S
               /\ e.rows = d.rows /\ e.bank = d.bank /\ e.owed = d.owed /\ e.gl = d.gl
  BY DEF Db, DbType, SameDocs

LEMMA WithBill ==
    ASSUME NEW d, Db(d), NEW b \in Bills, NEW x \in BillType \cup Gone
    PROVE  LET e == [d EXCEPT !.bills[b] = x]
           IN  /\ Db(e) /\ SameMoney(d, e) /\ e.bills = [d.bills EXCEPT ![b] = x]
               /\ e.returns = d.returns /\ e.notes = d.notes /\ e.goods = d.goods
  BY DEF Db, DbType, SameMoney

LEMMA WithReturn ==
    ASSUME NEW d, Db(d), NEW t \in Returns, NEW x \in ReturnType \cup Gone
    PROVE  LET e == [d EXCEPT !.returns[t] = x]
           IN  /\ Db(e) /\ SameMoney(d, e) /\ e.returns = [d.returns EXCEPT ![t] = x]
               /\ e.bills = d.bills /\ e.notes = d.notes /\ e.goods = d.goods
  BY DEF Db, DbType, SameMoney

LEMMA WithNote ==
    ASSUME NEW d, Db(d), NEW n \in Notes \cup Returns, NEW x \in NoteType \cup Gone
    PROVE  LET e == [d EXCEPT !.notes[n] = x]
           IN  /\ Db(e) /\ SameMoney(d, e) /\ e.notes = [d.notes EXCEPT ![n] = x]
               /\ e.bills = d.bills /\ e.returns = d.returns /\ e.goods = d.goods
  BY DEF Db, DbType, SameMoney

LEMMA WithGoods ==
    ASSUME NEW d, Db(d), NEW t \in Returns
    PROVE  LET e == [d EXCEPT !.goods[t] = @ + 1]
           IN  /\ Db(e) /\ SameMoney(d, e) /\ e.goods = [d.goods EXCEPT ![t] = @ + 1]
               /\ e.bills = d.bills /\ e.returns = d.returns /\ e.notes = d.notes
  BY DEF Db, DbType, SameMoney

Repaid(bill, paid, st) == [bill EXCEPT !.paid = paid, !.st = st]

\* The bill b is x in e, which is otherwise d but for what is due of b.
BillIs(d, e, b, x) ==
    /\ Db(e) /\ SameMoney(d, e) /\ e.bills = [d.bills EXCEPT ![b] = x]
    /\ e.returns = d.returns /\ e.notes = d.notes /\ e.goods = d.goods

LEMMA TotalType == ASSUME NEW bill \in BillType PROVE bill.total \in Nat \ {0}
  <1>1. bill.total \in Totals /\ Totals \subseteq Nat \ {0} BY PayablesAssumption DEF PayablesAssumption, BillType
  <1> QED BY Zenon, <1>1

LEMMA WithBillDue ==
    ASSUME NEW d, Db(d), NEW b \in Bills, NEW x \in BillType \cup Gone, NEW due \in Int
    PROVE  BillIs(d, [d EXCEPT !.bills[b] = x, !.due[b] = due], b, x)
  BY DEF Db, DbType, SameMoney, BillIs

LEMMA SaveBillIs ==
    ASSUME NEW d, Db(d), NEW b \in Bills, NEW bill \in BillType
    PROVE  BillIs(d, SaveBill(d, b, bill), b, bill)
  <1>1. bill.total \in Int /\ bill.paid \in Int BY TotalType DEF BillType
  <1>2. AtLeast0(bill.total - bill.paid) \in Int BY <1>1 DEF AtLeast0
  <1> QED BY <1>2, WithBillDue DEF SaveBill

\* A bill that lives gets what it is given; any other is left alone.
LEMMA SetPaidLive ==
    ASSUME NEW d, Db(d), NEW b \in Bills, d.bills[b].doc = "live", NEW paid \in Int, NEW due \in Int,
           NEW st \in {"draft", "unpaid", "partial", "paid"}
    PROVE  BillIs(d, SetPaid(d, b, paid, due, st), b, Repaid(d.bills[b], paid, st))
  <1> DEFINE x == Repaid(d.bills[b], paid, st)
  <1>1. d.bills[b] \in BillType BY DEF Db, DbType, Gone, Unused
  <1>2. x \in BillType BY <1>1 DEF BillType, Repaid
  <1>3. SetPaid(d, b, paid, due, st) = [d EXCEPT !.bills[b] = x, !.due[b] = due] BY DEF SetPaid, Db, DbType, Repaid
  <1> HIDE DEF x
  <1>4. BillIs(d, [d EXCEPT !.bills[b] = x, !.due[b] = due], b, x) BY <1>2, WithBillDue
  <1> QED BY <1>3, <1>4 DEF x

LEMMA SetPaidOther ==
    ASSUME NEW d, NEW b, ~(b \in Bills /\ d.bills[b].doc = "live"), NEW paid, NEW due, NEW st
    PROVE  SetPaid(d, b, paid, due, st) = d
  BY DEF SetPaid

-----------------------------------------------------------------------------
(* Payment numbers *)

LEMMA NextNoIs ==
    ASSUME NEW d, Db(d)
    PROVE  /\ NextNo(d) \in Nat \ {0}
           /\ \A o \in d.outs : o.no < NextNo(d)
  <1> DEFINE S == {0} \cup {o.no : o \in d.outs}
  <1>1. S \subseteq Int /\ S \subseteq 0 .. MaxOuts /\ 0 \in S /\ \A o \in d.outs : o.no \in S
    BY PayablesAssumption DEF Db, DbType, OutType, PayablesAssumption
  <1>2. IsFiniteSet(S)
    <2>1. 0 \in Int /\ MaxOuts \in Int BY PayablesAssumption DEF PayablesAssumption
    <2>2. IsFiniteSet(0 .. MaxOuts) BY <2>1, FS_Interval
    <2> QED BY <1>1, <2>2, FS_Subset
  <1>3. Max(S) \in S /\ \A y \in S : y <= Max(S) BY <1>1, <1>2, MaxOfFinite
  <1>4. NextNo(d) = 1 + Max(S) BY DEF NextNo
  <1>5. Max(S) \in 0 .. MaxOuts BY <1>1, <1>3
  <1>6. ASSUME NEW o \in d.outs PROVE o.no < NextNo(d)
    BY <1>1, <1>3, <1>4, <1>5, PayablesAssumption DEF PayablesAssumption
  <1> HIDE DEF S
  <1> QED BY <1>4, <1>5, <1>6, PayablesAssumption DEF PayablesAssumption

\* With fewer payments on file the next number is no larger.
LEMMA NextNoFalls ==
    ASSUME NEW d, Db(d), NEW e, Db(e), e.outs \subseteq d.outs
    PROVE  NextNo(e) <= NextNo(d)
  <1> DEFINE S == {0} \cup {o.no : o \in e.outs}
  <1>1. S \subseteq Int /\ S \subseteq 0 .. MaxOuts /\ 0 \in S
    BY PayablesAssumption DEF Db, DbType, OutType, PayablesAssumption
  <1>2. IsFiniteSet(S)
    <2>1. 0 \in Int /\ MaxOuts \in Int BY PayablesAssumption DEF PayablesAssumption
    <2>2. IsFiniteSet(0 .. MaxOuts) BY <2>1, FS_Interval
    <2> QED BY <1>1, <2>2, FS_Subset
  <1>3. Max(S) \in S BY <1>1, <1>2, MaxOfFinite
  <1>4. NextNo(e) = 1 + Max(S) BY DEF NextNo
  <1>5. CASE Max(S) = 0 BY <1>4, <1>5, NextNoIs
  <1>6. CASE Max(S) # 0
    <2>1. PICK o \in e.outs : Max(S) = o.no BY <1>3, <1>6
    <2>2. o \in d.outs BY <2>1
    <2>3. o \in OutType BY <2>2 DEF Db, DbType
    <2>4. o.no < NextNo(d) /\ NextNo(d) \in Nat /\ o.no \in Int BY <2>2, <2>3, NextNoIs DEF OutType
    <2> HIDE DEF S
    <2> QED BY <1>4, <2>1, <2>4
  <1> QED BY <1>5, <1>6

-----------------------------------------------------------------------------
(* What a payment that is recorded, or reversed, changes *)

LiveIn(d)     == {o \in d.outs : o.live}
RowOf(o, ref) == [dir |-> "out", no |-> o.no, ref |-> ref, amt |-> Net(o)]
PayJournal(o) == [kind |-> IF o.auto /\ o.mode = "bank" THEN "payment_out" ELSE "payment_out_record",
                  id |-> o.no, amt |-> Net(o)]

\* The payment o is put on file with a row under the reference ref.
Recorded(d, e, o, ref) ==
    /\ o \in OutType /\ Net(o) > 0 /\ o.live
    /\ \A p \in d.outs : p.no < o.no
    /\ e.outs = d.outs \cup {o}
    /\ e.rows = IF o.mode = "bank" THEN d.rows \cup {RowOf(o, ref)} ELSE d.rows
    /\ e.bank = IF o.mode = "bank" THEN d.bank - Net(o) ELSE d.bank
    /\ e.gl   = d.gl \cup {PayJournal(o)}
    /\ e.owed = IF o.refund THEN d.owed ELSE [d.owed EXCEPT ![o.vendor] = @ + Net(o)]

LEMMA PayLinkedIs ==
    ASSUME NEW d, Db(d), NEW b \in Bills, NEW bill \in BillType, NEW amt \in Nat, NEW mode \in Modes,
           NextNo(d) <= MaxOuts
    PROVE  LET e == PayLinked(d, b, bill, amt, mode)
           IN  /\ Db(e) /\ SameDocs(d, e)
               /\ amt = 0 => e = d
               /\ amt # 0 => \E o \in OutType :
                               /\ Recorded(d, e, o, bill.number)
                               /\ o.bill = b /\ o.vendor = bill.vendor /\ ~o.refund /\ o.auto /\ Net(o) = amt
  <1>1. CASE amt = 0 BY <1>1 DEF PayLinked, SameDocs
  <1>2. CASE amt # 0
    <2> DEFINE n    == NextNo(d)
               o    == [no |-> n, bill |-> b, vendor |-> bill.vendor, amt |-> amt, disc |-> 0,
                        mode |-> mode, refund |-> FALSE, live |-> TRUE, auto |-> TRUE]
               kept == [d EXCEPT !.outs = @ \cup {o}]
               row  == RowOf(o, bill.number)
               paid == IF mode = "initial_investment"
                       THEN Journal(kept, "payment_out_record", n, amt)
                       ELSE Journal(PostRow(kept, row), "payment_out", n, amt)
    <2>1. n \in 1 .. MaxOuts /\ \A p \in d.outs : p.no < n
      BY NextNoIs, PayablesAssumption DEF PayablesAssumption
    <2>2. bill.vendor \in Vendors /\ bill.number \in Numbers BY DEF BillType
    <2>3. o \in OutType /\ Net(o) = amt /\ Net(o) > 0 /\ o.live /\ o.no = n /\ o.mode = mode
      BY <1>2, <2>1, <2>2 DEF OutType, Net
    <2>4. row \in RowType /\ Signed(row) = -amt BY <1>2, <2>1, <2>2, <2>3 DEF RowType, RowOf, Signed
    <2>5. mode = "bank" \/ mode = "initial_investment" BY PayablesAssumption DEF PayablesAssumption
    <2>6. d.outs \cup {o} \in SUBSET OutType /\ IsFiniteSet(d.outs \cup {o})
      BY <2>3, FS_AddElement DEF Db, DbType
    <2>7. /\ Db(kept) /\ SameDocs(d, kept) /\ kept.outs = d.outs \cup {o}
          /\ kept.rows = d.rows /\ kept.bank = d.bank /\ kept.owed = d.owed /\ kept.gl = d.gl
      BY <2>6, WithOuts DEF Db, DbType
    <2>8. PayLinked(d, b, bill, amt, mode) = Owe(paid, bill.vendor, amt) BY <1>2 DEF PayLinked, RowOf, Net
    <2>9. PayJournal(o) = [kind |-> IF mode = "bank" THEN "payment_out" ELSE "payment_out_record", id |-> n, amt |-> amt]
          /\ PayJournal(o) \in JournalType
      BY <2>1, <2>3 DEF PayJournal, JournalType
    <2> HIDE DEF kept
    <2>10. /\ Db(paid) /\ SameDocs(d, paid) /\ paid.outs = d.outs \cup {o} /\ paid.owed = d.owed
           /\ paid.rows = IF mode = "bank" THEN d.rows \cup {row} ELSE d.rows
           /\ paid.bank = IF mode = "bank" THEN d.bank - amt ELSE d.bank
           /\ paid.gl = d.gl \cup {PayJournal(o)}
      <3> DEFINE posted == PostRow(kept, row)
      <3>1. /\ Db(posted) /\ SameDocs(d, posted) /\ posted.outs = d.outs \cup {o} /\ posted.owed = d.owed
            /\ posted.gl = d.gl /\ posted.rows = d.rows \cup {row} /\ posted.bank = d.bank - amt
        <4>1. d.bank \in Int BY DEF Db, DbType
        <4>2. d.bank + (-amt) = d.bank - amt BY <4>1
        <4> HIDE DEF row, o
        <4> QED BY <2>4, <2>7, <4>2, PostRowIs DEF SameDocs
      <3> HIDE DEF posted, row, o
      <3>2. CASE mode = "bank" BY <3>2, <2>9, <3>1, JournalIs DEF posted, SameDocs
      <3>3. CASE mode = "initial_investment" BY <3>3, <2>9, <2>7, JournalIs DEF SameDocs
      <3> QED BY <2>5, <3>2, <3>3
    <2> HIDE DEF paid
    <2>11. LET e == PayLinked(d, b, bill, amt, mode)
           IN  /\ Db(e) /\ SameDocs(d, e)
               /\ e.outs = d.outs \cup {o} /\ e.rows = paid.rows /\ e.bank = paid.bank /\ e.gl = paid.gl
               /\ e.owed = [d.owed EXCEPT ![bill.vendor] = @ + amt]
      <3> HIDE DEF o
      <3> QED BY <2>2, <2>8, <2>10, OweIs DEF SameDocs
    <2>12. Recorded(d, PayLinked(d, b, bill, amt, mode), o, bill.number)
      BY <2>1, <2>3, <2>10, <2>11 DEF Recorded
    <2>13. o.bill = b /\ o.vendor = bill.vendor /\ ~o.refund /\ o.auto OBVIOUS
    <2> HIDE DEF o
    <2> QED BY <1>2, <2>3, <2>11, <2>12, <2>13
  <1> QED BY <1>1, <1>2

AllStatuses == {"draft", "unpaid", "partial", "paid"}

LEMMA StatusForType ==
    ASSUME NEW total, NEW paid, NEW else \in AllStatuses
    PROVE  StatusFor(total, paid, else) \in AllStatuses
  BY DEF StatusFor, AllStatuses

LEMMA Assumed ==
    /\ Discounts \subseteq Nat /\ Amounts \subseteq Nat \ {0} /\ Totals \subseteq Nat \ {0}
    /\ IsFiniteSet(Bills) /\ IsFiniteSet(Returns) /\ None \notin Bills /\ MaxOuts \in Nat
    /\ Modes \subseteq {"bank", "initial_investment"}
    /\ Statuses \subseteq AllStatuses
    /\ Returns \cap Notes = {}
  BY Zenon, PayablesAssumption DEF PayablesAssumption, AllStatuses

LEMMA NetInt == ASSUME NEW o \in OutType PROVE Net(o) \in Int
  <1>1. o.amt \in Nat /\ o.disc \in Discounts \cup {0} BY DEF OutType
  <1>2. o.disc \in Int
    <2>1. CASE o.disc \in Discounts
      <3>1. Discounts \subseteq Nat BY Assumed
      <3>2. o.disc \in Nat BY Zenon, <2>1, <3>1
      <3> QED BY <3>2
    <2>2. CASE o.disc = 0 BY <2>2
    <2> QED BY <1>1, <2>1, <2>2
  <1> QED BY <1>1, <1>2 DEF Net

LEMMA GrossOfInt == ASSUME NEW S, IsFiniteSet(S), S \subseteq OutType PROVE GrossOf(S) \in Int
  <1>1. \A o \in S : o.amt \in Int BY DEF OutType
  <1> QED BY <1>1, SumInt DEF GrossOf

\* The rows R and the journals of R and of the payments S are gone.
Swept(d, e, R, S) ==
    /\ e.rows = d.rows \ R
    /\ e.bank = d.bank - BankOf(R)
    /\ e.gl   = {g \in d.gl : /\ ~(g.kind = "payment_out" /\ g.id \in {x.no : x \in R})
                              /\ ~(g.kind = "payment_out_record" /\ g.id \in {o.no : o \in S})}

\* The payments of the bill b are gone with the rows under its number.
Unlinked(d, e, b, vendor, number) ==
    LET S == OutsOf(d, b)
    IN  /\ Db(e) /\ SameDocs(d, e)
        /\ e.outs = d.outs \ S
        /\ Swept(d, e, RowsOfBill(d, number), S)
        /\ GrossOf(S) \in Int
        /\ e.owed = [d.owed EXCEPT ![vendor] = @ - GrossOf(S)]

LEMMA ReverseLinkedIs ==
    ASSUME NEW d, Db(d), NEW b, NEW vendor \in Vendors, NEW number
    PROVE  Unlinked(d, ReverseLinked(d, b, vendor, number), b, vendor, number)
  <1> DEFINE S     == OutsOf(d, b)
             R     == RowsOfBill(d, number)
             swept == DropRows(d, R)
             clear == Unjournal(swept, "payment_out_record", {o.no : o \in S})
             gone  == [clear EXCEPT !.outs = @ \ S]
  <1>1. R \in SUBSET d.rows /\ S \subseteq d.outs BY DEF RowsOfBill, OutsOf
  <1>2. /\ Db(swept) /\ SameDocs(d, swept) /\ swept.outs = d.outs /\ swept.owed = d.owed
        /\ swept.rows = d.rows \ R /\ swept.bank = d.bank - BankOf(R)
        /\ swept.gl = {g \in d.gl : ~(g.kind = "payment_out" /\ g.id \in {x.no : x \in R})}
    BY <1>1, DropRowsIs
  <1>3. /\ Db(clear) /\ SameDocs(swept, clear) /\ clear.outs = swept.outs /\ clear.owed = swept.owed
        /\ clear.rows = swept.rows /\ clear.bank = swept.bank
        /\ clear.gl = {g \in swept.gl : ~(g.kind = "payment_out_record" /\ g.id \in {o.no : o \in S})}
    <2> HIDE DEF swept, S
    <2> QED BY <1>2, UnjournalIs
  <1>4. d.outs \ S \in SUBSET OutType /\ IsFiniteSet(d.outs \ S) /\ IsFiniteSet(S) /\ S \subseteq OutType
    BY <1>1, FS_Subset DEF Db, DbType
  <1>5. GrossOf(S) \in Int BY <1>4, GrossOfInt
  <1>6. /\ Db(gone) /\ SameDocs(d, gone) /\ gone.outs = d.outs \ S /\ gone.owed = d.owed
        /\ Swept(d, gone, R, S)
    <2> DEFINE T == d.outs \ S
    <2>1. gone = [clear EXCEPT !.outs = T] BY <1>2, <1>3 DEF Db, DbType
    <2> HIDE DEF gone, clear, T
    <2>2. LET e == [clear EXCEPT !.outs = T]
          IN  /\ Db(e) /\ SameDocs(clear, e) /\ e.outs = T
              /\ e.rows = clear.rows /\ e.bank = clear.bank /\ e.owed = clear.owed /\ e.gl = clear.gl
      <3>1. T \in SUBSET OutType /\ IsFiniteSet(T) BY <1>4 DEF T
      <3> QED BY <1>3, <3>1, WithOuts
    <2>3. gone.gl = {g \in d.gl : /\ ~(g.kind = "payment_out" /\ g.id \in {x.no : x \in R})
                                  /\ ~(g.kind = "payment_out_record" /\ g.id \in {o.no : o \in S})}
      <3> HIDE DEF swept, S, R
      <3> QED BY <1>2, <1>3, <2>1, <2>2
    <2> HIDE DEF swept, S, R
    <2> QED BY <1>2, <1>3, <2>1, <2>2, <2>3 DEF T, SameDocs, Swept
  <1>7. ReverseLinked(d, b, vendor, number) = Owe(gone, vendor, -GrossOf(S)) BY DEF ReverseLinked
  <1>8. d.owed[vendor] \in Int /\ -GrossOf(S) \in Int BY <1>5 DEF Db, DbType
  <1> HIDE DEF gone, S, R, swept, clear
  <1>9. /\ Db(Owe(gone, vendor, -GrossOf(S))) /\ SameDocs(gone, Owe(gone, vendor, -GrossOf(S)))
        /\ Owe(gone, vendor, -GrossOf(S)).owed = [gone.owed EXCEPT ![vendor] = @ + (-GrossOf(S))]
        /\ Owe(gone, vendor, -GrossOf(S)).outs = gone.outs /\ Owe(gone, vendor, -GrossOf(S)).rows = gone.rows
        /\ Owe(gone, vendor, -GrossOf(S)).bank = gone.bank /\ Owe(gone, vendor, -GrossOf(S)).gl = gone.gl
    BY <1>6, <1>8, OweIs
  <1>10. d.owed[vendor] + (-GrossOf(S)) = d.owed[vendor] - GrossOf(S) BY <1>5, <1>8
  <1>11. [gone.owed EXCEPT ![vendor] = @ + (-GrossOf(S))] = [d.owed EXCEPT ![vendor] = @ - GrossOf(S)]
    BY <1>6, <1>10
  <1>12. LET e == ReverseLinked(d, b, vendor, number)
         IN  /\ Db(e) /\ SameDocs(d, e) /\ e.outs = d.outs \ S /\ Swept(d, e, R, S)
             /\ e.owed = [d.owed EXCEPT ![vendor] = @ - GrossOf(S)]
    BY <1>6, <1>7, <1>9, <1>11 DEF SameDocs, Swept
  <1> QED BY <1>5, <1>12 DEF S, R, Unlinked

\* The payment o is undone, but for its own record.
Undone(d, e, o) ==
    LET paid == AtLeast0(d.bills[o.bill].paid - Net(o))
    IN  /\ Db(e) /\ e.outs = d.outs
        /\ e.returns = d.returns /\ e.notes = d.notes /\ e.goods = d.goods
        /\ Swept(d, e, RowsOfOut(d, o.no), {o})
        /\ e.owed = IF o.refund THEN d.owed ELSE [d.owed EXCEPT ![o.vendor] = @ - Net(o)]
        /\ e.bills = IF o.bill \in Bills /\ d.bills[o.bill].doc = "live"
                     THEN [d.bills EXCEPT ![o.bill] =
                              Repaid(d.bills[o.bill], paid, StatusFor(d.bills[o.bill].total, paid, "unpaid"))]
                     ELSE d.bills

LEMMA ReversedIs ==
    ASSUME NEW d, Db(d), NEW o \in OutType
    PROVE  Undone(d, Reversed(d, o), o)
  <1> DEFINE R     == RowsOfOut(d, o.no)
             clear == Unjournal(d, "payment_out_record", {o.no})
             swept == DropRows(clear, R)
             paid  == AtLeast0(d.bills[o.bill].paid - Net(o))
             due   == d.bills[o.bill].total - paid
             st    == StatusFor(d.bills[o.bill].total, paid, "unpaid")
             bill  == IF o.bill \in Bills /\ d.bills[o.bill].doc = "live" THEN SetPaid(swept, o.bill, paid, due, st) ELSE swept
             bills == IF o.bill \in Bills /\ d.bills[o.bill].doc = "live"
                      THEN [d.bills EXCEPT ![o.bill] = Repaid(d.bills[o.bill], paid, st)] ELSE d.bills
  <1>1. R \in SUBSET d.rows BY DEF RowsOfOut
  <1>2. /\ Db(clear) /\ SameDocs(d, clear) /\ clear.outs = d.outs /\ clear.owed = d.owed
        /\ clear.rows = d.rows /\ clear.bank = d.bank
        /\ clear.gl = {g \in d.gl : ~(g.kind = "payment_out_record" /\ g.id \in {o.no})}
    BY UnjournalIs
  <1>3. /\ Db(swept) /\ SameDocs(clear, swept) /\ swept.outs = clear.outs /\ swept.owed = clear.owed
        /\ swept.rows = clear.rows \ R /\ swept.bank = clear.bank - BankOf(R)
        /\ swept.gl = {g \in clear.gl : ~(g.kind = "payment_out" /\ g.id \in {x.no : x \in R})}
    <2> HIDE DEF clear, R
    <2> QED BY <1>1, <1>2, DropRowsIs
  <1>4. Swept(d, swept, R, {o})
    <2>1. swept.gl = {g \in d.gl : /\ ~(g.kind = "payment_out" /\ g.id \in {x.no : x \in R})
                                   /\ ~(g.kind = "payment_out_record" /\ g.id \in {p.no : p \in {o}})}
      <3> HIDE DEF swept, clear, R
      <3> QED BY <1>2, <1>3
    <2> HIDE DEF swept, clear, R
    <2> QED BY <1>2, <1>3, <2>1 DEF Swept
  <1>5. ASSUME o.bill \in Bills, d.bills[o.bill].doc = "live"
        PROVE  paid \in Int /\ due \in Int /\ st \in AllStatuses
    <2>1. d.bills[o.bill].paid \in Int /\ d.bills[o.bill].total \in Int
      <3>1. d.bills[o.bill] \in BillType BY <1>5 DEF Db, DbType, Gone, Unused
      <3> QED BY <3>1, TotalType DEF BillType
    <2>2. Net(o) \in Int BY NetInt
    <2> QED BY <2>1, <2>2, StatusForType DEF AtLeast0, AllStatuses
  <1>6. /\ Db(bill) /\ SameMoney(swept, bill) /\ bill.bills = bills
        /\ bill.returns = d.returns /\ bill.notes = d.notes /\ bill.goods = d.goods
    <2>1. swept.bills = d.bills /\ swept.returns = d.returns /\ swept.notes = d.notes /\ swept.goods = d.goods
      <3> HIDE DEF swept, clear
      <3> QED BY <1>2, <1>3 DEF SameDocs
    <2>2. CASE o.bill \in Bills /\ d.bills[o.bill].doc = "live"
      <3>1. paid \in Int /\ due \in Int /\ st \in AllStatuses BY <1>5, <2>2
      <3>2. bill = SetPaid(swept, o.bill, paid, due, st) BY <2>2
      <3>3. bills = [swept.bills EXCEPT ![o.bill] = Repaid(swept.bills[o.bill], paid, st)] BY <2>1, <2>2
      <3>4. Db(swept) /\ swept.bills[o.bill].doc = "live" /\ st \in {"draft", "unpaid", "partial", "paid"}
        <4> HIDE DEF swept, st
        <4> QED BY <1>3, <2>1, <2>2, <3>1 DEF AllStatuses
      <3> HIDE DEF bill, bills, swept, clear, paid, due, st
      <3>5. BillIs(swept, SetPaid(swept, o.bill, paid, due, st), o.bill, Repaid(swept.bills[o.bill], paid, st))
        BY <2>2, <3>1, <3>4, SetPaidLive
      <3> QED BY <2>1, <3>2, <3>3, <3>5 DEF BillIs
    <2>3. CASE ~(o.bill \in Bills /\ d.bills[o.bill].doc = "live")
      <3> HIDE DEF swept, clear, paid, due, st
      <3> QED BY <1>3, <2>1, <2>3 DEF SameMoney
    <2> QED BY <2>2, <2>3
  <1>7. Reversed(d, o) = IF o.refund THEN bill ELSE Owe(bill, o.vendor, -Net(o)) BY DEF Reversed
  <1>8. Net(o) \in Int /\ -Net(o) \in Int /\ o.vendor \in Vendors /\ d.owed[o.vendor] \in Int
    BY NetInt DEF OutType, Db, DbType
  <1>9. bill.owed = d.owed /\ bill.outs = d.outs /\ Swept(d, bill, R, {o})
    <2> HIDE DEF bill, swept, clear, R
    <2> QED BY <1>2, <1>3, <1>4, <1>6 DEF SameMoney, Swept
  <1> HIDE DEF bill, swept, clear, R
  <1>10. LET e == Reversed(d, o)
         IN  /\ Db(e) /\ e.outs = d.outs /\ e.bills = bill.bills
             /\ e.returns = d.returns /\ e.notes = d.notes /\ e.goods = d.goods
             /\ Swept(d, e, R, {o})
             /\ e.owed = IF o.refund THEN d.owed ELSE [d.owed EXCEPT ![o.vendor] = @ - Net(o)]
    BY <1>6, <1>7, <1>9, <1>8, OweIs DEF SameDocs, Swept
  <1>11. bill.bills = bills BY <1>6
  <1> QED BY <1>10, <1>11 DEF R, Undone

\* The bill b, if there is one and it lives, is recomputed from the copy old.
BillPaid(d, e, b, old, net) ==
    e.bills = IF b \in Bills /\ d.bills[b].doc = "live"
              THEN [d.bills EXCEPT ![b] = Repaid(d.bills[b], old.paid + net, StatusFor(old.total, old.paid + net, old.st))]
              ELSE d.bills

PaidAs(d, e, o, b, old, v, net, refund) ==
    /\ Db(e) /\ e.returns = d.returns /\ e.notes = d.notes /\ e.goods = d.goods
    /\ BillPaid(d, e, b, old, net)
    /\ Recorded(d, e, o, IF b = None THEN o.no ELSE old.number)
    /\ o.bill = b /\ o.vendor = v /\ o.refund = refund /\ ~o.auto /\ Net(o) = net

LEMMA PaidOutIs ==
    ASSUME NEW d, Db(d), NEW b \in Bills \cup {None}, NEW old, b # None => old \in BillType,
           NEW v \in Vendors, NEW amt \in Amounts, NEW disc \in Discounts, amt > disc, NEW mode \in Modes,
           NEW refund \in BOOLEAN, NextNo(d) <= MaxOuts
    PROVE  \E o \in OutType : PaidAs(d, PaidOut(d, b, old, v, amt, disc, mode, refund), o, b, old, v, amt - disc, refund)
  <1> DEFINE n      == NextNo(d)
             net    == amt - disc
             o      == [no |-> n, bill |-> b, vendor |-> v, amt |-> amt, disc |-> disc,
                        mode |-> mode, refund |-> refund, live |-> TRUE, auto |-> FALSE]
             filed  == [d EXCEPT !.outs = @ \cup {o}]
             kept   == Journal(filed, "payment_out_record", n, net)
             ref    == IF b = None THEN n ELSE old.number
             row    == RowOf(o, ref)
             cash   == IF mode = "initial_investment" THEN kept ELSE PostRow(kept, row)
             st     == StatusFor(old.total, old.paid + net, old.st)
             due    == AtLeast0(old.total - (old.paid + net))
             bill   == IF b = None THEN cash ELSE SetPaid(cash, b, old.paid + net, due, st)
             e      == PaidOut(d, b, old, v, amt, disc, mode, refund)
  <1>1. n \in 1 .. MaxOuts /\ \A p \in d.outs : p.no < n BY NextNoIs, Assumed
  <1>2. amt \in Nat \ {0} /\ disc \in Nat
    <2>1. Amounts \subseteq Nat \ {0} /\ Discounts \subseteq Nat BY Assumed
    <2> QED BY Zenon, <2>1
  <1>3. net \in Nat \ {0} /\ net \in Int BY <1>2
  <1>4. o \in OutType
    <2>1. disc \in Discounts \cup {0} OBVIOUS
    <2> QED BY <1>1, <1>2, <2>1 DEF OutType
  <1>5. Net(o) = net /\ Net(o) > 0 /\ o.live /\ o.no = n /\ o.mode = mode /\ o.refund = refund /\ o.vendor = v
    BY <1>3 DEF Net
  <1>6. ref \in Numbers \cup (1 .. MaxOuts) BY <1>1 DEF BillType
  <1>7. row \in RowType /\ Signed(row) = -net BY <1>5, <1>1, <1>3, <1>6 DEF RowOf, RowType, Signed
  <1>8. PayJournal(o) = [kind |-> "payment_out_record", id |-> n, amt |-> net] /\ PayJournal(o) \in JournalType
    BY <1>5, <1>1, <1>3 DEF PayJournal, JournalType
  <1>9. mode = "bank" \/ mode = "initial_investment" BY Assumed
  <1>10. /\ Db(filed) /\ SameDocs(d, filed) /\ filed.outs = d.outs \cup {o}
         /\ filed.rows = d.rows /\ filed.bank = d.bank /\ filed.owed = d.owed /\ filed.gl = d.gl
    <2> DEFINE S == d.outs \cup {o}
    <2>1. filed = [d EXCEPT !.outs = S] BY DEF Db, DbType
    <2> HIDE DEF filed, o
    <2>2. S \in SUBSET OutType /\ IsFiniteSet(S) BY <1>4, FS_AddElement DEF Db, DbType
    <2> HIDE DEF S
    <2>3. LET x == [d EXCEPT !.outs = S]
          IN  /\ Db(x) /\ SameDocs(d, x) /\ x.outs = S
              /\ x.rows = d.rows /\ x.bank = d.bank /\ x.owed = d.owed /\ x.gl = d.gl
      BY <2>2, WithOuts
    <2> QED BY <2>1, <2>3 DEF S
  <1>11. /\ Db(kept) /\ SameDocs(d, kept) /\ kept.outs = d.outs \cup {o}
         /\ kept.rows = d.rows /\ kept.bank = d.bank /\ kept.owed = d.owed /\ kept.gl = d.gl \cup {PayJournal(o)}
    <2> DEFINE j == [kind |-> "payment_out_record", id |-> n, amt |-> net]
    <2> HIDE DEF filed, o, n, net
    <2>1. j = PayJournal(o) /\ j \in JournalType BY <1>8
    <2>2. /\ Db(kept) /\ SameDocs(filed, kept)
          /\ kept.outs = filed.outs /\ kept.rows = filed.rows /\ kept.bank = filed.bank /\ kept.owed = filed.owed
          /\ kept.gl = filed.gl \cup {j}
      BY <1>10, <2>1, JournalIs
    <2> HIDE DEF kept, j
    <2> QED BY <1>10, <2>1, <2>2 DEF SameDocs
  <1>12. /\ Db(cash) /\ SameDocs(d, cash) /\ cash.outs = d.outs \cup {o} /\ cash.owed = d.owed
         /\ cash.gl = d.gl \cup {PayJournal(o)}
         /\ cash.rows = IF mode = "bank" THEN d.rows \cup {row} ELSE d.rows
         /\ cash.bank = IF mode = "bank" THEN d.bank - net ELSE d.bank
    <2> HIDE DEF kept, row, o, net
    <2>1. CASE mode = "bank"
      <3>1. d.bank \in Int BY DEF Db, DbType
      <3>2. d.bank + (-net) = d.bank - net BY <1>3, <3>1
      <3>3. cash = PostRow(kept, row) BY <2>1
      <3> HIDE DEF cash
      <3>4. /\ Db(cash) /\ SameDocs(kept, cash) /\ cash.outs = kept.outs /\ cash.gl = kept.gl /\ cash.owed = kept.owed
            /\ cash.rows = kept.rows \cup {row} /\ cash.bank = kept.bank + Signed(row)
        BY <1>7, <1>11, <3>3, PostRowIs
      <3> QED BY <1>7, <1>11, <2>1, <3>2, <3>4 DEF SameDocs
    <2>2. CASE mode = "initial_investment" BY <1>11, <2>2
    <2> QED BY <1>9, <2>1, <2>2
  <1>13. /\ Db(bill) /\ SameMoney(cash, bill) /\ BillPaid(d, bill, b, old, net)
         /\ bill.returns = d.returns /\ bill.notes = d.notes /\ bill.goods = d.goods
    <2> HIDE DEF cash
    <2>1. CASE b \in Bills /\ d.bills[b].doc = "live"
      <3> HIDE DEF net
      <3>1. b # None BY <2>1, Assumed
      <3>2. old.paid + net \in Int /\ old.st \in AllStatuses BY <1>3, <3>1 DEF BillType, AllStatuses
      <3>3. st \in AllStatuses BY <3>2, StatusForType
      <3> DEFINE p == old.paid + net
      <3>4. bill = SetPaid(cash, b, p, due, st) BY <3>1
      <3>8. due \in Int
        <4>1. old \in BillType BY <3>1
        <4>2. old.total \in Int BY <4>1, TotalType
        <4> QED BY <3>2, <4>2 DEF AtLeast0
      <3>5. p \in Int /\ st \in {"draft", "unpaid", "partial", "paid"} /\ cash.bills = d.bills /\ Db(cash)
            /\ cash.bills[b].doc = "live"
        BY <1>12, <2>1, <3>2, <3>3 DEF AllStatuses, SameDocs
      <3>6. BillPaid(d, bill, b, old, net) <=> bill.bills = [d.bills EXCEPT ![b] = Repaid(d.bills[b], p, st)]
        BY <2>1 DEF BillPaid
      <3> HIDE DEF p, st, due, bill
      <3>7. BillIs(cash, SetPaid(cash, b, p, due, st), b, Repaid(cash.bills[b], p, st)) BY <2>1, <3>5, <3>8, SetPaidLive
      <3> QED BY <1>12, <3>4, <3>5, <3>6, <3>7 DEF BillIs, SameDocs
    <2>2. CASE ~(b \in Bills /\ d.bills[b].doc = "live")
      <3>1. bill = cash BY <1>12, <2>2, SetPaidOther DEF SameDocs
      <3> HIDE DEF bill
      <3> QED BY <1>12, <2>2, <3>1 DEF BillPaid, SameDocs, SameMoney
    <2> QED BY <2>1, <2>2
  <1>14. e = IF refund THEN bill ELSE Owe(bill, v, net) BY <1>5 DEF PaidOut, RowOf
  <1>15. /\ Db(e) /\ e.bills = bill.bills /\ e.returns = d.returns /\ e.notes = d.notes /\ e.goods = d.goods
         /\ e.outs = cash.outs /\ e.rows = cash.rows /\ e.bank = cash.bank /\ e.gl = cash.gl
         /\ e.owed = IF refund THEN d.owed ELSE [d.owed EXCEPT ![v] = @ + net]
    <2> HIDE DEF e, bill, cash, net
    <2>1. CASE refund BY <1>12, <1>13, <1>14, <2>1 DEF SameMoney
    <2>2. CASE ~refund
      <3>1. e = Owe(bill, v, net) BY <1>14, <2>2
      <3>2. /\ Db(e) /\ SameDocs(bill, e) /\ e.outs = bill.outs /\ e.rows = bill.rows /\ e.bank = bill.bank
            /\ e.gl = bill.gl /\ e.owed = [bill.owed EXCEPT ![v] = @ + net]
        BY <1>3, <1>13, <3>1, OweIs
      <3> QED BY <1>12, <1>13, <2>2, <3>2 DEF SameMoney, SameDocs
    <2> QED BY <2>1, <2>2
  <1>16. Recorded(d, e, o, ref)
    <2> HIDE DEF e, cash, net, o
    <2> QED BY <1>1, <1>4, <1>5, <1>12, <1>15 DEF Recorded
  <1>17. o.bill = b /\ o.vendor = v /\ o.refund = refund /\ ~o.auto /\ Net(o) = net /\ ref = IF b = None THEN o.no ELSE old.number
    BY <1>5
  <1>18. BillPaid(d, e, b, old, net)
    <2> HIDE DEF e, bill, net
    <2> QED BY <1>13, <1>15 DEF BillPaid
  <1> HIDE DEF e, o, ref, bill, cash, net
  <1>19. PaidAs(d, e, o, b, old, v, net, refund) BY <1>15, <1>16, <1>17, <1>18 DEF PaidAs
  <1> QED BY <1>4, <1>19 DEF e, net

-----------------------------------------------------------------------------
(* What the handlers of a bill change *)

BillJournal(b, bill) == [kind |-> "purchase_bill", id |-> b, amt |-> bill.total]

LEMMA ContributionType == ASSUME NEW bill \in BillType PROVE Contribution(bill) \in Int
  BY TotalType DEF Contribution

LEMMA BillJournalType ==
    ASSUME NEW b \in Bills, NEW bill \in BillType
    PROVE  BillJournal(b, bill) \in JournalType
  <1>1. bill.total \in Int BY TotalType
  <1> QED BY <1>1 DEF BillJournal, JournalType

LEMMA BillTyped ==
    ASSUME NEW v \in Vendors, NEW number \in Numbers, NEW st \in Statuses, NEW total \in Totals,
           NEW paid \in {0} \cup Amounts
    PROVE  /\ Bill(v, number, st, total, paid) \in BillType
           /\ Bill(v, number, st, total, paid).paid \in Nat
           /\ paid = 0 /\ st # "paid" => Bill(v, number, st, total, paid).paid = 0
  <1>1. total \in Nat \ {0}
    <2>1. Totals \subseteq Nat \ {0} BY Assumed
    <2> QED BY Zenon, <2>1
  <1>2. paid \in Nat
    <2>1. CASE paid = 0 BY <2>1
    <2>2. CASE paid \in Amounts
      <3>1. Amounts \subseteq Nat \ {0} BY Assumed
      <3>2. paid \in Nat \ {0} BY Zenon, <2>2, <3>1
      <3> QED BY <3>2
    <2> QED BY <2>1, <2>2
  <1>3. st \in AllStatuses
    <2>1. Statuses \subseteq AllStatuses BY Assumed
    <2> QED BY Zenon, <2>1
  <1>4. FinalPaid(st, total, paid) \in Nat /\ (paid = 0 /\ st # "paid" => FinalPaid(st, total, paid) = 0)
    BY <1>1, <1>2 DEF FinalPaid, Min2
  <1> DEFINE p == FinalPaid(st, total, paid)
             new == Bill(v, number, st, total, paid)
  <1>5. new = [doc |-> "live", vendor |-> v, number |-> number, st |-> st, total |-> total, paid |-> p]
    BY DEF Bill
  <1> HIDE DEF p, new
  <1>6. new \in BillType /\ new.paid = p BY <1>3, <1>4, <1>5 DEF BillType, AllStatuses, p
  <1> QED BY <1>4, <1>6 DEF p, new

\* The database with the bill b filed and posted, before it is paid.
Filed(d, e, b, bill) ==
    /\ Db(e)
    /\ e.bills = [d.bills EXCEPT ![b] = bill] /\ e.returns = d.returns /\ e.notes = d.notes /\ e.goods = d.goods
    /\ e.outs = d.outs /\ e.rows = d.rows /\ e.bank = d.bank
    /\ e.gl = d.gl \cup {BillJournal(b, bill)}
    /\ e.owed = [d.owed EXCEPT ![bill.vendor] = @ - bill.total]

LEMMA CreatedIs ==
    ASSUME NEW d, Db(d), NEW b \in Bills, NEW bill \in BillType, NEW mode \in Modes
    PROVE  /\ bill.st = "draft" => BillIs(d, Created(d, b, bill, mode), b, bill)
           /\ bill.st # "draft" => \E f : Filed(d, f, b, bill) /\ Created(d, b, bill, mode) = PayLinked(f, b, bill, bill.paid, mode)
  <1> DEFINE kept  == SaveBill(d, b, bill)
             known == Journal(kept, "purchase_bill", b, bill.total)
             f     == Owe(known, bill.vendor, -bill.total)
  <1>1. BillIs(d, kept, b, bill) BY SaveBillIs
  <1>2. CASE bill.st = "draft" BY <1>1, <1>2 DEF Created
  <1>3. CASE bill.st # "draft"
    <2>1. bill.total \in Int /\ -bill.total \in Int /\ bill.vendor \in Vendors /\ BillJournal(b, bill) \in JournalType
      BY TotalType, BillJournalType DEF BillType
    <2>2. Db(kept) BY <1>1 DEF BillIs
    <2>3. /\ Db(known) /\ SameDocs(kept, known)
          /\ known.outs = kept.outs /\ known.rows = kept.rows /\ known.bank = kept.bank /\ known.owed = kept.owed
          /\ known.gl = kept.gl \cup {BillJournal(b, bill)}
      <3> HIDE DEF kept
      <3> QED BY <2>1, <2>2, JournalIs DEF BillJournal
    <2>4. /\ Db(f) /\ SameDocs(known, f)
          /\ f.outs = known.outs /\ f.rows = known.rows /\ f.bank = known.bank /\ f.gl = known.gl
          /\ f.owed = [known.owed EXCEPT ![bill.vendor] = @ + (-bill.total)]
      <3> HIDE DEF known
      <3> QED BY <2>1, <2>3, OweIs
    <2>5. d.owed[bill.vendor] + (-bill.total) = d.owed[bill.vendor] - bill.total
      <3>1. d.owed[bill.vendor] \in Int BY <2>1 DEF Db, DbType
      <3> QED BY <2>1, <3>1
    <2>6. Created(d, b, bill, mode) = PayLinked(f, b, bill, bill.paid, mode) BY <1>3 DEF Created
    <2> HIDE DEF kept, known, f
    <2>7. Filed(d, f, b, bill) BY <1>1, <2>3, <2>4, <2>5 DEF Filed, BillIs, SameDocs, SameMoney
    <2> QED BY <1>3, <2>6, <2>7
  <1> QED BY <1>2, <1>3

\* The bill's journal and contribution replaced, everything else kept.
Rebilled(d, e, b, posted, owed) ==
    /\ Db(e) /\ SameDocs(d, e) /\ e.outs = d.outs /\ e.rows = d.rows /\ e.bank = d.bank
    /\ e.gl = {g \in d.gl : ~(g.kind = "purchase_bill" /\ g.id \in {b})} \cup posted
    /\ e.owed = owed

PostedAs(b, bill) == IF bill.st = "draft" THEN {} ELSE {BillJournal(b, bill)}

MovedTo(owed, from, less, to, more) == [[owed EXCEPT ![from] = @ - less] EXCEPT ![to] = @ + more]

LEMMA RebilledIs ==
    ASSUME NEW d, Db(d), NEW b \in Bills, NEW old \in BillType, NEW new \in BillType
    PROVE  LET bare   == Unjournal(d, "purchase_bill", {b})
               posted == IF new.st = "draft" THEN bare ELSE Journal(bare, "purchase_bill", b, new.total)
               e      == Owe(Owe(posted, old.vendor, -Contribution(old)), new.vendor, Contribution(new))
           IN  Rebilled(d, e, b, PostedAs(b, new),
                        MovedTo(d.owed, old.vendor, Contribution(old), new.vendor, Contribution(new)))
  <1> DEFINE bare   == Unjournal(d, "purchase_bill", {b})
             posted == IF new.st = "draft" THEN bare ELSE Journal(bare, "purchase_bill", b, new.total)
             less   == Owe(posted, old.vendor, -Contribution(old))
             e      == Owe(less, new.vendor, Contribution(new))
             G      == {g \in d.gl : ~(g.kind = "purchase_bill" /\ g.id \in {b})}
  <1>1. /\ Contribution(old) \in Int /\ -Contribution(old) \in Int /\ Contribution(new) \in Int
        /\ old.vendor \in Vendors /\ new.vendor \in Vendors /\ BillJournal(b, new) \in JournalType
    BY ContributionType, BillJournalType DEF BillType
  <1>2. /\ Db(bare) /\ SameDocs(d, bare) /\ bare.outs = d.outs /\ bare.rows = d.rows /\ bare.bank = d.bank
        /\ bare.owed = d.owed /\ bare.gl = G
    BY UnjournalIs
  <1>3. /\ Db(posted) /\ SameDocs(d, posted) /\ posted.outs = d.outs /\ posted.rows = d.rows
        /\ posted.bank = d.bank /\ posted.owed = d.owed /\ posted.gl = G \cup PostedAs(b, new)
    <2> HIDE DEF bare, G
    <2>1. CASE new.st = "draft" BY <1>2, <2>1 DEF PostedAs
    <2>2. CASE new.st # "draft" BY <2>2, <1>1, <1>2, JournalIs DEF BillJournal, PostedAs, SameDocs
    <2> QED BY <2>1, <2>2
  <1> HIDE DEF posted, bare, G
  <1>4. /\ Db(less) /\ SameDocs(posted, less) /\ less.outs = posted.outs /\ less.rows = posted.rows
        /\ less.bank = posted.bank /\ less.gl = posted.gl
        /\ less.owed = [posted.owed EXCEPT ![old.vendor] = @ + (-Contribution(old))]
    BY <1>1, <1>3, OweIs
  <1>5. /\ Db(e) /\ SameDocs(less, e) /\ e.outs = less.outs /\ e.rows = less.rows
        /\ e.bank = less.bank /\ e.gl = less.gl
        /\ e.owed = [less.owed EXCEPT ![new.vendor] = @ + Contribution(new)]
    <2> HIDE DEF less
    <2> QED BY <1>1, <1>4, OweIs
  <1>6. less.owed = [d.owed EXCEPT ![old.vendor] = @ - Contribution(old)] BY <1>1, <1>3, <1>4 DEF Db, DbType
  <1> HIDE DEF less, e
  <1>7. e.owed = MovedTo(d.owed, old.vendor, Contribution(old), new.vendor, Contribution(new))
    BY <1>5, <1>6 DEF MovedTo
  <1>8. Rebilled(d, e, b, PostedAs(b, new), MovedTo(d.owed, old.vendor, Contribution(old), new.vendor, Contribution(new)))
    BY <1>3, <1>4, <1>5, <1>7 DEF Rebilled, SameDocs, G
  <1> QED BY <1>8 DEF e, less, posted, bare

\* An edit: the bill saved, its payments reversed and made again, its journal
\* and its contribution replaced.
LEMMA EditedIs ==
    ASSUME NEW d, Db(d), NEW b \in Bills, NEW old \in BillType, NEW new \in BillType, new.paid \in Nat,
           NEW mode \in Modes, NextNo(d) <= MaxOuts
    PROVE  LET saved    == SaveBill(d, b, new)
               reversed == ReverseLinked(saved, b, old.vendor, old.number)
               paid     == PayLinked(reversed, b, new, new.paid, mode)
           IN  /\ BillIs(d, saved, b, new)
               /\ Db(reversed) /\ Db(paid) /\ NextNo(reversed) <= MaxOuts
               /\ Rebilled(paid, Edited(d, b, old, new, mode), b, PostedAs(b, new),
                           MovedTo(paid.owed, old.vendor, Contribution(old), new.vendor, Contribution(new)))
  <1> DEFINE saved    == SaveBill(d, b, new)
             reversed == ReverseLinked(saved, b, old.vendor, old.number)
             paid     == PayLinked(reversed, b, new, new.paid, mode)
  <1>1. BillIs(d, saved, b, new) BY SaveBillIs
  <1>2. Db(saved) /\ saved.outs = d.outs BY <1>1 DEF BillIs, SameMoney
  <1>3. old.vendor \in Vendors BY DEF BillType
  <1>4. Db(reversed) /\ reversed.outs \subseteq d.outs
    <2> HIDE DEF saved
    <2>1. Unlinked(saved, reversed, b, old.vendor, old.number) BY <1>2, <1>3, ReverseLinkedIs
    <2> HIDE DEF reversed
    <2> QED BY <1>2, <2>1 DEF Unlinked
  <1>5. NextNo(reversed) <= MaxOuts BY <1>4, NextNoFalls, NextNoIs, Assumed
  <1>6. Db(paid)
    <2> HIDE DEF reversed
    <2> QED BY <1>4, <1>5, PayLinkedIs
  <1>7. Edited(d, b, old, new, mode) =
           LET bare   == Unjournal(paid, "purchase_bill", {b})
               posted == IF new.st = "draft" THEN bare ELSE Journal(bare, "purchase_bill", b, new.total)
           IN  Owe(Owe(posted, old.vendor, -Contribution(old)), new.vendor, Contribution(new))
    BY DEF Edited
  <1>8. Rebilled(paid, Edited(d, b, old, new, mode), b, PostedAs(b, new),
                 MovedTo(paid.owed, old.vendor, Contribution(old), new.vendor, Contribution(new)))
    <2> HIDE DEF paid
    <2> QED BY <1>6, <1>7, RebilledIs
  <1> QED BY <1>1, <1>4, <1>5, <1>6, <1>8

\* A deletion.
Erased(d, b, old) ==
    LET gone == [ReverseLinked(d, b, old.vendor, old.number) EXCEPT !.bills[b] = [doc |-> "deleted"]]
    IN  Owe(Unjournal(gone, "purchase_bill", {b}), old.vendor, -Contribution(old))

LEMMA ErasedIs ==
    ASSUME NEW d, Db(d), NEW b \in Bills, NEW old \in BillType
    PROVE  LET reversed == ReverseLinked(d, b, old.vendor, old.number)
               gone     == [reversed EXCEPT !.bills[b] = [doc |-> "deleted"]]
           IN  /\ Db(reversed)
               /\ BillIs(reversed, gone, b, [doc |-> "deleted"])
               /\ Rebilled(gone, Erased(d, b, old), b, {}, [gone.owed EXCEPT ![old.vendor] = @ - Contribution(old)])
  <1> DEFINE reversed == ReverseLinked(d, b, old.vendor, old.number)
             x        == [doc |-> "deleted"]
             gone     == [reversed EXCEPT !.bills[b] = x]
             bare     == Unjournal(gone, "purchase_bill", {b})
             e        == Owe(bare, old.vendor, -Contribution(old))
             G        == {g \in gone.gl : ~(g.kind = "purchase_bill" /\ g.id \in {b})}
  <1>1. old.vendor \in Vendors /\ Contribution(old) \in Int /\ -Contribution(old) \in Int
    BY ContributionType DEF BillType
  <1>2. Db(reversed) BY <1>1, ReverseLinkedIs DEF Unlinked
  <1>3. BillIs(reversed, gone, b, x) BY <1>2, WithBill DEF Gone, BillIs
  <1>4. Db(gone) BY <1>3 DEF BillIs
  <1> HIDE DEF gone
  <1>5. /\ Db(bare) /\ SameDocs(gone, bare) /\ bare.outs = gone.outs /\ bare.rows = gone.rows /\ bare.bank = gone.bank
        /\ bare.owed = gone.owed /\ bare.gl = G
    BY <1>4, UnjournalIs
  <1> HIDE DEF bare
  <1>6. /\ Db(e) /\ SameDocs(bare, e) /\ e.outs = bare.outs /\ e.rows = bare.rows /\ e.bank = bare.bank
        /\ e.gl = bare.gl /\ e.owed = [bare.owed EXCEPT ![old.vendor] = @ + (-Contribution(old))]
    BY <1>1, <1>5, OweIs
  <1>7. gone.owed[old.vendor] + (-Contribution(old)) = gone.owed[old.vendor] - Contribution(old)
    <2>1. gone.owed[old.vendor] \in Int BY <1>1, <1>4 DEF Db, DbType
    <2> QED BY <1>1, <2>1
  <1> HIDE DEF e
  <1>8. Rebilled(gone, e, b, {}, [gone.owed EXCEPT ![old.vendor] = @ - Contribution(old)])
    BY <1>5, <1>6, <1>7 DEF Rebilled, SameDocs
  <1>9. e = Erased(d, b, old) BY DEF e, bare, gone, Erased
  <1> QED BY <1>2, <1>3, <1>8, <1>9 DEF gone

-----------------------------------------------------------------------------
(* Every table and request keeps its type, whatever clients and faults do *)

LEMMA RequestIs ==
    ASSUME NEW q \in RequestType
    PROVE  /\ q.op \in {"update_bill", "mark_paid", "delete_bill", "pay_bill"} => q \in BillRequest
           /\ q.op \in {"cancel_out", "delete_out"} => q \in OutRequest
           /\ q.op = "process_return" => q \in ReturnRequest
           /\ q.op \in {"issue_note", "cancel_note"} => q \in NoteRequest
  BY DEF RequestType, Idle, BillRequest, OutRequest, ReturnRequest, NoteRequest

LEMMA DoneType ==
    ASSUME req \in [Requests -> RequestType], NEW r \in Requests, Done(r)
    PROVE  req' \in [Requests -> RequestType] /\ req'[r] = Idle
  BY DEF Done, RequestType

LEMMA StepType ==
    ASSUME req \in [Requests -> RequestType], NEW r \in Requests, NEW k \in 1 .. 3,
           req[r].op \in {"mark_paid", "process_return"}, req' = [req EXCEPT ![r].step = k]
    PROVE  req' \in [Requests -> RequestType]
  BY RequestIs DEF BillRequest, RequestType, ReturnRequest

LEMMA BeginType ==
    ASSUME req \in [Requests -> RequestType], NEW r \in Requests, NEW op, NEW id, NEW seen,
           [op |-> op, id |-> id, seen |-> seen, step |-> 1] \in RequestType, Begin(r, op, id, seen)
    PROVE  req' \in [Requests -> RequestType] /\ db' = db
  BY DEF Begin

LEMMA TakenType ==
    ASSUME TypeInv
    PROVE  /\ \A b \in Bills : db.bills[b].doc = "live" => db.bills[b] \in BillType
           /\ \A t \in Returns : db.returns[t].doc = "live" => db.returns[t] \in ReturnType
           /\ \A n \in Notes \cup Returns : db.notes[n].doc = "live" => db.notes[n] \in NoteType
  BY DEF TypeInv, Db, DbType, Gone, Unused

LEMMA CreateBillType ==
    ASSUME TypeInv, NEW b \in Bills, NEW v \in Vendors, NEW st \in Statuses, NEW total \in Totals,
           NEW paid \in {0} \cup Amounts, NEW mode \in Modes, NEW number \in NumbersOf(b),
           CreateBill(b, v, number, st, total, paid, mode)
    PROVE  TypeInv'
  <1> DEFINE bill == Bill(v, number, st, total, paid)
  <1>1. number \in Numbers BY NoOverlap
  <1>2. bill \in BillType /\ bill.paid \in Nat BY <1>1, BillTyped
  <1>3. db' = Created(db, b, bill, mode) /\ req' = req /\ NextNo(db) <= MaxOuts BY DEF CreateBill
  <1>4. Db(db) /\ req \in [Requests -> RequestType] BY DEF TypeInv
  <1> HIDE DEF bill
  <1>5. Db(db')
    <2>1. CASE bill.st = "draft" BY <1>2, <1>3, <1>4, <2>1, CreatedIs DEF BillIs
    <2>2. CASE bill.st # "draft"
      <3>1. PICK f : Filed(db, f, b, bill) /\ Created(db, b, bill, mode) = PayLinked(f, b, bill, bill.paid, mode)
        BY <1>2, <1>4, <2>2, CreatedIs
      <3>2. Db(f) /\ f.outs = db.outs BY <3>1 DEF Filed
      <3>3. NextNo(f) <= MaxOuts BY <1>3, <3>2 DEF NextNo
      <3>4. Db(PayLinked(f, b, bill, bill.paid, mode)) BY <1>2, <3>2, <3>3, PayLinkedIs
      <3> QED BY <1>3, <3>1, <3>4
    <2> QED BY <2>1, <2>2
  <1> QED BY <1>3, <1>4, <1>5 DEF TypeInv

LEMMA LoadBillType ==
    ASSUME TypeInv, NEW r \in Requests, NEW b \in Bills, NEW op \in {"update_bill", "mark_paid", "delete_bill", "pay_bill"},
           LoadBill(r, op, b)
    PROVE  TypeInv'
  <1>1. db.bills[b] \in BillType /\ Begin(r, op, b, db.bills[b]) BY TakenType DEF LoadBill
  <1>2. [op |-> op, id |-> b, seen |-> db.bills[b], step |-> 1] \in RequestType
    BY <1>1 DEF RequestType, BillRequest
  <1> QED BY <1>1, <1>2, BeginType DEF TypeInv

LEMMA UpdateBillType ==
    ASSUME TypeInv, NEW r \in Requests, NEW v \in Vendors, NEW st \in Statuses, NEW total \in Totals,
           NEW paid \in {0} \cup Amounts, NEW mode \in Modes, NEW number \in Numbers,
           UpdateBill(r, v, number, st, total, paid, mode)
    PROVE  TypeInv'
  <1> DEFINE new == Bill(v, number, st, total, paid)
             b   == req[r].id
             old == req[r].seen
  <1>1. new \in BillType /\ new.paid \in Nat BY BillTyped
  <1>2. Db(db) /\ req \in [Requests -> RequestType] BY DEF TypeInv
  <1>3. req[r] \in BillRequest BY <1>2, RequestIs DEF UpdateBill
  <1>4. b \in Bills /\ old \in BillType BY <1>3 DEF BillRequest
  <1>5. db' = Edited(db, b, old, new, mode) /\ NextNo(db) <= MaxOuts /\ Done(r) BY DEF UpdateBill
  <1> HIDE DEF new, b, old
  <1>6. Db(db') BY <1>1, <1>2, <1>4, <1>5, EditedIs DEF Rebilled
  <1> QED BY <1>2, <1>5, <1>6, DoneType DEF TypeInv

LEMMA MarkSaveType ==
    ASSUME TypeInv, NEW r \in Requests, MarkSave(r)
    PROVE  TypeInv'
  <1> DEFINE b == req[r].id
             n == req[r].seen.total
  <1>1. Db(db) /\ req \in [Requests -> RequestType] BY DEF TypeInv
  <1>2. req[r].op = "mark_paid" /\ db' = SetPaid(db, b, n, 0, "paid") /\ req' = [req EXCEPT ![r].step = 2]
    BY DEF MarkSave
  <1>3. req[r] \in BillRequest BY <1>1, <1>2, RequestIs
  <1>4. b \in Bills /\ n \in Int BY <1>3, TotalType DEF BillRequest
  <1> HIDE DEF b, n
  <1>5. Db(db')
    <2>1. CASE db.bills[b].doc = "live"
      <3>1. 0 \in Int OBVIOUS
      <3> QED BY <1>1, <1>2, <1>4, <2>1, <3>1, SetPaidLive DEF BillIs
    <2>2. CASE db.bills[b].doc # "live" BY <1>1, <1>2, <2>2, SetPaidOther
    <2> QED BY <2>1, <2>2
  <1>6. req' \in [Requests -> RequestType]
    <2>1. 2 \in 1 .. 3 /\ req[r].op \in {"mark_paid", "process_return"} BY <1>2
    <2> QED BY <1>1, <1>2, <2>1, StepType
  <1> QED BY <1>5, <1>6 DEF TypeInv

LEMMA MarkReverseType ==
    ASSUME TypeInv, NEW r \in Requests, MarkReverse(r)
    PROVE  TypeInv'
  <1> DEFINE b == req[r].id
             s == req[r].seen
  <1>1. Db(db) /\ req \in [Requests -> RequestType] BY DEF TypeInv
  <1>2. req[r].op = "mark_paid" /\ db' = ReverseLinked(db, b, s.vendor, s.number) /\ req' = [req EXCEPT ![r].step = 3]
    BY DEF MarkReverse
  <1>3. req[r] \in BillRequest BY <1>1, <1>2, RequestIs
  <1>4. s.vendor \in Vendors BY <1>3 DEF BillRequest, BillType
  <1> HIDE DEF b, s
  <1>5. Unlinked(db, db', b, s.vendor, s.number) BY <1>1, <1>2, <1>4, ReverseLinkedIs
  <1>6. req' \in [Requests -> RequestType]
    <2>1. 3 \in 1 .. 3 /\ req[r].op \in {"mark_paid", "process_return"} BY <1>2
    <2> QED BY <1>1, <1>2, <2>1, StepType
  <1> QED BY <1>5, <1>6 DEF TypeInv, Unlinked

LEMMA MarkPayType ==
    ASSUME TypeInv, NEW r \in Requests, NEW mode \in Modes, MarkPay(r, mode)
    PROVE  TypeInv'
  BY RequestIs, TotalType, PayLinkedIs, DoneType DEF TypeInv, MarkPay, BillRequest

LEMMA DeleteBillType ==
    ASSUME TypeInv, NEW r \in Requests, DeleteBill(r)
    PROVE  TypeInv' /\ db' = Erased(db, req[r].id, req[r].seen)
  <1> DEFINE b == req[r].id
             s == req[r].seen
  <1>1. Db(db) /\ req \in [Requests -> RequestType] BY DEF TypeInv
  <1>2. req[r].op = "delete_bill" /\ db' = Erased(db, b, s) /\ Done(r) BY DEF DeleteBill, Erased
  <1>3. req[r] \in BillRequest BY <1>1, <1>2, RequestIs
  <1>4. b \in Bills /\ s \in BillType BY <1>3 DEF BillRequest
  <1> HIDE DEF b, s
  <1>5. Db(db') BY <1>1, <1>2, <1>4, ErasedIs DEF Rebilled
  <1> QED BY <1>1, <1>2, <1>5, DoneType DEF TypeInv, b, s

LEMMA PayBillType ==
    ASSUME TypeInv, NEW r \in Requests, NEW amt \in Amounts, NEW disc \in Discounts, NEW mode \in Modes,
           PayBill(r, amt, disc, mode)
    PROVE  TypeInv'
  <1> DEFINE b == req[r].id
             s == req[r].seen
  <1>1. Db(db) /\ req \in [Requests -> RequestType] BY DEF TypeInv
  <1>2. /\ req[r].op = "pay_bill" /\ db' = PaidOut(db, b, s, s.vendor, amt, disc, mode, FALSE) /\ Done(r)
        /\ amt > disc /\ NextNo(db) <= MaxOuts
    BY DEF PayBill
  <1>3. req[r] \in BillRequest BY <1>1, <1>2, RequestIs
  <1>4. b \in Bills \cup {None} /\ s \in BillType /\ s.vendor \in Vendors BY <1>3 DEF BillRequest, BillType
  <1> HIDE DEF b, s
  <1>5. \E o \in OutType : PaidAs(db, db', o, b, s, s.vendor, amt - disc, FALSE) BY <1>1, <1>2, <1>4, PaidOutIs
  <1> QED BY <1>1, <1>2, <1>5, DoneType DEF TypeInv, PaidAs

LEMMA PayVendorType ==
    ASSUME TypeInv, NEW v \in Vendors, NEW amt \in Amounts, NEW disc \in Discounts, NEW mode \in Modes,
           NEW refund \in BOOLEAN, PayVendor(v, amt, disc, mode, refund)
    PROVE  TypeInv'
  BY PaidOutIs DEF TypeInv, PayVendor, PaidAs

LEMMA LoadOutType ==
    ASSUME TypeInv, NEW r \in Requests, NEW o \in db.outs, NEW op \in {"cancel_out", "delete_out"}, LoadOut(r, op, o)
    PROVE  TypeInv'
  BY BeginType DEF TypeInv, Db, DbType, OutType, RequestType, OutRequest, LoadOut

\* The payments but those under the number of o, and these cancelled.
Others(d, o)    == {x \in d.outs : x.no # o.no}
Cancelled(d, o) == {[x EXCEPT !.live = FALSE] : x \in {y \in d.outs : y.no = o.no}}

LEMMA CancelledType ==
    ASSUME NEW d, Db(d), NEW o
    PROVE  /\ Others(d, o) \in SUBSET OutType /\ IsFiniteSet(Others(d, o))
           /\ Cancelled(d, o) \in SUBSET OutType /\ IsFiniteSet(Cancelled(d, o))
  <1>1. Others(d, o) \in SUBSET OutType /\ IsFiniteSet(Others(d, o)) BY FS_Subset DEF Others, Db, DbType
  <1> DEFINE S == {y \in d.outs : y.no = o.no}
             f == [x \in S |-> [x EXCEPT !.live = FALSE]]
  <1>2. IsFiniteSet(S) /\ S \subseteq OutType BY FS_Subset DEF Db, DbType
  <1>3. ASSUME NEW x \in S PROVE f[x] \in OutType
    <2>1. x \in OutType BY <1>2
    <2>2. [x EXCEPT !.live = FALSE] \in OutType BY <2>1 DEF OutType
    <2> QED BY <2>2
  <1>4. Cancelled(d, o) = {f[x] : x \in S} BY DEF Cancelled
  <1>5. f \in Surjection(S, {f[x] : x \in S}) BY DEF Surjection
  <1> HIDE DEF f, S
  <1>6. IsFiniteSet({f[x] : x \in S}) BY <1>2, <1>5, FS_Surjection
  <1> QED BY <1>1, <1>3, <1>4, <1>6

\* A payment undone, and cancelled or deleted.
CancelledIn(d, e, o) == \E u : Undone(d, u, o) /\ Db(e) /\ SameDocs(u, e) /\ e.rows = u.rows /\ e.bank = u.bank
                                 /\ e.owed = u.owed /\ e.gl = u.gl /\ e.outs = Others(d, o) \cup Cancelled(d, o)
DeletedIn(d, e, o)   == \E u : Undone(d, u, o) /\ Db(e) /\ SameDocs(u, e) /\ e.rows = u.rows /\ e.bank = u.bank
                                 /\ e.owed = u.owed /\ e.gl = u.gl /\ e.outs = Others(d, o)

LEMMA WithOutsIs ==
    ASSUME NEW d, NEW u, NEW o, Undone(d, u, o), NEW S \in SUBSET OutType, IsFiniteSet(S), NEW e, e = [u EXCEPT !.outs = S]
    PROVE  /\ Db(e) /\ SameDocs(u, e) /\ e.rows = u.rows /\ e.bank = u.bank
           /\ e.owed = u.owed /\ e.gl = u.gl /\ e.outs = S
  BY WithOuts DEF Undone

LEMMA CancelOutType ==
    ASSUME TypeInv, NEW r \in Requests, CancelOut(r)
    PROVE  TypeInv' /\ CancelledIn(db, db', req[r].seen)
  <1> DEFINE o == req[r].seen
             u == Reversed(db, o)
             S == Others(db, o) \cup Cancelled(db, o)
  <1>1. Db(db) /\ req \in [Requests -> RequestType] BY DEF TypeInv
  <1>2. req[r] \in OutRequest BY <1>1, RequestIs DEF CancelOut
  <1>3. o \in OutType BY <1>2 DEF OutRequest
  <1>4. Undone(db, u, o) BY <1>1, <1>3, ReversedIs
  <1>5. db' = [u EXCEPT !.outs = S] /\ Done(r) BY <1>4 DEF Undone, CancelOut, Cancelled, Others
  <1>6. S \in SUBSET OutType /\ IsFiniteSet(S) BY <1>1, CancelledType, FS_Union
  <1> HIDE DEF o, u, S
  <1>7. /\ Db(db') /\ SameDocs(u, db') /\ db'.rows = u.rows /\ db'.bank = u.bank
        /\ db'.owed = u.owed /\ db'.gl = u.gl /\ db'.outs = S
    BY <1>4, <1>5, <1>6, WithOutsIs
  <1>8. CancelledIn(db, db', o) BY <1>4, <1>7 DEF CancelledIn, S
  <1> QED BY <1>1, <1>5, <1>7, <1>8, DoneType DEF TypeInv, o

LEMMA DeleteOutType ==
    ASSUME TypeInv, NEW r \in Requests, DeleteOut(r)
    PROVE  TypeInv' /\ DeletedIn(db, db', req[r].seen)
  <1> DEFINE o == req[r].seen
             u == Reversed(db, o)
             S == Others(db, o)
  <1>1. Db(db) /\ req \in [Requests -> RequestType] BY DEF TypeInv
  <1>2. req[r] \in OutRequest BY <1>1, RequestIs DEF DeleteOut
  <1>3. o \in OutType BY <1>2 DEF OutRequest
  <1>4. Undone(db, u, o) BY <1>1, <1>3, ReversedIs
  <1>5. db' = [u EXCEPT !.outs = S] /\ Done(r) BY <1>4 DEF Undone, DeleteOut, Others
  <1>6. S \in SUBSET OutType /\ IsFiniteSet(S) BY <1>1, CancelledType
  <1> HIDE DEF o, u, S
  <1>7. /\ Db(db') /\ SameDocs(u, db') /\ db'.rows = u.rows /\ db'.bank = u.bank
        /\ db'.owed = u.owed /\ db'.gl = u.gl /\ db'.outs = S
    BY <1>4, <1>5, <1>6, WithOutsIs
  <1>8. DeletedIn(db, db', o) BY <1>4, <1>7 DEF DeletedIn, S
  <1> QED BY <1>1, <1>5, <1>7, <1>8, DoneType DEF TypeInv, o

-----------------------------------------------------------------------------
(* Returns and notes *)

LEMMA CreateReturnType ==
    ASSUME TypeInv, NEW t \in Returns, NEW b \in Bills \cup {None}, NEW v \in Vendors, NEW amt \in Amounts,
           NEW money \in BOOLEAN, CreateReturn(t, b, v, amt, money)
    PROVE  TypeInv'
  BY WithReturn DEF ReturnType, TypeInv, CreateReturn

LEMMA ReviseReturnType ==
    ASSUME TypeInv, NEW t \in Returns, NEW money \in BOOLEAN, ReviseReturn(t, money)
    PROVE  TypeInv'
  <1> DEFINE x == [db.returns[t] EXCEPT !.money = money]
  <1>1. db.returns[t] \in ReturnType BY TakenType DEF ReviseReturn
  <1>2. x \in ReturnType BY <1>1 DEF ReturnType
  <1>3. Db(db) /\ req \in [Requests -> RequestType] BY DEF TypeInv
  <1>4. db' = [db EXCEPT !.returns[t] = x] /\ req' = req BY <1>3 DEF ReviseReturn, Db, DbType
  <1> HIDE DEF x
  <1> QED BY <1>2, <1>3, <1>4, WithReturn DEF TypeInv

LEMMA DeleteReturnType ==
    ASSUME TypeInv, NEW t \in Returns, DeleteReturn(t)
    PROVE  TypeInv'
  BY WithReturn DEF Gone, TypeInv, DeleteReturn

LEMMA LoadReturnType ==
    ASSUME TypeInv, NEW r \in Requests, NEW t \in Returns, LoadReturn(r, t)
    PROVE  TypeInv'
  <1>1. db.returns[t] \in ReturnType /\ Begin(r, "process_return", t, db.returns[t]) BY TakenType DEF LoadReturn
  <1>2. [op |-> "process_return", id |-> t, seen |-> db.returns[t], step |-> 1] \in RequestType
    BY <1>1 DEF RequestType, ReturnRequest
  <1> QED BY <1>1, <1>2, BeginType DEF TypeInv

\* The return t is processed as it was read, and its goods are out.
ProcessedIn(d, e, t, seen) ==
    /\ Db(e) /\ SameMoney(d, e) /\ e.bills = d.bills /\ e.notes = d.notes
    /\ e.goods = [d.goods EXCEPT ![t] = @ + 1]
    /\ e.returns = [d.returns EXCEPT ![t] = [seen EXCEPT !.st = "processed"]]

LEMMA ProcessReturnType ==
    ASSUME TypeInv, NEW r \in Requests, ProcessReturn(r)
    PROVE  TypeInv' /\ ProcessedIn(db, db', req[r].id, req[r].seen)
  <1> DEFINE t    == req[r].id
             s    == req[r].seen
             x    == [s EXCEPT !.st = "processed"]
             kept == [db EXCEPT !.goods[t] = @ + 1]
  <1>1. Db(db) /\ req \in [Requests -> RequestType] BY DEF TypeInv
  <1>2. req[r].op = "process_return" /\ req' = [req EXCEPT ![r].step = 2] BY DEF ProcessReturn
  <1>3. req[r] \in ReturnRequest BY <1>1, <1>2, RequestIs
  <1>4. t \in Returns /\ s \in ReturnType BY <1>3 DEF ReturnRequest
  <1>5. x \in ReturnType BY <1>4 DEF ReturnType
  <1>6. db' = [db EXCEPT !.goods[t] = @ + 1, !.returns[t] = x] BY DEF ProcessReturn
  <1>7. db' = [kept EXCEPT !.returns[t] = x] BY <1>1, <1>6 DEF Db, DbType
  <1> HIDE DEF x, s, t
  <1>8. /\ Db(kept) /\ SameMoney(db, kept) /\ kept.goods = [db.goods EXCEPT ![t] = @ + 1]
        /\ kept.bills = db.bills /\ kept.returns = db.returns /\ kept.notes = db.notes
    BY <1>1, <1>4, WithGoods
  <1> HIDE DEF kept
  <1>9. /\ Db(db') /\ SameMoney(kept, db') /\ db'.returns = [kept.returns EXCEPT ![t] = x]
        /\ db'.bills = kept.bills /\ db'.notes = kept.notes /\ db'.goods = kept.goods
    BY <1>4, <1>5, <1>7, <1>8, WithReturn
  <1>10. ProcessedIn(db, db', t, s) BY <1>8, <1>9 DEF ProcessedIn, SameMoney, x
  <1>11. req' \in [Requests -> RequestType]
    <2>1. 2 \in 1 .. 3 /\ req[r].op \in {"mark_paid", "process_return"} BY <1>2
    <2> QED BY <1>1, <1>2, <2>1, StepType
  <1> QED BY <1>9, <1>10, <1>11 DEF TypeInv, t, s

\* The bill b with another amount paid and the status that goes with it, or as it was.
Settlement(bill, paid) == Repaid(bill, paid, StatusFor(bill.total, paid, "unpaid"))

SettledIn(d, e, b) ==
    \/ e = d
    \/ /\ b \in Bills /\ d.bills[b] \in BillType
       /\ \E paid \in Int : BillIs(d, e, b, Settlement(d.bills[b], paid))

LEMMA SettledIs ==
    ASSUME NEW d, Db(d), NEW b \in Bills \cup {None}, NEW amt \in Nat
    PROVE  SettledIn(d, Settled(d, b, amt), b)
  <1>1. CASE b = None \/ (b # None /\ d.bills[b].doc # "live") BY <1>1 DEF Settled, SettledIn
  <1>2. CASE ~(b = None \/ (b # None /\ d.bills[b].doc # "live"))
    <2> DEFINE bill == d.bills[b]
               paid == bill.paid + Min2(amt, d.due[b])
               due  == AtLeast0(bill.total - paid)
               st   == StatusFor(bill.total, paid, "unpaid")
    <2>1. b \in Bills /\ bill.doc = "live" BY <1>2
    <2>2. bill \in BillType /\ d.due[b] \in Int BY <2>1 DEF Db, DbType, Gone, Unused
    <2>3. bill.total \in Nat /\ bill.paid \in Int BY <2>2, TotalType DEF BillType
    <2>4. paid \in Int BY <2>2, <2>3 DEF Min2
    <2>5. st \in {"draft", "unpaid", "partial", "paid"} BY StatusForType DEF AllStatuses
    <2>6. due \in Int
      <3> HIDE DEF paid
      <3> QED BY <2>3, <2>4 DEF AtLeast0
    <2>7. Settled(d, b, amt) = IF d.due[b] <= 0 THEN d ELSE SetPaid(d, b, paid, due, st) BY <1>2 DEF Settled
    <2>8. Settlement(bill, paid) = Repaid(d.bills[b], paid, st) BY DEF Settlement
    <2> HIDE DEF paid, due, st
    <2>9. BillIs(d, SetPaid(d, b, paid, due, st), b, Repaid(d.bills[b], paid, st)) BY <2>1, <2>4, <2>5, <2>6, SetPaidLive
    <2> QED BY <2>1, <2>2, <2>4, <2>7, <2>8, <2>9 DEF SettledIn
  <1> QED BY <1>1, <1>2

RefundRow(t, amt) == [dir |-> "in", no |-> t, ref |-> t, amt |-> amt]

\* What settling a return changes: a row, or the vendor's balance and the bill.
Refunded(d, e, t, s) ==
    /\ Db(e) /\ SameDocs(d, e) /\ e.outs = d.outs /\ e.gl = d.gl /\ e.owed = d.owed
    /\ RefundRow(t, s.amt) \in RowType
    /\ e.rows = d.rows \cup {RefundRow(t, s.amt)} /\ e.bank = d.bank + Signed(RefundRow(t, s.amt))
Offset(d, e, s) ==
    \E f : /\ Db(f) /\ SameDocs(d, f) /\ f.outs = d.outs /\ f.rows = d.rows /\ f.bank = d.bank /\ f.gl = d.gl
           /\ f.owed = [d.owed EXCEPT ![s.vendor] = @ + s.amt]
           /\ Db(e) /\ SettledIn(f, e, s.bill)

LEMMA SettleReturnType ==
    ASSUME TypeInv, NEW r \in Requests, SettleReturn(r)
    PROVE  /\ TypeInv'
           /\ req[r].seen.money  => Refunded(db, db', req[r].id, req[r].seen)
           /\ ~req[r].seen.money => Offset(db, db', req[r].seen)
  <1> DEFINE t == req[r].id
             s == req[r].seen
  <1>1. Db(db) /\ req \in [Requests -> RequestType] BY DEF TypeInv
  <1>2. req[r].op = "process_return" BY DEF SettleReturn
  <1>3. req[r] \in ReturnRequest BY <1>1, <1>2, RequestIs
  <1>4. t \in Returns /\ s \in ReturnType BY <1>3 DEF ReturnRequest
  <1>5. s.amt \in Nat \ {0} /\ s.vendor \in Vendors /\ s.bill \in Bills \cup {None}
    <2>1. s.amt \in Amounts /\ s.vendor \in Vendors /\ s.bill \in Bills \cup {None} /\ Amounts \subseteq Nat \ {0}
      BY <1>4, Assumed DEF ReturnType
    <2> QED BY Zenon, <2>1
  <1>6. CASE s.money
    <2>1. db' = PostRow(db, RefundRow(t, s.amt)) /\ Done(r) BY <1>6 DEF SettleReturn, RefundRow
    <2>2. RefundRow(t, s.amt) \in RowType
      <3> HIDE DEF s, t
      <3> QED BY <1>4, <1>5 DEF RefundRow, RowType
    <2> HIDE DEF s, t
    <2>3. Refunded(db, db', t, s) BY <1>1, <2>1, <2>2, PostRowIs DEF Refunded
    <2> QED BY <1>1, <1>6, <2>1, <2>3, DoneType DEF TypeInv, Refunded, s, t
  <1>7. CASE ~s.money
    <2> DEFINE f == Owe(db, s.vendor, s.amt)
    <2>1. db' = Settled(f, s.bill, s.amt) /\ req' = [req EXCEPT ![r].step = 3] BY <1>7 DEF SettleReturn
    <2> HIDE DEF s, t
    <2>2. /\ Db(f) /\ SameDocs(db, f) /\ f.outs = db.outs /\ f.rows = db.rows /\ f.bank = db.bank /\ f.gl = db.gl
          /\ f.owed = [db.owed EXCEPT ![s.vendor] = @ + s.amt]
      BY <1>1, <1>5, OweIs
    <2> HIDE DEF f
    <2>3. SettledIn(f, db', s.bill) BY <1>5, <2>1, <2>2, SettledIs
    <2>4. Db(db') BY <2>2, <2>3 DEF SettledIn, BillIs
    <2>5. req' \in [Requests -> RequestType]
      <3>1. 3 \in 1 .. 3 /\ req[r].op \in {"mark_paid", "process_return"} BY <1>2
      <3> QED BY <1>1, <2>1, <3>1, StepType
    <2>6. Offset(db, db', s) BY <2>2, <2>3, <2>4 DEF Offset
    <2> QED BY <1>7, <2>4, <2>5, <2>6 DEF TypeInv, s
  <1> QED BY <1>6, <1>7

LEMMA NoteReturnType ==
    ASSUME TypeInv, NEW r \in Requests, NoteReturn(r)
    PROVE  TypeInv'
  <1> DEFINE s == req[r].seen
             t == req[r].id
             x == [doc |-> "live", st |-> "issued", bill |-> s.bill, amt |-> s.amt, auto |-> TRUE]
  <1>1. Db(db) /\ req \in [Requests -> RequestType] BY DEF TypeInv
  <1>2. req[r] \in ReturnRequest BY <1>1, RequestIs DEF NoteReturn
  <1>3. t \in Returns /\ s \in ReturnType BY <1>2 DEF ReturnRequest
  <1>4. x \in NoteType BY <1>3 DEF ReturnType, NoteType
  <1>5. db' = [db EXCEPT !.notes[t] = x] /\ Done(r) BY DEF NoteReturn
  <1> HIDE DEF x, s, t
  <1> QED BY <1>1, <1>3, <1>4, <1>5, WithNote, DoneType DEF TypeInv

LEMMA CreateNoteType ==
    ASSUME TypeInv, NEW n \in Notes, NEW b \in Bills, NEW amt \in Amounts, CreateNote(n, b, amt)
    PROVE  TypeInv'
  BY WithNote DEF NoteType, TypeInv, CreateNote

LEMMA DeleteNoteType ==
    ASSUME TypeInv, NEW n \in Notes, DeleteNote(n)
    PROVE  TypeInv'
  BY WithNote DEF Gone, TypeInv, DeleteNote

LEMMA LoadNoteType ==
    ASSUME TypeInv, NEW r \in Requests, NEW n \in Notes \cup Returns, NEW op \in {"issue_note", "cancel_note"},
           LoadNote(r, op, n)
    PROVE  TypeInv'
  BY TakenType, BeginType DEF LoadNote, RequestType, NoteRequest, TypeInv

\* The note n is x, and its bill, if it has one that lives, is y.
NotedIn(d, e, n, x, b, y) ==
    /\ Db(e) /\ SameMoney(d, e) /\ e.returns = d.returns /\ e.goods = d.goods
    /\ e.notes = [d.notes EXCEPT ![n] = x]
    /\ e.bills = IF b \in Bills /\ d.bills[b].doc = "live" THEN [d.bills EXCEPT ![b] = y] ELSE d.bills

Lowered(bill, amt) == [bill EXCEPT !.paid = @ - amt]
Raised(bill, amt)  == Settlement(bill, bill.paid + amt)

\* What issuing a note saves of the note and of its bill.
IssuedNote(s, old, saved)  == IF "note" \in saved THEN [s EXCEPT !.st = "issued"] ELSE old
IssuedBill(s, bill, saved) == IF "bill" \in saved THEN Lowered(bill, s.amt) ELSE bill

\* The note n was issued, as far as it was saved.
IssuedAs(d, e, n, s, saved) ==
    NotedIn(d, e, n, IssuedNote(s, d.notes[n], saved), s.bill, IssuedBill(s, d.bills[s.bill], saved))

LEMMA IssueNoteType ==
    ASSUME TypeInv, NEW r \in Requests, IssueNote(r)
    PROVE  TypeInv' /\ \E saved \in Saved : IssuedAs(db, db', req[r].id, req[r].seen, saved)
  <1> DEFINE s == req[r].seen
             n == req[r].id
             b == s.bill
  <1>1. Db(db) /\ req \in [Requests -> RequestType] BY DEF TypeInv
  <1>2. req[r] \in NoteRequest BY <1>1, RequestIs DEF IssueNote
  <1>3. n \in Notes \cup Returns /\ s \in NoteType BY <1>2 DEF NoteRequest
  <1>5. b \in Bills \cup {None} /\ s.amt \in Nat
    <2>1. s.amt \in Amounts /\ b \in Bills \cup {None} /\ Amounts \subseteq Nat \ {0}
      BY <1>3, Assumed DEF NoteType
    <2>2. s.amt \in Nat \ {0} BY Zenon, <2>1
    <2> QED BY <2>1, <2>2
  <1>6. PICK saved \in Saved :
            db' = LET d == IF "bill" \in saved /\ b # None /\ db.bills[b].doc = "live"
                           THEN [db EXCEPT !.bills[b].paid = @ - s.amt, !.due[b] = @ + s.amt] ELSE db
                  IN  IF "note" \in saved THEN [d EXCEPT !.notes[n] = [s EXCEPT !.st = "issued"]] ELSE d
    BY DEF IssueNote
  <1> DEFINE x == IssuedNote(s, db.notes[n], saved)
             y == IssuedBill(s, db.bills[b], saved)
             c == IF "bill" \in saved /\ b # None /\ db.bills[b].doc = "live"
                  THEN [db EXCEPT !.bills[b].paid = @ - s.amt, !.due[b] = @ + s.amt] ELSE db
  <1>4. Done(r) /\ db' = IF "note" \in saved THEN [c EXCEPT !.notes[n] = x] ELSE c BY <1>6 DEF IssueNote, IssuedNote
  <1>7. /\ Db(c) /\ SameMoney(db, c) /\ c.returns = db.returns /\ c.notes = db.notes /\ c.goods = db.goods
        /\ c.bills = IF b \in Bills /\ db.bills[b].doc = "live" THEN [db.bills EXCEPT ![b] = y] ELSE db.bills
    <2>1. CASE b \in Bills /\ db.bills[b].doc = "live" /\ "bill" \in saved
      <3>1. db.bills[b] \in BillType BY <1>1, <2>1 DEF Db, DbType, Gone, Unused
      <3>0. y = Lowered(db.bills[b], s.amt) BY <2>1 DEF IssuedBill
      <3>2. y \in BillType BY <1>5, <3>0, <3>1 DEF BillType, Lowered
      <3>3. b # None BY <2>1, Assumed
      <3> DEFINE due == db.due[b] + s.amt
      <3>4. due \in Int BY <1>1, <1>5, <2>1 DEF Db, DbType
      <3>5. c = [db EXCEPT !.bills[b] = y, !.due[b] = due] BY <1>1, <2>1, <3>0, <3>3 DEF Lowered, Db, DbType
      <3> HIDE DEF b, y, c, due
      <3>6. BillIs(db, c, b, y) BY <1>1, <2>1, <3>2, <3>4, <3>5, WithBillDue
      <3> QED BY <2>1, <3>6 DEF BillIs
    <2>2. CASE ~(b \in Bills /\ db.bills[b].doc = "live")
      <3>1. c = db BY <1>5, <2>2
      <3> HIDE DEF c
      <3> QED BY <1>1, <2>2, <3>1 DEF SameMoney
    <2>3. CASE b \in Bills /\ db.bills[b].doc = "live" /\ "bill" \notin saved
      <3>1. c = db /\ y = db.bills[b] BY <2>3 DEF IssuedBill
      <3>2. db.bills = [db.bills EXCEPT ![b] = db.bills[b]] BY <1>1 DEF Db, DbType
      <3> HIDE DEF c, y
      <3> QED BY <1>1, <2>3, <3>1, <3>2 DEF SameMoney
    <2> QED BY <2>1, <2>2, <2>3
  <1>8. /\ Db(db') /\ SameMoney(c, db') /\ db'.notes = [c.notes EXCEPT ![n] = x]
        /\ db'.bills = c.bills /\ db'.returns = c.returns /\ db'.goods = c.goods
    <2>1. CASE "note" \in saved
      <3>1. x \in NoteType BY <1>3, <2>1 DEF NoteType, IssuedNote
      <3> HIDE DEF c, x, n
      <3> QED BY <1>3, <1>4, <1>7, <2>1, <3>1, WithNote
    <2>2. CASE "note" \notin saved
      <3>1. x = db.notes[n] BY <2>2 DEF IssuedNote
      <3> HIDE DEF c, x, n
      <3>2. c.notes = [c.notes EXCEPT ![n] = x] BY <1>3, <1>7, <3>1 DEF Db, DbType
      <3> QED BY <1>4, <1>7, <2>2, <3>2 DEF SameMoney
    <2> QED BY <2>1, <2>2
  <1>9. IssuedAs(db, db', n, s, saved)
    <2> HIDE DEF b, y, c, x, n
    <2>1. NotedIn(db, db', n, x, b, y) BY <1>7, <1>8 DEF NotedIn, SameMoney
    <2> QED BY <2>1 DEF IssuedAs, x, y, b
  <1>10. TypeInv' BY <1>1, <1>4, <1>8, DoneType DEF TypeInv
  <1> QED BY <1>9, <1>10

\* What a cancellation gives the note and its bill.
CancelledNote(x)        == IF x.doc = "live" THEN [x EXCEPT !.st = "cancelled"] ELSE x
GivenBack(s, bill)      == IF s.st = "issued" /\ ~s.auto THEN Raised(bill, s.amt) ELSE bill

LEMMA CancelNoteType ==
    ASSUME TypeInv, NEW r \in Requests, CancelNote(r)
    PROVE  LET s == req[r].seen
               n == req[r].id
           IN  /\ TypeInv'
               /\ NotedIn(db, db', n, CancelledNote(db.notes[n]), s.bill, GivenBack(s, db.bills[s.bill]))
  <1> DEFINE s == req[r].seen
             n == req[r].id
             x == CancelledNote(db.notes[n])
             b == s.bill
             y == GivenBack(s, db.bills[b])
             back == s.st = "issued" /\ ~s.auto /\ b # None /\ db.bills[b].doc = "live"
             p == db.bills[b].paid + s.amt
             due == db.bills[b].total - p
             st == StatusFor(db.bills[b].total, p, "unpaid")
             c == IF back THEN SetPaid(db, b, p, due, st) ELSE db
  <1>1. Db(db) /\ req \in [Requests -> RequestType] BY DEF TypeInv
  <1>2. req[r] \in NoteRequest BY <1>1, RequestIs DEF CancelNote
  <1>3. n \in Notes \cup Returns /\ s \in NoteType BY <1>2 DEF NoteRequest
  <1>4. x \in NoteType \cup Gone
    <2>1. CASE db.notes[n].doc = "live" BY <1>3, <2>1, TakenType DEF CancelledNote, NoteType
    <2>2. CASE db.notes[n].doc # "live"
      <3>1. x = db.notes[n] BY <2>2 DEF CancelledNote
      <3> QED BY <1>1, <1>3, <3>1 DEF Db, DbType
    <2> QED BY <2>1, <2>2
  <1>5. b \in Bills \cup {None} /\ s.amt \in Nat
    <2>1. s.amt \in Amounts /\ b \in Bills \cup {None} /\ Amounts \subseteq Nat \ {0}
      BY <1>3, Assumed DEF NoteType
    <2>2. s.amt \in Nat \ {0} BY Zenon, <2>1
    <2> QED BY <2>1, <2>2
  <1>6. db' = [c EXCEPT !.notes[n] = x] /\ Done(r)
    <2>1. c.notes = db.notes
      <3> HIDE DEF st, p
      <3> QED BY DEF SetPaid
    <2>2. db' = [c EXCEPT !.notes[n] = IF @.doc = "live" THEN [@ EXCEPT !.st = "cancelled"] ELSE @] /\ Done(r)
      BY DEF CancelNote
    <2> HIDE DEF c
    <2> QED BY <2>1, <2>2 DEF CancelledNote
  <1>7. /\ Db(c) /\ SameMoney(db, c) /\ c.returns = db.returns /\ c.notes = db.notes /\ c.goods = db.goods
        /\ c.bills = IF b \in Bills /\ db.bills[b].doc = "live" THEN [db.bills EXCEPT ![b] = y] ELSE db.bills
    <2>1. CASE back
      <3>1. b \in Bills /\ db.bills[b].doc = "live" BY <1>5, <2>1
      <3>2. db.bills[b] \in BillType BY <1>1, <3>1 DEF Db, DbType, Gone, Unused
      <3>3. p \in Int /\ due \in Int BY <1>5, <3>2, TotalType DEF BillType
      <3>4. st \in {"draft", "unpaid", "partial", "paid"} BY StatusForType DEF AllStatuses
      <3>5. c = SetPaid(db, b, p, due, st) /\ y = Repaid(db.bills[b], p, st) BY <2>1 DEF GivenBack, Raised, Settlement
      <3> HIDE DEF b, y, c, p, due, st
      <3>6. BillIs(db, SetPaid(db, b, p, due, st), b, Repaid(db.bills[b], p, st))
        BY <1>1, <3>1, <3>3, <3>4, SetPaidLive
      <3> QED BY <3>1, <3>5, <3>6 DEF BillIs
    <2>2. CASE ~back
      <3>1. c = db BY <2>2
      <3>2. b \in Bills /\ db.bills[b].doc = "live" => y = db.bills[b] BY <2>2, Assumed DEF GivenBack
      <3>3. db.bills = IF b \in Bills /\ db.bills[b].doc = "live" THEN [db.bills EXCEPT ![b] = y] ELSE db.bills
        <4> HIDE DEF y, b
        <4> QED BY <1>1, <3>2 DEF Db, DbType
      <3> HIDE DEF c, y, b
      <3> QED BY <1>1, <3>1, <3>3 DEF SameMoney
    <2> QED BY <2>1, <2>2
  <1> HIDE DEF c, x, n
  <1>8. /\ Db(db') /\ SameMoney(c, db') /\ db'.notes = [c.notes EXCEPT ![n] = x]
        /\ db'.bills = c.bills /\ db'.returns = c.returns /\ db'.goods = c.goods
    BY <1>3, <1>4, <1>6, <1>7, WithNote
  <1>9. NotedIn(db, db', n, x, b, y)
    <2> HIDE DEF b, y
    <2> QED BY <1>7, <1>8 DEF NotedIn, SameMoney
  <1>10. TypeInv' BY <1>1, <1>6, <1>8, DoneType DEF TypeInv
  <1> QED BY <1>9, <1>10 DEF x, n

LEMMA DropType ==
    ASSUME TypeInv, NEW r \in Requests, Drop(r)
    PROVE  TypeInv'
  BY DoneType DEF Drop, TypeInv

LEMMA InitType == Init => TypeInv
  BY FS_EmptySet DEF Gone, Init, Db, DbType, RequestType, TypeInv

LEMMA NextType == TypeInv /\ [Next]_vars => TypeInv'
  <1> SUFFICES ASSUME TypeInv, [Next]_vars PROVE TypeInv' OBVIOUS
  <1>1. CASE UNCHANGED vars BY <1>1 DEF TypeInv, vars
  <1>2. CASE \E b \in Bills, v \in Vendors, st \in Statuses, total \in Totals, paid \in {0} \cup Amounts, mode \in Modes :
                \E number \in NumbersOf(b) : CreateBill(b, v, number, st, total, paid, mode)
    BY <1>2, CreateBillType
  <1>3. CASE \E v \in Vendors, amt \in Amounts, disc \in Discounts, mode \in Modes, refund \in BOOLEAN :
                PayVendor(v, amt, disc, mode, refund)
    BY <1>3, PayVendorType
  <1>4. CASE \E t \in Returns, b \in Bills \cup {None}, v \in Vendors, amt \in Amounts, money \in BOOLEAN :
                CreateReturn(t, b, v, amt, money)
    BY <1>4, CreateReturnType
  <1>5. CASE \E t \in Returns, money \in BOOLEAN : ReviseReturn(t, money) BY <1>5, ReviseReturnType
  <1>6. CASE \E t \in Returns : DeleteReturn(t) BY <1>6, DeleteReturnType
  <1>7. CASE \E n \in Notes, b \in Bills, amt \in Amounts : CreateNote(n, b, amt) BY <1>7, CreateNoteType
  <1>8. CASE \E n \in Notes : DeleteNote(n) BY <1>8, DeleteNoteType
  <1>9. ASSUME NEW r \in Requests, BillSteps(r) PROVE TypeInv'
    <2>1. CASE \E b \in Bills, op \in {"update_bill", "mark_paid", "delete_bill", "pay_bill"} : LoadBill(r, op, b)
      BY <2>1, LoadBillType
    <2>2. CASE \E v \in Vendors, st \in Statuses, total \in Totals, paid \in {0} \cup Amounts, mode \in Modes :
                  \E number \in Numbers : UpdateBill(r, v, number, st, total, paid, mode)
      BY <2>2, UpdateBillType
    <2>3. CASE MarkSave(r) BY <2>3, MarkSaveType
    <2>4. CASE MarkReverse(r) BY <2>4, MarkReverseType
    <2>5. CASE \E mode \in Modes : MarkPay(r, mode) BY <2>5, MarkPayType
    <2>6. CASE DeleteBill(r) BY <2>6, DeleteBillType
    <2> QED BY <1>9, <2>1, <2>2, <2>3, <2>4, <2>5, <2>6 DEF BillSteps
  <1>10. ASSUME NEW r \in Requests, OutSteps(r) PROVE TypeInv'
    BY PayBillType, LoadOutType, CancelOutType, DeleteOutType, <1>10 DEF OutSteps
  <1>11. ASSUME NEW r \in Requests, ReturnSteps(r) PROVE TypeInv'
    BY LoadReturnType, ProcessReturnType, SettleReturnType, NoteReturnType, <1>11 DEF ReturnSteps
  <1>12. ASSUME NEW r \in Requests, NoteSteps(r) PROVE TypeInv'
    BY LoadNoteType, IssueNoteType, CancelNoteType, <1>12 DEF NoteSteps
  <1> QED BY <1>1, <1>2, <1>3, <1>4, <1>5, <1>6, <1>7, <1>8, <1>9, <1>10, <1>11, <1>12, DropType DEF Next

LEMMA TypeInvOK == TypeInv => TypeOK
  BY DEF TypeInv, Db, DbType, TypeOK

\* Whatever clients ask for, however requests interleave and wherever they die,
\* every table holds records of its own shape: payments and rows are of positive
\* amounts, payment numbers stay within their bound, balances are whole numbers
\* and every document is live, deleted or unused.
THEOREM TypeOKHolds == Spec => []TypeOK
  <1>1. Spec => []TypeInv BY InitType, NextType, PTL DEF Spec
  <1> QED BY <1>1, TypeInvOK, PTL

-----------------------------------------------------------------------------
(* Sums of payments and rows *)

LEMMA NetOfInt == ASSUME NEW S, IsFiniteSet(S), S \subseteq OutType PROVE NetOf(S) \in Int
  BY NetInt, SumInt DEF NetOf

LEMMA NetOfAdds ==
    ASSUME NEW S, IsFiniteSet(S), S \subseteq OutType, NEW o \in OutType, o \notin S
    PROVE  NetOf(S \cup {o}) = NetOf(S) + Net(o)
  BY NetInt, SumAdds, SumAgrees, SumInt DEF NetOf

LEMMA NetOfWithout ==
    ASSUME NEW S, IsFiniteSet(S), S \subseteq OutType, NEW R \in SUBSET S
    PROVE  NetOf(S \ R) = NetOf(S) - NetOf(R)
  BY NetInt, FS_Subset, SumWithout, SumAgrees DEF NetOf

LEMMA NetOfNone == NetOf({}) = 0
  BY SumEmpty DEF NetOf

LEMMA NetOfOne == ASSUME NEW o \in OutType PROVE NetOf({o}) = Net(o)
  BY NetInt, SumOne DEF NetOf

\* Without discounts, what was paid gross was paid net.
LEMMA GrossIsNet ==
    ASSUME NEW S, IsFiniteSet(S), S \subseteq OutType, Discounts \subseteq {0}
    PROVE  GrossOf(S) = NetOf(S)
  <1> DEFINE f == [x \in S |-> x.amt]
             g == [x \in S |-> Net(x)]
  <1>1. ASSUME NEW x \in S PROVE f[x] \in Int /\ f[x] = g[x]
    <2>1. x.amt \in Nat /\ x.disc \in Discounts \cup {0} BY DEF OutType
    <2>2. x.disc = 0 BY <2>1
    <2>3. Net(x) = x.amt BY <2>1, <2>2 DEF Net
    <2> QED BY <2>1, <2>3
  <1>2. GrossOf(S) = SumFunctionOnSet(f, S) /\ NetOf(S) = SumFunctionOnSet(g, S) BY DEF GrossOf, NetOf
  <1> HIDE DEF f, g
  <1> QED BY <1>1, <1>2, SumAgrees

LEMMA BankOfAdds ==
    ASSUME NEW S, IsFiniteSet(S), S \subseteq RowType, NEW x \in RowType, x \notin S
    PROVE  BankOf(S \cup {x}) = BankOf(S) + Signed(x)
  BY SignedInt, SumAdds, SumAgrees, SumInt DEF BankOf

LEMMA BankOfWithout ==
    ASSUME NEW S, IsFiniteSet(S), S \subseteq RowType, NEW R \in SUBSET S
    PROVE  BankOf(S \ R) = BankOf(S) - BankOf(R)
  BY SignedInt, FS_Subset, SumWithout, SumAgrees DEF BankOf

-----------------------------------------------------------------------------
(* The ledger: payments, their rows and journals, and the bank *)

RefOf(o, bills) == IF o.bill = None THEN o.no ELSE bills[o.bill].number
BankLive(d)     == {o \in LiveIn(d) : o.mode = "bank"}
RowsOf(S, bills) == {RowOf(o, RefOf(o, bills)) : o \in S}

UniqueOuts(d)          == /\ \A o, p \in d.outs : o.no = p.no => o = p
                          /\ \A o \in d.outs : Net(o) > 0
VendorsAgree(d, bills) == \A o \in LiveIn(d) : o.bill # None => o.vendor = bills[o.bill].vendor /\ ~o.refund
RowsAgree(d, bills)    == {x \in d.rows : x.dir = "out"} = RowsOf(BankLive(d), bills)
GlAgrees(d)            == {g \in d.gl : g.kind # "purchase_bill"} = {PayJournal(o) : o \in LiveIn(d)}

Ledger(d, bills) ==
    /\ UniqueOuts(d) /\ VendorsAgree(d, bills) /\ RowsAgree(d, bills) /\ GlAgrees(d)
    /\ d.bank = BankOf(d.rows)

Purchases(d) == {g \in d.gl : g.kind = "purchase_bill"}
Refunds(d)   == {x \in d.rows : x.dir = "in"}

LEMMA LiveIsOut == ASSUME NEW d, Db(d) PROVE LiveIn(d) \subseteq OutType /\ IsFiniteSet(LiveIn(d)) /\ LiveIn(d) \subseteq d.outs
  BY FS_Subset DEF LiveIn, Db, DbType

LEMMA LedgerSame ==
    ASSUME NEW d, NEW e, NEW bills, Ledger(d, bills), SameMoney(d, e)
    PROVE  Ledger(e, bills) /\ Purchases(e) = Purchases(d) /\ Refunds(e) = Refunds(d) /\ LiveIn(e) = LiveIn(d)
  BY DEF Ledger, UniqueOuts, VendorsAgree, RowsAgree, BankLive, GlAgrees, LiveIn, SameMoney, Purchases, Refunds

\* Journals of bills and balances are not the ledger's.
LEMMA LedgerApart ==
    ASSUME NEW d, NEW e, NEW bills, Ledger(d, bills), e.outs = d.outs, e.rows = d.rows, e.bank = d.bank,
           {g \in e.gl : g.kind # "purchase_bill"} = {g \in d.gl : g.kind # "purchase_bill"}
    PROVE  Ledger(e, bills) /\ Refunds(e) = Refunds(d) /\ LiveIn(e) = LiveIn(d)
  BY DEF Ledger, UniqueOuts, VendorsAgree, RowsAgree, BankLive, GlAgrees, LiveIn, Refunds

\* A bill may change where no live payment is made for it, or keep its number and vendor.
LEMMA LedgerBill ==
    ASSUME NEW d, Db(d), NEW bills, DOMAIN bills = Bills, Ledger(d, bills), NEW b \in Bills, NEW x,
           (x.number = bills[b].number /\ x.vendor = bills[b].vendor) \/ OutsOf(d, b) = {}
    PROVE  Ledger(d, [bills EXCEPT ![b] = x])
  <1> DEFINE new == [bills EXCEPT ![b] = x]
  <1>1. ASSUME NEW o \in LiveIn(d), o.bill # None
        PROVE  o.bill \in Bills /\ new[o.bill].number = bills[o.bill].number /\ new[o.bill].vendor = bills[o.bill].vendor
    <2>1. o.bill \in Bills /\ o \in d.outs /\ o.live
      <3>1. o \in OutType BY LiveIsOut
      <3>2. o.bill \in Bills \cup {None} BY <3>1 DEF OutType
      <3> QED BY <1>1, <3>2 DEF LiveIn
    <2>2. CASE o.bill = b
      <3>1. o \in OutsOf(d, b) BY <2>1, <2>2 DEF OutsOf
      <3> QED BY <2>1, <2>2, <3>1
    <2>3. CASE o.bill # b BY <2>1, <2>3
    <2> QED BY <2>2, <2>3
  <1> HIDE DEF new
  <1>2. VendorsAgree(d, new) BY <1>1 DEF Ledger, VendorsAgree
  <1>3. \A o \in BankLive(d) : RefOf(o, new) = RefOf(o, bills) BY <1>1 DEF RefOf, BankLive
  <1>4. RowsOf(BankLive(d), new) = RowsOf(BankLive(d), bills) BY <1>3 DEF RowsOf
  <1> QED BY <1>2, <1>4 DEF Ledger, RowsAgree, new

\* A payment more.
LEMMA LedgerMore ==
    ASSUME NEW d, Db(d), NEW e, Db(e), NEW bills, Ledger(d, bills), NEW o, Recorded(d, e, o, RefOf(o, bills)),
           o.bill # None => o.vendor = bills[o.bill].vendor /\ ~o.refund
    PROVE  /\ Ledger(e, bills) /\ Purchases(e) = Purchases(d) /\ Refunds(e) = Refunds(d)
           /\ LiveIn(e) = LiveIn(d) \cup {o} /\ o \notin LiveIn(d)
  <1>1. o \in OutType /\ Net(o) > 0 /\ o.live /\ (\A p \in d.outs : p.no < o.no) /\ e.outs = d.outs \cup {o}
    BY DEF Recorded
  <1>2. o.no \in Int /\ o.mode \in Modes BY <1>1 DEF OutType
  <1>3. o \notin d.outs BY <1>1, <1>2
  <1>4. LiveIn(e) = LiveIn(d) \cup {o} /\ o \notin LiveIn(d) BY <1>1, <1>3 DEF LiveIn
  <1>5. UniqueOuts(e)
    <2>1. \A p \in d.outs : p.no # o.no BY <1>1, <1>2
    <2> QED BY <1>1, <2>1 DEF Ledger, UniqueOuts
  <1>6. VendorsAgree(e, bills) BY <1>4 DEF Ledger, VendorsAgree
  <1> DEFINE row == RowOf(o, RefOf(o, bills))
  <1>7. row.dir = "out" /\ row.no = o.no /\ row.amt = Net(o) /\ Signed(row) = -Net(o) BY DEF RowOf, Signed
  <1>8. row \notin d.rows
    <2>1. SUFFICES ASSUME row \in d.rows PROVE FALSE OBVIOUS
    <2>2. row \in RowsOf(BankLive(d), bills) BY <1>7, <2>1 DEF Ledger, RowsAgree
    <2>3. PICK p \in BankLive(d) : row = RowOf(p, RefOf(p, bills)) BY <2>2 DEF RowsOf
    <2>4. p \in d.outs /\ p.no = row.no BY <2>3 DEF BankLive, LiveIn, RowOf
    <2> QED BY <1>1, <1>2, <1>7, <2>4
  <1>11. RowsAgree(e, bills) /\ e.bank = BankOf(e.rows) /\ Refunds(e) = Refunds(d)
    <2>1. CASE o.mode = "bank"
      <3>1. e.rows = d.rows \cup {row} /\ e.bank = d.bank - Net(o) BY <2>1 DEF Recorded
      <3>2. BankLive(e) = BankLive(d) \cup {o} BY <1>4, <2>1 DEF BankLive
      <3>3. {x \in e.rows : x.dir = "out"} = {x \in d.rows : x.dir = "out"} \cup {row} /\ Refunds(e) = Refunds(d)
        <4> HIDE DEF row
        <4> QED BY <1>7, <3>1 DEF Refunds
      <3>4. RowsOf(BankLive(e), bills) = RowsOf(BankLive(d), bills) \cup {row} BY <3>2 DEF RowsOf
      <3>5. RowsAgree(e, bills)
        <4> HIDE DEF row
        <4> QED BY <3>3, <3>4 DEF Ledger, RowsAgree
      <3>6. row \in RowType /\ d.rows \subseteq RowType /\ IsFiniteSet(d.rows) BY <3>1 DEF Db, DbType
      <3> HIDE DEF row
      <3>7. BankOf(d.rows \cup {row}) = BankOf(d.rows) + Signed(row) BY <1>8, <3>6, BankOfAdds
      <3>8. d.bank \in Int /\ Net(o) \in Int /\ d.bank = BankOf(d.rows) BY <1>1, NetInt DEF Db, DbType, Ledger
      <3> QED BY <1>7, <3>1, <3>3, <3>5, <3>7, <3>8
    <2>2. CASE o.mode # "bank" BY <2>2, <1>4 DEF Recorded, BankLive, Ledger, RowsAgree, Refunds
    <2> QED BY <2>1, <2>2
  <1>12. GlAgrees(e) /\ Purchases(e) = Purchases(d)
    BY <1>4 DEF PayJournal, Recorded, Ledger, GlAgrees, Purchases
  <1> QED BY <1>4, <1>5, <1>6, <1>11, <1>12 DEF Ledger

\* Payments fewer: those of S are no longer live, their rows R and their journals are gone.
LEMMA LedgerLess ==
    ASSUME NEW d, Db(d), NEW e, Db(e), NEW bills, Ledger(d, bills), NEW S \in SUBSET LiveIn(d),
           UniqueOuts(e), LiveIn(e) = LiveIn(d) \ S,
           NEW R, R = RowsOf({o \in S : o.mode = "bank"}, bills), Swept(d, e, R, S)
    PROVE  Ledger(e, bills) /\ Purchases(e) = Purchases(d) /\ Refunds(e) = Refunds(d)
  <1> DEFINE B == {o \in S : o.mode = "bank"}
  <1>1. \A o, p \in LiveIn(d) : o.no = p.no => o = p BY DEF Ledger, UniqueOuts, LiveIn
  <1>2. VendorsAgree(e, bills) BY DEF Ledger, VendorsAgree
  <1>3. \A o, p \in LiveIn(d) : RowOf(o, RefOf(o, bills)) = RowOf(p, RefOf(p, bills)) => o = p BY <1>1 DEF RowOf
  <1>4. BankLive(e) = BankLive(d) \ B /\ B \subseteq BankLive(d) BY DEF BankLive
  <1>5. RowsOf(BankLive(e), bills) = RowsOf(BankLive(d), bills) \ R BY <1>3, <1>4 DEF BankLive, B, RowsOf
  <1>6. e.rows = d.rows \ R /\ e.bank = d.bank - BankOf(R) BY DEF Swept
  <1>7. \A x \in R : x.dir = "out" BY DEF RowsOf, RowOf
  <1>8. R \subseteq d.rows BY <1>4 DEF RowsOf, Ledger, RowsAgree
  <1>9. RowsAgree(e, bills) /\ Refunds(e) = Refunds(d) BY <1>6, <1>7, <1>5 DEF Refunds, Ledger, RowsAgree
  <1>10. e.bank = BankOf(e.rows) BY <1>8, BankOfWithout, <1>6 DEF Db, DbType, Ledger
  <1>11. {x.no : x \in R} = {o.no : o \in B}
    <2> HIDE DEF B
    <2>1. R = {RowOf(o, RefOf(o, bills)) : o \in B} BY DEF B, RowsOf
    <2>2. \A o : RowOf(o, RefOf(o, bills)).no = o.no BY DEF RowOf
    <2> QED BY <2>1, <2>2
  <1>12. \A g : g \in e.gl <=> /\ g \in d.gl
                               /\ ~(g.kind = "payment_out" /\ \E p \in B : g.id = p.no)
                               /\ ~(g.kind = "payment_out_record" /\ \E p \in S : g.id = p.no)
    <2> HIDE DEF B
    <2> QED BY <1>11 DEF Swept
  <1>13. \A o \in LiveIn(d) : PayJournal(o) \in d.gl BY DEF Ledger, GlAgrees
  <1>14. \A o \in LiveIn(d) : PayJournal(o) \in e.gl <=> o \notin S
    <2> TAKE o \in LiveIn(d)
    <2>1. PayJournal(o).id = o.no /\ PayJournal(o).kind = IF o.auto /\ o.mode = "bank" THEN "payment_out" ELSE "payment_out_record"
      BY DEF PayJournal
    <2>2. CASE o \in S BY <2>1, <2>2, <1>12
    <2>3. CASE o \notin S BY <1>1, <2>3, <1>12, <1>13, <2>1
    <2> QED BY <2>2, <2>3
  <1>15. GlAgrees(e) /\ Purchases(e) = Purchases(d) BY <1>12, <1>14 DEF Ledger, GlAgrees, PayJournal, Purchases
  <1> QED BY <1>2, <1>9, <1>10, <1>15 DEF Ledger

\* A refund more.
LEMMA LedgerRefund ==
    ASSUME NEW d, Db(d), NEW e, NEW bills, Ledger(d, bills), NEW t, NEW s, Refunded(d, e, t, s),
           RefundRow(t, s.amt) \notin d.rows
    PROVE  /\ Ledger(e, bills) /\ Purchases(e) = Purchases(d) /\ LiveIn(e) = LiveIn(d)
           /\ Refunds(e) = Refunds(d) \cup {RefundRow(t, s.amt)}
  <1> DEFINE x == RefundRow(t, s.amt)
  <1>1. x.dir = "in" BY DEF RefundRow
  <1>2. x \in RowType /\ e.rows = d.rows \cup {x} /\ e.bank = d.bank + Signed(x) /\ e.outs = d.outs /\ e.gl = d.gl
    BY DEF Refunded
  <1> HIDE DEF x
  <1>3. {y \in e.rows : y.dir = "out"} = {y \in d.rows : y.dir = "out"} BY <1>1, <1>2
  <1>4. Refunds(e) = Refunds(d) \cup {x} BY <1>1, <1>2 DEF Refunds
  <1>5. LiveIn(e) = LiveIn(d) /\ BankLive(e) = BankLive(d) /\ Purchases(e) = Purchases(d)
    BY <1>2 DEF LiveIn, BankLive, Purchases
  <1>6. e.bank = BankOf(e.rows) BY <1>2, BankOfAdds DEF Db, DbType, Ledger, x
  <1> QED BY <1>2, <1>3, <1>4, <1>5, <1>6 DEF Ledger, UniqueOuts, VendorsAgree, RowsAgree, GlAgrees, x

-----------------------------------------------------------------------------
(* One request at a time, whose numbers are the vendors' own *)

\* The clients whose books are exact: one request is under way at a time, and
\* nobody pays for a draft.  A crash in the middle of a request is not excluded.
OneAtATime ==
    /\ \A r, s \in Requests : r = s
    /\ ~PayDrafts
\* No two bills may carry one number, and none looks like a payment's: rows are
\* found by it.
OwnNumbers ==
    /\ \A b, c \in Bills : b # c => NumbersOf(b) \cap NumbersOf(c) = {}
    /\ Numbers \cap (1 .. MaxOuts) = {}

Own(b, n)  == n \in NumbersOf(b)
Posted(x)  == x.doc = "live" /\ x.st # "draft"

LEMMA OwnApart ==
    ASSUME OwnNumbers
    PROVE  /\ \A b, c \in Bills : \A n : Own(b, n) /\ Own(c, n) => b = c
           /\ \A b \in Bills : \A n : Own(b, n) => n \in Numbers
           /\ \A n \in Numbers : n \notin 1 .. MaxOuts
  BY Zenon, NoOverlap DEF OwnNumbers, Own

Owned(bills)      == \A b \in Bills : bills[b].doc = "live" => Own(b, bills[b].number)
PaidFor(d, bills) == \A o \in LiveIn(d) : o.bill # None => Posted(bills[o.bill])
Money(d, bills)   == Ledger(d, bills) /\ Owned(bills) /\ PaidFor(d, bills)

BillJournals(bills) == {BillJournal(b, bills[b]) : b \in {c \in Bills : Posted(bills[c])}}

IsBills(bills) == bills \in [Bills -> BillType \cup Gone]

LEMMA BillJournalsIs ==
    ASSUME NEW bills, IsBills(bills), NEW b \in Bills, NEW x
    PROVE  BillJournals([bills EXCEPT ![b] = x])
             = {g \in BillJournals(bills) : g.id # b} \cup (IF Posted(x) THEN {BillJournal(b, x)} ELSE {})
  BY DEF IsBills, BillJournal, BillJournals

LEMMA MoneySame ==
    ASSUME NEW d, NEW e, NEW bills, Money(d, bills), SameMoney(d, e)
    PROVE  Money(e, bills) /\ Purchases(e) = Purchases(d) /\ Refunds(e) = Refunds(d) /\ LiveIn(e) = LiveIn(d)
  BY LedgerSame DEF Money, PaidFor

LEMMA MoneyApart ==
    ASSUME NEW d, NEW e, NEW bills, Money(d, bills), e.outs = d.outs, e.rows = d.rows, e.bank = d.bank,
           {g \in e.gl : g.kind # "purchase_bill"} = {g \in d.gl : g.kind # "purchase_bill"}
    PROVE  Money(e, bills) /\ Refunds(e) = Refunds(d) /\ LiveIn(e) = LiveIn(d)
  BY LedgerApart DEF Money, PaidFor

\* A bill changes that has no live payment.
LEMMA MoneyBill ==
    ASSUME NEW d, Db(d), NEW bills, IsBills(bills), Money(d, bills), NEW b \in Bills, NEW x,
           OutsOf(d, b) = {}, x.doc = "live" => Own(b, x.number)
    PROVE  Money(d, [bills EXCEPT ![b] = x])
  <1> DEFINE new == [bills EXCEPT ![b] = x]
  <1>1. Ledger(d, new) BY LedgerBill DEF Money, IsBills
  <1>2. new[b] = x /\ \A c \in Bills : c # b => new[c] = bills[c] BY DEF IsBills
  <1> HIDE DEF new
  <1>3. Owned(new) BY <1>2 DEF Money, Owned
  <1>4. PaidFor(d, new)
    <2> SUFFICES ASSUME NEW o \in LiveIn(d), o.bill # None PROVE Posted(new[o.bill]) BY DEF PaidFor
    <2>1. o \in OutType BY LiveIsOut
    <2>2. o.bill \in Bills \cup {None} BY <2>1 DEF OutType
    <2>3. o.bill # b BY DEF OutsOf, LiveIn
    <2> QED BY <1>2, <2>2, <2>3 DEF Money, PaidFor
  <1> QED BY <1>1, <1>3, <1>4 DEF Money, new

\* A bill changes but for its number, vendor, total, and whether it is a draft.
Akin(x, y) == /\ x.doc = "live" /\ y.doc = "live" /\ x.number = y.number /\ x.vendor = y.vendor /\ x.total = y.total
                /\ (x.st = "draft" <=> y.st = "draft")

LEMMA MoneyKept ==
    ASSUME NEW d, Db(d), NEW bills, IsBills(bills), Money(d, bills), NEW b \in Bills, NEW x, Akin(x, bills[b])
    PROVE  Money(d, [bills EXCEPT ![b] = x]) /\ BillJournals([bills EXCEPT ![b] = x]) = BillJournals(bills)
  <1> DEFINE new == [bills EXCEPT ![b] = x]
  <1>1. Ledger(d, new) BY LedgerBill DEF Money, IsBills, Akin
  <1>2. new[b] = x /\ \A c \in Bills : c # b => new[c] = bills[c] BY DEF IsBills
  <1> HIDE DEF new
  <1>3. \A c \in Bills : /\ Posted(new[c]) <=> Posted(bills[c])
                         /\ BillJournal(c, new[c]) = BillJournal(c, bills[c])
                         /\ new[c].doc = bills[c].doc /\ (bills[c].doc = "live" => new[c].number = bills[c].number)
    BY <1>2 DEF Akin, Posted, BillJournal
  <1>4. Owned(new) /\ BillJournals(new) = BillJournals(bills) BY <1>3 DEF Money, Owned, BillJournals
  <1>5. PaidFor(d, new) BY LiveIsOut, <1>3 DEF PaidFor, OutType, Money
  <1> QED BY <1>1, <1>4, <1>5 DEF Money, new

\* A payment more, for a posted bill under its number and vendor, or for none.
LEMMA MoneyMore ==
    ASSUME NEW d, Db(d), NEW e, Db(e), NEW bills, Money(d, bills), NEW o, Recorded(d, e, o, RefOf(o, bills)),
           o.bill # None => o.vendor = bills[o.bill].vendor /\ ~o.refund /\ Posted(bills[o.bill])
    PROVE  /\ Money(e, bills) /\ Purchases(e) = Purchases(d) /\ Refunds(e) = Refunds(d)
           /\ LiveIn(e) = LiveIn(d) \cup {o} /\ o \notin LiveIn(d)
  BY LedgerMore DEF Money, PaidFor

\* The payments S fewer.
LEMMA MoneyLess ==
    ASSUME NEW d, Db(d), NEW e, Db(e), NEW bills, Money(d, bills), NEW S \in SUBSET LiveIn(d),
           UniqueOuts(e), LiveIn(e) = LiveIn(d) \ S,
           NEW R, R = RowsOf({o \in S : o.mode = "bank"}, bills), Swept(d, e, R, S)
    PROVE  Money(e, bills) /\ Purchases(e) = Purchases(d) /\ Refunds(e) = Refunds(d)
  BY LedgerLess DEF Money, PaidFor

-----------------------------------------------------------------------------
(* What the composed operators leave of the money *)

\* The payments made along with a bill: one more, or none.
Linked(d, e, b, amt) ==
    /\ Db(e) /\ SameDocs(d, e) /\ Money(e, e.bills) /\ Purchases(e) = Purchases(d) /\ Refunds(e) = Refunds(d)
    /\ \/ amt = 0 /\ e = d
       \/ \E o \in OutType : /\ LiveIn(e) = LiveIn(d) \cup {o} /\ o \notin LiveIn(d)
                             /\ o.bill = b /\ o.vendor = d.bills[b].vendor /\ ~o.refund /\ Net(o) = amt
                             /\ e.owed = [d.owed EXCEPT ![o.vendor] = @ + Net(o)]

LEMMA LinkedMoney ==
    ASSUME NEW d, Db(d), Money(d, d.bills), NEW b \in Bills, NEW bill \in BillType, NEW amt \in Nat, NEW mode \in Modes,
           NextNo(d) <= MaxOuts,
           amt # 0 => Posted(d.bills[b]) /\ bill.number = d.bills[b].number /\ bill.vendor = d.bills[b].vendor
    PROVE  Linked(d, PayLinked(d, b, bill, amt, mode), b, amt)
  <1> DEFINE e == PayLinked(d, b, bill, amt, mode)
  <1>1. Db(e) /\ SameDocs(d, e) BY PayLinkedIs
  <1>2. CASE amt = 0
    <2>1. e = d BY <1>2, PayLinkedIs
    <2> QED BY <1>1, <1>2, <2>1 DEF Linked
  <1>3. CASE amt # 0
    <2>1. PICK o \in OutType : /\ Recorded(d, e, o, bill.number)
                               /\ o.bill = b /\ o.vendor = bill.vendor /\ ~o.refund /\ o.auto /\ Net(o) = amt
      BY <1>3, PayLinkedIs
    <2>2. b # None BY Assumed
    <2>3. RefOf(o, d.bills) = bill.number BY <1>3, <2>1, <2>2 DEF RefOf
    <2> HIDE DEF e
    <2>4. /\ Money(e, d.bills) /\ Purchases(e) = Purchases(d) /\ Refunds(e) = Refunds(d)
          /\ LiveIn(e) = LiveIn(d) \cup {o} /\ o \notin LiveIn(d)
      BY <1>1, <1>3, <2>1, <2>3, MoneyMore
    <2>5. e.owed = [d.owed EXCEPT ![o.vendor] = @ + Net(o)] BY <2>1 DEF Recorded
    <2> QED BY <1>1, <1>3, <2>1, <2>4, <2>5 DEF Linked, SameDocs, e
  <1> QED BY <1>2, <1>3

LEMMA OutsOfIs == ASSUME NEW d, NEW b PROVE OutsOf(d, b) = {o \in LiveIn(d) : o.bill = b}
  BY DEF OutsOf, LiveIn

\* The payments of a bill reversed, given the number it had.
Unpaid(d, e, bills, b, vendor) ==
    /\ Db(e) /\ SameDocs(d, e) /\ Money(e, bills) /\ Purchases(e) = Purchases(d) /\ Refunds(e) = Refunds(d)
    /\ LiveIn(e) = LiveIn(d) \ OutsOf(d, b) /\ OutsOf(e, b) = {}
    /\ e.owed = [d.owed EXCEPT ![vendor] = @ - GrossOf(OutsOf(d, b))]

LEMMA UnlinkedMoney ==
    ASSUME OwnNumbers, NEW d, Db(d), NEW bills, Money(d, bills), NEW b \in Bills, NEW vendor,
           bills[b].doc = "live", NEW e, Unlinked(d, e, b, vendor, bills[b].number)
    PROVE  Unpaid(d, e, bills, b, vendor)
  <1> DEFINE S == OutsOf(d, b)
             B == {o \in S : o.mode = "bank"}
             R == RowsOfBill(d, bills[b].number)
  <1>1. S \in SUBSET LiveIn(d) /\ \A o \in LiveIn(d) : o \in S <=> o.bill = b BY DEF OutsOf, LiveIn
  <1>2. Db(e) /\ SameDocs(d, e) /\ e.outs = d.outs \ S /\ Swept(d, e, R, S)
        /\ e.owed = [d.owed EXCEPT ![vendor] = @ - GrossOf(S)]
    BY DEF Unlinked
  <1>3. LiveIn(e) = LiveIn(d) \ S /\ UniqueOuts(e) BY <1>1, <1>2 DEF LiveIn, Money, Ledger, UniqueOuts
  <1>4. ASSUME NEW o \in LiveIn(d) PROVE RefOf(o, bills) = bills[b].number <=> o.bill = b
    <2>1. o \in OutType BY LiveIsOut
    <2>2. o.bill \in Bills \cup {None} /\ o.no \in 1 .. MaxOuts BY <2>1 DEF OutType
    <2>3. Own(b, bills[b].number) BY DEF Money, Owned
    <2>4. bills[b].number \in Numbers /\ bills[b].number \notin 1 .. MaxOuts BY <2>3, OwnApart
    <2>5. CASE o.bill = None BY <2>2, <2>4, <2>5, Assumed DEF RefOf
    <2>6. CASE o.bill # None
      <3>1. o.bill \in Bills /\ bills[o.bill].doc = "live" BY <2>2, <2>6 DEF Money, PaidFor, Posted
      <3>2. Own(o.bill, bills[o.bill].number) BY <3>1 DEF Money, Owned
      <3>3. RefOf(o, bills) = bills[o.bill].number BY <2>6 DEF RefOf
      <3> QED BY <2>3, <3>1, <3>2, <3>3, OwnApart
    <2> QED BY <2>5, <2>6
  <1>5. R = RowsOf(B, bills)
    <2>1. \A x : x \in R <=> x \in RowsOf(BankLive(d), bills) /\ x.ref = bills[b].number
      BY DEF RowsOfBill, Money, Ledger, RowsAgree
    <2>2. \A o : RowOf(o, RefOf(o, bills)).ref = RefOf(o, bills) BY DEF RowOf
    <2>3. \A o \in BankLive(d) : o \in LiveIn(d) BY DEF BankLive
    <2>4. \A o : o \in B <=> o \in BankLive(d) /\ RefOf(o, bills) = bills[b].number
      BY <1>1, <1>4, <2>3 DEF BankLive
    <2> HIDE DEF B, R
    <2>5. ASSUME NEW x, x \in R PROVE x \in RowsOf(B, bills) BY <2>1, <2>5, <2>2, <2>4 DEF RowsOf
    <2>6. ASSUME NEW x, x \in RowsOf(B, bills) PROVE x \in R BY <2>6, <2>4, <2>1, <2>2 DEF RowsOf
    <2> QED BY <2>5, <2>6
  <1>6. OutsOf(e, b) = {}
    <2> HIDE DEF S
    <2> QED BY <1>1, <1>3, OutsOfIs
  <1> HIDE DEF R, S
  <1>7. Money(e, bills) /\ Purchases(e) = Purchases(d) /\ Refunds(e) = Refunds(d)
    BY <1>1, <1>2, <1>3, <1>5, MoneyLess
  <1> QED BY <1>2, <1>3, <1>6, <1>7 DEF Unpaid, S

\* A payment cancelled or deleted.
LEMMA UniqueLive ==
    ASSUME NEW d, NEW bills, Money(d, bills), NEW o \in LiveIn(d)
    PROVE  /\ \A p \in d.outs : p.no = o.no => p = o
           /\ Cancelled(d, o) = {[o EXCEPT !.live = FALSE]}
           /\ Others(d, o) = d.outs \ {o}
           /\ o \in d.outs /\ o.live
  BY DEF LiveIn, Money, Ledger, UniqueOuts, Cancelled, Others

\* The payment o withdrawn: what it moved is taken back, and its bill is recomputed.
Withdrawn(d, e, o) ==
    LET paid == AtLeast0(d.bills[o.bill].paid - Net(o))
        x    == Repaid(d.bills[o.bill], paid, StatusFor(d.bills[o.bill].total, paid, "unpaid"))
    IN  /\ Db(e) /\ e.returns = d.returns /\ e.notes = d.notes /\ e.goods = d.goods
        /\ Money(e, e.bills) /\ Purchases(e) = Purchases(d) /\ Refunds(e) = Refunds(d)
        /\ LiveIn(e) = LiveIn(d) \ {o}
        /\ e.bills = IF o.bill # None THEN [d.bills EXCEPT ![o.bill] = x] ELSE d.bills
        /\ o.bill # None => Akin(x, d.bills[o.bill])
        /\ BillJournals(e.bills) = BillJournals(d.bills)
        /\ e.owed = IF o.refund THEN d.owed ELSE [d.owed EXCEPT ![o.vendor] = @ - Net(o)]

LEMMA NotDraft ==
    ASSUME NEW total, NEW paid, NEW else, else # "draft"
    PROVE  StatusFor(total, paid, else) # "draft"
  BY DEF StatusFor

LEMMA RepaidIs ==
    ASSUME NEW bill \in BillType, NEW paid, NEW st
    PROVE  LET x == Repaid(bill, paid, st)
           IN  /\ x.doc = "live" /\ x.number = bill.number /\ x.vendor = bill.vendor /\ x.total = bill.total
               /\ x.paid = paid /\ x.st = st
               /\ (st = "draft" <=> bill.st = "draft") => Akin(x, bill)
  BY DEF Repaid, BillType, Akin

LEMMA PostedType ==
    ASSUME NEW bills, IsBills(bills), NEW b \in Bills, Posted(bills[b])
    PROVE  bills[b] \in BillType /\ bills[b].st # "draft"
  BY DEF IsBills, Posted, Gone, Unused

LEMMA WithdrawnIs ==
    ASSUME NEW d, Db(d), Money(d, d.bills), NEW o \in LiveIn(d), NEW e, Db(e), NEW u, Undone(d, u, o), SameDocs(u, e),
           e.rows = u.rows, e.bank = u.bank, e.owed = u.owed, e.gl = u.gl,
           e.outs = d.outs \ {o} \/ e.outs = (d.outs \ {o}) \cup {[o EXCEPT !.live = FALSE]}
    PROVE  Withdrawn(d, e, o)
  <1> DEFINE paid == AtLeast0(d.bills[o.bill].paid - Net(o))
             st   == StatusFor(d.bills[o.bill].total, paid, "unpaid")
             x    == Repaid(d.bills[o.bill], paid, st)
             B    == {p \in {o} : p.mode = "bank"}
             R    == RowsOfOut(d, o.no)
             c    == [o EXCEPT !.live = FALSE]
  <1>1. o \in OutType /\ o.bill \in Bills \cup {None} /\ o \in d.outs /\ o.live
        /\ \A p \in d.outs : p.no = o.no => p = o
    <2>1. o \in OutType BY LiveIsOut
    <2> QED BY <2>1, UniqueLive DEF OutType
  <1>2. c.no = o.no /\ c.amt = o.amt /\ c.disc = o.disc /\ c.live = FALSE BY <1>1 DEF OutType
  <1>3. Net(c) = Net(o) BY <1>2 DEF Net
  <1> HIDE DEF c
  <1>4. LiveIn(e) = LiveIn(d) \ {o} BY <1>1, <1>2 DEF LiveIn, c
  <1>5. UniqueOuts(e) BY <1>1, <1>2, <1>3 DEF Money, Ledger, UniqueOuts, c
  <1>6. R = RowsOf(B, d.bills)
    <2>1. \A y : y \in R <=> y \in RowsOf(BankLive(d), d.bills) /\ y.no = o.no
      BY DEF RowsOfOut, Money, Ledger, RowsAgree
    <2>2. \A p : RowOf(p, RefOf(p, d.bills)).no = p.no BY DEF RowOf
    <2>3. \A p : p \in B <=> p \in BankLive(d) /\ p.no = o.no BY <1>1 DEF BankLive, LiveIn
    <2> HIDE DEF B, R
    <2>4. ASSUME NEW y, y \in R PROVE y \in RowsOf(B, d.bills) BY <2>1, <2>4, <2>2, <2>3 DEF RowsOf
    <2>5. ASSUME NEW y, y \in RowsOf(B, d.bills) PROVE y \in R BY <2>5, <2>3, <2>1, <2>2 DEF RowsOf
    <2> QED BY <2>4, <2>5
  <1>7. Swept(d, e, R, {o}) BY DEF Undone, Swept
  <1> HIDE DEF R
  <1>8. Money(e, d.bills) /\ Purchases(e) = Purchases(d) /\ Refunds(e) = Refunds(d)
    BY <1>4, <1>5, <1>6, <1>7, MoneyLess
  <1>9. IsBills(d.bills) BY DEF IsBills, Db, DbType
  <1>10. ASSUME o.bill # None PROVE o.bill \in Bills /\ Posted(d.bills[o.bill]) /\ Akin(x, d.bills[o.bill])
    BY <1>1, <1>10, <1>9, PostedType, NotDraft, RepaidIs DEF Money, PaidFor
  <1>11. e.bills = IF o.bill # None THEN [d.bills EXCEPT ![o.bill] = x] ELSE d.bills
    BY <1>1, <1>10, Assumed DEF Undone, SameDocs, Posted
  <1>12. Money(e, e.bills) /\ BillJournals(e.bills) = BillJournals(d.bills)
    BY <1>8, <1>9, <1>10, <1>11, MoneyKept
  <1>13. /\ e.returns = d.returns /\ e.notes = d.notes /\ e.goods = d.goods
         /\ e.owed = IF o.refund THEN d.owed ELSE [d.owed EXCEPT ![o.vendor] = @ - Net(o)]
    BY DEF Undone, SameDocs
  <1> QED BY <1>4, <1>8, <1>10, <1>11, <1>12, <1>13 DEF Withdrawn

-----------------------------------------------------------------------------
(* What a vendor stands at apart from its payments, and what a bill was paid *)

PaysFor(L, v)  == {o \in L : o.vendor = v /\ ~o.refund}
PaidIn(d, v)   == NetOf(PaysFor(LiveIn(d), v))
Standing(d, v) == d.owed[v] - PaidIn(d, v)
Steady(d, e)   == \A v \in Vendors : Standing(e, v) = Standing(d, v)

PaidOf(d, b)        == NetOf(OutsOf(d, b))
OthersSame(d, e, b) == \A c \in Bills : c # b => OutsOf(e, c) = OutsOf(d, c)

LEMMA PaidInInt ==
    ASSUME NEW d, Db(d), NEW v \in Vendors
    PROVE  /\ IsFiniteSet(PaysFor(LiveIn(d), v)) /\ PaysFor(LiveIn(d), v) \subseteq OutType
           /\ PaidIn(d, v) \in Int /\ d.owed[v] \in Int /\ Standing(d, v) \in Int
  <1>1. IsFiniteSet(PaysFor(LiveIn(d), v)) /\ PaysFor(LiveIn(d), v) \subseteq OutType
    <2>1. PaysFor(LiveIn(d), v) \subseteq LiveIn(d) BY DEF PaysFor
    <2> QED BY <2>1, LiveIsOut, FS_Subset
  <1>2. PaidIn(d, v) \in Int BY <1>1, NetOfInt DEF PaidIn
  <1>3. d.owed[v] \in Int BY DEF Db, DbType
  <1> QED BY <1>1, <1>2, <1>3 DEF Standing

LEMMA OutsOfFinite ==
    ASSUME NEW d, Db(d), NEW b
    PROVE  IsFiniteSet(OutsOf(d, b)) /\ OutsOf(d, b) \subseteq OutType /\ OutsOf(d, b) \subseteq LiveIn(d) /\ PaidOf(d, b) \in Int
  BY OutsOfIs, LiveIsOut, FS_Subset, NetOfInt DEF PaidOf

OwedEach(d, e, o) == \A v \in Vendors : e.owed[v] = d.owed[v] + (IF ~o.refund /\ o.vendor = v THEN Net(o) ELSE 0)

\* One payment more, and the vendor's balance with it.
OneMore(d, e, o) ==
    /\ o \in OutType /\ o \notin LiveIn(d) /\ LiveIn(e) = LiveIn(d) \cup {o}
    /\ OwedEach(d, e, o)

LEMMA OneMoreSums ==
    ASSUME NEW d, Db(d), NEW e, Db(e), NEW o, OneMore(d, e, o)
    PROVE  /\ Steady(d, e)
           /\ \A b : OutsOf(e, b) = IF o.bill = b THEN OutsOf(d, b) \cup {o} ELSE OutsOf(d, b)
           /\ \A b : PaidOf(e, b) = PaidOf(d, b) + (IF o.bill = b THEN Net(o) ELSE 0)
  <1>1. o \in OutType /\ o \notin LiveIn(d) /\ LiveIn(e) = LiveIn(d) \cup {o} /\ Net(o) \in Int
    BY NetInt DEF OneMore
  <1>2. ASSUME NEW v \in Vendors PROVE Standing(e, v) = Standing(d, v)
    <2>1. /\ IsFiniteSet(PaysFor(LiveIn(d), v)) /\ PaysFor(LiveIn(d), v) \subseteq OutType
          /\ PaidIn(d, v) \in Int /\ d.owed[v] \in Int
      BY PaidInInt
    <2>2. CASE ~o.refund /\ o.vendor = v
      <3>1. PaysFor(LiveIn(e), v) = PaysFor(LiveIn(d), v) \cup {o} /\ o \notin PaysFor(LiveIn(d), v)
        BY <1>1, <2>2 DEF PaysFor
      <3>2. PaidIn(e, v) = PaidIn(d, v) + Net(o) BY <1>1, <2>1, <3>1, NetOfAdds DEF PaidIn
      <3>3. e.owed[v] = d.owed[v] + Net(o) BY <2>2 DEF OneMore, OwedEach
      <3> QED BY <1>1, <2>1, <3>2, <3>3 DEF Standing
    <2>3. CASE ~(~o.refund /\ o.vendor = v)
      <3>1. PaysFor(LiveIn(e), v) = PaysFor(LiveIn(d), v) BY <1>1, <2>3 DEF PaysFor
      <3>2. e.owed[v] = d.owed[v] BY <2>1, <2>3 DEF OneMore, OwedEach
      <3> QED BY <3>1, <3>2 DEF Standing, PaidIn
    <2> QED BY <2>2, <2>3
  <1>3. ASSUME NEW b
        PROVE  /\ OutsOf(e, b) = IF o.bill = b THEN OutsOf(d, b) \cup {o} ELSE OutsOf(d, b)
               /\ PaidOf(e, b) = PaidOf(d, b) + (IF o.bill = b THEN Net(o) ELSE 0)
    <2>1. IsFiniteSet(OutsOf(d, b)) /\ OutsOf(d, b) \subseteq OutType /\ o \notin OutsOf(d, b) /\ PaidOf(d, b) \in Int
      BY <1>1, OutsOfFinite
    <2>2. OutsOf(e, b) = IF o.bill = b THEN OutsOf(d, b) \cup {o} ELSE OutsOf(d, b) BY <1>1, OutsOfIs
    <2>3. CASE o.bill = b BY <1>1, <2>1, NetOfAdds, <2>2, <2>3 DEF PaidOf
    <2>4. CASE o.bill # b BY <2>1, <2>2, <2>4 DEF PaidOf
    <2> QED BY <2>2, <2>3, <2>4
  <1> QED BY <1>2, <1>3 DEF Steady

OwedWith(d, e, o) == e.owed = IF o.refund THEN d.owed ELSE [d.owed EXCEPT ![o.vendor] = @ + Net(o)]

LEMMA OwedMore ==
    ASSUME NEW d, Db(d), NEW e, NEW o \in OutType, OwedWith(d, e, o)
    PROVE  OwedEach(d, e, o)
  BY NetInt DEF Db, DbType, OutType, OwedWith, OwedEach

LEMMA RecordedOne ==
    ASSUME NEW d, Db(d), NEW e, NEW o, NEW ref, Recorded(d, e, o, ref), LiveIn(e) = LiveIn(d) \cup {o}, o \notin LiveIn(d)
    PROVE  OneMore(d, e, o)
  BY OwedMore DEF Recorded, OwedWith, OneMore

LEMMA LinkedSums ==
    ASSUME NEW d, Db(d), NEW e, NEW b \in Bills, NEW amt, Linked(d, e, b, amt)
    PROVE  /\ Steady(d, e) /\ OthersSame(d, e, b) /\ LiveIn(d) \subseteq LiveIn(e)
           /\ PaidOf(e, b) = PaidOf(d, b) + amt
  <1>1. CASE amt = 0 /\ e = d BY <1>1, OutsOfFinite DEF Steady, OthersSame
  <1>2. ASSUME NEW o \in OutType, LiveIn(e) = LiveIn(d) \cup {o}, o \notin LiveIn(d),
               o.bill = b, ~o.refund, Net(o) = amt, e.owed = [d.owed EXCEPT ![o.vendor] = @ + Net(o)]
        PROVE  /\ Steady(d, e) /\ OthersSame(d, e, b) /\ LiveIn(d) \subseteq LiveIn(e)
               /\ PaidOf(e, b) = PaidOf(d, b) + amt
    <2>1. OwedWith(d, e, o) BY <1>2 DEF OwedWith
    <2>2. OneMore(d, e, o)
      <3>1. OwedEach(d, e, o) BY <2>1, OwedMore
      <3> QED BY <1>2, <3>1 DEF OneMore
    <2>3. Db(e) BY DEF Linked
    <2> QED BY <1>2, <2>2, <2>3, OneMoreSums DEF OthersSame
  <1> QED BY <1>1, <1>2 DEF Linked

LEMMA UnpaidSums ==
    ASSUME NEW d, Db(d), NEW e, NEW bills, NEW b \in Bills, Money(d, bills), NEW vendor \in Vendors,
           Unpaid(d, e, bills, b, vendor), vendor = bills[b].vendor
    PROVE  /\ OthersSame(d, e, b) /\ PaidOf(e, b) = 0
           /\ Discounts \subseteq {0} => Steady(d, e)
  <1> DEFINE S == OutsOf(d, b)
  <1>1. /\ LiveIn(e) = LiveIn(d) \ S /\ OutsOf(e, b) = {} /\ Db(e)
        /\ e.owed = [d.owed EXCEPT ![vendor] = @ - GrossOf(S)]
    BY DEF Unpaid
  <1>2. IsFiniteSet(S) /\ S \subseteq OutType /\ S \subseteq LiveIn(d) BY OutsOfFinite
  <1>3. OthersSame(d, e, b) BY <1>1, OutsOfIs DEF OthersSame
  <1>4. PaidOf(e, b) = 0 BY <1>1, NetOfNone DEF PaidOf
  <1>5. \A o \in S : o.vendor = vendor /\ ~o.refund BY OutsOfIs, Assumed, <1>2 DEF Money, Ledger, VendorsAgree
  <1>6. ASSUME Discounts \subseteq {0}, NEW v \in Vendors PROVE Standing(e, v) = Standing(d, v)
    <2>1. /\ IsFiniteSet(PaysFor(LiveIn(d), v)) /\ PaysFor(LiveIn(d), v) \subseteq OutType
          /\ PaidIn(d, v) \in Int /\ d.owed[v] \in Int /\ d.owed \in [Vendors -> Int]
      BY PaidInInt DEF Db, DbType
    <2>2. GrossOf(S) = NetOf(S) /\ NetOf(S) \in Int BY <1>2, <1>6, GrossIsNet, NetOfInt
    <2> HIDE DEF S
    <2>3. CASE v = vendor
      <3>1. PaysFor(LiveIn(e), v) = PaysFor(LiveIn(d), v) \ S /\ S \in SUBSET PaysFor(LiveIn(d), v)
        BY <1>1, <1>2, <1>5, <2>3 DEF PaysFor
      <3>2. PaidIn(e, v) = PaidIn(d, v) - NetOf(S) BY <2>1, <3>1, NetOfWithout DEF PaidIn
      <3>3. e.owed[v] = d.owed[v] - NetOf(S) BY <1>1, <2>1, <2>2, <2>3
      <3> QED BY <2>1, <2>2, <3>2, <3>3 DEF Standing
    <2>4. CASE v # vendor
      <3>1. PaysFor(LiveIn(e), v) = PaysFor(LiveIn(d), v) BY <1>1, <1>5, <2>4 DEF PaysFor
      <3>2. e.owed[v] = d.owed[v] BY <1>1, <2>1, <2>4
      <3> QED BY <3>1, <3>2 DEF Standing, PaidIn
    <2> QED BY <2>3, <2>4
  <1> QED BY <1>3, <1>4, <1>6 DEF Steady

LEMMA WithdrawnSums ==
    ASSUME NEW d, Db(d), NEW e, NEW o \in LiveIn(d), Withdrawn(d, e, o)
    PROVE  /\ Steady(d, e)
           /\ \A b : PaidOf(e, b) = PaidOf(d, b) - (IF o.bill = b THEN Net(o) ELSE 0)
  <1>1. o \in OutType /\ o.vendor \in Vendors /\ Net(o) \in Int /\ d.owed \in [Vendors -> Int]
    <2>1. o \in OutType BY LiveIsOut
    <2> QED BY <2>1, NetInt DEF OutType, Db, DbType
  <1>2. /\ Db(e) /\ LiveIn(e) = LiveIn(d) \ {o}
        /\ e.owed = IF o.refund THEN d.owed ELSE [d.owed EXCEPT ![o.vendor] = @ - Net(o)]
    BY DEF Withdrawn
  <1>3. OneMore(e, d, o) BY <1>1, <1>2 DEF OneMore, OwedEach
  <1>4. Steady(e, d) /\ \A b : PaidOf(d, b) = PaidOf(e, b) + (IF o.bill = b THEN Net(o) ELSE 0)
    BY <1>2, <1>3, OneMoreSums
  <1>5. \A b : PaidOf(e, b) \in Int BY <1>2, OutsOfFinite
  <1> QED BY <1>1, <1>4, <1>5 DEF Steady

-----------------------------------------------------------------------------
(* What creating, editing and deleting a bill comes to *)

Shifted(d, e, w, x) == \A v \in Vendors : Standing(e, v) = Standing(d, v) + (IF v = w THEN x ELSE 0)

\* Money and journals are in order, with the bills that are on file.
InOrder(d) == Db(d) /\ Money(d, d.bills) /\ Purchases(d) = BillJournals(d.bills)

SamePapers(d, e) == e.returns = d.returns /\ e.notes = d.notes /\ e.goods = d.goods

LEMMA DbBills == ASSUME NEW d, Db(d) PROVE IsBills(d.bills) /\ DOMAIN d.bills = Bills
  BY DEF Db, DbType, IsBills

LEMMA NoOuts ==
    ASSUME NEW d, NEW bills, Money(d, bills), NEW b \in Bills, ~Posted(bills[b])
    PROVE  OutsOf(d, b) = {}
  <1>1. b # None BY Assumed
  <1> QED BY <1>1, OutsOfIs DEF Money, PaidFor

LEMMA ShiftedIs ==
    ASSUME NEW d, Db(d), NEW e, Db(e), LiveIn(e) = LiveIn(d), NEW w \in Vendors, NEW x \in Int,
           e.owed = [d.owed EXCEPT ![w] = @ + x]
    PROVE  Shifted(d, e, w, x)
  <1> SUFFICES ASSUME NEW v \in Vendors PROVE Standing(e, v) = Standing(d, v) + (IF v = w THEN x ELSE 0)
    BY DEF Shifted
  <1>1. d.owed \in [Vendors -> Int] /\ PaidIn(d, v) \in Int /\ d.owed[v] \in Int BY PaidInInt DEF Db, DbType
  <1>2. PaidIn(e, v) = PaidIn(d, v) BY DEF PaidIn
  <1>3. e.owed[v] = d.owed[v] + (IF v = w THEN x ELSE 0) BY <1>1
  <1>4. (IF v = w THEN x ELSE 0) \in Int OBVIOUS
  <1> HIDE DEF Standing
  <1> QED BY <1>1, <1>2, <1>3, <1>4 DEF Standing

LEMMA SameOuts == ASSUME NEW d, NEW e, LiveIn(e) = LiveIn(d) PROVE \A b : OutsOf(e, b) = OutsOf(d, b) /\ PaidOf(e, b) = PaidOf(d, b)
  BY OutsOfIs DEF PaidOf

\* A new bill x.
Opened(d, e, b, x) ==
    /\ InOrder(e) /\ Refunds(e) = Refunds(d) /\ SamePapers(d, e)
    /\ e.bills = [d.bills EXCEPT ![b] = x]
    /\ LiveIn(d) \subseteq LiveIn(e) /\ OthersSame(d, e, b)
    /\ PaidOf(e, b) = IF x.st = "draft" THEN 0 ELSE x.paid
    /\ Shifted(d, e, x.vendor, Contribution(x))

LEMMA OpenedIs ==
    ASSUME NEW d, InOrder(d), NEW b \in Bills, ~Posted(d.bills[b]), NEW x \in BillType, x.paid \in Nat, Own(b, x.number),
           NEW mode \in Modes, NextNo(d) <= MaxOuts
    PROVE  Opened(d, Created(d, b, x, mode), b, x)
  <1> DEFINE e == Created(d, b, x, mode)
             new == [d.bills EXCEPT ![b] = x]
  <1>1. Db(d) /\ Money(d, d.bills) /\ Purchases(d) = BillJournals(d.bills) /\ IsBills(d.bills)
    BY DbBills DEF InOrder
  <1>2. OutsOf(d, b) = {} /\ PaidOf(d, b) = 0 BY <1>1, NoOuts, NetOfNone DEF PaidOf
  <1>3. x.doc = "live" /\ x.vendor \in Vendors /\ x.total \in Int BY TotalType DEF BillType
  <1>4. new[b] = x BY <1>1 DEF IsBills
  <1>5. BillJournals(new) = BillJournals(d.bills) \cup (IF Posted(x) THEN {BillJournal(b, x)} ELSE {})
    BY <1>1, BillJournalsIs DEF BillJournals, BillJournal
  <1>6. CASE x.st = "draft"
    <2>1. BillIs(d, e, b, x) BY <1>1, <1>6, CreatedIs
    <2>2. Db(e) /\ SameMoney(d, e) /\ e.bills = new /\ SamePapers(d, e) BY <2>1 DEF BillIs, SamePapers
    <2> HIDE DEF e, new
    <2>3. Money(e, d.bills) /\ Purchases(e) = Purchases(d) /\ Refunds(e) = Refunds(d) /\ LiveIn(e) = LiveIn(d)
      BY <1>1, <2>2, MoneySame
    <2>4. OutsOf(e, b) = {} BY <1>2, <2>3, SameOuts
    <2>5. Money(e, new) BY <1>1, <2>2, <2>3, <2>4, MoneyBill DEF new
    <2>6. Purchases(e) = BillJournals(new) BY <1>1, <1>5, <1>6, <2>3 DEF Posted
    <2>7. Contribution(x) = 0 /\ e.owed = [d.owed EXCEPT ![x.vendor] = @ + 0]
      BY <1>1, <2>2, <1>3, <1>6 DEF Db, DbType, SameMoney, Contribution
    <2>8. Shifted(d, e, x.vendor, Contribution(x)) BY <1>1, <1>3, <2>2, <2>3, <2>7, ShiftedIs
    <2>9. OthersSame(d, e, b) /\ PaidOf(e, b) = 0 BY <1>2, <2>3, SameOuts DEF OthersSame
    <2> QED BY <1>6, <2>2, <2>3, <2>5, <2>6, <2>8, <2>9 DEF Opened, InOrder, new, e
  <1>7. CASE x.st # "draft"
    <2>1. PICK f : Filed(d, f, b, x) /\ e = PayLinked(f, b, x, x.paid, mode) BY <1>1, <1>7, CreatedIs
    <2>2. /\ Db(f) /\ f.bills = new /\ SamePapers(d, f) /\ f.outs = d.outs /\ f.rows = d.rows /\ f.bank = d.bank
          /\ f.gl = d.gl \cup {BillJournal(b, x)} /\ f.owed = [d.owed EXCEPT ![x.vendor] = @ - x.total]
      BY <2>1 DEF Filed, SamePapers
    <2> HIDE DEF e, new
    <2>3. Money(f, d.bills) /\ Refunds(f) = Refunds(d) /\ LiveIn(f) = LiveIn(d)
      BY <2>2, <1>1, MoneyApart DEF BillJournal
    <2>4. Purchases(f) = BillJournals(new) BY <2>2, <1>1, <1>3, <1>5, <1>7 DEF BillJournal, Purchases, Posted
    <2>5. OutsOf(f, b) = {} /\ PaidOf(f, b) = 0 BY <1>2, <2>3, SameOuts
    <2>6. Money(f, f.bills) BY <1>1, <2>2, <2>3, <2>5, MoneyBill DEF new
    <2>7. NextNo(f) <= MaxOuts BY <2>2 DEF NextNo
    <2>8. Linked(f, e, b, x.paid)
      <3>1. Posted(f.bills[b]) /\ f.bills[b] = x BY <1>3, <1>4, <1>7, <2>2 DEF Posted
      <3> QED BY <2>1, <2>2, <2>6, <2>7, <3>1, LinkedMoney
    <2>9. Steady(f, e) /\ OthersSame(f, e, b) /\ LiveIn(f) \subseteq LiveIn(e) /\ PaidOf(e, b) = PaidOf(f, b) + x.paid
      BY <2>2, <2>8, LinkedSums
    <2>10. /\ Db(e) /\ SameDocs(f, e) /\ Money(e, e.bills) /\ Purchases(e) = Purchases(f) /\ Refunds(e) = Refunds(f)
      BY <2>8 DEF Linked
    <2>11. Shifted(d, f, x.vendor, Contribution(x))
      <3>1. Contribution(x) = -x.total /\ -x.total \in Int BY <1>3, <1>7 DEF Contribution
      <3>2. d.owed[x.vendor] - x.total = d.owed[x.vendor] + (-x.total) BY <1>1, <1>3 DEF Db, DbType
      <3>3. f.owed = [d.owed EXCEPT ![x.vendor] = @ + (-x.total)] BY <2>2, <3>2
      <3> QED BY <1>1, <1>3, <2>2, <2>3, <3>1, <3>3, ShiftedIs
    <2>12. Shifted(d, e, x.vendor, Contribution(x)) BY <2>9, <2>11 DEF Shifted, Steady
    <2>13. OthersSame(d, e, b) /\ PaidOf(e, b) = x.paid
      <3>1. \A c : OutsOf(f, c) = OutsOf(d, c) BY <2>3, SameOuts
      <3> QED BY <2>5, <2>9, <3>1 DEF OthersSame
    <2>14. e.bills = new /\ SamePapers(d, e) /\ Purchases(e) = BillJournals(e.bills) /\ Refunds(e) = Refunds(d) /\ LiveIn(d) \subseteq LiveIn(e)
      BY <2>2, <2>3, <2>4, <2>9, <2>10 DEF SameDocs, SamePapers
    <2> QED BY <1>7, <2>10, <2>12, <2>13, <2>14 DEF Opened, InOrder, new, e
  <1> QED BY <1>6, <1>7

\* An entry of gl replaced by those of a bill leaves the others' and gives the bill's.
LEMMA RebilledMoney ==
    ASSUME NEW d, Db(d), NEW e, NEW b \in Bills, NEW bills, IsBills(bills), Money(d, [bills EXCEPT ![b] = d.bills[b]]),
           d.bills = [bills EXCEPT ![b] = d.bills[b]],
           Purchases(d) = BillJournals(bills), NEW owed,
           NEW posted, posted = IF Posted(d.bills[b]) THEN {BillJournal(b, d.bills[b])} ELSE {},
           Rebilled(d, e, b, posted, owed)
    PROVE  InOrder(e) /\ SameDocs(d, e) /\ Refunds(e) = Refunds(d) /\ LiveIn(e) = LiveIn(d) /\ e.owed = owed
  <1>1. /\ Db(e) /\ SameDocs(d, e) /\ e.outs = d.outs /\ e.rows = d.rows /\ e.bank = d.bank /\ e.owed = owed
        /\ e.gl = {g \in d.gl : ~(g.kind = "purchase_bill" /\ g.id \in {b})} \cup posted
    BY DEF Rebilled
  <1>2. \A g \in posted : g.kind = "purchase_bill" BY DEF BillJournal
  <1>3. {g \in e.gl : g.kind # "purchase_bill"} = {g \in d.gl : g.kind # "purchase_bill"} BY <1>1, <1>2
  <1>4. Purchases(e) = {g \in Purchases(d) : g.id # b} \cup posted BY <1>1, <1>2 DEF Purchases
  <1>5. BillJournals(d.bills) = {g \in BillJournals(bills) : g.id # b} \cup posted
    <2>1. \A x : BillJournals([bills EXCEPT ![b] = x])
                   = {g \in BillJournals(bills) : g.id # b} \cup (IF Posted(x) THEN {BillJournal(b, x)} ELSE {})
      BY BillJournalsIs
    <2> QED BY Zenon, <2>1
  <1>6. Money(d, d.bills) BY Zenon
  <1>7. Money(e, d.bills) /\ Refunds(e) = Refunds(d) /\ LiveIn(e) = LiveIn(d) BY <1>1, <1>3, <1>6, MoneyApart
  <1>8. e.bills = d.bills BY <1>1 DEF SameDocs
  <1> QED BY <1>1, <1>4, <1>5, <1>7, <1>8 DEF InOrder

\* What moves when a bill old becomes new, or is deleted (more = 0).
Traded(d, e, old, less, w, more) ==
    \A v \in Vendors : Standing(e, v) = Standing(d, v) - (IF v = old THEN less ELSE 0) + (IF v = w THEN more ELSE 0)

LEMMA TradedIs ==
    ASSUME NEW d, Db(d), NEW e, Db(e), LiveIn(e) = LiveIn(d), NEW old \in Vendors, NEW less \in Int,
           NEW w \in Vendors, NEW more \in Int, e.owed = MovedTo(d.owed, old, less, w, more)
    PROVE  Traded(d, e, old, less, w, more)
  <1> SUFFICES ASSUME NEW v \in Vendors
               PROVE  Standing(e, v) = Standing(d, v) - (IF v = old THEN less ELSE 0) + (IF v = w THEN more ELSE 0)
    BY DEF Traded
  <1>1. d.owed \in [Vendors -> Int] /\ PaidIn(d, v) \in Int /\ d.owed[v] \in Int BY PaidInInt DEF Db, DbType
  <1>2. PaidIn(e, v) = PaidIn(d, v) BY DEF PaidIn
  <1>3. e.owed[v] = d.owed[v] - (IF v = old THEN less ELSE 0) + (IF v = w THEN more ELSE 0) BY <1>1 DEF MovedTo
  <1>4. (IF v = old THEN less ELSE 0) \in Int /\ (IF v = w THEN more ELSE 0) \in Int OBVIOUS
  <1> QED BY <1>1, <1>2, <1>3, <1>4 DEF Standing

\* The bill b is now x: its payments are those of x alone.
Reopened(d, e, b, old, x) ==
    /\ InOrder(e) /\ Refunds(e) = Refunds(d) /\ SamePapers(d, e)
    /\ e.bills = [d.bills EXCEPT ![b] = x]
    /\ OthersSame(d, e, b) /\ PaidOf(e, b) = x.paid
    /\ Discounts \subseteq {0} => Traded(d, e, old.vendor, Contribution(old), x.vendor, Contribution(x))

LEMMA ReopenedIs ==
    ASSUME OwnNumbers, NEW d, InOrder(d), NEW b \in Bills, NEW old \in BillType, d.bills[b] = old,
           NEW x \in BillType, x.paid \in Nat, x.st = "draft" => x.paid = 0, Own(b, x.number),
           NEW mode \in Modes, NextNo(d) <= MaxOuts
    PROVE  Reopened(d, Edited(d, b, old, x, mode), b, old, x)
  <1> DEFINE saved    == SaveBill(d, b, x)
             reversed == ReverseLinked(saved, b, old.vendor, old.number)
             paid     == PayLinked(reversed, b, x, x.paid, mode)
             e        == Edited(d, b, old, x, mode)
             new      == [d.bills EXCEPT ![b] = x]
             w        == MovedTo(paid.owed, old.vendor, Contribution(old), x.vendor, Contribution(x))
  <1>1. Db(d) /\ Money(d, d.bills) /\ Purchases(d) = BillJournals(d.bills) /\ IsBills(d.bills)
    BY DbBills DEF InOrder
  <1>2. /\ BillIs(d, saved, b, x) /\ Db(reversed) /\ Db(paid) /\ NextNo(reversed) <= MaxOuts
        /\ Rebilled(paid, e, b, PostedAs(b, x), w)
    BY <1>1, EditedIs
  <1>3. /\ x.doc = "live" /\ x.vendor \in Vendors /\ old.doc = "live" /\ old.vendor \in Vendors
        /\ Contribution(old) \in Int /\ Contribution(x) \in Int
    BY ContributionType DEF BillType
  <1>4. Db(saved) /\ SameMoney(d, saved) /\ saved.bills = new /\ SamePapers(d, saved)
    BY <1>2 DEF BillIs, SamePapers
  <1>5. new[b] = x BY <1>1 DEF IsBills
  <1> HIDE DEF saved, new, w, e
  <1>6. /\ Money(saved, d.bills) /\ Purchases(saved) = Purchases(d) /\ Refunds(saved) = Refunds(d)
        /\ LiveIn(saved) = LiveIn(d) /\ saved.owed = d.owed
    BY <1>1, <1>4, MoneySame DEF SameMoney
  <1>7. Unpaid(saved, reversed, d.bills, b, old.vendor) BY <1>3, <1>4, ReverseLinkedIs, <1>6, UnlinkedMoney
  <1> HIDE DEF reversed
  <1>8. /\ Money(reversed, d.bills) /\ SameDocs(saved, reversed) /\ OutsOf(reversed, b) = {}
        /\ Purchases(reversed) = Purchases(d) /\ Refunds(reversed) = Refunds(d)
    BY <1>6, <1>7 DEF Unpaid
  <1>9. /\ OthersSame(saved, reversed, b) /\ PaidOf(reversed, b) = 0
        /\ Discounts \subseteq {0} => Steady(saved, reversed)
    BY <1>3, <1>4, <1>6, <1>7, UnpaidSums
  <1>10. reversed.bills = new /\ SamePapers(d, reversed) BY <1>4, <1>8 DEF SameDocs, SamePapers
  <1>11. Money(reversed, new) BY <1>1, <1>2, <1>8, MoneyBill DEF new
  <1>12. Linked(reversed, paid, b, x.paid) BY <1>3, <1>5, <1>10, <1>2, <1>11, LinkedMoney DEF Posted
  <1> HIDE DEF paid
  <1>13. Steady(reversed, paid) /\ OthersSame(reversed, paid, b) /\ PaidOf(paid, b) = PaidOf(reversed, b) + x.paid
    BY <1>2, <1>12, LinkedSums
  <1>14. /\ SameDocs(reversed, paid) /\ Money(paid, paid.bills)
         /\ Purchases(paid) = Purchases(reversed) /\ Refunds(paid) = Refunds(reversed)
    BY <1>12 DEF Linked
  <1>15. paid.bills = new /\ SamePapers(d, paid) BY <1>10, <1>14 DEF SameDocs, SamePapers
  <1>16. InOrder(e) /\ SameDocs(paid, e) /\ Refunds(e) = Refunds(paid) /\ LiveIn(e) = LiveIn(paid) /\ e.owed = w
    <2>1. paid.bills[b] = x BY <1>5, <1>15
    <2>2. [d.bills EXCEPT ![b] = paid.bills[b]] = new BY <2>1 DEF new
    <2>3. PostedAs(b, x) = IF Posted(paid.bills[b]) THEN {BillJournal(b, paid.bills[b])} ELSE {}
      BY <1>3, <2>1 DEF PostedAs, Posted
    <2>4. Purchases(paid) = BillJournals(d.bills) BY <1>1, <1>8, <1>14
    <2>5. Money(paid, [d.bills EXCEPT ![b] = paid.bills[b]]) /\ paid.bills = [d.bills EXCEPT ![b] = paid.bills[b]]
      BY <1>14, <1>15, <2>2
    <2> QED BY <1>1, <1>2, <2>3, <2>4, <2>5, RebilledMoney
  <1>17. ASSUME Discounts \subseteq {0}
         PROVE  Traded(d, e, old.vendor, Contribution(old), x.vendor, Contribution(x))
    <2>1. Db(e) BY <1>16 DEF InOrder
    <2>2. Traded(paid, e, old.vendor, Contribution(old), x.vendor, Contribution(x))
      BY <1>2, <1>3, <1>16, <2>1, TradedIs DEF w
    <2>3. \A v : Standing(saved, v) = Standing(d, v) BY <1>6 DEF Standing, PaidIn
    <2>4. \A v \in Vendors : Standing(paid, v) = Standing(d, v) BY <1>9, <1>13, <1>17, <2>3 DEF Steady
    <2> QED BY <2>2, <2>4 DEF Traded
  <1>18. OthersSame(d, e, b) BY <1>6, <1>16, SameOuts, <1>9, <1>13 DEF OthersSame
  <1>19. PaidOf(e, b) = x.paid
    <2>1. PaidOf(e, b) = PaidOf(paid, b) BY <1>16, SameOuts
    <2> QED BY <1>9, <1>13, <2>1
  <1> QED BY <1>8, <1>14, <1>15, <1>16, <1>17, <1>18, <1>19 DEF Reopened, SameDocs, SamePapers, new, e

\* The bill b is deleted.
Removed(d, e, b, old) ==
    /\ InOrder(e) /\ Refunds(e) = Refunds(d) /\ SamePapers(d, e)
    /\ e.bills = [d.bills EXCEPT ![b] = [doc |-> "deleted"]]
    /\ OthersSame(d, e, b) /\ PaidOf(e, b) = 0
    /\ Discounts \subseteq {0} => Shifted(d, e, old.vendor, -Contribution(old))

LEMMA RemovedIs ==
    ASSUME OwnNumbers, NEW d, InOrder(d), NEW b \in Bills, NEW old \in BillType, d.bills[b] = old
    PROVE  Removed(d, Erased(d, b, old), b, old)
  <1> DEFINE reversed == ReverseLinked(d, b, old.vendor, old.number)
             x        == [doc |-> "deleted"]
             gone     == [reversed EXCEPT !.bills[b] = x]
             e        == Erased(d, b, old)
             new      == [d.bills EXCEPT ![b] = x]
             w        == [gone.owed EXCEPT ![old.vendor] = @ - Contribution(old)]
  <1>1. Db(d) /\ Money(d, d.bills) /\ Purchases(d) = BillJournals(d.bills) /\ IsBills(d.bills)
    BY DbBills DEF InOrder
  <1>2. Db(reversed) /\ BillIs(reversed, gone, b, x) /\ Rebilled(gone, e, b, {}, w) BY <1>1, ErasedIs
  <1>3. old.doc = "live" /\ old.vendor \in Vendors /\ Contribution(old) \in Int /\ -Contribution(old) \in Int
    BY ContributionType DEF BillType
  <1>4. x.doc # "live" /\ ~Posted(x) BY DEF Posted
  <1> HIDE DEF x, gone, new, e
  <1>5. Unpaid(d, reversed, d.bills, b, old.vendor) BY <1>1, <1>3, ReverseLinkedIs, UnlinkedMoney
  <1> HIDE DEF reversed
  <1>6. /\ Money(reversed, d.bills) /\ SameDocs(d, reversed) /\ OutsOf(reversed, b) = {}
        /\ Purchases(reversed) = Purchases(d) /\ Refunds(reversed) = Refunds(d)
    BY <1>5 DEF Unpaid
  <1>7. /\ OthersSame(d, reversed, b) /\ PaidOf(reversed, b) = 0
        /\ Discounts \subseteq {0} => Steady(d, reversed)
    BY <1>1, <1>3, <1>5, UnpaidSums
  <1>8. Money(reversed, new) BY <1>1, <1>2, <1>4, <1>6, MoneyBill DEF new
  <1>9. Db(gone) /\ SameMoney(reversed, gone) /\ gone.bills = new /\ SamePapers(d, gone)
    BY <1>2, <1>6 DEF BillIs, SameDocs, SamePapers, new
  <1>10. /\ Money(gone, new) /\ Purchases(gone) = Purchases(d) /\ Refunds(gone) = Refunds(d)
         /\ LiveIn(gone) = LiveIn(reversed) /\ gone.owed = reversed.owed
    BY <1>6, <1>8, <1>9, MoneySame DEF SameMoney
  <1>11. InOrder(e) /\ SameDocs(gone, e) /\ Refunds(e) = Refunds(gone) /\ LiveIn(e) = LiveIn(gone) /\ e.owed = w
    <2>1. gone.bills[b] = x BY <1>1, <1>9 DEF new, IsBills
    <2>2. [d.bills EXCEPT ![b] = gone.bills[b]] = new BY <2>1 DEF new
    <2>3. {} = IF Posted(gone.bills[b]) THEN {BillJournal(b, gone.bills[b])} ELSE {} BY <1>4, <2>1
    <2>4. Purchases(gone) = BillJournals(d.bills) BY <1>1, <1>10
    <2>5. Money(gone, [d.bills EXCEPT ![b] = gone.bills[b]]) /\ gone.bills = [d.bills EXCEPT ![b] = gone.bills[b]]
      BY <1>9, <1>10, <2>2
    <2> HIDE DEF w
    <2> QED BY <1>1, <1>2, <1>9, <2>3, <2>4, <2>5, RebilledMoney
  <1>12. ASSUME Discounts \subseteq {0} PROVE Shifted(d, e, old.vendor, -Contribution(old))
    <2>1. Db(e) BY <1>11 DEF InOrder
    <2>2. gone.owed[old.vendor] - Contribution(old) = gone.owed[old.vendor] + (-Contribution(old))
      BY <1>3, <1>9 DEF Db, DbType
    <2>3. e.owed = [gone.owed EXCEPT ![old.vendor] = @ + (-Contribution(old))] BY <1>11, <2>2
    <2>4. Shifted(gone, e, old.vendor, -Contribution(old)) BY <1>3, <1>9, <1>11, <2>1, <2>3, ShiftedIs
    <2>5. \A v : Standing(gone, v) = Standing(reversed, v) BY <1>10 DEF Standing, PaidIn
    <2>6. \A v \in Vendors : Standing(gone, v) = Standing(d, v) BY <1>7, <1>12, <2>5 DEF Steady
    <2> QED BY <2>4, <2>6 DEF Shifted
  <1>13. OthersSame(d, e, b) /\ PaidOf(e, b) = 0 BY <1>10, <1>11, SameOuts, <1>7 DEF OthersSame
  <1> QED BY <1>9, <1>10, <1>11, <1>12, <1>13 DEF Removed, SameDocs, SamePapers, new, e, x

-----------------------------------------------------------------------------
(* The other changes of the money *)

LEMMA PlainIs ==
    ASSUME NEW d, InOrder(d), NEW e, Db(e), SameMoney(d, e), e.bills = d.bills
    PROVE  InOrder(e) /\ Refunds(e) = Refunds(d) /\ LiveIn(e) = LiveIn(d)
  BY MoneySame DEF InOrder

LEMMA KeptIs ==
    ASSUME NEW d, InOrder(d), NEW e, Db(e), SameMoney(d, e), NEW b \in Bills, NEW x, Akin(x, d.bills[b]),
           e.bills = [d.bills EXCEPT ![b] = x]
    PROVE  InOrder(e) /\ Refunds(e) = Refunds(d) /\ LiveIn(e) = LiveIn(d)
  BY DbBills, MoneyKept, MoneySame DEF InOrder

\* A payment of net for the bill b, of which old is the copy, or for none.
PaidBill(old, net) == Repaid(old, old.paid + net, StatusFor(old.total, old.paid + net, old.st))

Spent(d, e, o, b, old, net) ==
    /\ InOrder(e) /\ Refunds(e) = Refunds(d) /\ SamePapers(d, e) /\ OneMore(d, e, o)
    /\ o.bill = b /\ Net(o) = net
    /\ e.bills = IF b = None THEN d.bills ELSE [d.bills EXCEPT ![b] = PaidBill(old, net)]

LEMMA SpentIs ==
    ASSUME NEW d, InOrder(d), NEW b \in Bills \cup {None}, NEW old, NEW v, NEW net, NEW refund,
           b # None => d.bills[b] = old /\ old \in BillType /\ old.st # "draft" /\ v = old.vendor /\ refund = FALSE,
           NEW e, NEW o, PaidAs(d, e, o, b, old, v, net, refund)
    PROVE  Spent(d, e, o, b, old, net)
  <1>1. Db(d) /\ Money(d, d.bills) /\ Purchases(d) = BillJournals(d.bills) /\ IsBills(d.bills)
    BY DbBills DEF InOrder
  <1>2. /\ Db(e) /\ SamePapers(d, e) /\ BillPaid(d, e, b, old, net)
        /\ Recorded(d, e, o, IF b = None THEN o.no ELSE old.number)
        /\ o.bill = b /\ o.vendor = v /\ o.refund = refund /\ Net(o) = net
    BY DEF PaidAs, SamePapers
  <1>3. RefOf(o, d.bills) = IF b = None THEN o.no ELSE old.number BY <1>2 DEF RefOf
  <1>4. b # None => b \in Bills /\ d.bills[b].doc = "live" /\ Posted(d.bills[b]) BY DEF BillType, Posted
  <1>5. /\ Money(e, d.bills) /\ Purchases(e) = Purchases(d) /\ Refunds(e) = Refunds(d)
        /\ LiveIn(e) = LiveIn(d) \cup {o} /\ o \notin LiveIn(d)
    BY <1>2, <1>3, <1>4, <1>1, MoneyMore
  <1>6. OneMore(d, e, o) BY <1>1, <1>2, <1>5, RecordedOne
  <1>7. e.bills = IF b = None THEN d.bills ELSE [d.bills EXCEPT ![b] = PaidBill(old, net)]
    BY <1>2, Assumed, <1>4 DEF BillPaid, PaidBill
  <1>8. Money(e, e.bills) /\ BillJournals(e.bills) = BillJournals(d.bills)
    <2>1. CASE b = None BY <1>5, <1>7, <2>1
    <2>2. CASE b # None
      <3>1. Akin(PaidBill(old, net), d.bills[b]) BY <2>2, NotDraft, RepaidIs DEF PaidBill
      <3> QED BY <1>1, <1>2, <1>4, <1>5, <1>7, <2>2, <3>1, MoneyKept
    <2> QED BY <2>1, <2>2
  <1> QED BY <1>1, <1>2, <1>5, <1>6, <1>7, <1>8 DEF Spent, InOrder

-----------------------------------------------------------------------------
(* Papers, and what the request under way knows of the database *)

Processed(x)     == x.doc = "live" /\ x.st = "processed"
Pointed(bills, b) == b # None => bills[b].doc # "unused"
Aimed(bills, b)   == b # None => Posted(bills[b]) \/ bills[b].doc = "deleted"

Papers(d) ==
    /\ \A t \in Returns : d.returns[t].doc = "live" => Pointed(d.bills, d.returns[t].bill)
    /\ \A n \in Notes \cup Returns : d.notes[n].doc = "live" => Pointed(d.bills, d.notes[n].bill)
    /\ \A t \in Returns : d.goods[t] = IF Processed(d.returns[t]) THEN 1 ELSE 0
    /\ \A t \in Returns : \A x \in Refunds(d) : x.no = t => d.goods[t] = 1

Deleted == [doc |-> "deleted"]

KnowsBill(d, q) ==
    /\ q.op \in {"update_bill", "delete_bill", "pay_bill"} => d.bills[q.id] = q.seen
    /\ q.op \in {"pay_bill", "mark_paid"} => q.seen.st # "draft"
    /\ q.op = "mark_paid" => d.bills[q.id] = IF q.step = 1 THEN q.seen ELSE Repaid(q.seen, q.seen.total, "paid")
    /\ q.op = "mark_paid" /\ q.step = 3 => OutsOf(d, q.id) = {}
KnowsOut(d, q) == q.op \in {"cancel_out", "delete_out"} => q.seen \in LiveIn(d)
KnowsReturn(d, q) ==
    q.op = "process_return" =>
      /\ Aimed(d.bills, q.seen.bill)
      /\ q.step = 1 => d.goods[q.id] = 0
      /\ q.step = 2 => \A x \in Refunds(d) : x.no # q.id
      /\ q.step > 1 => d.returns[q.id] = [q.seen EXCEPT !.st = "processed"]
      /\ q.step = 3 => ~q.seen.money
KnowsNote(d, q) ==
    q.op \in {"issue_note", "cancel_note"} =>
      /\ Aimed(d.bills, q.seen.bill)
      /\ q.op = "issue_note" => q.seen.st = "draft"
      /\ d.notes[q.id] = q.seen \/ (q.seen.st = "draft" /\ d.notes[q.id] = Deleted)
Knows(d, q) == KnowsBill(d, q) /\ KnowsOut(d, q) /\ KnowsReturn(d, q) /\ KnowsNote(d, q)

StoryOf(d, q) == InOrder(d) /\ Papers(d) /\ \A r \in Requests : Knows(d, q[r])
\* The inductive invariant of one request at a time: money, journals and papers
\* are in order, and the request under way knows what it works on.
Story == StoryOf(db, req)

\* A step of nobody who holds a copy: nothing that a copy is of changes.
Passive(d, e) ==
    /\ \A b \in Bills : d.bills[b].doc # "unused" => e.bills[b] = d.bills[b] /\ OutsOf(e, b) = OutsOf(d, b)
    /\ LiveIn(d) \subseteq LiveIn(e)
    /\ Refunds(e) = Refunds(d) /\ e.goods = d.goods
    /\ \A t \in Returns : Processed(d.returns[t]) => e.returns[t] = d.returns[t]
    /\ \A n \in Notes \cup Returns : \/ d.notes[n].doc = "unused" \/ e.notes[n] = d.notes[n]
                                     \/ d.notes[n].st = "draft" /\ e.notes[n] = Deleted
                                     \/ d.notes[n].doc = "deleted" /\ e.notes[n] = d.notes[n]

LEMMA AimedKept ==
    ASSUME NEW d, NEW e, NEW b \in Bills \cup {None}, Aimed(d.bills, b),
           \A c \in Bills : d.bills[c].doc # "unused" => e.bills[c] = d.bills[c]
    PROVE  Aimed(e.bills, b)
  BY DEF Aimed, Posted

LEMMA KnowsPassive ==
    ASSUME NEW d, Db(d), NEW e, NEW q \in RequestType, Knows(d, q), Passive(d, e)
    PROVE  Knows(e, q)
  <1>1. KnowsBill(e, q) BY RequestIs DEF BillRequest, BillType, Repaid, Knows, KnowsBill, Passive
  <1>2. KnowsOut(e, q) BY DEF Knows, KnowsOut, Passive
  <1>3. KnowsReturn(e, q)
    <2>1. CASE q.op = "process_return"
      <3>1. q \in ReturnRequest BY <2>1, RequestIs
      <3>2. q.id \in Returns /\ q.seen \in ReturnType /\ q.seen.bill \in Bills \cup {None} /\ Processed([q.seen EXCEPT !.st = "processed"])
        BY <3>1 DEF ReturnRequest, ReturnType, Processed
      <3>3. Aimed(e.bills, q.seen.bill) BY <2>1, <3>2, AimedKept DEF Knows, KnowsReturn, Passive
      <3>4. q.step > 1 => e.returns[q.id] = [q.seen EXCEPT !.st = "processed"]
        BY <2>1, <3>2 DEF Knows, KnowsReturn, Passive
      <3> QED BY <2>1, <3>3, <3>4 DEF Knows, KnowsReturn, Passive
    <2>2. CASE q.op # "process_return" BY <2>2 DEF KnowsReturn
    <2> QED BY <2>1, <2>2
  <1>4. KnowsNote(e, q)
    <2>1. CASE q.op \in {"issue_note", "cancel_note"}
      <3>1. q \in NoteRequest BY <2>1, RequestIs
      <3>2. q.id \in Notes \cup Returns /\ q.seen \in NoteType /\ q.seen.bill \in Bills \cup {None} /\ q.seen.doc = "live"
        BY <3>1 DEF NoteRequest, NoteType
      <3>3. Aimed(e.bills, q.seen.bill) BY <2>1, <3>2, AimedKept DEF Knows, KnowsNote, Passive
      <3>4. e.notes[q.id] = q.seen \/ (q.seen.st = "draft" /\ e.notes[q.id] = Deleted)
        BY <2>1, <3>2 DEF Knows, KnowsNote, Passive, Deleted
      <3> QED BY <2>1, <3>3, <3>4 DEF Knows, KnowsNote
    <2>2. CASE q.op \notin {"issue_note", "cancel_note"} BY <2>2 DEF KnowsNote
    <2> QED BY <2>1, <2>2
  <1> QED BY <1>1, <1>2, <1>3, <1>4 DEF Knows

LEMMA KnowsIdle == ASSUME NEW d PROVE Knows(d, Idle)
  BY DEF Knows, KnowsBill, KnowsOut, KnowsReturn, KnowsNote, Idle

\* The only request ends, or begins, or takes a step.
LEMMA DoneKnows ==
    ASSUME OneAtATime, req \in [Requests -> RequestType], NEW r \in Requests, Done(r), NEW d
    PROVE  \A s \in Requests : Knows(d, req'[s])
  BY KnowsIdle DEF Done, OneAtATime

LEMMA OnlyKnows ==
    ASSUME OneAtATime, req \in [Requests -> RequestType], NEW r \in Requests, NEW x, req' = [req EXCEPT ![r] = x],
           NEW d, Knows(d, x)
    PROVE  \A s \in Requests : Knows(d, req'[s])
  BY DEF OneAtATime

OnFile(d, e) == \A b \in Bills : d.bills[b].doc # "unused" => e.bills[b].doc # "unused"

\* Papers that stay as they are.
LEMMA PapersKept ==
    ASSUME NEW d, Db(d), NEW e, Papers(d), SamePapers(d, e), Refunds(e) = Refunds(d), OnFile(d, e)
    PROVE  Papers(e)
  <1>1. ASSUME NEW b \in Bills \cup {None}, Pointed(d.bills, b) PROVE Pointed(e.bills, b)
    BY <1>1 DEF OnFile, Pointed
  <1>2. \A t \in Returns : d.returns[t].doc = "live" => Pointed(e.bills, d.returns[t].bill)
    BY <1>1 DEF Papers, Db, DbType, Gone, Unused, ReturnType
  <1>3. \A n \in Notes \cup Returns : d.notes[n].doc = "live" => Pointed(e.bills, d.notes[n].bill)
    BY <1>1 DEF Papers, Db, DbType, Gone, Unused, NoteType
  <1> QED BY <1>2, <1>3 DEF Papers, SamePapers

LEMMA InitStory == Init => Story
  <1> SUFFICES ASSUME Init PROVE StoryOf(db, req) BY DEF Story
  <1>1. Db(db) /\ req \in [Requests -> RequestType] BY InitType DEF TypeInv
  <1>2. db.outs = {} /\ db.rows = {} /\ db.bank = 0 /\ db.gl = {} BY DEF Init
  <1>3. BankOf({}) = 0 BY SumEmpty DEF BankOf
  <1>4. Ledger(db, db.bills)
    BY <1>2, <1>3 DEF Ledger, UniqueOuts, VendorsAgree, RowsAgree, RowsOf, BankLive, GlAgrees, LiveIn
  <1>5. \A b \in Bills : db.bills[b].doc = "unused" BY DEF Init, Unused
  <1>6. Money(db, db.bills) BY <1>2, <1>4, <1>5 DEF Money, Owned, PaidFor, LiveIn
  <1>7. Purchases(db) = BillJournals(db.bills) BY <1>2, <1>5 DEF Purchases, BillJournals, Posted
  <1>8. Papers(db)
    <2>1. Refunds(db) = {} BY <1>2 DEF Refunds
    <2> QED BY <2>1 DEF Init, Papers, Processed, Unused
  <1>9. \A r \in Requests : req[r] = Idle BY DEF Init
  <1> QED BY <1>1, <1>6, <1>7, <1>8, <1>9, KnowsIdle DEF StoryOf, InOrder

-----------------------------------------------------------------------------
(* Every action keeps the story, and has its effect *)

LEMMA AtWork ==
    ASSUME TypeInv, Story, NEW r \in Requests
    PROVE  /\ Db(db) /\ InOrder(db) /\ Money(db, db.bills) /\ Papers(db) /\ IsBills(db.bills)
           /\ req \in [Requests -> RequestType] /\ req[r] \in RequestType /\ Knows(db, req[r])
  BY DbBills DEF TypeInv, Story, StoryOf, InOrder

LEMMA BillAtWork ==
    ASSUME TypeInv, Story, NEW r \in Requests, req[r].op \in {"update_bill", "mark_paid", "delete_bill", "pay_bill"}
    PROVE  /\ req[r].id \in Bills /\ req[r].seen \in BillType /\ req[r].seen.doc = "live"
           /\ req[r].seen.vendor \in Vendors /\ KnowsBill(db, req[r])
  BY AtWork, RequestIs DEF Knows, BillRequest, BillType

\* A request that changes no paper ends.
LEMMA Finished ==
    ASSUME OneAtATime, TypeInv, Story, NEW r \in Requests, Done(r),
           InOrder(db'), SamePapers(db, db'), Refunds(db') = Refunds(db), OnFile(db, db')
    PROVE  StoryOf(db', req')
  BY AtWork, DoneKnows, PapersKept DEF StoryOf

\* A request that changes no paper takes its step k.
LEMMA Stepped ==
    ASSUME OneAtATime, TypeInv, Story, NEW r \in Requests, NEW k, req' = [req EXCEPT ![r].step = k],
           Knows(db', [req[r] EXCEPT !.step = k]),
           InOrder(db'), SamePapers(db, db'), Refunds(db') = Refunds(db), OnFile(db, db')
    PROVE  StoryOf(db', req')
  BY AtWork, OnlyKnows, PapersKept DEF StoryOf

LEMMA OnFileWith ==
    ASSUME NEW d, Db(d), NEW e, NEW b \in Bills, NEW x, e.bills = [d.bills EXCEPT ![b] = x], x.doc # "unused"
    PROVE  OnFile(d, e)
  BY DbBills DEF OnFile, IsBills

LEMMA CreateBillStory ==
    ASSUME OneAtATime, OwnNumbers, TypeInv, Story, NEW b \in Bills, NEW v \in Vendors, NEW st \in Statuses,
           NEW total \in Totals, NEW paid \in {0} \cup Amounts, NEW mode \in Modes, NEW number \in NumbersOf(b),
           CreateBill(b, v, number, st, total, paid, mode)
    PROVE  /\ StoryOf(db', req') /\ req' = req /\ db.bills[b].doc = "unused"
           /\ Opened(db, db', b, Bill(v, number, st, total, paid))
  <1> DEFINE x == Bill(v, number, st, total, paid)
  <1>1. x \in BillType /\ x.paid \in Nat BY NoOverlap, BillTyped
  <1>2. Own(b, x.number) /\ x.doc = "live" BY DEF Bill, Own
  <1>3. db' = Created(db, b, x, mode) /\ NextNo(db) <= MaxOuts /\ db.bills[b].doc = "unused" /\ req' = req
    BY DEF CreateBill
  <1>4. Db(db) /\ InOrder(db) /\ Papers(db) /\ \A r \in Requests : req[r] \in RequestType /\ Knows(db, req[r])
    BY DEF TypeInv, Story, StoryOf
  <1> HIDE DEF x
  <1>5. Opened(db, db', b, x) BY <1>1, <1>2, <1>3, <1>4, OpenedIs DEF Posted
  <1>6. OnFile(db, db') BY <1>2, <1>4, <1>5, OnFileWith DEF Opened
  <1>7. Papers(db') BY <1>4, <1>5, <1>6, PapersKept DEF Opened
  <1>8. Passive(db, db')
    <2>1. \A c \in Bills : db.bills[c].doc # "unused" => db'.bills[c] = db.bills[c] /\ OutsOf(db', c) = OutsOf(db, c)
      BY <1>3, <1>4, <1>5, DbBills DEF Opened, OthersSame, IsBills
    <2>2. LiveIn(db) \subseteq LiveIn(db') /\ Refunds(db') = Refunds(db) /\ SamePapers(db, db')
      BY <1>5 DEF Opened
    <2> QED BY <2>1, <2>2 DEF Passive, SamePapers
  <1>9. \A r \in Requests : Knows(db', req'[r]) BY <1>3, <1>4, <1>8, KnowsPassive
  <1>10. InOrder(db') BY <1>5 DEF Opened
  <1> QED BY <1>3, <1>5, <1>7, <1>9, <1>10 DEF StoryOf, x

LEMMA UpdateBillStory ==
    ASSUME OneAtATime, OwnNumbers, TypeInv, Story, NEW r \in Requests, NEW v \in Vendors, NEW st \in Statuses,
           NEW total \in Totals, NEW paid \in {0} \cup Amounts, NEW mode \in Modes, NEW number \in Numbers,
           UpdateBill(r, v, number, st, total, paid, mode)
    PROVE  /\ StoryOf(db', req') /\ Done(r) /\ db.bills[req[r].id] = req[r].seen
           /\ Reopened(db, db', req[r].id, req[r].seen, Bill(v, number, st, total, paid))
  <1> DEFINE b == req[r].id
             s == req[r].seen
             x == Bill(v, number, st, total, paid)
  <1>1. x \in BillType /\ x.paid \in Nat /\ (paid = 0 /\ st # "paid" => x.paid = 0) BY BillTyped
  <1>2. x.doc = "live" /\ x.number = number /\ x.st = st BY DEF Bill
  <1>3. /\ req[r].op = "update_bill" /\ db' = Edited(db, b, s, x, mode) /\ NextNo(db) <= MaxOuts /\ Done(r)
        /\ number \in NumbersOf(b) /\ (st = "draft" => paid = 0 \/ PayDrafts)
    BY DEF UpdateBill
  <1>4. b \in Bills /\ s \in BillType /\ db.bills[b] = s BY <1>3, BillAtWork DEF KnowsBill
  <1>5. x.st = "draft" => x.paid = 0 BY <1>1, <1>2, <1>3 DEF OneAtATime
  <1>6. Own(b, x.number) BY <1>2, <1>3 DEF Own
  <1> HIDE DEF x, b, s
  <1>7. Reopened(db, db', b, s, x) BY <1>1, <1>3, <1>4, <1>5, <1>6, AtWork, ReopenedIs
  <1>8. OnFile(db, db') BY <1>2, <1>4, <1>7, AtWork, OnFileWith DEF Reopened
  <1>9. StoryOf(db', req') BY <1>3, <1>7, <1>8, Finished DEF Reopened
  <1> QED BY <1>3, <1>4, <1>7, <1>9 DEF x, b, s

\* The bill as "mark as paid" leaves it.
Paid(bill) == Repaid(bill, bill.total, "paid")

LEMMA MarkSaveStory ==
    ASSUME OneAtATime, OwnNumbers, TypeInv, Story, NEW r \in Requests, MarkSave(r)
    PROVE  LET b == req[r].id
           IN  /\ StoryOf(db', req') /\ SameMoney(db, db') /\ SamePapers(db, db')
               /\ Posted(db.bills[b]) /\ db.bills[b] = req[r].seen
               /\ db'.bills = [db.bills EXCEPT ![b] = Paid(db.bills[b])]
  <1> DEFINE b == req[r].id
             s == req[r].seen
             q == [req[r] EXCEPT !.step = 2]
  <1>1. req[r].op = "mark_paid" /\ req[r].step = 1 /\ db' = SetPaid(db, b, s.total, 0, "paid") /\ req' = [req EXCEPT ![r].step = 2]
    BY DEF MarkSave
  <1>2. b \in Bills /\ s \in BillType /\ db.bills[b] = s /\ s.doc = "live" /\ s.st # "draft" /\ s.total \in Int
    BY <1>1, BillAtWork, TotalType DEF KnowsBill
  <1>3. q.op = "mark_paid" /\ q.step = 2 /\ q.id = b /\ q.seen = s
    <2>1. req[r] \in BillRequest BY <1>1, AtWork, RequestIs
    <2> QED BY <1>1, <2>1 DEF BillRequest
  <1> HIDE DEF b, s
  <1>4. BillIs(db, db', b, Paid(s)) BY <1>1, <1>2, AtWork, SetPaidLive DEF Paid
  <1>5. Db(db') /\ SameMoney(db, db') /\ SamePapers(db, db') /\ db'.bills = [db.bills EXCEPT ![b] = Paid(s)]
    BY <1>4 DEF BillIs, SamePapers
  <1>6. Akin(Paid(s), db.bills[b]) BY <1>2, RepaidIs DEF Paid
  <1>7. InOrder(db') /\ Refunds(db') = Refunds(db) BY <1>2, <1>5, <1>6, AtWork, KeptIs
  <1>8. Knows(db', q)
    <2>1. db'.bills[b] = Repaid(s, s.total, "paid") BY <1>2, <1>5, AtWork DEF IsBills, Paid
    <2> HIDE DEF q
    <2> QED BY <1>2, <1>3, <2>1 DEF Knows, KnowsBill, KnowsOut, KnowsReturn, KnowsNote
  <1>9. OnFile(db, db')
    <2>1. Paid(s).doc = "live" BY <1>6 DEF Akin
    <2> QED BY <1>2, <1>5, <2>1, AtWork, OnFileWith
  <1>10. StoryOf(db', req') BY <1>1, <1>5, <1>7, <1>8, <1>9, Stepped
  <1> QED BY <1>2, <1>5, <1>10 DEF b, s, Posted

LEMMA MarkReverseStory ==
    ASSUME OneAtATime, OwnNumbers, TypeInv, Story, NEW r \in Requests, MarkReverse(r)
    PROVE  LET b == req[r].id
           IN  /\ StoryOf(db', req') /\ SameDocs(db, db')
               /\ Unpaid(db, db', db.bills, b, db.bills[b].vendor) /\ db.bills[b] = Paid(req[r].seen)
               /\ b \in Bills /\ db.bills[b].vendor \in Vendors
  <1> DEFINE b == req[r].id
             s == req[r].seen
             q == [req[r] EXCEPT !.step = 3]
  <1>1. req[r].op = "mark_paid" /\ req[r].step = 2 /\ db' = ReverseLinked(db, b, s.vendor, s.number) /\ req' = [req EXCEPT ![r].step = 3]
    BY DEF MarkReverse
  <1>2. b \in Bills /\ s \in BillType /\ db.bills[b] = Paid(s) /\ s.st # "draft" /\ s.vendor \in Vendors
    BY <1>1, BillAtWork DEF KnowsBill, Paid
  <1>3. q.op = "mark_paid" /\ q.step = 3 /\ q.id = b /\ q.seen = s
    <2>1. req[r] \in BillRequest BY <1>1, AtWork, RequestIs
    <2> QED BY <1>1, <2>1 DEF BillRequest
  <1>4. Paid(s).doc = "live" /\ Paid(s).vendor = s.vendor /\ Paid(s).number = s.number
    <2> HIDE DEF s
    <2> QED BY <1>2, RepaidIs DEF Paid
  <1> HIDE DEF b, s
  <1>5. Unlinked(db, db', b, s.vendor, db.bills[b].number) BY <1>1, <1>2, <1>4, AtWork, ReverseLinkedIs
  <1>6. Unpaid(db, db', db.bills, b, s.vendor) BY <1>2, <1>4, <1>5, AtWork, UnlinkedMoney
  <1>7. Db(db') /\ SameDocs(db, db') /\ Money(db', db.bills) /\ Purchases(db') = Purchases(db)
        /\ Refunds(db') = Refunds(db) /\ OutsOf(db', b) = {}
    BY <1>6 DEF Unpaid
  <1>8. InOrder(db') /\ SamePapers(db, db') /\ OnFile(db, db')
    BY <1>7, AtWork DEF InOrder, SameDocs, SamePapers, OnFile
  <1>9. Knows(db', q)
    <2>1. db'.bills[b] = Repaid(s, s.total, "paid") BY <1>2, <1>7 DEF SameDocs, Paid
    <2> HIDE DEF q
    <2> QED BY <1>2, <1>3, <1>7, <2>1 DEF Knows, KnowsBill, KnowsOut, KnowsReturn, KnowsNote
  <1>10. StoryOf(db', req') BY <1>1, <1>7, <1>8, <1>9, Stepped
  <1> QED BY <1>2, <1>4, <1>6, <1>7, <1>10 DEF b, s

LEMMA MarkPayStory ==
    ASSUME OneAtATime, OwnNumbers, TypeInv, Story, NEW r \in Requests, NEW mode \in Modes, MarkPay(r, mode)
    PROVE  LET b == req[r].id
           IN  /\ StoryOf(db', req') /\ Done(r) /\ Linked(db, db', b, db.bills[b].total)
               /\ b \in Bills /\ db.bills[b] = Paid(req[r].seen) /\ OutsOf(db, b) = {}
               /\ db.bills[b].paid = db.bills[b].total /\ db.bills[b].st = "paid"
  <1> DEFINE b == req[r].id
             s == req[r].seen
  <1>1. /\ req[r].op = "mark_paid" /\ req[r].step = 3 /\ db' = PayLinked(db, b, s, s.total, mode)
        /\ Done(r) /\ NextNo(db) <= MaxOuts
    BY DEF MarkPay
  <1>2. b \in Bills /\ s \in BillType /\ db.bills[b] = Paid(s) /\ s.st # "draft" /\ s.total \in Nat /\ OutsOf(db, b) = {}
    BY <1>1, BillAtWork, TotalType DEF KnowsBill, Paid
  <1> HIDE DEF b, s
  <1>3. /\ Paid(s).doc = "live" /\ Paid(s).vendor = s.vendor /\ Paid(s).number = s.number /\ Paid(s).total = s.total
        /\ Paid(s).paid = s.total /\ Paid(s).st = "paid"
    BY <1>2, RepaidIs DEF Paid
  <1>4. Linked(db, db', b, s.total) BY <1>1, <1>2, <1>3, AtWork, LinkedMoney DEF Posted
  <1>5. Db(db') /\ SameDocs(db, db') /\ Money(db', db'.bills) /\ Purchases(db') = Purchases(db) /\ Refunds(db') = Refunds(db)
    BY <1>4 DEF Linked
  <1>6. InOrder(db') /\ SamePapers(db, db') /\ OnFile(db, db')
    BY <1>5, AtWork DEF InOrder, SameDocs, SamePapers, OnFile
  <1>7. StoryOf(db', req') BY <1>1, <1>5, <1>6, Finished
  <1> QED BY <1>1, <1>2, <1>3, <1>4, <1>7 DEF b, s

LEMMA DeleteBillStory ==
    ASSUME OneAtATime, OwnNumbers, TypeInv, Story, NEW r \in Requests, DeleteBill(r)
    PROVE  /\ StoryOf(db', req') /\ Done(r) /\ Removed(db, db', req[r].id, req[r].seen)
           /\ db.bills[req[r].id] = req[r].seen
  <1> DEFINE b == req[r].id
             s == req[r].seen
  <1>1. req[r].op = "delete_bill" /\ Done(r) /\ db' = Erased(db, b, s) BY DeleteBillType DEF DeleteBill
  <1>2. b \in Bills /\ s \in BillType /\ db.bills[b] = s BY <1>1, BillAtWork DEF KnowsBill
  <1> HIDE DEF b, s
  <1>3. Removed(db, db', b, s) BY <1>1, <1>2, AtWork, RemovedIs
  <1>4. OnFile(db, db')
    <2> DEFINE x == [doc |-> "deleted"]
    <2>1. db'.bills = [db.bills EXCEPT ![b] = x] /\ x.doc # "unused" BY <1>3 DEF Removed
    <2> HIDE DEF x
    <2> QED BY <1>2, <2>1, AtWork, OnFileWith
  <1>5. StoryOf(db', req') BY <1>1, <1>3, <1>4, Finished DEF Removed
  <1> QED BY <1>1, <1>2, <1>3, <1>5 DEF b, s

LEMMA LoadBillStory ==
    ASSUME OneAtATime, OwnNumbers, TypeInv, Story, NEW r \in Requests, NEW b \in Bills,
           NEW op \in {"update_bill", "mark_paid", "delete_bill", "pay_bill"}, LoadBill(r, op, b)
    PROVE  StoryOf(db', req') /\ db' = db
  <1> DEFINE q == [op |-> op, id |-> b, seen |-> db.bills[b], step |-> 1]
  <1>1. db' = db /\ req' = [req EXCEPT ![r] = q] /\ (op \in {"pay_bill", "mark_paid"} => db.bills[b].st # "draft")
    BY DEF LoadBill, Begin, OneAtATime
  <1>2. q.op = op /\ q.id = b /\ q.seen = db.bills[b] /\ q.step = 1 OBVIOUS
  <1> HIDE DEF q
  <1>3. Knows(db, q) BY <1>1, <1>2 DEF Knows, KnowsBill, KnowsOut, KnowsReturn, KnowsNote
  <1>4. \A s \in Requests : Knows(db', req'[s]) BY <1>1, <1>3, AtWork, OnlyKnows
  <1> QED BY <1>1, <1>4, AtWork DEF StoryOf

LEMMA SpentOnFile ==
    ASSUME NEW d, Db(d), NEW e, NEW o, NEW b \in Bills \cup {None}, NEW old \in BillType, NEW net, Spent(d, e, o, b, old, net)
    PROVE  OnFile(d, e)
  BY RepaidIs, OnFileWith DEF PaidBill, Spent, OnFile

LEMMA PayBillStory ==
    ASSUME OneAtATime, OwnNumbers, TypeInv, Story, NEW r \in Requests, NEW amt \in Amounts, NEW disc \in Discounts,
           NEW mode \in Modes, PayBill(r, amt, disc, mode)
    PROVE  LET b == req[r].id
           IN  /\ StoryOf(db', req') /\ Done(r) /\ Posted(db.bills[b]) /\ b \in Bills /\ db.bills[b] = req[r].seen
               /\ \E o \in OutType : Spent(db, db', o, b, db.bills[b], amt - disc)
  <1> DEFINE b == req[r].id
             s == req[r].seen
  <1>1. /\ req[r].op = "pay_bill" /\ db' = PaidOut(db, b, s, s.vendor, amt, disc, mode, FALSE) /\ Done(r)
        /\ amt > disc /\ NextNo(db) <= MaxOuts
    BY DEF PayBill
  <1>2. /\ b \in Bills /\ b \in Bills \cup {None} /\ s \in BillType /\ db.bills[b] = s /\ s.st # "draft"
        /\ s.doc = "live" /\ s.vendor \in Vendors
    BY <1>1, BillAtWork DEF KnowsBill
  <1> HIDE DEF b, s
  <1>3. PICK o \in OutType : PaidAs(db, db', o, b, s, s.vendor, amt - disc, FALSE)
    BY <1>1, <1>2, AtWork, PaidOutIs
  <1>4. Spent(db, db', o, b, s, amt - disc) BY <1>2, <1>3, AtWork, SpentIs
  <1>5. OnFile(db, db') BY <1>2, <1>4, AtWork, SpentOnFile
  <1>6. StoryOf(db', req') BY <1>1, <1>4, <1>5, Finished DEF Spent
  <1> QED BY <1>1, <1>2, <1>4, <1>6 DEF b, s, Posted

LEMMA PayVendorStory ==
    ASSUME OneAtATime, OwnNumbers, TypeInv, Story, NEW v \in Vendors, NEW amt \in Amounts, NEW disc \in Discounts,
           NEW mode \in Modes, NEW refund \in BOOLEAN, PayVendor(v, amt, disc, mode, refund)
    PROVE  /\ StoryOf(db', req') /\ req' = req
           /\ \E o \in OutType : Spent(db, db', o, None, Unused, amt - disc)
  <1>1. /\ db' = PaidOut(db, None, Unused, v, amt, disc, mode, refund) /\ req' = req
        /\ amt > disc /\ NextNo(db) <= MaxOuts
    BY DEF PayVendor
  <1>2. Db(db) /\ InOrder(db) /\ Papers(db) /\ \A r \in Requests : req[r] \in RequestType /\ Knows(db, req[r])
    BY DEF TypeInv, Story, StoryOf
  <1>3. \E o \in OutType : PaidAs(db, PaidOut(db, None, Unused, v, amt, disc, mode, refund), o, None, Unused, v, amt - disc, refund)
    BY <1>1, <1>2, PaidOutIs
  <1>4. PICK o \in OutType : PaidAs(db, db', o, None, Unused, v, amt - disc, refund) BY <1>1, <1>3
  <1>5. Spent(db, db', o, None, Unused, amt - disc) BY <1>2, <1>4, SpentIs
  <1>6. db'.bills = db.bills /\ SamePapers(db, db') /\ Refunds(db') = Refunds(db) /\ OneMore(db, db', o) /\ o.bill = None
        /\ InOrder(db') /\ Db(db')
    BY <1>5 DEF Spent, InOrder
  <1>7. Passive(db, db') BY <1>2, <1>6, OneMoreSums, Assumed DEF Passive, SamePapers, OneMore
  <1>8. \A r \in Requests : Knows(db', req'[r]) BY <1>1, <1>2, <1>7, KnowsPassive
  <1>9. Papers(db') BY <1>2, <1>6, PapersKept DEF OnFile
  <1> QED BY <1>1, <1>5, <1>6, <1>8, <1>9 DEF StoryOf

LEMMA OutAtWork ==
    ASSUME TypeInv, Story, NEW r \in Requests, req[r].op \in {"cancel_out", "delete_out"}
    PROVE  req[r].seen \in LiveIn(db) /\ req[r].seen \in OutType
  BY AtWork, RequestIs DEF Knows, KnowsOut, OutRequest

LEMMA WithdrawnStory ==
    ASSUME OneAtATime, TypeInv, Story, NEW r \in Requests, Done(r), NEW o \in LiveIn(db), Withdrawn(db, db', o)
    PROVE  StoryOf(db', req')
  <1>1. o.bill \in Bills \cup {None} BY AtWork, LiveIsOut DEF OutType
  <1>2. InOrder(db') /\ SamePapers(db, db') /\ Refunds(db') = Refunds(db)
    BY AtWork DEF Withdrawn, InOrder, SamePapers
  <1>3. OnFile(db, db')
    <2>1. CASE o.bill # None BY <2>1, <1>1, AtWork, OnFileWith DEF Withdrawn, Akin
    <2>2. CASE o.bill = None BY <2>2 DEF Withdrawn, OnFile
    <2> QED BY <2>1, <2>2
  <1> QED BY <1>2, <1>3, Finished

LEMMA CancelOutStory ==
    ASSUME OneAtATime, OwnNumbers, TypeInv, Story, NEW r \in Requests, CancelOut(r)
    PROVE  StoryOf(db', req') /\ Done(r) /\ req[r].seen \in LiveIn(db) /\ Withdrawn(db, db', req[r].seen)
  <1> DEFINE o == req[r].seen
  <1>1. o \in LiveIn(db) /\ CancelledIn(db, db', o) /\ Done(r) BY OutAtWork, CancelOutType DEF CancelOut
  <1> HIDE DEF o
  <1>2. PICK u : /\ Undone(db, u, o) /\ Db(db') /\ SameDocs(u, db') /\ db'.rows = u.rows /\ db'.bank = u.bank
                 /\ db'.owed = u.owed /\ db'.gl = u.gl /\ db'.outs = Others(db, o) \cup Cancelled(db, o)
    BY <1>1 DEF CancelledIn
  <1>3. db'.outs = (db.outs \ {o}) \cup {[o EXCEPT !.live = FALSE]} BY <1>1, <1>2, AtWork, UniqueLive
  <1>4. Withdrawn(db, db', o) BY <1>1, <1>2, <1>3, AtWork, WithdrawnIs
  <1> QED BY <1>1, <1>4, WithdrawnStory DEF o

LEMMA DeleteOutStory ==
    ASSUME OneAtATime, OwnNumbers, TypeInv, Story, NEW r \in Requests, DeleteOut(r)
    PROVE  StoryOf(db', req') /\ Done(r) /\ req[r].seen \in LiveIn(db) /\ Withdrawn(db, db', req[r].seen)
  BY OutAtWork, DeleteOutType, AtWork, UniqueLive, WithdrawnIs, WithdrawnStory DEF DeleteOut, DeletedIn

LEMMA LoadOutStory ==
    ASSUME OneAtATime, OwnNumbers, TypeInv, Story, NEW r \in Requests, NEW o \in db.outs,
           NEW op \in {"cancel_out", "delete_out"}, LoadOut(r, op, o)
    PROVE  StoryOf(db', req') /\ db' = db
  <1> DEFINE q == [op |-> op, id |-> o.no, seen |-> o, step |-> 1]
  <1>1. db' = db /\ req' = [req EXCEPT ![r] = q] /\ o \in LiveIn(db) BY DEF LoadOut, Begin, LiveIn
  <1>2. q.op = op /\ q.seen = o /\ q.step = 1 OBVIOUS
  <1> HIDE DEF q
  <1>3. Knows(db, q) BY <1>1, <1>2 DEF Knows, KnowsBill, KnowsOut, KnowsReturn, KnowsNote
  <1>4. \A s \in Requests : Knows(db', req'[s]) BY <1>1, <1>3, AtWork, OnlyKnows
  <1> QED BY <1>1, <1>4, AtWork DEF StoryOf

-----------------------------------------------------------------------------
(* Returns *)

\* Only drafts among the returns, or among the notes, change.
DraftReturns(d, e) ==
    /\ SameMoney(d, e) /\ e.bills = d.bills /\ e.notes = d.notes /\ e.goods = d.goods
    /\ \A t \in Returns : e.returns[t] = d.returns[t] \/ (~Processed(d.returns[t]) /\ ~Processed(e.returns[t]))

LEMMA DraftReturnStory ==
    ASSUME OneAtATime, TypeInv, Story, NEW t \in Returns, NEW x \in ReturnType \cup Gone,
           ~Processed(db.returns[t]), ~Processed(x), x.doc = "live" => Pointed(db.bills, x.bill),
           db' = [db EXCEPT !.returns[t] = x], req' = req
    PROVE  StoryOf(db', req') /\ req' = req /\ DraftReturns(db, db')
  <1>1. Db(db) /\ InOrder(db) /\ Papers(db) /\ \A r \in Requests : req[r] \in RequestType /\ Knows(db, req[r])
    BY DEF TypeInv, Story, StoryOf
  <1>2. /\ Db(db') /\ SameMoney(db, db') /\ db'.returns = [db.returns EXCEPT ![t] = x]
        /\ db'.bills = db.bills /\ db'.notes = db.notes /\ db'.goods = db.goods
    BY <1>1, WithReturn
  <1>3. InOrder(db') /\ Refunds(db') = Refunds(db) /\ LiveIn(db') = LiveIn(db) BY <1>1, <1>2, PlainIs
  <1>4. db'.returns[t] = x /\ \A u \in Returns : u # t => db'.returns[u] = db.returns[u]
    BY <1>1, <1>2 DEF Db, DbType
  <1>5. Papers(db') BY <1>1, <1>2, <1>3, <1>4 DEF Papers
  <1>6. Passive(db, db') BY <1>2, <1>3, <1>4, SameOuts DEF Passive
  <1>7. \A r \in Requests : Knows(db', req'[r]) BY <1>1, <1>6, KnowsPassive
  <1>8. DraftReturns(db, db') BY <1>2, <1>4 DEF DraftReturns
  <1> QED BY <1>3, <1>5, <1>7, <1>8 DEF StoryOf

LEMMA CreateReturnStory ==
    ASSUME OneAtATime, OwnNumbers, TypeInv, Story, NEW t \in Returns, NEW b \in Bills \cup {None}, NEW v \in Vendors,
           NEW amt \in Amounts, NEW money \in BOOLEAN, CreateReturn(t, b, v, amt, money)
    PROVE  StoryOf(db', req') /\ req' = req /\ DraftReturns(db, db')
  BY DraftReturnStory DEF ReturnType, Processed, CreateReturn, Pointed

LEMMA ReviseReturnStory ==
    ASSUME OneAtATime, OwnNumbers, TypeInv, Story, NEW t \in Returns, NEW money \in BOOLEAN, ReviseReturn(t, money)
    PROVE  StoryOf(db', req') /\ req' = req /\ DraftReturns(db, db')
  <1> DEFINE x == [db.returns[t] EXCEPT !.money = money]
  <1>1. db.returns[t] \in ReturnType /\ db.returns[t].st = "draft" /\ db.returns[t].doc = "live"
    BY TakenType DEF ReviseReturn
  <1>2. x \in ReturnType /\ ~Processed(x) /\ ~Processed(db.returns[t]) /\ x.bill = db.returns[t].bill
    BY <1>1 DEF ReturnType, Processed
  <1>3. Pointed(db.bills, x.bill) BY <1>1, <1>2 DEF Story, StoryOf, Papers
  <1>4. db' = [db EXCEPT !.returns[t] = x] /\ req' = req BY DEF ReviseReturn, TypeInv, Db, DbType
  <1> HIDE DEF x
  <1> QED BY <1>2, <1>3, <1>4, DraftReturnStory

LEMMA DeleteReturnStory ==
    ASSUME OneAtATime, OwnNumbers, TypeInv, Story, NEW t \in Returns, DeleteReturn(t)
    PROVE  StoryOf(db', req') /\ req' = req /\ DraftReturns(db, db')
  BY DraftReturnStory DEF DeleteReturn, Deleted, Gone, Processed

LEMMA AimedNow ==
    ASSUME OneAtATime, TypeInv, NEW b \in Bills \cup {None}, Pointed(db.bills, b), Settleable(b)
    PROVE  Aimed(db.bills, b)
  <1>1. b # None => db.bills[b] \in BillType \cup Gone BY DEF TypeInv, Db, DbType
  <1> QED BY <1>1 DEF OneAtATime, Settleable, IsDraft, Pointed, Aimed, Posted, BillType, Gone, Unused

LEMMA LoadReturnStory ==
    ASSUME OneAtATime, OwnNumbers, TypeInv, Story, NEW r \in Requests, NEW t \in Returns, LoadReturn(r, t)
    PROVE  StoryOf(db', req') /\ db' = db
  <1> DEFINE q == [op |-> "process_return", id |-> t, seen |-> db.returns[t], step |-> 1]
  <1>1. /\ db' = db /\ req' = [req EXCEPT ![r] = q] /\ db.returns[t] \in ReturnType /\ db.returns[t].st = "draft"
        /\ db.returns[t].doc = "live" /\ Settleable(db.returns[t].bill)
    BY TakenType DEF LoadReturn, Begin
  <1>2. q.op = "process_return" /\ q.id = t /\ q.seen = db.returns[t] /\ q.step = 1 OBVIOUS
  <1> HIDE DEF q
  <1>3. Aimed(db.bills, db.returns[t].bill) BY <1>1, AtWork, AimedNow DEF ReturnType, Papers
  <1>4. db.goods[t] = 0 BY <1>1, AtWork DEF Papers, Processed
  <1>5. Knows(db, q) BY <1>2, <1>3, <1>4 DEF Knows, KnowsBill, KnowsOut, KnowsReturn, KnowsNote
  <1>6. \A s \in Requests : Knows(db', req'[s]) BY <1>1, <1>5, AtWork, OnlyKnows
  <1> QED BY <1>1, <1>6, AtWork DEF StoryOf

LEMMA ReturnAtWork ==
    ASSUME TypeInv, Story, NEW r \in Requests, req[r].op = "process_return"
    PROVE  /\ req[r].id \in Returns /\ req[r].seen \in ReturnType /\ req[r].seen.bill \in Bills \cup {None}
           /\ req[r].seen.vendor \in Vendors /\ req[r].seen.amt \in Nat \ {0} /\ KnowsReturn(db, req[r])
  <1>1. req[r] \in ReturnRequest /\ KnowsReturn(db, req[r]) BY AtWork, RequestIs DEF Knows
  <1>2. req[r].id \in Returns /\ req[r].seen \in ReturnType BY <1>1 DEF ReturnRequest
  <1>3. req[r].seen.bill \in Bills \cup {None} /\ req[r].seen.vendor \in Vendors /\ req[r].seen.amt \in Amounts
    BY <1>2 DEF ReturnType
  <1>4. req[r].seen.amt \in Nat \ {0}
    <2>1. Amounts \subseteq Nat \ {0} BY Assumed
    <2> QED BY Zenon, <1>3, <2>1
  <1> QED BY <1>1, <1>2, <1>3, <1>4

LEMMA AtStep ==
    ASSUME TypeInv, NEW r \in Requests, req[r].op = "process_return", NEW k
    PROVE  LET q == [req[r] EXCEPT !.step = k]
           IN  q.op = "process_return" /\ q.step = k /\ q.id = req[r].id /\ q.seen = req[r].seen
  <1>1. req[r] \in ReturnRequest BY RequestIs DEF TypeInv
  <1> QED BY <1>1 DEF ReturnRequest

ProcessedAs(s) == [s EXCEPT !.st = "processed"]

LEMMA ProcessReturnStory ==
    ASSUME OneAtATime, OwnNumbers, TypeInv, Story, NEW r \in Requests, ProcessReturn(r)
    PROVE  /\ StoryOf(db', req') /\ ProcessedIn(db, db', req[r].id, req[r].seen)
           /\ req[r].op = "process_return" /\ req[r].step = 1
           /\ ~Processed(db.returns[req[r].id])
  <1> DEFINE t == req[r].id
             s == req[r].seen
             q == [req[r] EXCEPT !.step = 2]
             x == ProcessedAs(s)
  <1>1. req[r].op = "process_return" /\ req[r].step = 1 /\ req' = [req EXCEPT ![r].step = 2]
    BY DEF ProcessReturn
  <1>2. t \in Returns /\ s \in ReturnType /\ s.bill \in Bills \cup {None} /\ Aimed(db.bills, s.bill) /\ db.goods[t] = 0
    BY <1>1, ReturnAtWork DEF KnowsReturn
  <1>3. ProcessedIn(db, db', t, s) BY ProcessReturnType
  <1>4. q.op = "process_return" /\ q.step = 2 /\ q.id = t /\ q.seen = s BY <1>1, AtStep
  <1>5. x.doc = "live" /\ Processed(x) /\ x.bill = s.bill BY <1>2 DEF ReturnType, Processed, ProcessedAs
  <1> HIDE DEF t, s, q, x
  <1>6. /\ Db(db') /\ SameMoney(db, db') /\ db'.bills = db.bills /\ db'.notes = db.notes
        /\ db'.goods = [db.goods EXCEPT ![t] = @ + 1] /\ db'.returns = [db.returns EXCEPT ![t] = x]
    BY <1>3 DEF ProcessedIn, ProcessedAs, x
  <1>7. InOrder(db') /\ Refunds(db') = Refunds(db) /\ LiveIn(db') = LiveIn(db) BY <1>6, AtWork, PlainIs
  <1>8. /\ db'.returns[t] = x /\ \A u \in Returns : u # t => db'.returns[u] = db.returns[u]
        /\ db'.goods[t] = 1 /\ \A u \in Returns : u # t => db'.goods[u] = db.goods[u]
    BY <1>2, <1>6, AtWork DEF Db, DbType
  <1>9. Papers(db')
    <2>1. Pointed(db.bills, x.bill) BY <1>2, <1>5 DEF Aimed, Pointed, Posted
    <2>2. \A u \in Returns : db'.returns[u].doc = "live" => Pointed(db'.bills, db'.returns[u].bill)
      BY <1>6, <1>8, <2>1, AtWork DEF Papers
    <2>3. \A u \in Returns : db'.goods[u] = IF Processed(db'.returns[u]) THEN 1 ELSE 0
      BY <1>5, <1>8, AtWork DEF Papers
    <2>4. \A u \in Returns : \A y \in Refunds(db') : y.no = u => db'.goods[u] = 1
      BY <1>7, <1>8, AtWork DEF Papers
    <2> QED BY <1>6, <2>2, <2>3, <2>4, AtWork DEF Papers
  <1>10. Knows(db', q)
    <2>1. \A y \in Refunds(db') : y.no # t BY <1>2, <1>7, AtWork DEF Papers
    <2>2. db'.returns[t] = [s EXCEPT !.st = "processed"] BY <1>8 DEF x, ProcessedAs
    <2> QED BY <1>2, <1>4, <1>6, <2>1, <2>2 DEF Knows, KnowsBill, KnowsOut, KnowsReturn, KnowsNote
  <1>11. \A z \in Requests : Knows(db', req'[z])
    <2>1. req' = [req EXCEPT ![r] = q] BY <1>1, AtWork DEF q
    <2> QED BY <1>10, <2>1, AtWork, OnlyKnows
  <1>12. ~Processed(db.returns[t]) BY <1>2, AtWork DEF Papers
  <1> QED BY <1>1, <1>3, <1>7, <1>9, <1>11, <1>12 DEF StoryOf, t, s

\* The goods of a processed return are out.
LEMMA ProcessedGoods ==
    ASSUME TypeInv, Story, NEW t \in Returns, NEW s \in ReturnType, db.returns[t] = [s EXCEPT !.st = "processed"]
    PROVE  db.goods[t] = 1
  <1>1. Processed([s EXCEPT !.st = "processed"]) BY DEF Processed, ReturnType
  <1> QED BY <1>1 DEF Story, StoryOf, Papers

LEMMA RefundStory ==
    ASSUME OneAtATime, OwnNumbers, TypeInv, Story, NEW r \in Requests, SettleReturn(r), req[r].seen.money
    PROVE  StoryOf(db', req') /\ Done(r) /\ Refunded(db, db', req[r].id, req[r].seen)
           /\ db.returns[req[r].id] = ProcessedAs(req[r].seen)
  <1> DEFINE t == req[r].id
             s == req[r].seen
             x == RefundRow(t, s.amt)
  <1>1. req[r].op = "process_return" /\ req[r].step = 2 /\ Done(r) BY DEF SettleReturn
  <1>2. /\ t \in Returns /\ s \in ReturnType /\ db.returns[t] = [s EXCEPT !.st = "processed"]
        /\ \A y \in Refunds(db) : y.no # t
    BY <1>1, ReturnAtWork DEF KnowsReturn
  <1>3. Refunded(db, db', t, s) BY SettleReturnType
  <1> HIDE DEF t, s
  <1>4. x.dir = "in" /\ x.no = t BY DEF RefundRow
  <1>5. x \notin db.rows BY <1>2, <1>4 DEF Refunds
  <1> HIDE DEF x
  <1>6. /\ Ledger(db', db.bills) /\ Purchases(db') = Purchases(db) /\ LiveIn(db') = LiveIn(db)
        /\ Refunds(db') = Refunds(db) \cup {x}
    BY <1>3, <1>5, AtWork, LedgerRefund DEF x, Money
  <1>7. Db(db') /\ SameDocs(db, db') BY <1>3 DEF Refunded
  <1>8. InOrder(db') BY <1>6, <1>7, AtWork DEF InOrder, Money, PaidFor, SameDocs
  <1>9. Papers(db')
    <2>1. db.goods[t] = 1 BY <1>2, ProcessedGoods
    <2> QED BY <1>4, <1>6, <1>7, <2>1, AtWork DEF Papers, SameDocs
  <1>10. \A z \in Requests : Knows(db', req'[z]) BY <1>1, AtWork, DoneKnows
  <1> QED BY <1>1, <1>2, <1>3, <1>8, <1>9, <1>10 DEF StoryOf, t, s, ProcessedAs

\* The bill b once a return or a note has raised what counts as paid.
LEMMA RaisedAkin ==
    ASSUME NEW bill \in BillType, Posted(bill), NEW paid
    PROVE  Akin(Settlement(bill, paid), bill)
  BY NotDraft, RepaidIs DEF Posted, Settlement

LEMMA AimedPosted ==
    ASSUME NEW d, Db(d), NEW b \in Bills, Aimed(d.bills, b), d.bills[b].doc = "live"
    PROVE  Posted(d.bills[b]) /\ d.bills[b] \in BillType
  <1>1. Posted(d.bills[b]) BY Assumed DEF Aimed
  <1> QED BY <1>1, PostedType, DbBills

\* What offsetting leaves of the bills: the bill unchanged, or with another amount paid.
OffsetBills(d, e, s) ==
    \/ e.bills = d.bills
    \/ /\ s.bill \in Bills /\ Posted(d.bills[s.bill]) /\ d.bills[s.bill] \in BillType
       /\ \E paid \in Int : e.bills = [d.bills EXCEPT ![s.bill] = Settlement(@, paid)]

OffsetAs(d, e, s) ==
    /\ InOrder(e) /\ Refunds(e) = Refunds(d) /\ LiveIn(e) = LiveIn(d) /\ SamePapers(d, e)
    /\ e.owed = [d.owed EXCEPT ![s.vendor] = @ + s.amt]
    /\ OffsetBills(d, e, s)

LEMMA OffsetIs ==
    ASSUME NEW d, InOrder(d), NEW e, NEW s, s.bill \in Bills \cup {None}, Offset(d, e, s), Aimed(d.bills, s.bill)
    PROVE  OffsetAs(d, e, s)
  <1>1. Db(d) /\ Money(d, d.bills) /\ Purchases(d) = BillJournals(d.bills) /\ IsBills(d.bills)
    BY DbBills DEF InOrder
  <1>2. PICK f : /\ Db(f) /\ SameDocs(d, f) /\ f.outs = d.outs /\ f.rows = d.rows /\ f.bank = d.bank /\ f.gl = d.gl
                 /\ f.owed = [d.owed EXCEPT ![s.vendor] = @ + s.amt]
                 /\ Db(e) /\ SettledIn(f, e, s.bill)
    BY DEF Offset
  <1>3. Money(f, d.bills) /\ Refunds(f) = Refunds(d) /\ LiveIn(f) = LiveIn(d) BY <1>1, <1>2, MoneyApart
  <1>4. InOrder(f) /\ SamePapers(d, f) /\ f.bills = d.bills
    BY <1>1, <1>2, <1>3 DEF InOrder, SameDocs, SamePapers, Purchases
  <1>5. CASE e = f BY <1>2, <1>3, <1>4, <1>5 DEF OffsetAs, OffsetBills
  <1>6. CASE e # f
    <2> DEFINE b    == s.bill
               bill == d.bills[b]
    <2>0. b \in Bills /\ bill \in BillType /\ \E paid \in Int : BillIs(f, e, b, Settlement(bill, paid))
      BY <1>2, <1>4, <1>6 DEF SettledIn
    <2> PICK paid \in Int : BillIs(f, e, b, Settlement(bill, paid)) BY <2>0
    <2> DEFINE x == Settlement(bill, paid)
    <2>1. b \in Bills /\ bill \in BillType /\ BillIs(f, e, b, x) BY <2>0
    <2>2. Posted(bill) BY <1>1, <2>1, AimedPosted DEF BillType
    <2>3. Akin(x, bill)
      <3> HIDE DEF bill
      <3> QED BY <2>1, <2>2, RaisedAkin
    <2> HIDE DEF x
    <2>4. SameMoney(f, e) /\ e.bills = [f.bills EXCEPT ![b] = x] /\ SamePapers(f, e)
      BY <2>1 DEF BillIs, SamePapers
    <2>5. InOrder(e) /\ Refunds(e) = Refunds(f) /\ LiveIn(e) = LiveIn(f) BY <1>2, <1>4, <2>1, <2>3, <2>4, KeptIs
    <2>6. OffsetBills(d, e, s) BY <1>1, <1>4, <2>1, <2>2, <2>4 DEF OffsetBills, x, IsBills
    <2> QED BY <1>2, <1>3, <1>4, <2>4, <2>5, <2>6 DEF OffsetAs, SameMoney, SamePapers
  <1> QED BY <1>5, <1>6

LEMMA OffsetKeepsAim ==
    ASSUME NEW d, Db(d), NEW e, NEW s, OffsetAs(d, e, s), Aimed(d.bills, s.bill)
    PROVE  OnFile(d, e) /\ Aimed(e.bills, s.bill)
  <1>1. CASE e.bills = d.bills BY <1>1 DEF OnFile
  <1>2. CASE e.bills # d.bills
    <2> DEFINE b    == s.bill
               bill == d.bills[b]
    <2>0. b \in Bills /\ bill \in BillType /\ Posted(bill) /\ \E paid \in Int : e.bills = [d.bills EXCEPT ![b] = Settlement(@, paid)]
      BY <1>2 DEF OffsetAs, OffsetBills
    <2> PICK paid \in Int : e.bills = [d.bills EXCEPT ![b] = Settlement(@, paid)] BY <2>0
    <2> DEFINE x == Settlement(bill, paid)
    <2>1. b \in Bills /\ bill \in BillType /\ Posted(bill) /\ e.bills = [d.bills EXCEPT ![b] = x] BY <2>0
    <2>2. Akin(x, bill)
      <3> HIDE DEF bill
      <3> QED BY <2>1, RaisedAkin
    <2> HIDE DEF x
    <2>3. e.bills[b] = x BY <2>1, DbBills
    <2>4. OnFile(d, e) BY <2>1, <2>2, OnFileWith DEF Akin
    <2> QED BY <2>1, <2>2, <2>3, <2>4 DEF Aimed, Akin, Posted
  <1> QED BY <1>1, <1>2

LEMMA OffsetStory ==
    ASSUME OneAtATime, OwnNumbers, TypeInv, Story, NEW r \in Requests, SettleReturn(r), ~req[r].seen.money
    PROVE  StoryOf(db', req') /\ OffsetAs(db, db', req[r].seen) /\ db.returns[req[r].id] = ProcessedAs(req[r].seen)
  <1> DEFINE t == req[r].id
             s == req[r].seen
             q == [req[r] EXCEPT !.step = 3]
  <1>1. req[r].op = "process_return" /\ req[r].step = 2 /\ req' = [req EXCEPT ![r].step = 3] BY DEF SettleReturn
  <1>2. /\ t \in Returns /\ s \in ReturnType /\ db.returns[t] = [s EXCEPT !.st = "processed"]
        /\ s.bill \in Bills \cup {None} /\ Aimed(db.bills, s.bill)
    BY <1>1, ReturnAtWork DEF KnowsReturn
  <1>3. Offset(db, db', s) BY SettleReturnType
  <1>4. q.op = "process_return" /\ q.step = 3 /\ q.id = t /\ q.seen = s BY <1>1, AtStep
  <1>5. ~s.money OBVIOUS
  <1> HIDE DEF t, s, q
  <1>6. OffsetAs(db, db', s) BY <1>2, <1>3, AtWork, OffsetIs
  <1>7. OnFile(db, db') /\ Aimed(db'.bills, s.bill) BY <1>2, <1>6, AtWork, OffsetKeepsAim
  <1>8. Knows(db', q)
    <2>1. db'.returns[t] = [s EXCEPT !.st = "processed"] BY <1>2, <1>6 DEF OffsetAs, SamePapers
    <2> QED BY <1>4, <1>5, <1>7, <2>1 DEF Knows, KnowsBill, KnowsOut, KnowsReturn, KnowsNote
  <1>9. InOrder(db') /\ SamePapers(db, db') /\ Refunds(db') = Refunds(db) BY <1>6 DEF OffsetAs
  <1>10. StoryOf(db', req') BY <1>1, <1>7, <1>8, <1>9, Stepped DEF q
  <1> QED BY <1>2, <1>6, <1>10 DEF t, s, ProcessedAs

-----------------------------------------------------------------------------
(* Notes *)

\* A note is written, and its bill keeps what the money knows of it.
LEMMA NotedStory ==
    ASSUME OneAtATime, TypeInv, Story, NEW r \in Requests, Done(r), NEW n \in Notes \cup Returns, NEW x,
           x.doc = "live" => Pointed(db.bills, x.bill), NEW b \in Bills \cup {None}, NEW y,
           b \in Bills /\ db.bills[b].doc = "live" => Akin(y, db.bills[b]), NotedIn(db, db', n, x, b, y)
    PROVE  StoryOf(db', req') /\ LiveIn(db') = LiveIn(db) /\ OnFile(db, db')
  <1>1. /\ Db(db') /\ SameMoney(db, db') /\ db'.returns = db.returns /\ db'.goods = db.goods
        /\ db'.notes = [db.notes EXCEPT ![n] = x]
        /\ db'.bills = IF b \in Bills /\ db.bills[b].doc = "live" THEN [db.bills EXCEPT ![b] = y] ELSE db.bills
    BY DEF NotedIn
  <1>2. InOrder(db') /\ Refunds(db') = Refunds(db) /\ LiveIn(db') = LiveIn(db) /\ OnFile(db, db')
    <2>1. CASE b \in Bills /\ db.bills[b].doc = "live" BY <1>1, <2>1, AtWork, OnFileWith, KeptIs DEF Akin
    <2>2. CASE ~(b \in Bills /\ db.bills[b].doc = "live")
      <3>1. db'.bills = db.bills BY <1>1, <2>2
      <3> QED BY <1>1, <3>1, AtWork, PlainIs DEF OnFile
    <2> QED BY <2>1, <2>2
  <1>3. Papers(db')
    <2>1. \A c : c \in Bills \cup {None} /\ Pointed(db.bills, c) => Pointed(db'.bills, c)
      BY <1>2 DEF OnFile, Pointed
    <2>2. \A t \in Returns : db.returns[t].doc = "live" => db.returns[t].bill \in Bills \cup {None}
      BY TakenType DEF ReturnType
    <2>3. db' \in DbType BY <1>1 DEF Db
    <2>4. \A k \in Notes \cup Returns : db'.notes[k].doc = "live" => db'.notes[k].bill \in Bills \cup {None}
      BY <2>3 DEF DbType, NoteType, Gone, Unused
    <2>5. db'.notes[n] = x /\ \A k \in Notes \cup Returns : k # n => db'.notes[k] = db.notes[k]
      BY <1>1, AtWork DEF Db, DbType
    <2>6. \A k \in Notes \cup Returns : db'.notes[k].doc = "live" => Pointed(db.bills, db'.notes[k].bill)
      BY <2>5, AtWork DEF Papers
    <2>7. \A k \in Notes \cup Returns : db'.notes[k].doc = "live" => Pointed(db'.bills, db'.notes[k].bill)
      BY <2>1, <2>4, <2>6
    <2>8. \A t \in Returns : db'.returns[t].doc = "live" => Pointed(db'.bills, db'.returns[t].bill)
      BY <1>1, <2>1, <2>2, AtWork DEF Papers
    <2> QED BY <1>1, <1>2, <2>7, <2>8, AtWork DEF Papers
  <1>4. \A z \in Requests : Knows(db', req'[z]) BY AtWork, DoneKnows
  <1> QED BY <1>2, <1>3, <1>4 DEF StoryOf

LEMMA NoteReturnStory ==
    ASSUME OneAtATime, OwnNumbers, TypeInv, Story, NEW r \in Requests, NoteReturn(r)
    PROVE  /\ StoryOf(db', req') /\ Done(r) /\ SameMoney(db, db') /\ db'.bills = db.bills /\ db'.returns = db.returns
           /\ db.returns[req[r].id] = ProcessedAs(req[r].seen)
  <1> DEFINE t == req[r].id
             s == req[r].seen
             x == [doc |-> "live", st |-> "issued", bill |-> s.bill, amt |-> s.amt, auto |-> TRUE]
  <1>1. req[r].op = "process_return" /\ req[r].step = 3 /\ Done(r) /\ db' = [db EXCEPT !.notes[t] = x]
    BY DEF NoteReturn
  <1>2. /\ t \in Returns /\ s \in ReturnType /\ s.bill \in Bills \cup {None} /\ Aimed(db.bills, s.bill)
        /\ db.returns[t] = ProcessedAs(s)
    BY <1>1, ReturnAtWork DEF KnowsReturn, ProcessedAs
  <1>3. x \in NoteType /\ x.bill = s.bill BY <1>2 DEF NoteType, ReturnType
  <1>4. Pointed(db.bills, s.bill) BY <1>2 DEF Aimed, Pointed, Posted
  <1> HIDE DEF x, s, t
  <1>5. /\ Db(db') /\ SameMoney(db, db') /\ db'.notes = [db.notes EXCEPT ![t] = x]
        /\ db'.bills = db.bills /\ db'.returns = db.returns /\ db'.goods = db.goods
    BY <1>1, <1>2, <1>3, AtWork, WithNote
  <1>6. NotedIn(db, db', t, x, None, x) BY <1>5, Assumed DEF NotedIn
  <1>7. StoryOf(db', req') BY <1>3, <1>4, <1>2, Assumed, <1>1, <1>6, NotedStory
  <1> QED BY <1>1, <1>2, <1>5, <1>7 DEF t, s

\* Only drafts among the notes entered by hand change.
Drafted(x) == x.doc # "live" \/ (x.st = "draft" /\ ~x.auto)
DraftNotes(d, e) ==
    /\ SameMoney(d, e) /\ e.bills = d.bills /\ e.returns = d.returns /\ e.goods = d.goods
    /\ \A n \in Notes \cup Returns : \/ e.notes[n] = d.notes[n]
                                     \/ /\ n \in Notes /\ (d.notes[n].doc # "live" \/ d.notes[n].st = "draft")
                                        /\ Drafted(e.notes[n])

LEMMA DraftNoteStory ==
    ASSUME OneAtATime, TypeInv, Story, NEW n \in Notes, NEW x \in NoteType \cup Gone,
           db.notes[n].doc = "unused" \/ (db.notes[n].doc = "live" /\ db.notes[n].st = "draft" /\ x = Deleted),
           x.doc = "live" => Pointed(db.bills, x.bill), Drafted(x), db' = [db EXCEPT !.notes[n] = x], req' = req
    PROVE  StoryOf(db', req') /\ req' = req /\ DraftNotes(db, db')
  <1>1. Db(db) /\ InOrder(db) /\ Papers(db) /\ \A r \in Requests : req[r] \in RequestType /\ Knows(db, req[r])
    BY DEF TypeInv, Story, StoryOf
  <1>2. /\ Db(db') /\ SameMoney(db, db') /\ db'.notes = [db.notes EXCEPT ![n] = x]
        /\ db'.bills = db.bills /\ db'.returns = db.returns /\ db'.goods = db.goods
    BY <1>1, WithNote
  <1>3. InOrder(db') /\ Refunds(db') = Refunds(db) /\ LiveIn(db') = LiveIn(db) BY <1>1, <1>2, PlainIs
  <1>4. db'.notes[n] = x /\ \A k \in Notes \cup Returns : k # n => db'.notes[k] = db.notes[k]
    BY <1>1, <1>2 DEF Db, DbType
  <1>5. Papers(db') BY <1>1, <1>2, <1>3, <1>4 DEF Papers
  <1>6. Passive(db, db')
    <2>1. \A k \in Notes \cup Returns : \/ db.notes[k].doc = "unused" \/ db'.notes[k] = db.notes[k]
                                        \/ (db.notes[k].st = "draft" /\ db'.notes[k] = Deleted)
                                        \/ (db.notes[k].doc = "deleted" /\ db'.notes[k] = db.notes[k])
      <3>1. \/ db.notes[n].doc = "unused" \/ db'.notes[n] = db.notes[n]
            \/ db.notes[n].st = "draft" /\ db'.notes[n] = Deleted
        BY <1>4
      <3> TAKE k \in Notes \cup Returns
      <3>2. CASE k = n BY <3>1, <3>2
      <3>3. CASE k # n BY <1>4, <3>3
      <3> QED BY <3>2, <3>3
    <2> QED BY <1>2, <1>3, <2>1, SameOuts DEF Passive
  <1>7. \A r \in Requests : Knows(db', req'[r]) BY <1>1, <1>6, KnowsPassive
  <1>8. DraftNotes(db, db') BY <1>4, <1>2 DEF DraftNotes
  <1> QED BY <1>3, <1>5, <1>7, <1>8 DEF StoryOf

LEMMA CreateNoteStory ==
    ASSUME OneAtATime, OwnNumbers, TypeInv, Story, NEW n \in Notes, NEW b \in Bills, NEW amt \in Amounts,
           CreateNote(n, b, amt)
    PROVE  StoryOf(db', req') /\ req' = req /\ DraftNotes(db, db')
  BY DraftNoteStory DEF NoteType, Drafted, CreateNote, Pointed

LEMMA DeleteNoteStory ==
    ASSUME OneAtATime, OwnNumbers, TypeInv, Story, NEW n \in Notes, DeleteNote(n)
    PROVE  StoryOf(db', req') /\ req' = req /\ DraftNotes(db, db')
  BY DraftNoteStory DEF DeleteNote, Deleted, Gone, Drafted

LEMMA LoadNoteStory ==
    ASSUME OneAtATime, OwnNumbers, TypeInv, Story, NEW r \in Requests, NEW n \in Notes \cup Returns,
           NEW op \in {"issue_note", "cancel_note"}, LoadNote(r, op, n)
    PROVE  StoryOf(db', req') /\ db' = db
  <1> DEFINE q == [op |-> op, id |-> n, seen |-> db.notes[n], step |-> 1]
  <1>1. /\ db' = db /\ req' = [req EXCEPT ![r] = q] /\ db.notes[n] \in NoteType /\ db.notes[n].doc = "live"
        /\ Settleable(db.notes[n].bill) /\ (op = "issue_note" => db.notes[n].st = "draft")
    BY TakenType DEF LoadNote, Begin
  <1>2. q.op = op /\ q.id = n /\ q.seen = db.notes[n] /\ q.step = 1 OBVIOUS
  <1> HIDE DEF q
  <1>3. Aimed(db.bills, db.notes[n].bill) BY <1>1, AtWork, AimedNow DEF NoteType, Papers
  <1>4. Knows(db, q) BY <1>1, <1>2, <1>3 DEF Knows, KnowsBill, KnowsOut, KnowsReturn, KnowsNote
  <1>5. \A s \in Requests : Knows(db', req'[s]) BY <1>1, <1>4, AtWork, OnlyKnows
  <1> QED BY <1>1, <1>5, AtWork DEF StoryOf

LEMMA NoteAtWork ==
    ASSUME TypeInv, Story, NEW r \in Requests, req[r].op \in {"issue_note", "cancel_note"}
    PROVE  /\ req[r].id \in Notes \cup Returns /\ req[r].seen \in NoteType /\ req[r].seen.bill \in Bills \cup {None}
           /\ req[r].seen.amt \in Nat /\ KnowsNote(db, req[r]) /\ Aimed(db.bills, req[r].seen.bill)
  <1>1. req[r] \in NoteRequest /\ KnowsNote(db, req[r]) BY AtWork, RequestIs DEF Knows
  <1>2. req[r].id \in Notes \cup Returns /\ req[r].seen \in NoteType BY <1>1 DEF NoteRequest
  <1>3. req[r].seen.bill \in Bills \cup {None} /\ req[r].seen.amt \in Amounts BY <1>2 DEF NoteType
  <1>4. req[r].seen.amt \in Nat \ {0}
    <2>1. Amounts \subseteq Nat \ {0} BY Assumed
    <2> QED BY Zenon, <1>3, <2>1
  <1> QED BY <1>1, <1>2, <1>3, <1>4 DEF KnowsNote

LEMMA LoweredAkin ==
    ASSUME NEW bill \in BillType, NEW amt
    PROVE  Akin(Lowered(bill, amt), bill) /\ Lowered(bill, amt).st = bill.st
           /\ Lowered(bill, amt).paid = bill.paid - amt /\ Lowered(bill, amt).total = bill.total
  BY DEF Akin, Lowered, BillType

LEMMA IssueNoteStory ==
    ASSUME OneAtATime, OwnNumbers, TypeInv, Story, NEW r \in Requests, IssueNote(r)
    PROVE  /\ StoryOf(db', req') /\ Done(r) /\ LiveIn(db') = LiveIn(db)
           /\ \E saved \in Saved : IssuedAs(db, db', req[r].id, req[r].seen, saved)
  <1> DEFINE s == req[r].seen
             n == req[r].id
  <1>1. req[r].op = "issue_note" /\ Done(r) BY DEF IssueNote
  <1>2. n \in Notes \cup Returns /\ s \in NoteType /\ s.bill \in Bills \cup {None} /\ Aimed(db.bills, s.bill)
    BY <1>1, NoteAtWork
  <1>3. PICK saved \in Saved : IssuedAs(db, db', n, s, saved) BY IssueNoteType
  <1> DEFINE x == IssuedNote(s, db.notes[n], saved)
             y == IssuedBill(s, db.bills[s.bill], saved)
  <1>4. x.doc = "live" => Pointed(db.bills, x.bill)
    <2>1. CASE "note" \in saved
      <3>1. x.bill = s.bill BY <1>2, <2>1 DEF NoteType, IssuedNote
      <3> HIDE DEF x, s
      <3> QED BY <1>2, <3>1 DEF Aimed, Pointed, Posted
    <2>2. CASE "note" \notin saved
      <3>1. x = db.notes[n] BY <2>2 DEF IssuedNote
      <3> HIDE DEF x, n
      <3> QED BY <1>2, <3>1, AtWork DEF Papers
    <2> QED BY <2>1, <2>2
  <1>6. s.bill \in Bills /\ db.bills[s.bill].doc = "live" => Akin(y, db.bills[s.bill])
    <2> SUFFICES ASSUME s.bill \in Bills, db.bills[s.bill].doc = "live" PROVE Akin(y, db.bills[s.bill]) OBVIOUS
    <2> DEFINE bill == db.bills[s.bill]
    <2>1. bill \in BillType /\ bill.doc = "live" BY TakenType
    <2>2. y = Lowered(bill, s.amt) \/ y = bill BY DEF IssuedBill
    <2> HIDE DEF s, bill
    <2>3. Akin(bill, bill) BY <2>1 DEF Akin
    <2> QED BY <2>1, <2>2, <2>3, LoweredAkin DEF bill
  <1>5. NotedIn(db, db', n, x, s.bill, y) BY <1>3 DEF IssuedAs
  <1> HIDE DEF x, y, s, n
  <1>7. StoryOf(db', req') /\ LiveIn(db') = LiveIn(db) BY <1>1, <1>2, <1>4, <1>5, <1>6, NotedStory
  <1> QED BY <1>1, <1>3, <1>7 DEF s, n

\* Where nothing fails both are saved.
LEMMA IssuedWhole ==
    ASSUME ~Faults, NEW d, NEW e, NEW n, NEW s, NEW saved \in Saved, IssuedAs(d, e, n, s, saved)
    PROVE  NotedIn(d, e, n, [s EXCEPT !.st = "issued"], s.bill, Lowered(d.bills[s.bill], s.amt))
  BY DEF Saved, IssuedAs, IssuedNote, IssuedBill

LEMMA CancelNoteStory ==
    ASSUME OneAtATime, OwnNumbers, TypeInv, Story, NEW r \in Requests, CancelNote(r)
    PROVE  LET s == req[r].seen
               n == req[r].id
           IN  /\ StoryOf(db', req') /\ Done(r) /\ LiveIn(db') = LiveIn(db)
               /\ NotedIn(db, db', n, CancelledNote(db.notes[n]), s.bill, GivenBack(s, db.bills[s.bill]))
  <1> DEFINE s == req[r].seen
             n == req[r].id
             x == CancelledNote(db.notes[n])
             y == GivenBack(s, db.bills[s.bill])
  <1>1. req[r].op = "cancel_note" /\ Done(r) BY DEF CancelNote
  <1>2. n \in Notes \cup Returns /\ s \in NoteType /\ s.bill \in Bills \cup {None} /\ Aimed(db.bills, s.bill)
    BY <1>1, NoteAtWork
  <1>3. NotedIn(db, db', n, x, s.bill, y) BY CancelNoteType
  <1> HIDE DEF s, n
  <1>4. x.doc = "live" => Pointed(db.bills, x.bill)
    BY <1>2, TakenType, AtWork DEF Papers, CancelledNote, NoteType
  <1>5. s.bill \in Bills /\ db.bills[s.bill].doc = "live" => Akin(y, db.bills[s.bill])
    BY <1>2, AtWork, AimedPosted, RaisedAkin DEF Raised, Akin, GivenBack
  <1> HIDE DEF x, y
  <1>6. StoryOf(db', req') /\ LiveIn(db') = LiveIn(db) BY <1>1, <1>2, <1>3, <1>4, <1>5, NotedStory
  <1> QED BY <1>1, <1>3, <1>6 DEF s, n, x, y

LEMMA DropStory ==
    ASSUME OneAtATime, OwnNumbers, TypeInv, Story, NEW r \in Requests, Drop(r)
    PROVE  StoryOf(db', req') /\ db' = db
  BY AtWork, DoneKnows DEF Drop, StoryOf

LEMMA NextStory ==
    ASSUME OneAtATime, OwnNumbers
    PROVE  TypeInv /\ Story /\ [Next]_vars => Story'
  <1> SUFFICES ASSUME TypeInv, Story, [Next]_vars PROVE StoryOf(db', req') BY DEF Story
  <1>1. CASE UNCHANGED vars BY <1>1 DEF Story, vars
  <1>2. CASE \E b \in Bills, v \in Vendors, st \in Statuses, total \in Totals, paid \in {0} \cup Amounts, mode \in Modes :
                \E number \in NumbersOf(b) : CreateBill(b, v, number, st, total, paid, mode)
    BY <1>2, CreateBillStory
  <1>3. CASE \E v \in Vendors, amt \in Amounts, disc \in Discounts, mode \in Modes, refund \in BOOLEAN :
                PayVendor(v, amt, disc, mode, refund)
    BY <1>3, PayVendorStory
  <1>4. CASE \E t \in Returns, b \in Bills \cup {None}, v \in Vendors, amt \in Amounts, money \in BOOLEAN :
                CreateReturn(t, b, v, amt, money)
    BY <1>4, CreateReturnStory
  <1>5. CASE \E t \in Returns, money \in BOOLEAN : ReviseReturn(t, money) BY <1>5, ReviseReturnStory
  <1>6. CASE \E t \in Returns : DeleteReturn(t) BY <1>6, DeleteReturnStory
  <1>7. CASE \E n \in Notes, b \in Bills, amt \in Amounts : CreateNote(n, b, amt) BY <1>7, CreateNoteStory
  <1>8. CASE \E n \in Notes : DeleteNote(n) BY <1>8, DeleteNoteStory
  <1>9. ASSUME NEW r \in Requests, BillSteps(r) PROVE StoryOf(db', req')
    <2>1. CASE \E b \in Bills, op \in {"update_bill", "mark_paid", "delete_bill", "pay_bill"} : LoadBill(r, op, b)
      BY <2>1, LoadBillStory
    <2>2. CASE \E v \in Vendors, st \in Statuses, total \in Totals, paid \in {0} \cup Amounts, mode \in Modes :
                  \E number \in Numbers : UpdateBill(r, v, number, st, total, paid, mode)
      BY <2>2, UpdateBillStory
    <2>3. CASE MarkSave(r) BY <2>3, MarkSaveStory
    <2>4. CASE MarkReverse(r) BY <2>4, MarkReverseStory
    <2>5. CASE \E mode \in Modes : MarkPay(r, mode) BY <2>5, MarkPayStory
    <2>6. CASE DeleteBill(r) BY <2>6, DeleteBillStory
    <2> QED BY <1>9, <2>1, <2>2, <2>3, <2>4, <2>5, <2>6 DEF BillSteps
  <1>10. ASSUME NEW r \in Requests, OutSteps(r) PROVE StoryOf(db', req')
    BY PayBillStory, LoadOutStory, CancelOutStory, DeleteOutStory, <1>10 DEF OutSteps
  <1>11. ASSUME NEW r \in Requests, ReturnSteps(r) PROVE StoryOf(db', req')
    BY LoadReturnStory, ProcessReturnStory, RefundStory, OffsetStory, NoteReturnStory, <1>11 DEF ReturnSteps
  <1>12. ASSUME NEW r \in Requests, NoteSteps(r) PROVE StoryOf(db', req')
    BY LoadNoteStory, IssueNoteStory, CancelNoteStory, <1>12 DEF NoteSteps
  <1> QED BY <1>1, <1>2, <1>3, <1>4, <1>5, <1>6, <1>7, <1>8, <1>9, <1>10, <1>11, <1>12, DropStory DEF Next

-----------------------------------------------------------------------------
(* Journals, rows and the bank *)

LEMMA StoryBooks == TypeInv /\ Story => BooksExact
  <1> SUFFICES ASSUME TypeInv, Story PROVE BooksExact OBVIOUS
  <1>1. /\ Db(db) /\ Ledger(db, db.bills) /\ Purchases(db) = BillJournals(db.bills)
    BY DEF Story, StoryOf, InOrder, Money
  <1>2. LiveOuts = LiveIn(db) BY DEF LiveOuts, LiveIn
  <1>3. JournalsExact
    <2>1. BillJournals(db.bills) = {[kind |-> "purchase_bill", id |-> b, amt |-> db.bills[b].total] : b \in {x \in Bills : IsPosted(x)}}
      BY DEF BillJournals, BillJournal, Posted, IsPosted, Live
    <2>2. {PayJournal(o) : o \in LiveIn(db)}
            = {[kind |-> IF o.auto /\ o.mode = "bank" THEN "payment_out" ELSE "payment_out_record",
                id |-> o.no, amt |-> Net(o)] : o \in LiveOuts}
      BY <1>2 DEF PayJournal
    <2>3. db.gl = Purchases(db) \cup {g \in db.gl : g.kind # "purchase_bill"} BY DEF Purchases
    <2>4. {g \in db.gl : g.kind # "purchase_bill"} = {PayJournal(o) : o \in LiveIn(db)}
      BY <1>1 DEF Ledger, GlAgrees
    <2> QED BY <1>1, <2>1, <2>2, <2>3, <2>4 DEF JournalsExact
  <1>4. BankMatchesRows BY <1>1 DEF BankMatchesRows, Ledger
  <1>5. OneRowPerPayment
    <2> DEFINE L == {<< row.no, row.amt >> : row \in {x \in db.rows : x.dir = "out"}}
               R == {<< o.no, Net(o) >> : o \in {x \in LiveOuts : x.mode = "bank"}}
    <2>1. {x \in db.rows : x.dir = "out"} = RowsOf(BankLive(db), db.bills) BY <1>1 DEF Ledger, RowsAgree
    <2>2. BankLive(db) = {x \in LiveOuts : x.mode = "bank"} BY <1>2 DEF BankLive
    <2>3. \A o : RowOf(o, RefOf(o, db.bills)).no = o.no /\ RowOf(o, RefOf(o, db.bills)).amt = Net(o)
      BY DEF RowOf
    <2>4. ASSUME NEW p, p \in L PROVE p \in R BY <2>1, <2>4, <2>2, <2>3 DEF RowsOf
    <2>5. ASSUME NEW p, p \in R PROVE p \in L BY <2>2, <2>5, <2>1, <2>3 DEF RowsOf
    <2>6. L = R
      <3> HIDE DEF L, R
      <3> QED BY <2>4, <2>5
    <2> QED BY <2>6 DEF OneRowPerPayment
  <1> QED BY <1>3, <1>4, <1>5, TypeInvOK DEF BooksExact

\* With one client at work at a time and numbers of the vendors' own, the
\* tables stay whole, every posted bill and active payment has the journal
\* entry it should have and nothing else has one, the bank balance is the sum
\* of its rows, and every active payment from the bank has its one row.
THEOREM BooksExactHolds ==
    ASSUME OneAtATime, OwnNumbers
    PROVE  Spec => []BooksExact
  <1>1. TypeInv /\ Story /\ [Next]_vars => TypeInv' /\ Story' BY NextStory, NextType
  <1>2. Init => TypeInv /\ Story BY InitStory, InitType
  <1>3. TypeInv /\ Story => BooksExact BY StoryBooks
  <1> QED BY <1>1, <1>2, <1>3, PTL DEF Spec

-----------------------------------------------------------------------------
(* What a vendor stands at, by its bills and its returns *)

BillFor(x, v)  == IF Posted(x) /\ x.vendor = v THEN x.total ELSE 0
BillsTo(d, v)  == SumFunctionOnSet([b \in Bills |-> BillFor(d.bills[b], v)], Bills)

\* A return whose settlement is under way is not taken off yet.
ReturnFor(x, v)      == IF Processed(x) /\ x.vendor = v /\ ~x.money THEN x.amt ELSE 0
Held(q, t)           == \E r \in Requests : q[r].op = "process_return" /\ q[r].step = 2 /\ q[r].id = t
ReturnIn(d, q, t, v) == IF Held(q, t) THEN 0 ELSE ReturnFor(d.returns[t], v)
ReturnsTo(d, q, v)   == SumFunctionOnSet([t \in Returns |-> ReturnIn(d, q, t, v)], Returns)

\* A vendor is owed its bills less what was returned against them, payments aside;
\* a return under settlement is not yet counted.
Weighed(d, q) == \A v \in Vendors : Standing(d, v) = ReturnsTo(d, q, v) - BillsTo(d, v)

LEMMA BillForIs ==
    ASSUME NEW x \in BillType \cup Gone, NEW v
    PROVE  BillFor(x, v) \in Int
  <1>1. CASE Posted(x)
    <2>1. x \in BillType BY <1>1 DEF Posted, Gone, Unused
    <2> QED BY <2>1, TotalType DEF BillFor
  <1>2. CASE ~Posted(x) BY <1>2 DEF BillFor
  <1> QED BY <1>1, <1>2

LEMMA BillForContributes ==
    ASSUME NEW x \in BillType, NEW v
    PROVE  BillFor(x, v) = (IF v = x.vendor THEN -Contribution(x) ELSE 0)
  <1>1. x.total \in Nat /\ x.doc = "live" BY TotalType DEF BillType
  <1> QED BY <1>1 DEF BillFor, Contribution, Posted

LEMMA BillsToInt ==
    ASSUME NEW d, Db(d), NEW v
    PROVE  BillsTo(d, v) \in Int
  BY BillForIs, DbBills, SumInt, Assumed DEF IsBills, BillsTo

\* One bill changes.
LEMMA BillsToChanged ==
    ASSUME NEW d, Db(d), NEW e, Db(e), NEW b \in Bills, NEW x, e.bills = [d.bills EXCEPT ![b] = x], NEW v
    PROVE  BillsTo(e, v) = BillsTo(d, v) - BillFor(d.bills[b], v) + BillFor(x, v)
  BY BillForIs, DbBills, Assumed, SumChanges DEF IsBills, BillsTo, ChangedAt

\* A bill that keeps its vendor, its total, and whether it is a draft, weighs the same.
LEMMA BillsToAkin ==
    ASSUME NEW d, Db(d), NEW e, Db(e), NEW b \in Bills, NEW x, e.bills = [d.bills EXCEPT ![b] = x], Akin(x, d.bills[b]), NEW v
    PROVE  BillsTo(e, v) = BillsTo(d, v)
  BY BillForIs, BillsToInt, DbBills, BillsToChanged DEF Akin, BillFor, Posted, IsBills

LEMMA BillsToSame == ASSUME NEW d, NEW e, e.bills = d.bills, NEW v PROVE BillsTo(e, v) = BillsTo(d, v)
  BY DEF BillsTo

LEMMA ReturnForIs ==
    ASSUME NEW x \in ReturnType \cup Gone, NEW v
    PROVE  ReturnFor(x, v) \in Int
  <1>1. CASE Processed(x)
    <2>1. x \in ReturnType BY <1>1 DEF Processed, Gone, Unused
    <2>2. x.amt \in Amounts /\ Amounts \subseteq Nat \ {0} BY <2>1, Assumed DEF ReturnType
    <2>3. x.amt \in Nat \ {0} BY Zenon, <2>2
    <2> QED BY <2>3 DEF ReturnFor
  <1>2. CASE ~Processed(x) BY <1>2 DEF ReturnFor
  <1> QED BY <1>1, <1>2

LEMMA ReturnInInt ==
    ASSUME NEW d, Db(d), NEW q, NEW t \in Returns, NEW v
    PROVE  ReturnIn(d, q, t, v) \in Int
  <1>1. d.returns[t] \in ReturnType \cup Gone BY DEF Db, DbType
  <1> QED BY <1>1, ReturnForIs DEF ReturnIn

LEMMA ReturnsToInt ==
    ASSUME NEW d, Db(d), NEW q, NEW v
    PROVE  ReturnsTo(d, q, v) \in Int
  BY ReturnInInt, SumInt, Assumed DEF ReturnsTo

\* No return comes to weigh, or ceases to.
ReturnsStill(d, q, e, p) == \A t \in Returns : \A v : ReturnIn(e, p, t, v) = ReturnIn(d, q, t, v)

LEMMA StillWeighed ==
    ASSUME NEW d, NEW e, NEW q, NEW p, Weighed(d, q), ReturnsStill(d, q, e, p), Steady(d, e),
           \A v : BillsTo(e, v) = BillsTo(d, v)
    PROVE  Weighed(e, p)
  <1>1. \A v : ReturnsTo(e, p, v) = ReturnsTo(d, q, v)
    <2> TAKE v
    <2>1. [t \in Returns |-> ReturnIn(e, p, t, v)] = [t \in Returns |-> ReturnIn(d, q, t, v)]
      BY DEF ReturnsStill
    <2> QED BY <2>1 DEF ReturnsTo
  <1> QED BY <1>1 DEF Weighed, Steady

Unheld(q) == \A t : ~Held(q, t)

LEMMA IdleUnheld ==
    ASSUME OneAtATime, TypeInv, NEW r \in Requests, Done(r)
    PROVE  Unheld(req')
  BY DEF OneAtATime, Done, TypeInv, Unheld, Held, Idle

LEMMA ElseUnheld ==
    ASSUME OneAtATime, NEW r \in Requests, ~(req[r].op = "process_return" /\ req[r].step = 2)
    PROVE  Unheld(req)
  BY DEF OneAtATime, Unheld, Held

LEMMA AtUnheld ==
    ASSUME OneAtATime, TypeInv, NEW r \in Requests, NEW k, req' = [req EXCEPT ![r].step = k],
           ~(req[r].op = "process_return" /\ k = 2)
    PROVE  Unheld(req')
  <1>1. req'[r] = [req[r] EXCEPT !.step = k] BY DEF TypeInv
  <1>2. req'[r].op = req[r].op /\ (req[r] # Idle => req'[r].step = k)
    BY <1>1 DEF Idle, TypeInv, RequestType, BillRequest, OutRequest, ReturnRequest, NoteRequest
  <1>3. Idle.op # "process_return" BY DEF Idle
  <1> QED BY <1>2, <1>3 DEF OneAtATime, Unheld, Held

\* Nothing is held before or after, and no processed return changes.
LEMMA UnheldStill ==
    ASSUME NEW d, NEW e, NEW q, NEW p, Unheld(q), Unheld(p),
           \A t \in Returns : e.returns[t] = d.returns[t] \/ (~Processed(d.returns[t]) /\ ~Processed(e.returns[t]))
    PROVE  ReturnsStill(d, q, e, p)
  BY DEF Unheld, ReturnsStill, ReturnIn, ReturnFor

LEMMA SameStill ==
    ASSUME NEW d, NEW e, NEW q,
           \A t \in Returns : e.returns[t] = d.returns[t] \/ (~Processed(d.returns[t]) /\ ~Processed(e.returns[t]))
    PROVE  ReturnsStill(d, q, e, q)
  BY DEF ReturnsStill, ReturnIn, ReturnFor

\* The money stays as it is.
LEMMA SameSteady == ASSUME NEW d, NEW e, SameMoney(d, e) PROVE Steady(d, e)
  BY DEF SameMoney, Steady, Standing, PaidIn, LiveIn

\* A bill comes to weigh x more, and its vendor stands at as much less.
LEMMA WeighedMore ==
    ASSUME NEW d, Db(d), NEW e, Db(e), NEW q, NEW p, Weighed(d, q), ReturnsStill(d, q, e, p),
           NEW w \in Vendors, NEW x \in Int, Shifted(d, e, w, x),
           \A v : BillsTo(e, v) = BillsTo(d, v) - (IF v = w THEN x ELSE 0)
    PROVE  Weighed(e, p)
  <1> SUFFICES ASSUME NEW v \in Vendors PROVE Standing(e, v) = ReturnsTo(e, p, v) - BillsTo(e, v) BY DEF Weighed
  <1>1. [t \in Returns |-> ReturnIn(e, p, t, v)] = [t \in Returns |-> ReturnIn(d, q, t, v)] BY DEF ReturnsStill
  <1>2. ReturnsTo(e, p, v) = ReturnsTo(d, q, v) BY <1>1 DEF ReturnsTo
  <1>3. Standing(d, v) = ReturnsTo(d, q, v) - BillsTo(d, v) /\ Standing(e, v) = Standing(d, v) + (IF v = w THEN x ELSE 0)
    BY DEF Weighed, Shifted
  <1>4. BillsTo(d, v) \in Int /\ ReturnsTo(d, q, v) \in Int /\ BillsTo(e, v) = BillsTo(d, v) - (IF v = w THEN x ELSE 0)
    BY BillsToInt, ReturnsToInt
  <1>5. CASE v = w BY <1>2, <1>3, <1>4, <1>5
  <1>6. CASE v # w BY <1>2, <1>3, <1>4, <1>6
  <1> QED BY <1>5, <1>6

LEMMA CreateBillWeighed ==
    ASSUME OneAtATime, OwnNumbers, TypeInv, Story, Weighed(db, req), NEW b \in Bills, NEW v \in Vendors, NEW st \in Statuses,
           NEW total \in Totals, NEW paid \in {0} \cup Amounts, NEW mode \in Modes, NEW number \in NumbersOf(b),
           CreateBill(b, v, number, st, total, paid, mode)
    PROVE  Weighed(db', req')
  <1> DEFINE x == Bill(v, number, st, total, paid)
  <1>1. x \in BillType BY NoOverlap, BillTyped
  <1>2. req' = req /\ db.bills[b].doc = "unused" /\ Opened(db, db', b, x) BY CreateBillStory
  <1> HIDE DEF x
  <1>3. /\ Db(db) /\ Db(db') /\ db'.bills = [db.bills EXCEPT ![b] = x] /\ SamePapers(db, db')
        /\ Shifted(db, db', x.vendor, Contribution(x))
    BY <1>2 DEF Opened, InOrder, TypeInv
  <1>4. x.vendor \in Vendors /\ Contribution(x) \in Int BY <1>1, ContributionType DEF BillType
  <1>5. ASSUME NEW w PROVE BillsTo(db', w) = BillsTo(db, w) - (IF w = x.vendor THEN Contribution(x) ELSE 0)
    <2>1. BillFor(db.bills[b], w) = 0 BY <1>2 DEF BillFor, Posted
    <2>2. BillsTo(db', w) = BillsTo(db, w) - BillFor(db.bills[b], w) + BillFor(x, w) /\ BillsTo(db, w) \in Int
      BY <1>3, BillsToChanged, BillsToInt
    <2>3. BillFor(x, w) = (IF w = x.vendor THEN -Contribution(x) ELSE 0) BY <1>1, BillForContributes
    <2>4. CASE w = x.vendor BY <1>4, <2>1, <2>2, <2>3, <2>4
    <2>5. CASE w # x.vendor BY <2>1, <2>2, <2>3, <2>5
    <2> QED BY <2>4, <2>5
  <1>6. ReturnsStill(db, req, db', req') BY <1>2, <1>3, SameStill DEF SamePapers
  <1> QED BY <1>3, <1>4, <1>5, <1>6, WeighedMore

LEMMA PayVendorWeighed ==
    ASSUME OneAtATime, OwnNumbers, TypeInv, Story, Weighed(db, req), NEW v \in Vendors, NEW amt \in Amounts,
           NEW disc \in Discounts, NEW mode \in Modes, NEW refund \in BOOLEAN, PayVendor(v, amt, disc, mode, refund)
    PROVE  Weighed(db', req')
  <1>1. req' = req BY PayVendorStory
  <1>2. PICK o \in OutType : Spent(db, db', o, None, Unused, amt - disc) BY PayVendorStory
  <1>3. OneMore(db, db', o) /\ Db(db') /\ SamePapers(db, db') /\ db'.bills = db.bills /\ Db(db)
    BY <1>2 DEF Spent, InOrder, TypeInv
  <1>4. Steady(db, db') BY <1>3, OneMoreSums
  <1>5. ReturnsStill(db, req, db', req') BY <1>1, <1>3, SameStill DEF SamePapers
  <1> QED BY <1>3, <1>4, <1>5, BillsToSame, StillWeighed

LEMMA UpdateBillWeighed ==
    ASSUME OneAtATime, OwnNumbers, Discounts \subseteq {0}, TypeInv, Story, Weighed(db, req), NEW r \in Requests,
           NEW v \in Vendors, NEW st \in Statuses, NEW total \in Totals, NEW paid \in {0} \cup Amounts,
           NEW mode \in Modes, NEW number \in Numbers, UpdateBill(r, v, number, st, total, paid, mode)
    PROVE  Weighed(db', req')
  <1> DEFINE b == req[r].id
             s == req[r].seen
             x == Bill(v, number, st, total, paid)
  <1>1. x \in BillType BY BillTyped
  <1>2. Done(r) /\ db.bills[b] = s /\ Reopened(db, db', b, s, x) BY UpdateBillStory
  <1>3. req[r].op = "update_bill" BY DEF UpdateBill
  <1>4. b \in Bills /\ s \in BillType BY <1>3, BillAtWork
  <1> HIDE DEF b, s, x
  <1>5. /\ Db(db) /\ Db(db') /\ db'.bills = [db.bills EXCEPT ![b] = x] /\ SamePapers(db, db')
        /\ Traded(db, db', s.vendor, Contribution(s), x.vendor, Contribution(x))
    BY <1>2 DEF Reopened, InOrder, TypeInv
  <1>6. ReturnsStill(db, req, db', req')
    <2>1. Unheld(req) /\ Unheld(req') BY <1>2, <1>3, IdleUnheld, ElseUnheld
    <2> QED BY <1>5, <2>1, UnheldStill DEF SamePapers
  <1> SUFFICES ASSUME NEW w \in Vendors PROVE Standing(db', w) = ReturnsTo(db', req', w) - BillsTo(db', w)
    BY DEF Weighed
  <1>7. ReturnsTo(db', req', w) = ReturnsTo(db, req, w) BY <1>6 DEF ReturnsStill, ReturnsTo
  <1>8. BillsTo(db', w) = BillsTo(db, w) - BillFor(s, w) + BillFor(x, w) BY <1>2, <1>4, <1>5, BillsToChanged
  <1>9. /\ BillFor(s, w) = (IF w = s.vendor THEN -Contribution(s) ELSE 0)
        /\ BillFor(x, w) = (IF w = x.vendor THEN -Contribution(x) ELSE 0)
    BY <1>1, <1>4, BillForContributes
  <1>10. /\ BillsTo(db, w) \in Int /\ ReturnsTo(db, req, w) \in Int /\ Contribution(s) \in Int /\ Contribution(x) \in Int
    BY <1>1, <1>4, <1>5, BillsToInt, ReturnsToInt, ContributionType
  <1>11. Standing(db, w) = ReturnsTo(db, req, w) - BillsTo(db, w) BY DEF Weighed
  <1>12. Standing(db', w) = Standing(db, w) - (IF w = s.vendor THEN Contribution(s) ELSE 0) + (IF w = x.vendor THEN Contribution(x) ELSE 0)
    BY <1>5 DEF Traded
  <1> QED BY <1>7, <1>8, <1>9, <1>10, <1>11, <1>12

LEMMA DeleteBillWeighed ==
    ASSUME OneAtATime, OwnNumbers, Discounts \subseteq {0}, TypeInv, Story, Weighed(db, req), NEW r \in Requests, DeleteBill(r)
    PROVE  Weighed(db', req')
  <1> DEFINE b == req[r].id
             s == req[r].seen
  <1>1. Done(r) /\ db.bills[b] = s /\ Removed(db, db', b, s) BY DeleteBillStory
  <1>2. req[r].op = "delete_bill" BY DEF DeleteBill
  <1>3. b \in Bills /\ s \in BillType BY <1>2, BillAtWork
  <1> HIDE DEF b, s
  <1>4. /\ Db(db) /\ Db(db') /\ db'.bills = [db.bills EXCEPT ![b] = [doc |-> "deleted"]] /\ SamePapers(db, db')
        /\ Shifted(db, db', s.vendor, -Contribution(s))
    BY <1>1 DEF Removed, InOrder, TypeInv
  <1>5. s.vendor \in Vendors /\ Contribution(s) \in Int /\ -Contribution(s) \in Int
    BY <1>3, ContributionType DEF BillType
  <1>6. ASSUME NEW w PROVE BillsTo(db', w) = BillsTo(db, w) - (IF w = s.vendor THEN -Contribution(s) ELSE 0)
    <2> DEFINE x == [doc |-> "deleted"]
    <2>1. BillFor(x, w) = 0 BY DEF BillFor, Posted
    <2> HIDE DEF x
    <2>2. BillsTo(db', w) = BillsTo(db, w) - BillFor(db.bills[b], w) + BillFor(x, w) /\ BillsTo(db, w) \in Int
      BY <1>3, <1>4, BillsToChanged, BillsToInt DEF x
    <2>3. BillFor(db.bills[b], w) = (IF w = s.vendor THEN -Contribution(s) ELSE 0)
      BY <1>1, <1>3, BillForContributes
    <2> QED BY <1>5, <2>1, <2>2, <2>3
  <1>7. ReturnsStill(db, req, db', req')
    <2>1. Unheld(req) /\ Unheld(req') BY <1>1, <1>2, IdleUnheld, ElseUnheld
    <2> QED BY <1>4, <2>1, UnheldStill DEF SamePapers
  <1> QED BY <1>4, <1>5, <1>6, <1>7, WeighedMore

\* A request that settles no return ends: the returns are as they were.
LEMMA EndStill ==
    ASSUME OneAtATime, TypeInv, NEW r \in Requests, Done(r), ~(req[r].op = "process_return" /\ req[r].step = 2),
           db'.returns = db.returns
    PROVE  ReturnsStill(db, req, db', req')
  <1>1. Unheld(req) /\ Unheld(req') BY IdleUnheld, ElseUnheld
  <1> QED BY <1>1, UnheldStill

LEMMA MarkStill ==
    ASSUME OneAtATime, TypeInv, NEW r \in Requests, NEW k, req' = [req EXCEPT ![r].step = k], req[r].op = "mark_paid",
           db'.returns = db.returns
    PROVE  ReturnsStill(db, req, db', req')
  <1>1. Unheld(req) BY ElseUnheld
  <1>2. Unheld(req') BY AtUnheld
  <1> QED BY <1>1, <1>2, UnheldStill

LEMMA MarkSaveWeighed ==
    ASSUME OneAtATime, OwnNumbers, TypeInv, Story, Weighed(db, req), NEW r \in Requests, MarkSave(r)
    PROVE  Weighed(db', req')
  <1> DEFINE b == req[r].id
  <1>1. /\ StoryOf(db', req') /\ SameMoney(db, db') /\ SamePapers(db, db') /\ Posted(db.bills[b])
        /\ db.bills[b] = req[r].seen /\ db'.bills = [db.bills EXCEPT ![b] = Paid(db.bills[b])]
    BY MarkSaveStory
  <1>2. req[r].op = "mark_paid" /\ req' = [req EXCEPT ![r].step = 2] BY DEF MarkSave
  <1>3. b \in Bills /\ req[r].seen \in BillType BY <1>2, BillAtWork
  <1> HIDE DEF b
  <1>4. Akin(Paid(db.bills[b]), db.bills[b]) BY <1>1, <1>3, RepaidIs DEF Paid, Posted
  <1>5. Db(db) /\ Db(db') BY <1>1 DEF TypeInv, StoryOf, InOrder
  <1>6. \A v : BillsTo(db', v) = BillsTo(db, v) BY <1>1, <1>3, <1>4, <1>5, BillsToAkin
  <1>7. ReturnsStill(db, req, db', req') BY <1>1, <1>2, MarkStill DEF SamePapers
  <1> QED BY <1>1, <1>6, <1>7, SameSteady, StillWeighed

LEMMA MarkReverseWeighed ==
    ASSUME OneAtATime, OwnNumbers, Discounts \subseteq {0}, TypeInv, Story, Weighed(db, req), NEW r \in Requests, MarkReverse(r)
    PROVE  Weighed(db', req')
  <1> DEFINE b == req[r].id
  <1>1. /\ SameDocs(db, db') /\ Unpaid(db, db', db.bills, b, db.bills[b].vendor) /\ b \in Bills
        /\ db.bills[b].vendor \in Vendors
    BY MarkReverseStory
  <1>2. req[r].op = "mark_paid" /\ req' = [req EXCEPT ![r].step = 3] BY DEF MarkReverse
  <1> HIDE DEF b
  <1>3. Db(db) /\ Money(db, db.bills) BY AtWork
  <1>4. Steady(db, db') BY <1>1, <1>3, UnpaidSums
  <1>5. ReturnsStill(db, req, db', req') BY <1>1, <1>2, MarkStill DEF SameDocs
  <1>6. \A v : BillsTo(db', v) = BillsTo(db, v) BY <1>1, BillsToSame DEF SameDocs
  <1> QED BY <1>4, <1>5, <1>6, StillWeighed

LEMMA MarkPayWeighed ==
    ASSUME OneAtATime, OwnNumbers, TypeInv, Story, Weighed(db, req), NEW r \in Requests, NEW mode \in Modes, MarkPay(r, mode)
    PROVE  Weighed(db', req')
  <1> DEFINE b == req[r].id
  <1>1. Done(r) /\ Linked(db, db', b, db.bills[b].total) /\ b \in Bills BY MarkPayStory
  <1>2. req[r].op = "mark_paid" BY DEF MarkPay
  <1> HIDE DEF b
  <1>3. Db(db) BY AtWork
  <1>4. Steady(db, db') /\ SameDocs(db, db')
    <2>1. SameDocs(db, db') BY <1>1 DEF Linked
    <2>2. Steady(db, db') BY <1>1, <1>3, LinkedSums
    <2> QED BY <2>1, <2>2
  <1>5. ReturnsStill(db, req, db', req') BY <1>1, <1>2, <1>4, EndStill DEF SameDocs
  <1>6. \A v : BillsTo(db', v) = BillsTo(db, v) BY <1>4, BillsToSame DEF SameDocs
  <1> QED BY <1>4, <1>5, <1>6, StillWeighed

LEMMA PayBillWeighed ==
    ASSUME OneAtATime, OwnNumbers, TypeInv, Story, Weighed(db, req), NEW r \in Requests, NEW amt \in Amounts, NEW disc \in Discounts,
           NEW mode \in Modes, PayBill(r, amt, disc, mode)
    PROVE  Weighed(db', req')
  <1> DEFINE b == req[r].id
  <1>1. Done(r) /\ Posted(db.bills[b]) /\ b \in Bills /\ db.bills[b] = req[r].seen BY PayBillStory
  <1>2. PICK o \in OutType : Spent(db, db', o, b, db.bills[b], amt - disc) BY PayBillStory
  <1>3. req[r].op = "pay_bill" BY DEF PayBill
  <1>4. req[r].seen \in BillType BY <1>3, BillAtWork
  <1> HIDE DEF b
  <1>5. OneMore(db, db', o) /\ Db(db') /\ SamePapers(db, db') /\ Db(db) /\ b # None
    BY <1>1, <1>2, Assumed DEF Spent, InOrder, TypeInv
  <1>6. Steady(db, db') BY <1>5, OneMoreSums
  <1>7. ReturnsStill(db, req, db', req') BY <1>1, <1>3, <1>5, EndStill DEF SamePapers
  <1>8. db'.bills = [db.bills EXCEPT ![b] = PaidBill(db.bills[b], amt - disc)] BY <1>2, <1>5 DEF Spent
  <1>9. Akin(PaidBill(db.bills[b], amt - disc), db.bills[b])
    BY <1>1, <1>4, NotDraft, RepaidIs DEF PaidBill, Posted
  <1>10. \A v : BillsTo(db', v) = BillsTo(db, v) BY <1>1, <1>5, <1>8, <1>9, BillsToAkin
  <1> QED BY <1>6, <1>7, <1>10, StillWeighed

LEMMA WithdrawnWeighed ==
    ASSUME OneAtATime, TypeInv, Story, Weighed(db, req), NEW r \in Requests, Done(r), req[r].op \in {"cancel_out", "delete_out"},
           NEW o \in LiveIn(db), Withdrawn(db, db', o)
    PROVE  Weighed(db', req')
  <1>1. Db(db) /\ Db(db') /\ db'.returns = db.returns BY AtWork DEF Withdrawn
  <1>2. o.bill \in Bills \cup {None} BY <1>1, LiveIsOut DEF OutType
  <1>3. Steady(db, db') BY <1>1, WithdrawnSums
  <1>4. ReturnsStill(db, req, db', req') BY <1>1, EndStill
  <1>5. \A v : BillsTo(db', v) = BillsTo(db, v)
    <2>1. CASE o.bill = None BY <2>1, BillsToSame DEF Withdrawn
    <2>2. CASE o.bill # None
      <3>1. PICK x : db'.bills = [db.bills EXCEPT ![o.bill] = x] /\ Akin(x, db.bills[o.bill])
        BY <2>2 DEF Withdrawn
      <3> QED BY <1>1, <1>2, <2>2, <3>1, BillsToAkin
    <2> QED BY <2>1, <2>2
  <1> QED BY <1>3, <1>4, <1>5, StillWeighed

LEMMA OutEndWeighed ==
    ASSUME OneAtATime, OwnNumbers, TypeInv, Story, Weighed(db, req), NEW r \in Requests, CancelOut(r) \/ DeleteOut(r)
    PROVE  Weighed(db', req')
  BY CancelOutStory, DeleteOutStory, WithdrawnWeighed DEF CancelOut, DeleteOut

-----------------------------------------------------------------------------
(* Returns and notes *)

LEMMA DraftReturnWeighed ==
    ASSUME Weighed(db, req), req' = req, DraftReturns(db, db')
    PROVE  Weighed(db', req')
  BY SameStill, SameSteady, BillsToSame, StillWeighed DEF DraftReturns

LEMMA DraftNoteWeighed ==
    ASSUME Weighed(db, req), req' = req, DraftNotes(db, db')
    PROVE  Weighed(db', req')
  BY SameStill, SameSteady, BillsToSame, StillWeighed DEF DraftNotes

LEMMA ProcessReturnWeighed ==
    ASSUME OneAtATime, OwnNumbers, TypeInv, Story, Weighed(db, req), NEW r \in Requests, ProcessReturn(r)
    PROVE  Weighed(db', req')
  <1> DEFINE t == req[r].id
  <1>1. ProcessedIn(db, db', t, req[r].seen) /\ req[r].op = "process_return" /\ req[r].step = 1 /\ ~Processed(db.returns[t])
    BY ProcessReturnStory
  <1>2. req' = [req EXCEPT ![r].step = 2] BY DEF ProcessReturn
  <1>3. t \in Returns BY <1>1, ReturnAtWork
  <1>4. LET q == [req[r] EXCEPT !.step = 2] IN q.op = "process_return" /\ q.step = 2 /\ q.id = t BY <1>1, AtStep
  <1> HIDE DEF t
  <1>5. req'[r] = [req[r] EXCEPT !.step = 2] BY <1>2, AtWork
  <1>6. Held(req', t) /\ Unheld(req) /\ \A u : u # t => ~Held(req', u)
    <2>1. Held(req', t) BY <1>4, <1>5 DEF Held
    <2>2. Unheld(req) BY <1>1, ElseUnheld
    <2>3. \A u : u # t => ~Held(req', u) BY <1>4, <1>5 DEF OneAtATime, Held
    <2> QED BY <2>1, <2>2, <2>3
  <1>7. /\ SameMoney(db, db') /\ db'.bills = db.bills
        /\ \A u \in Returns : u # t => db'.returns[u] = db.returns[u]
    BY <1>1, AtWork DEF ProcessedIn, Db, DbType
  <1>8. ReturnsStill(db, req, db', req') BY <1>1, <1>6, <1>7 DEF ReturnsStill, ReturnIn, ReturnFor, Unheld
  <1> QED BY <1>7, <1>8, SameSteady, BillsToSame, StillWeighed

LEMMA HeldOne ==
    ASSUME OneAtATime, NEW r \in Requests, req[r].op = "process_return", req[r].step = 2
    PROVE  Held(req, req[r].id) /\ \A u : u # req[r].id => ~Held(req, u)
  BY DEF OneAtATime, Held

LEMMA RefundWeighed ==
    ASSUME OneAtATime, OwnNumbers, TypeInv, Story, Weighed(db, req), NEW r \in Requests, SettleReturn(r), req[r].seen.money
    PROVE  Weighed(db', req')
  <1> DEFINE t == req[r].id
  <1>1. Done(r) /\ Refunded(db, db', t, req[r].seen) /\ db.returns[t] = ProcessedAs(req[r].seen) BY RefundStory
  <1>2. req[r].op = "process_return" /\ req[r].step = 2 BY DEF SettleReturn
  <1>3. t \in Returns /\ req[r].seen \in ReturnType BY <1>2, ReturnAtWork
  <1>4. Held(req, t) /\ (\A u : u # t => ~Held(req, u)) /\ Unheld(req') BY <1>1, <1>2, HeldOne, IdleUnheld
  <1>5. db.returns[t].money BY <1>1, <1>3 DEF ProcessedAs, ReturnType
  <1>6. db'.returns = db.returns /\ db'.bills = db.bills /\ db'.outs = db.outs /\ db'.owed = db.owed
    BY <1>1 DEF Refunded, SameDocs
  <1> HIDE DEF t
  <1>7. ReturnsStill(db, req, db', req') BY <1>4, <1>5, <1>6 DEF ReturnsStill, ReturnIn, ReturnFor, Unheld
  <1>8. Steady(db, db') BY <1>6 DEF Steady, Standing, PaidIn, LiveIn
  <1> QED BY <1>6, <1>7, <1>8, BillsToSame, StillWeighed

LEMMA OffsetWeighed ==
    ASSUME OneAtATime, OwnNumbers, TypeInv, Story, Weighed(db, req), NEW r \in Requests, SettleReturn(r), ~req[r].seen.money
    PROVE  Weighed(db', req')
  <1> DEFINE t == req[r].id
             s == req[r].seen
  <1>1. OffsetAs(db, db', s) /\ db.returns[t] = ProcessedAs(s) BY OffsetStory
  <1>2. req[r].op = "process_return" /\ req[r].step = 2 /\ req' = [req EXCEPT ![r].step = 3] BY DEF SettleReturn
  <1>3. t \in Returns /\ s \in ReturnType /\ s.vendor \in Vendors /\ s.amt \in Int BY <1>2, ReturnAtWork
  <1>4. Held(req, t) /\ (\A u : u # t => ~Held(req, u)) /\ Unheld(req')
    <2>1. ~(req[r].op = "process_return" /\ 3 = 2) OBVIOUS
    <2>2. Unheld(req') BY <1>2, <2>1, AtUnheld
    <2> QED BY <1>2, <2>2, HeldOne
  <1>5. ~s.money OBVIOUS
  <1> HIDE DEF t, s
  <1>6. /\ Processed(db.returns[t]) /\ ~db.returns[t].money /\ db.returns[t].vendor = s.vendor /\ db.returns[t].amt = s.amt
    BY <1>1, <1>3, <1>5 DEF ProcessedAs, ReturnType, Processed
  <1>7. /\ Db(db) /\ Db(db') /\ LiveIn(db') = LiveIn(db) /\ db'.returns = db.returns
        /\ db'.owed = [db.owed EXCEPT ![s.vendor] = @ + s.amt] /\ OffsetBills(db, db', s)
    BY <1>1, AtWork DEF OffsetAs, InOrder, SamePapers
  <1>8. ASSUME NEW v PROVE BillsTo(db', v) = BillsTo(db, v)
    <2>1. CASE db'.bills = db.bills BY <2>1, BillsToSame
    <2>2. CASE db'.bills # db.bills
      <3> DEFINE b    == s.bill
                 bill == db.bills[b]
      <3>0. b \in Bills /\ bill \in BillType /\ Posted(bill) /\ \E paid \in Int : db'.bills = [db.bills EXCEPT ![b] = Settlement(@, paid)]
        BY <1>7, <2>2 DEF OffsetBills
      <3> PICK paid \in Int : db'.bills = [db.bills EXCEPT ![b] = Settlement(@, paid)] BY <3>0
      <3> DEFINE x == Settlement(bill, paid)
      <3>1. b \in Bills /\ bill \in BillType /\ Posted(bill) /\ db'.bills = [db.bills EXCEPT ![b] = x] BY <3>0
      <3>2. Akin(x, bill)
        <4> HIDE DEF bill
        <4> QED BY <3>1, RaisedAkin
      <3> HIDE DEF x, b
      <3> QED BY <1>7, <3>1, <3>2, BillsToAkin
    <2> QED BY <2>1, <2>2
  <1>9. Shifted(db, db', s.vendor, s.amt) BY <1>3, <1>7, ShiftedIs
  <1> SUFFICES ASSUME NEW v \in Vendors PROVE Standing(db', v) = ReturnsTo(db', req', v) - BillsTo(db', v)
    BY DEF Weighed
  <1>10. ReturnsTo(db', req', v) = ReturnsTo(db, req, v) + (IF v = s.vendor THEN s.amt ELSE 0)
    <2> DEFINE f == [u \in Returns |-> ReturnIn(db, req, u, v)]
               g == [u \in Returns |-> ReturnIn(db', req', u, v)]
    <2>1. \A u \in Returns : f[u] \in Int /\ g[u] \in Int BY <1>7, ReturnInInt
    <2>2. f[t] = 0 /\ g[t] = (IF v = s.vendor THEN s.amt ELSE 0)
      BY <1>3, <1>4, <1>6, <1>7 DEF ReturnIn, ReturnFor, Unheld
    <2>3. \A u \in Returns : u # t => f[u] = g[u] BY <1>4, <1>7 DEF ReturnIn, Unheld
    <2>4. ReturnsTo(db, req, v) = SumFunctionOnSet(f, Returns) /\ ReturnsTo(db', req', v) = SumFunctionOnSet(g, Returns)
      BY DEF ReturnsTo
    <2> HIDE DEF f, g
    <2>5. ChangedAt(f, g, t, Returns) BY <1>3, <2>1, <2>3, Assumed DEF ChangedAt
    <2>6. SumFunctionOnSet(g, Returns) = SumFunctionOnSet(f, Returns) - f[t] + g[t] BY <2>5, SumChanges
    <2>7. ReturnsTo(db, req, v) \in Int BY <1>7, ReturnsToInt
    <2>8. SumFunctionOnSet(g, Returns) = SumFunctionOnSet(f, Returns) + g[t] BY <2>1, <2>2, <2>4, <2>6, <2>7
    <2> QED BY <2>2, <2>4, <2>8
  <1>11. BillsTo(db, v) \in Int /\ ReturnsTo(db, req, v) \in Int /\ Standing(db, v) = ReturnsTo(db, req, v) - BillsTo(db, v)
    BY <1>7, BillsToInt, ReturnsToInt DEF Weighed
  <1>12. Standing(db', v) = Standing(db, v) + (IF v = s.vendor THEN s.amt ELSE 0) BY <1>9 DEF Shifted
  <1>13. BillsTo(db', v) = BillsTo(db, v) BY <1>8
  <1>14. (IF v = s.vendor THEN s.amt ELSE 0) \in Int BY <1>3
  <1> QED BY <1>10, <1>11, <1>12, <1>13, <1>14

LEMMA NoteReturnWeighed ==
    ASSUME OneAtATime, OwnNumbers, TypeInv, Story, Weighed(db, req), NEW r \in Requests, NoteReturn(r)
    PROVE  Weighed(db', req')
  <1>1. Done(r) /\ SameMoney(db, db') /\ db'.bills = db.bills /\ db'.returns = db.returns BY NoteReturnStory
  <1>2. ~(req[r].op = "process_return" /\ req[r].step = 2) BY DEF NoteReturn
  <1>3. ReturnsStill(db, req, db', req') BY <1>1, <1>2, EndStill
  <1> QED BY <1>1, <1>3, SameSteady, BillsToSame, StillWeighed

LEMMA NotedWeighed ==
    ASSUME OneAtATime, TypeInv, Weighed(db, req), NEW r \in Requests, Done(r), req[r].op # "process_return",
           NEW n, NEW x, NEW b, NEW y, NotedIn(db, db', n, x, b, y),
           b \in Bills /\ db.bills[b].doc = "live" => Akin(y, db.bills[b])
    PROVE  Weighed(db', req')
  <1>1. Db(db) /\ Db(db') /\ SameMoney(db, db') /\ db'.returns = db.returns BY DEF NotedIn, TypeInv
  <1>2. ReturnsStill(db, req, db', req') BY <1>1, EndStill
  <1>3. \A v : BillsTo(db', v) = BillsTo(db, v)
    <2>1. CASE b \in Bills /\ db.bills[b].doc = "live" BY <2>1, <1>1, BillsToAkin DEF NotedIn
    <2>2. CASE ~(b \in Bills /\ db.bills[b].doc = "live")
      <3>1. db'.bills = db.bills BY <2>2 DEF NotedIn
      <3> QED BY <3>1, BillsToSame
    <2> QED BY <2>1, <2>2
  <1> QED BY <1>1, <1>2, <1>3, SameSteady, StillWeighed

LEMMA IssueNoteWeighed ==
    ASSUME OneAtATime, OwnNumbers, ~Faults, TypeInv, Story, Weighed(db, req), NEW r \in Requests, IssueNote(r)
    PROVE  Weighed(db', req')
  <1> DEFINE s == req[r].seen
             y == Lowered(db.bills[s.bill], s.amt)
  <1>1. req[r].op = "issue_note" /\ Done(r) BY DEF IssueNote
  <1>2. PICK saved \in Saved : IssuedAs(db, db', req[r].id, s, saved) BY IssueNoteStory
  <1>3. NotedIn(db, db', req[r].id, [s EXCEPT !.st = "issued"], s.bill, y) BY <1>2, IssuedWhole
  <1>4. s.bill \in Bills /\ db.bills[s.bill].doc = "live" => Akin(y, db.bills[s.bill])
    <2> HIDE DEF s
    <2> QED BY TakenType, LoweredAkin
  <1> HIDE DEF s, y
  <1> QED BY <1>1, <1>3, <1>4, NotedWeighed

LEMMA GivenBackAkin ==
    ASSUME TypeInv, NEW s, NEW b \in Bills, Aimed(db.bills, b), db.bills[b].doc = "live"
    PROVE  Akin(GivenBack(s, db.bills[b]), db.bills[b])
  BY AimedPosted, RaisedAkin DEF TypeInv, Raised, Akin, GivenBack

LEMMA CancelNoteWeighed ==
    ASSUME OneAtATime, OwnNumbers, TypeInv, Story, Weighed(db, req), NEW r \in Requests, CancelNote(r)
    PROVE  Weighed(db', req')
  BY CancelNoteStory, NoteAtWork, GivenBackAkin, NotedWeighed DEF CancelNote

LEMMA LoadWeighed ==
    ASSUME OneAtATime, TypeInv, Weighed(db, req), NEW r \in Requests, NEW op, NEW id, NEW seen, Begin(r, op, id, seen)
    PROVE  Weighed(db', req')
  <1> DEFINE q == [op |-> op, id |-> id, seen |-> seen, step |-> 1]
  <1>1. db' = db /\ req[r] = Idle /\ req'[r] = q BY DEF Begin, TypeInv
  <1>2. q.step # 2 /\ Idle.op # "process_return" BY DEF Idle
  <1>3. Unheld(req) /\ Unheld(req') BY <1>1, <1>2 DEF OneAtATime, Unheld, Held
  <1>4. ReturnsStill(db, req, db', req') BY <1>1, <1>3, UnheldStill
  <1> QED BY <1>1, <1>4, BillsToSame, StillWeighed DEF Steady

LEMMA DropWeighed ==
    ASSUME OneAtATime, ~Faults, TypeInv, Weighed(db, req), NEW r \in Requests, Drop(r)
    PROVE  Weighed(db', req')
  BY EndStill, BillsToSame, StillWeighed DEF Drop, Steady

LEMMA NextWeighed ==
    ASSUME OneAtATime, OwnNumbers, ~Faults, Discounts \subseteq {0}
    PROVE  TypeInv /\ Story /\ Weighed(db, req) /\ [Next]_vars => Weighed(db, req)'
  <1> SUFFICES ASSUME TypeInv, Story, Weighed(db, req), [Next]_vars PROVE Weighed(db', req') OBVIOUS
  <1>1. CASE UNCHANGED vars BY <1>1 DEF vars
  <1>2. CASE \E b \in Bills, v \in Vendors, st \in Statuses, total \in Totals, paid \in {0} \cup Amounts, mode \in Modes :
                \E number \in NumbersOf(b) : CreateBill(b, v, number, st, total, paid, mode)
    BY <1>2, CreateBillWeighed
  <1>3. CASE \E v \in Vendors, amt \in Amounts, disc \in Discounts, mode \in Modes, refund \in BOOLEAN :
                PayVendor(v, amt, disc, mode, refund)
    BY <1>3, PayVendorWeighed
  <1>4. CASE \E t \in Returns, b \in Bills \cup {None}, v \in Vendors, amt \in Amounts, money \in BOOLEAN :
                CreateReturn(t, b, v, amt, money)
    BY <1>4, CreateReturnStory, DraftReturnWeighed
  <1>5. CASE \E t \in Returns, money \in BOOLEAN : ReviseReturn(t, money)
    BY <1>5, ReviseReturnStory, DraftReturnWeighed
  <1>6. CASE \E t \in Returns : DeleteReturn(t) BY <1>6, DeleteReturnStory, DraftReturnWeighed
  <1>7. CASE \E n \in Notes, b \in Bills, amt \in Amounts : CreateNote(n, b, amt)
    BY <1>7, CreateNoteStory, DraftNoteWeighed
  <1>8. CASE \E n \in Notes : DeleteNote(n) BY <1>8, DeleteNoteStory, DraftNoteWeighed
  <1>9. ASSUME NEW r \in Requests, BillSteps(r) PROVE Weighed(db', req')
    <2>1. CASE \E b \in Bills, op \in {"update_bill", "mark_paid", "delete_bill", "pay_bill"} : LoadBill(r, op, b)
      BY <2>1, LoadWeighed DEF LoadBill
    <2>2. CASE \E v \in Vendors, st \in Statuses, total \in Totals, paid \in {0} \cup Amounts, mode \in Modes :
                  \E number \in Numbers : UpdateBill(r, v, number, st, total, paid, mode)
      BY <2>2, UpdateBillWeighed
    <2>3. CASE MarkSave(r) BY <2>3, MarkSaveWeighed
    <2>4. CASE MarkReverse(r) BY <2>4, MarkReverseWeighed
    <2>5. CASE \E mode \in Modes : MarkPay(r, mode) BY <2>5, MarkPayWeighed
    <2>6. CASE DeleteBill(r) BY <2>6, DeleteBillWeighed
    <2> QED BY <1>9, <2>1, <2>2, <2>3, <2>4, <2>5, <2>6 DEF BillSteps
  <1>10. ASSUME NEW r \in Requests, OutSteps(r) PROVE Weighed(db', req')
    BY PayBillWeighed, LoadWeighed, OutEndWeighed, <1>10 DEF LoadOut, OutSteps
  <1>11. ASSUME NEW r \in Requests, ReturnSteps(r) PROVE Weighed(db', req')
    <2>1. CASE \E t \in Returns : LoadReturn(r, t) BY <2>1, LoadWeighed DEF LoadReturn
    <2>2. CASE ProcessReturn(r) BY <2>2, ProcessReturnWeighed
    <2>3. CASE SettleReturn(r) BY <2>3, RefundWeighed, OffsetWeighed
    <2>4. CASE NoteReturn(r) BY <2>4, NoteReturnWeighed
    <2> QED BY <1>11, <2>1, <2>2, <2>3, <2>4 DEF ReturnSteps
  <1>12. ASSUME NEW r \in Requests, NoteSteps(r) PROVE Weighed(db', req')
    BY LoadWeighed, IssueNoteWeighed, CancelNoteWeighed, <1>12 DEF LoadNote, NoteSteps
  <1> QED BY <1>1, <1>2, <1>3, <1>4, <1>5, <1>6, <1>7, <1>8, <1>9, <1>10, <1>11, <1>12, DropWeighed DEF Next

LEMMA InitWeighed == Init => Weighed(db, req)
  <1> SUFFICES ASSUME Init, NEW v \in Vendors PROVE Standing(db, v) = ReturnsTo(db, req, v) - BillsTo(db, v)
    BY DEF Weighed
  <1> DEFINE f == [b \in Bills |-> BillFor(db.bills[b], v)]
             g == [t \in Returns |-> ReturnIn(db, req, t, v)]
  <1>1. \A b \in Bills : f[b] = 0 BY DEF Init, Unused, BillFor, Posted
  <1>2. \A t \in Returns : g[t] = 0 BY DEF Init, Unused, ReturnIn, ReturnFor, Processed
  <1>3. BillsTo(db, v) = SumFunctionOnSet(f, Bills) /\ ReturnsTo(db, req, v) = SumFunctionOnSet(g, Returns)
    BY DEF BillsTo, ReturnsTo
  <1> HIDE DEF f, g
  <1>4. BillsTo(db, v) = 0 /\ ReturnsTo(db, req, v) = 0 BY <1>1, <1>2, <1>3, SumZero, Assumed
  <1>5. PaysFor(LiveIn(db), v) = {} /\ db.owed[v] = 0 BY DEF Init, PaysFor, LiveIn
  <1>6. PaidIn(db, v) = 0 BY <1>5, NetOfNone DEF PaidIn
  <1> QED BY <1>4, <1>5, <1>6 DEF Standing

LEMMA WeighedBalance == TypeInv /\ Weighed(db, req) => VendorBalanced
  <1> SUFFICES ASSUME TypeInv, Weighed(db, req), Quiet, NEW v \in Vendors
               PROVE  db.owed[v] = PaidTo(v) + ReturnedTo(v) - BilledTo(v)
    BY DEF VendorBalanced
  <1>1. Db(db) /\ Unheld(req) BY DEF TypeInv, Quiet, Unheld, Held, Idle
  <1>2. PaidTo(v) = PaidIn(db, v) BY DEF PaidTo, PaidIn, PaysFor, LiveOuts, LiveIn
  <1>3. BilledTo(v) = BillsTo(db, v) BY DEF Billed, BillFor, IsPosted, Posted, Live, BilledTo, BillsTo
  <1>4. ReturnedTo(v) = ReturnsTo(db, req, v)
    BY <1>1 DEF Returned, ReturnIn, ReturnFor, Processed, Unheld, ReturnedTo, ReturnsTo
  <1>5. /\ PaidIn(db, v) \in Int /\ db.owed[v] \in Int /\ BillsTo(db, v) \in Int /\ ReturnsTo(db, req, v) \in Int
        /\ Standing(db, v) = ReturnsTo(db, req, v) - BillsTo(db, v)
    BY <1>1, PaidInInt, BillsToInt, ReturnsToInt DEF Weighed
  <1> QED BY <1>2, <1>3, <1>4, <1>5 DEF Standing

\* With one client at work at a time, no crash, and no discount on a payment,
\* whenever no request is under way every vendor's balance is what was paid to
\* it and returned against it, less the totals of its posted bills: every
\* handler that edits, pays, marks, cancels or deletes moves the balance by
\* exactly the change of the documents.
THEOREM VendorBalancedHolds ==
    ASSUME OneAtATime, OwnNumbers, ~Faults, Discounts \subseteq {0}
    PROVE  Spec => []VendorBalanced
  <1>1. TypeInv /\ Story /\ Weighed(db, req) /\ [Next]_vars => TypeInv' /\ Story' /\ Weighed(db, req)'
    BY NextStory, NextType, NextWeighed
  <1>2. Init => TypeInv /\ Story /\ Weighed(db, req) BY InitStory, InitType, InitWeighed
  <1>3. TypeInv /\ Weighed(db, req) => VendorBalanced BY WeighedBalance
  <1> QED BY <1>1, <1>2, <1>3, PTL DEF Spec

-----------------------------------------------------------------------------
(* What counts as paid of a bill, its status, and the notes *)

TouchedIn(d, b) == \/ \E t \in Returns : Processed(d.returns[t]) /\ d.returns[t].bill = b
                   \/ \E n \in Notes : d.notes[n].doc = "live" /\ d.notes[n].st # "draft" /\ d.notes[n].bill = b
Eased(d, b)     == \E n \in Notes : d.notes[n].doc = "live" /\ d.notes[n].st = "issued" /\ d.notes[n].bill = b
MarkedIn(q, b)  == \E r \in Requests : q[r].op = "mark_paid" /\ q[r].step > 1 /\ q[r].id = b
Busy(q, t)      == \E r \in Requests : q[r].op = "process_return" /\ q[r].step > 1 /\ q[r].id = t

CoveredBy(x)    == x.doc = "live" /\ x.st = "paid" => x.paid >= x.total
CoveredAt(d, b) == CoveredBy(d.bills[b]) \/ Eased(d, b)
PaidAt(d, b)    == Posted(d.bills[b]) /\ ~TouchedIn(d, b) => d.bills[b].paid = PaidOf(d, b)

BillsTallied(d, q) == \A b \in Bills : CoveredAt(d, b) /\ (PaidAt(d, b) \/ MarkedIn(q, b))

\* The note of a return is written by its processing, issued; the others are entered by hand.
NoteKind(n, x) == /\ n \in Returns => x.auto /\ x.st # "draft"
                  /\ n \in Notes => ~x.auto
Kinds(d)       == \A n \in Notes \cup Returns : d.notes[n].doc = "live" => NoteKind(n, d.notes[n])
NotedReturns(d, q) ==
    \A t \in Returns : Processed(d.returns[t]) /\ ~d.returns[t].money => d.notes[t].doc # "unused" \/ Busy(q, t)
KindOf(x)      == x.op \in {"issue_note", "cancel_note"} => NoteKind(x.id, x.seen)

PapersTallied(d, q) == Kinds(d) /\ NotedReturns(d, q) /\ \A r \in Requests : KindOf(q[r])

\* Bills other than b stay as they are, and so do their payments and notes.
Besides(d, q, e, p, b) ==
    /\ \A c \in Bills : c # b => /\ e.bills[c] = d.bills[c] /\ PaidOf(e, c) = PaidOf(d, c)
                                 /\ Eased(d, c) => Eased(e, c)
                                 /\ MarkedIn(q, c) => MarkedIn(p, c)
    /\ \A c \in Bills : TouchedIn(d, c) => TouchedIn(e, c)

LEMMA OneBill ==
    ASSUME NEW d, NEW e, NEW q, NEW p, BillsTallied(d, q), NEW b, Besides(d, q, e, p, b),
           b \in Bills => CoveredAt(e, b) /\ (PaidAt(e, b) \/ MarkedIn(p, b))
    PROVE  BillsTallied(e, p)
  BY DEF BillsTallied, Besides, CoveredAt, PaidAt

LEMMA SameTouched ==
    ASSUME NEW d, NEW e, e.returns = d.returns, e.notes = d.notes
    PROVE  \A c : (TouchedIn(e, c) <=> TouchedIn(d, c)) /\ (Eased(e, c) <=> Eased(d, c))
  BY DEF TouchedIn, Eased

LEMMA NoneMarked ==
    ASSUME OneAtATime, NEW r \in Requests, ~(req[r].op = "mark_paid" /\ req[r].step > 1)
    PROVE  \A b : ~MarkedIn(req, b)
  BY DEF OneAtATime, MarkedIn

LEMMA NoneBusy ==
    ASSUME OneAtATime, NEW r \in Requests, ~(req[r].op = "process_return" /\ req[r].step > 1)
    PROVE  \A t : ~Busy(req, t)
  BY DEF OneAtATime, Busy

LEMMA IdleKind == KindOf(Idle)
  BY DEF KindOf, Idle

\* A request that touches no paper ends.
LEMMA EndPapers ==
    ASSUME OneAtATime, TypeInv, NEW r \in Requests, Done(r), PapersTallied(db, req), SamePapers(db, db'),
           ~(req[r].op = "process_return" /\ req[r].step > 1)
    PROVE  PapersTallied(db', req')
  <1>1. \A t : ~Busy(req, t) BY NoneBusy
  <1>2. \A s \in Requests : KindOf(req'[s]) BY IdleKind DEF OneAtATime, Done, TypeInv
  <1> QED BY <1>1, <1>2 DEF PapersTallied, SamePapers, Kinds, NotedReturns

LEMMA WaitPapers ==
    ASSUME PapersTallied(db, req), SamePapers(db, db'), req' = req
    PROVE  PapersTallied(db', req')
  BY DEF PapersTallied, SamePapers, Kinds, NotedReturns

LEMMA MarkPapers ==
    ASSUME OneAtATime, TypeInv, NEW r \in Requests, NEW k, req' = [req EXCEPT ![r].step = k], req[r].op = "mark_paid",
           PapersTallied(db, req), SamePapers(db, db')
    PROVE  PapersTallied(db', req')
  <1>1. \A t : ~Busy(req, t) BY NoneBusy
  <1>2. req'[r] = [req[r] EXCEPT !.step = k] /\ req[r] \in BillRequest BY RequestIs DEF TypeInv
  <1>3. req'[r].op = "mark_paid" BY <1>2 DEF BillRequest
  <1>4. \A s \in Requests : KindOf(req'[s]) BY <1>3 DEF OneAtATime, KindOf
  <1> QED BY <1>1, <1>4 DEF PapersTallied, SamePapers, Kinds, NotedReturns

\* One bill changes, by a request that ends, or by none.
OneBillOnly(d, e, b) ==
    /\ SamePapers(d, e)
    /\ \A c \in Bills : c # b => e.bills[c] = d.bills[c] /\ PaidOf(e, c) = PaidOf(d, c)

LEMMA OneBillTallied ==
    ASSUME NEW d, NEW e, NEW q, NEW p, BillsTallied(d, q), NEW b, OneBillOnly(d, e, b),
           \A c : MarkedIn(q, c) /\ c # b => MarkedIn(p, c),
           b \in Bills => CoveredAt(e, b) /\ (PaidAt(e, b) \/ MarkedIn(p, b))
    PROVE  BillsTallied(e, p)
  <1>1. Besides(d, q, e, p, b) BY SameTouched DEF OneBillOnly, SamePapers, Besides
  <1> QED BY <1>1, OneBill

LEMMA OneBillBut ==
    ASSUME NEW d, Db(d), NEW e, SamePapers(d, e), NEW b \in Bills, NEW x, e.bills = [d.bills EXCEPT ![b] = x],
           OthersSame(d, e, b)
    PROVE  OneBillOnly(d, e, b) /\ e.bills[b] = x
  BY DbBills DEF OneBillOnly, OthersSame, IsBills, PaidOf

LEMMA BillCovered ==
    ASSUME NEW v, NEW number, NEW st, NEW total \in Nat, NEW paid
    PROVE  CoveredBy(Bill(v, number, st, total, paid))
  BY DEF CoveredBy, Bill, FinalPaid

LEMMA StatusCovers ==
    ASSUME NEW bill \in BillType, NEW paid \in Int
    PROVE  CoveredBy(Repaid(bill, paid, StatusFor(bill.total, paid, "unpaid")))
  BY RepaidIs DEF StatusFor, CoveredBy

\* Amounts paid and statuses follow the payments of each bill, and papers are
\* what the handlers leave, but for what the request under way has yet to do.
Tallied(d, q) == BillsTallied(d, q) /\ PapersTallied(d, q)

LEMMA CreateBillTallied ==
    ASSUME OneAtATime, OwnNumbers, TypeInv, Story, Tallied(db, req), NEW b \in Bills, NEW v \in Vendors, NEW st \in Statuses,
           NEW total \in Totals, NEW paid \in {0} \cup Amounts, NEW mode \in Modes, NEW number \in NumbersOf(b),
           CreateBill(b, v, number, st, total, paid, mode)
    PROVE  Tallied(db', req')
  <1> DEFINE x == Bill(v, number, st, total, paid)
  <1>1. req' = req /\ Opened(db, db', b, x) BY CreateBillStory
  <1>2. CoveredBy(x)
    <2>1. total \in Nat
      <3>1. Totals \subseteq Nat \ {0} BY Assumed
      <3> QED BY Zenon, <3>1
    <2> QED BY <2>1, BillCovered
  <1> HIDE DEF x
  <1>3. /\ SamePapers(db, db') /\ db'.bills = [db.bills EXCEPT ![b] = x] /\ OthersSame(db, db', b)
        /\ PaidOf(db', b) = (IF x.st = "draft" THEN 0 ELSE x.paid) /\ Db(db)
    BY <1>1 DEF Opened, TypeInv
  <1>4. OneBillOnly(db, db', b) /\ db'.bills[b] = x BY <1>3, OneBillBut
  <1>5. CoveredAt(db', b) /\ PaidAt(db', b) BY <1>2, <1>3, <1>4 DEF CoveredAt, PaidAt, Posted
  <1>6. BillsTallied(db', req') BY <1>1, <1>4, <1>5, OneBillTallied DEF Tallied
  <1> QED BY <1>1, <1>3, <1>6, WaitPapers DEF Tallied

LEMMA PayVendorTallied ==
    ASSUME OneAtATime, OwnNumbers, TypeInv, Story, Tallied(db, req), NEW v \in Vendors, NEW amt \in Amounts,
           NEW disc \in Discounts, NEW mode \in Modes, NEW refund \in BOOLEAN, PayVendor(v, amt, disc, mode, refund)
    PROVE  Tallied(db', req')
  <1>1. req' = req BY PayVendorStory
  <1>2. PICK o \in OutType : Spent(db, db', o, None, Unused, amt - disc) BY PayVendorStory
  <1>3. OneMore(db, db', o) /\ Db(db') /\ SamePapers(db, db') /\ db'.bills = db.bills /\ o.bill = None /\ Db(db)
    BY <1>2 DEF Spent, InOrder, TypeInv
  <1>4. \A c \in Bills : PaidOf(db', c) = PaidOf(db, c)
    <2> TAKE c \in Bills
    <2>1. PaidOf(db', c) = PaidOf(db, c) + (IF o.bill = c THEN Net(o) ELSE 0) /\ PaidOf(db, c) \in Int
      BY <1>3, OneMoreSums, OutsOfFinite
    <2> QED BY <1>3, <2>1, Assumed
  <1>5. OneBillOnly(db, db', None) BY <1>3, <1>4 DEF OneBillOnly
  <1>6. BillsTallied(db', req') BY <1>1, <1>5, OneBillTallied, Assumed DEF Tallied
  <1> QED BY <1>1, <1>3, <1>6, WaitPapers DEF Tallied

LEMMA UpdateBillTallied ==
    ASSUME OneAtATime, OwnNumbers, TypeInv, Story, Tallied(db, req), NEW r \in Requests,
           NEW v \in Vendors, NEW st \in Statuses, NEW total \in Totals, NEW paid \in {0} \cup Amounts,
           NEW mode \in Modes, NEW number \in Numbers, UpdateBill(r, v, number, st, total, paid, mode)
    PROVE  Tallied(db', req')
  <1> DEFINE b == req[r].id
             s == req[r].seen
             x == Bill(v, number, st, total, paid)
  <1>1. Done(r) /\ Reopened(db, db', b, s, x) BY UpdateBillStory
  <1>2. CoveredBy(x)
    <2>1. total \in Nat
      <3>1. Totals \subseteq Nat \ {0} BY Assumed
      <3> QED BY Zenon, <3>1
    <2> QED BY <2>1, BillCovered
  <1>3. req[r].op = "update_bill" BY DEF UpdateBill
  <1>4. b \in Bills BY <1>3, BillAtWork
  <1> HIDE DEF b, s, x
  <1>5. /\ Db(db) /\ db'.bills = [db.bills EXCEPT ![b] = x] /\ SamePapers(db, db')
        /\ OthersSame(db, db', b) /\ PaidOf(db', b) = x.paid
    BY <1>1 DEF Reopened, TypeInv
  <1>6. OneBillOnly(db, db', b) /\ db'.bills[b] = x BY <1>4, <1>5, OneBillBut
  <1>7. CoveredAt(db', b) /\ PaidAt(db', b) BY <1>2, <1>5, <1>6 DEF CoveredAt, PaidAt
  <1>8. BillsTallied(db', req')
    <2>1. \A c : ~MarkedIn(req, c) BY <1>3, NoneMarked
    <2> QED BY <1>4, <1>6, <1>7, <2>1, OneBillTallied DEF Tallied
  <1> QED BY <1>1, <1>3, <1>5, <1>8, EndPapers DEF Tallied

LEMMA DeleteBillTallied ==
    ASSUME OneAtATime, OwnNumbers, TypeInv, Story, Tallied(db, req), NEW r \in Requests, DeleteBill(r)
    PROVE  Tallied(db', req')
  <1> DEFINE b == req[r].id
             s == req[r].seen
             x == [doc |-> "deleted"]
  <1>1. Done(r) /\ Removed(db, db', b, s) BY DeleteBillStory
  <1>2. CoveredBy(x) /\ ~Posted(x) BY DEF CoveredBy, Posted
  <1>3. req[r].op = "delete_bill" BY DEF DeleteBill
  <1>4. b \in Bills BY <1>3, BillAtWork
  <1>5. /\ Db(db) /\ db'.bills = [db.bills EXCEPT ![b] = x] /\ SamePapers(db, db') /\ OthersSame(db, db', b)
    BY <1>1 DEF Removed, TypeInv
  <1> HIDE DEF b, s, x
  <1>6. OneBillOnly(db, db', b) /\ db'.bills[b] = x BY <1>4, <1>5, OneBillBut
  <1>7. CoveredAt(db', b) /\ PaidAt(db', b) BY <1>2, <1>6 DEF CoveredAt, PaidAt
  <1>8. BillsTallied(db', req')
    <2>1. \A c : ~MarkedIn(req, c) BY <1>3, NoneMarked
    <2> QED BY <1>4, <1>6, <1>7, <2>1, OneBillTallied DEF Tallied
  <1> QED BY <1>1, <1>3, <1>5, <1>8, EndPapers DEF Tallied

LEMMA MarkAt ==
    ASSUME TypeInv, NEW r \in Requests, req[r].op = "mark_paid", NEW k, k \in 2 .. 3, req' = [req EXCEPT ![r].step = k]
    PROVE  MarkedIn(req', req[r].id)
  BY RequestIs DEF TypeInv, BillRequest, MarkedIn

LEMMA MarkSaveTallied ==
    ASSUME OneAtATime, OwnNumbers, TypeInv, Story, Tallied(db, req), NEW r \in Requests, MarkSave(r)
    PROVE  Tallied(db', req')
  <1> DEFINE b == req[r].id
  <1>1. /\ SameMoney(db, db') /\ SamePapers(db, db') /\ db.bills[b] = req[r].seen
        /\ db'.bills = [db.bills EXCEPT ![b] = Paid(db.bills[b])]
    BY MarkSaveStory
  <1>2. req[r].op = "mark_paid" /\ req[r].step = 1 /\ req' = [req EXCEPT ![r].step = 2] BY DEF MarkSave
  <1>3. b \in Bills /\ req[r].seen \in BillType BY <1>2, BillAtWork
  <1>4. MarkedIn(req', b)
    <2>1. 2 \in 2 .. 3 OBVIOUS
    <2> QED BY <1>2, <2>1, MarkAt
  <1> HIDE DEF b
  <1>5. CoveredBy(Paid(db.bills[b])) BY <1>1, <1>3, TotalType, RepaidIs DEF Paid, CoveredBy
  <1>6. OthersSame(db, db', b) BY <1>1 DEF SameMoney, OthersSame, OutsOf
  <1>7. OneBillOnly(db, db', b) /\ db'.bills[b] = Paid(db.bills[b]) BY <1>1, <1>3, <1>6, AtWork, OneBillBut
  <1>8. BillsTallied(db', req') BY <1>2, NoneMarked, <1>5, <1>7, <1>4, OneBillTallied DEF CoveredAt, Tallied
  <1> QED BY <1>1, <1>2, <1>8, MarkPapers DEF Tallied

LEMMA MarkReverseTallied ==
    ASSUME OneAtATime, OwnNumbers, TypeInv, Story, Tallied(db, req), NEW r \in Requests, MarkReverse(r)
    PROVE  Tallied(db', req')
  <1> DEFINE b == req[r].id
  <1>1. SameDocs(db, db') /\ Unpaid(db, db', db.bills, b, db.bills[b].vendor) /\ b \in Bills /\ db.bills[b].vendor \in Vendors
    BY MarkReverseStory
  <1>2. req[r].op = "mark_paid" /\ req' = [req EXCEPT ![r].step = 3] BY DEF MarkReverse
  <1>3. MarkedIn(req', b)
    <2>1. 3 \in 2 .. 3 OBVIOUS
    <2> QED BY <1>2, <2>1, MarkAt
  <1>4. \A c : MarkedIn(req, c) => c = b BY DEF OneAtATime, MarkedIn
  <1> HIDE DEF b
  <1>5. OthersSame(db, db', b) BY <1>1, AtWork, UnpaidSums
  <1>6. OneBillOnly(db, db', b) BY <1>1, <1>5 DEF OneBillOnly, OthersSame, PaidOf, SameDocs, SamePapers
  <1>7. CoveredAt(db', b)
    <2>1. CoveredAt(db, b) BY <1>1 DEF Tallied, BillsTallied
    <2> QED BY <1>1, <2>1 DEF CoveredAt, Eased, SameDocs
  <1>8. BillsTallied(db', req') BY <1>3, <1>4, <1>6, <1>7, OneBillTallied DEF Tallied
  <1> QED BY <1>1, <1>2, <1>8, MarkPapers DEF Tallied, SameDocs, SamePapers

LEMMA MarkPayTallied ==
    ASSUME OneAtATime, OwnNumbers, TypeInv, Story, Tallied(db, req), NEW r \in Requests, NEW mode \in Modes, MarkPay(r, mode)
    PROVE  Tallied(db', req')
  <1> DEFINE b == req[r].id
  <1>1. /\ Done(r) /\ Linked(db, db', b, db.bills[b].total) /\ b \in Bills /\ OutsOf(db, b) = {}
        /\ db.bills[b] = Paid(req[r].seen) /\ db.bills[b].paid = db.bills[b].total /\ db.bills[b].st = "paid"
    BY MarkPayStory
  <1>2. req[r].op = "mark_paid" BY DEF MarkPay
  <1>3. \A c : MarkedIn(req, c) => c = b BY DEF OneAtATime, MarkedIn
  <1>4. db.bills[b].total \in Nat BY <1>2, BillAtWork, RepaidIs, TotalType, <1>1 DEF Paid
  <1> HIDE DEF b
  <1>5. OthersSame(db, db', b) /\ PaidOf(db', b) = PaidOf(db, b) + db.bills[b].total /\ SameDocs(db, db')
    <2>1. Db(db) /\ SameDocs(db, db') BY <1>1, AtWork DEF Linked
    <2> QED BY <1>1, <2>1, LinkedSums
  <1>6. PaidOf(db, b) = 0 BY <1>1, NetOfNone DEF PaidOf
  <1>7. OneBillOnly(db, db', b) /\ db'.bills[b] = db.bills[b]
    BY <1>1, <1>5 DEF OneBillOnly, OthersSame, PaidOf, SameDocs, SamePapers
  <1>8. CoveredAt(db', b) /\ PaidAt(db', b) BY <1>1, <1>4, <1>5, <1>6, <1>7 DEF CoveredAt, CoveredBy, PaidAt
  <1>9. BillsTallied(db', req') BY <1>3, <1>7, <1>8, OneBillTallied DEF Tallied
  <1> QED BY <1>1, <1>2, <1>5, <1>9, EndPapers DEF Tallied, SameDocs, SamePapers

\* Payments of a bill add up to no less than nothing.
LEMMA PaidOfNat ==
    ASSUME NEW d, Db(d), UniqueOuts(d), NEW b
    PROVE  PaidOf(d, b) \in Nat
  <1> DEFINE S == OutsOf(d, b)
             f == [o \in S |-> Net(o)]
  <1>1. IsFiniteSet(S) /\ S \subseteq OutType /\ S \subseteq d.outs BY OutsOfFinite, LiveIsOut
  <1>2. \A o \in S : f[o] \in Nat
    <2> TAKE o \in S
    <2>1. Net(o) \in Int /\ Net(o) > 0 BY <1>1, NetInt DEF UniqueOuts
    <2> QED BY <2>1
  <1>3. PaidOf(d, b) = SumFunctionOnSet(f, S) BY DEF PaidOf, NetOf
  <1> HIDE DEF S, f
  <1> QED BY <1>1, <1>2, <1>3, SumNat

LEMMA PayBillTallied ==
    ASSUME OneAtATime, OwnNumbers, TypeInv, Story, Tallied(db, req), NEW r \in Requests, NEW amt \in Amounts, NEW disc \in Discounts,
           NEW mode \in Modes, PayBill(r, amt, disc, mode)
    PROVE  Tallied(db', req')
  <1> DEFINE b    == req[r].id
             old  == db.bills[b]
             net  == amt - disc
             paid == old.paid + net
             x    == PaidBill(old, net)
  <1>1. Done(r) /\ Posted(old) /\ b \in Bills /\ old = req[r].seen BY PayBillStory
  <1>2. PICK o \in OutType : Spent(db, db', o, b, old, net) BY PayBillStory
  <1>3. req[r].op = "pay_bill" /\ amt > disc BY DEF PayBill
  <1>4. old \in BillType /\ old.total \in Nat /\ old.paid \in Int
    <2>1. old \in BillType BY <1>1, <1>3, BillAtWork
    <2> QED BY <2>1, TotalType DEF BillType
  <1>5. net \in Nat /\ net > 0
    <2>1. amt \in Nat /\ disc \in Nat
      <3>1. Amounts \subseteq Nat \ {0} /\ Discounts \subseteq Nat BY Assumed
      <3> QED BY Zenon, <3>1
    <2> QED BY <1>3, <2>1
  <1> HIDE DEF net
  <1>6. x.doc = "live" /\ x.total = old.total /\ x.paid = paid /\ x.st = StatusFor(old.total, paid, old.st)
    BY <1>4, RepaidIs DEF PaidBill
  <1> HIDE DEF b, old, x
  <1>7. /\ OneMore(db, db', o) /\ Db(db') /\ SamePapers(db, db') /\ Db(db) /\ b # None /\ o.bill = b /\ Net(o) = net
        /\ db'.bills = [db.bills EXCEPT ![b] = x]
    BY <1>1, <1>2, Assumed DEF Spent, InOrder, TypeInv, x
  <1>8. /\ \A c : OutsOf(db', c) = IF o.bill = c THEN OutsOf(db, c) \cup {o} ELSE OutsOf(db, c)
        /\ PaidOf(db', b) = PaidOf(db, b) + net
    BY <1>7, OneMoreSums
  <1>9. OneBillOnly(db, db', b) /\ db'.bills[b] = x
    <2>1. OthersSame(db, db', b) BY <1>7, <1>8 DEF OthersSame
    <2> QED BY <1>1, <1>7, <2>1, OneBillBut
  <1>10. \A c : ~MarkedIn(req, c) BY <1>3, NoneMarked
  <1>11. CoveredAt(db, b) /\ PaidAt(db, b) BY <1>1, <1>10 DEF Tallied, BillsTallied
  <1>12. (Eased(db', b) <=> Eased(db, b)) /\ (TouchedIn(db', b) <=> TouchedIn(db, b))
    BY <1>7, SameTouched DEF SamePapers
  <1>13. CoveredAt(db', b)
    <2>1. CASE paid >= old.total BY <1>6, <1>9, <2>1 DEF CoveredAt, CoveredBy
    <2>2. CASE ~(paid >= old.total) /\ paid > 0 BY <1>6, <1>9, <2>2 DEF CoveredAt, CoveredBy, StatusFor
    <2>3. CASE ~(paid >= old.total) /\ ~(paid > 0)
      <3>1. x.st = old.st BY <1>6, <2>3 DEF StatusFor
      <3>2. ~(old.paid >= old.total) BY <1>4, <1>5, <2>3
      <3>3. old.st = "paid" => Eased(db, b) BY <1>1, <1>11, <3>2 DEF CoveredAt, CoveredBy, Posted, old
      <3> QED BY <1>6, <1>9, <1>12, <3>1, <3>3 DEF CoveredAt, CoveredBy
    <2> QED BY <2>1, <2>2, <2>3
  <1>14. PaidAt(db', b) BY <1>1, <1>6, <1>8, <1>9, <1>11, <1>12 DEF PaidAt, old
  <1>15. BillsTallied(db', req') BY <1>9, <1>10, <1>13, <1>14, OneBillTallied DEF Tallied
  <1> QED BY <1>1, <1>3, <1>7, <1>15, EndPapers DEF Tallied

LEMMA WithdrawnTallied ==
    ASSUME OneAtATime, TypeInv, Story, Tallied(db, req), NEW r \in Requests, Done(r), req[r].op \in {"cancel_out", "delete_out"},
           NEW o \in LiveIn(db), Withdrawn(db, db', o)
    PROVE  Tallied(db', req')
  <1> DEFINE b    == o.bill
             old  == db.bills[b]
             paid == AtLeast0(old.paid - Net(o))
             x    == Repaid(old, paid, StatusFor(old.total, paid, "unpaid"))
  <1>1. /\ Db(db) /\ Db(db') /\ Money(db', db'.bills) /\ SamePapers(db, db')
        /\ db'.bills = IF b # None THEN [db.bills EXCEPT ![b] = x] ELSE db.bills
        /\ b # None => Akin(x, old)
    BY AtWork DEF Withdrawn, SamePapers
  <1>2. o \in OutType /\ b \in Bills \cup {None} /\ Net(o) \in Int BY <1>1, LiveIsOut, NetInt DEF OutType
  <1> HIDE DEF x, b
  <1>3. \A c : PaidOf(db', c) = PaidOf(db, c) - (IF o.bill = c THEN Net(o) ELSE 0) BY <1>1, WithdrawnSums
  <1>4. \A c : PaidOf(db, c) \in Int BY <1>1, OutsOfFinite
  <1>5. OneBillOnly(db, db', b) BY <1>3, <1>4, <1>1, DbBills DEF b, IsBills, OneBillOnly
  <1>6. \A c : ~MarkedIn(req, c) BY NoneMarked
  <1>7. ASSUME b \in Bills PROVE CoveredAt(db', b) /\ PaidAt(db', b)
    <2>1. b # None /\ Akin(x, old) /\ old.doc = "live" BY <1>1, <1>7, Assumed DEF Akin
    <2>2. old \in BillType /\ old.paid \in Int BY <1>7, <2>1, TakenType DEF BillType
    <2>3. paid \in Int BY <1>2, <2>2 DEF AtLeast0
    <2>4. db'.bills[b] = x BY <1>1, <1>7, <2>1, DbBills DEF IsBills
    <2>5. CoveredBy(x) /\ x.paid = paid
      <3> HIDE DEF paid, old
      <3> QED BY <2>2, <2>3, StatusCovers, RepaidIs DEF x
    <2>6. PaidAt(db, b) BY <1>6, <1>7 DEF Tallied, BillsTallied
    <2>7. TouchedIn(db', b) <=> TouchedIn(db, b) BY <1>1, SameTouched DEF SamePapers
    <2>8. Posted(x) <=> Posted(old) BY <2>1 DEF Akin, Posted
    <2>9. PaidOf(db', b) \in Nat BY <1>1, PaidOfNat DEF Money, Ledger
    <2>10. PaidOf(db', b) = PaidOf(db, b) - Net(o) BY <1>3 DEF b
    <2>11. PaidAt(db', b)
      <3> SUFFICES ASSUME Posted(x), ~TouchedIn(db', b) PROVE x.paid = PaidOf(db', b) BY <2>4 DEF PaidAt
      <3>1. old.paid = PaidOf(db, b) BY <2>6, <2>7, <2>8 DEF PaidAt
      <3>2. old.paid - Net(o) \in Nat BY <2>9, <2>10, <3>1
      <3> QED BY <2>5, <2>10, <3>1, <3>2 DEF AtLeast0
    <2> QED BY <2>4, <2>5, <2>11 DEF CoveredAt
  <1>8. BillsTallied(db', req') BY <1>5, <1>6, <1>7, OneBillTallied DEF Tallied
  <1> QED BY <1>1, <1>8, EndPapers DEF Tallied

LEMMA OutEndTallied ==
    ASSUME OneAtATime, OwnNumbers, TypeInv, Story, Tallied(db, req), NEW r \in Requests, CancelOut(r) \/ DeleteOut(r)
    PROVE  Tallied(db', req')
  BY CancelOutStory, DeleteOutStory, WithdrawnTallied DEF CancelOut, DeleteOut

LEMMA BillsStay ==
    ASSUME NEW d, NEW e, NEW q, NEW p, BillsTallied(d, q), e.bills = d.bills, LiveIn(e) = LiveIn(d),
           \A c : MarkedIn(q, c) => MarkedIn(p, c),
           \A c \in Bills : (TouchedIn(d, c) => TouchedIn(e, c)) /\ (Eased(d, c) => Eased(e, c))
    PROVE  BillsTallied(e, p)
  <1>1. Besides(d, q, e, p, None) BY SameOuts DEF Besides
  <1> QED BY <1>1, OneBill, Assumed

LEMMA DraftReturnTallied ==
    ASSUME Tallied(db, req), req' = req, DraftReturns(db, db')
    PROVE  Tallied(db', req')
  <1>1. /\ db'.bills = db.bills /\ LiveIn(db') = LiveIn(db) /\ db'.notes = db.notes
        /\ \A t \in Returns : Processed(db.returns[t]) \/ Processed(db'.returns[t]) => db'.returns[t] = db.returns[t]
    BY DEF DraftReturns, SameMoney, LiveIn
  <1>2. \A c \in Bills : (TouchedIn(db, c) => TouchedIn(db', c)) /\ (Eased(db, c) => Eased(db', c))
    BY <1>1 DEF TouchedIn, Eased
  <1>3. BillsTallied(db', req') BY <1>1, <1>2, BillsStay DEF Tallied
  <1>4. PapersTallied(db', req') BY <1>1 DEF Tallied, PapersTallied, Kinds, NotedReturns
  <1> QED BY <1>3, <1>4 DEF Tallied

LEMMA DraftNoteTallied ==
    ASSUME Tallied(db, req), req' = req, DraftNotes(db, db')
    PROVE  Tallied(db', req')
  <1>1. /\ db'.bills = db.bills /\ LiveIn(db') = LiveIn(db) /\ db'.returns = db.returns
        /\ \A n \in Notes \cup Returns : \/ db'.notes[n] = db.notes[n]
                                         \/ /\ n \in Notes /\ (db.notes[n].doc # "live" \/ db.notes[n].st = "draft")
                                            /\ Drafted(db'.notes[n])
    BY DEF DraftNotes, SameMoney, LiveIn
  <1>2. \A c \in Bills : (TouchedIn(db, c) => TouchedIn(db', c)) /\ (Eased(db, c) => Eased(db', c))
    BY <1>1 DEF TouchedIn, Eased
  <1>3. BillsTallied(db', req') BY <1>1, <1>2, BillsStay DEF Tallied
  <1>4. Kinds(db') BY Assumed, <1>1 DEF Kinds, Tallied, PapersTallied, Drafted, NoteKind
  <1>5. \A t \in Returns : db'.notes[t] = db.notes[t] BY <1>1, Assumed
  <1>6. PapersTallied(db', req') BY <1>1, <1>4, <1>5 DEF Tallied, PapersTallied, NotedReturns
  <1> QED BY <1>3, <1>6 DEF Tallied

LEMMA ProcessKind ==
    ASSUME OneAtATime, TypeInv, NEW r \in Requests, req[r].op = "process_return", NEW k, k \in 2 .. 3,
           req' = [req EXCEPT ![r].step = k]
    PROVE  /\ Busy(req', req[r].id) /\ \A s \in Requests : KindOf(req'[s])
           /\ \A t : Busy(req, t) => Busy(req', t)
           /\ \A c : ~MarkedIn(req, c)
  BY RequestIs, NoneMarked DEF TypeInv, ReturnRequest, OneAtATime, KindOf, Busy

LEMMA ProcessReturnTallied ==
    ASSUME OneAtATime, OwnNumbers, TypeInv, Story, Tallied(db, req), NEW r \in Requests, ProcessReturn(r)
    PROVE  Tallied(db', req')
  <1> DEFINE t == req[r].id
  <1>1. ProcessedIn(db, db', t, req[r].seen) /\ req[r].op = "process_return" /\ ~Processed(db.returns[t])
    BY ProcessReturnStory
  <1>2. req' = [req EXCEPT ![r].step = 2] BY DEF ProcessReturn
  <1>3. t \in Returns BY <1>1, ReturnAtWork
  <1>4. /\ Busy(req', t) /\ \A s \in Requests : KindOf(req'[s])
        /\ \A u : Busy(req, u) => Busy(req', u)
        /\ \A c : ~MarkedIn(req, c)
    <2>1. 2 \in 2 .. 3 OBVIOUS
    <2> QED BY <1>1, <1>2, <2>1, ProcessKind
  <1> HIDE DEF t
  <1>5. /\ db'.bills = db.bills /\ LiveIn(db') = LiveIn(db) /\ db'.notes = db.notes
        /\ \A u \in Returns : u # t => db'.returns[u] = db.returns[u]
    BY <1>1, AtWork DEF ProcessedIn, SameMoney, LiveIn, Db, DbType
  <1>6. \A c \in Bills : (TouchedIn(db, c) => TouchedIn(db', c)) /\ (Eased(db, c) => Eased(db', c))
    BY <1>1, <1>5 DEF TouchedIn, Eased
  <1>7. BillsTallied(db', req') BY <1>4, <1>5, <1>6, BillsStay DEF Tallied
  <1>8. PapersTallied(db', req') BY <1>4, <1>5 DEF Tallied, PapersTallied, NotedReturns, Kinds
  <1> QED BY <1>7, <1>8 DEF Tallied

LEMMA DoneKinds ==
    ASSUME OneAtATime, TypeInv, NEW r \in Requests, Done(r)
    PROVE  \A s \in Requests : KindOf(req'[s])
  BY IdleKind DEF OneAtATime, Done, TypeInv

LEMMA RefundTallied ==
    ASSUME OneAtATime, OwnNumbers, TypeInv, Story, Tallied(db, req), NEW r \in Requests, SettleReturn(r), req[r].seen.money
    PROVE  Tallied(db', req')
  <1> DEFINE t == req[r].id
  <1>1. Done(r) /\ Refunded(db, db', t, req[r].seen) /\ db.returns[t] = ProcessedAs(req[r].seen) BY RefundStory
  <1>2. req[r].op = "process_return" BY DEF SettleReturn
  <1>3. t \in Returns /\ req[r].seen \in ReturnType BY <1>2, ReturnAtWork
  <1>4. db.returns[t].money BY <1>1, <1>3 DEF ProcessedAs, ReturnType
  <1>5. /\ \A u : Busy(req, u) => u = t
        /\ \A c : ~MarkedIn(req, c)
        /\ \A s \in Requests : KindOf(req'[s])
    BY <1>1, <1>2, NoneMarked, DoneKinds DEF OneAtATime, Busy
  <1> HIDE DEF t
  <1>6. /\ db'.bills = db.bills /\ LiveIn(db') = LiveIn(db) /\ db'.notes = db.notes /\ db'.returns = db.returns
    BY <1>1 DEF Refunded, SameDocs, LiveIn
  <1>7. BillsTallied(db', req') BY <1>5, <1>6, SameTouched, BillsStay DEF Tallied
  <1>8. PapersTallied(db', req') BY <1>4, <1>5, <1>6 DEF Tallied, PapersTallied, NotedReturns, Kinds
  <1> QED BY <1>7, <1>8 DEF Tallied

LEMMA OffsetTallied ==
    ASSUME OneAtATime, OwnNumbers, TypeInv, Story, Tallied(db, req), NEW r \in Requests, SettleReturn(r), ~req[r].seen.money
    PROVE  Tallied(db', req')
  <1> DEFINE t    == req[r].id
             s    == req[r].seen
             b    == s.bill
             bill == db.bills[b]
  <1>1. OffsetAs(db, db', s) /\ db.returns[t] = ProcessedAs(s) BY OffsetStory
  <1>2. req[r].op = "process_return" /\ req' = [req EXCEPT ![r].step = 3] BY DEF SettleReturn
  <1>3. t \in Returns /\ s \in ReturnType BY <1>2, ReturnAtWork
  <1>4. /\ \A u \in Requests : KindOf(req'[u])
        /\ \A u : Busy(req, u) => Busy(req', u)
        /\ \A c : ~MarkedIn(req, c)
    <2>1. 3 \in 2 .. 3 OBVIOUS
    <2> QED BY <1>2, <2>1, ProcessKind
  <1> HIDE DEF t, s
  <1>5. TouchedIn(db, b) BY <1>1, <1>3 DEF ProcessedAs, ReturnType, Processed, TouchedIn
  <1>6. SamePapers(db, db') /\ LiveIn(db') = LiveIn(db) /\ OffsetBills(db, db', s) /\ Db(db)
    BY <1>1, AtWork DEF OffsetAs
  <1>7. \A c : (TouchedIn(db', c) <=> TouchedIn(db, c)) /\ (Eased(db', c) <=> Eased(db, c))
    BY <1>6, SameTouched DEF SamePapers
  <1>8. BillsTallied(db', req')
    <2>1. CASE db'.bills = db.bills BY <1>4, <1>6, <1>7, <2>1, BillsStay DEF Tallied
    <2>2. CASE db'.bills # db.bills
      <3>0. b \in Bills /\ bill \in BillType /\ \E paid \in Int : db'.bills = [db.bills EXCEPT ![b] = Settlement(@, paid)]
        BY <1>6, <2>2 DEF OffsetBills
      <3> PICK paid \in Int : db'.bills = [db.bills EXCEPT ![b] = Settlement(@, paid)] BY <3>0
      <3> DEFINE x == Settlement(bill, paid)
      <3>1. b \in Bills /\ bill \in BillType /\ paid \in Int /\ db'.bills = [db.bills EXCEPT ![b] = x] BY <3>0
      <3>2. CoveredBy(x)
        <4> HIDE DEF bill
        <4> QED BY <3>1, StatusCovers DEF Settlement
      <3> HIDE DEF x, b
      <3>3. OthersSame(db, db', b) BY <1>6, SameOuts DEF OthersSame
      <3>4. OneBillOnly(db, db', b) /\ db'.bills[b] = x BY <1>6, <3>1, <3>3, OneBillBut
      <3>5. CoveredAt(db', b) /\ PaidAt(db', b) BY <1>5, <1>7, <3>2, <3>4 DEF CoveredAt, PaidAt
      <3> QED BY <1>4, <3>1, <3>4, <3>5, OneBillTallied DEF Tallied
    <2> QED BY <2>1, <2>2
  <1>9. PapersTallied(db', req') BY <1>4, <1>6 DEF Tallied, PapersTallied, NotedReturns, SamePapers, Kinds
  <1> QED BY <1>8, <1>9 DEF Tallied

LEMMA NoteReturnTallied ==
    ASSUME OneAtATime, OwnNumbers, TypeInv, Story, Tallied(db, req), NEW r \in Requests, NoteReturn(r)
    PROVE  Tallied(db', req')
  <1> DEFINE t == req[r].id
             s == req[r].seen
             x == [doc |-> "live", st |-> "issued", bill |-> s.bill, amt |-> s.amt, auto |-> TRUE]
  <1>1. Done(r) /\ SameMoney(db, db') /\ db'.bills = db.bills /\ db'.returns = db.returns BY NoteReturnStory
  <1>2. req[r].op = "process_return" /\ db' = [db EXCEPT !.notes[t] = x] BY DEF NoteReturn
  <1>3. t \in Returns BY <1>2, ReturnAtWork
  <1>4. NoteKind(t, x) /\ x.doc # "unused" BY <1>3, Assumed DEF NoteKind
  <1>5. /\ \A u : Busy(req, u) => u = t
        /\ \A c : ~MarkedIn(req, c)
        /\ \A z \in Requests : KindOf(req'[z])
    BY <1>1, <1>2, NoneMarked, DoneKinds DEF OneAtATime, Busy
  <1> HIDE DEF t, x
  <1>6. db'.notes[t] = x /\ \A n \in Notes \cup Returns : n # t => db'.notes[n] = db.notes[n]
    BY <1>2, <1>3, AtWork DEF Db, DbType
  <1>7. \A n \in Notes : db'.notes[n] = db.notes[n] BY <1>3, <1>6, Assumed
  <1>8. BillsTallied(db', req')
    <2>1. \A c \in Bills : (TouchedIn(db, c) => TouchedIn(db', c)) /\ (Eased(db, c) => Eased(db', c))
      BY <1>1, <1>7 DEF TouchedIn, Eased
    <2>2. LiveIn(db') = LiveIn(db) BY <1>1 DEF SameMoney, LiveIn
    <2> QED BY <1>1, <1>5, <2>1, <2>2, BillsStay DEF Tallied
  <1>9. PapersTallied(db', req') BY <1>4, <1>6, <1>1, <1>5 DEF Tallied, PapersTallied, Kinds, NotedReturns
  <1> QED BY <1>8, <1>9 DEF Tallied

\* The note n becomes x, at the bill b, by a request that ends.
Renoted(d, n, x, b) ==
    /\ x.doc = "live" => NoteKind(n, x)
    /\ d.notes[n].doc # "unused" => x.doc # "unused"
    /\ n \in Notes /\ d.notes[n].doc = "live" /\ d.notes[n].st # "draft" =>
          /\ x.doc = "live" /\ x.st # "draft" /\ x.bill = d.notes[n].bill
          /\ d.notes[n].st = "issued" => d.notes[n].bill = b

LEMMA NotedTallied ==
    ASSUME OneAtATime, TypeInv, Tallied(db, req), NEW r \in Requests, Done(r),
           req[r].op \in {"issue_note", "cancel_note"}, NEW n \in Notes \cup Returns, NEW x, NEW b, NEW y,
           NotedIn(db, db', n, x, b, y), Renoted(db, n, x, b),
           b \in Bills => CoveredAt(db', b) /\ PaidAt(db', b)
    PROVE  Tallied(db', req')
  <1>1. /\ Db(db) /\ SameMoney(db, db') /\ db'.returns = db.returns /\ db'.notes = [db.notes EXCEPT ![n] = x]
        /\ db'.bills = IF b \in Bills /\ db.bills[b].doc = "live" THEN [db.bills EXCEPT ![b] = y] ELSE db.bills
    BY DEF NotedIn, TypeInv
  <1>2. db'.notes[n] = x /\ \A m \in Notes \cup Returns : m # n => db'.notes[m] = db.notes[m]
    BY <1>1 DEF Db, DbType
  <1>3. /\ \A c : ~MarkedIn(req, c)
        /\ \A t : ~Busy(req, t)
        /\ \A s \in Requests : KindOf(req'[s])
    BY NoneMarked, NoneBusy, DoneKinds
  <1>4. \A c \in Bills : TouchedIn(db, c) => TouchedIn(db', c) BY <1>1, <1>2 DEF TouchedIn, Renoted
  <1>5. \A c \in Bills : c # b /\ Eased(db, c) => Eased(db', c) BY <1>2 DEF Eased, Renoted
  <1>6. \A c \in Bills : c # b => db'.bills[c] = db.bills[c] /\ PaidOf(db', c) = PaidOf(db, c)
    <2>1. LiveIn(db') = LiveIn(db) BY <1>1 DEF SameMoney, LiveIn
    <2> QED BY <1>1, <2>1, SameOuts, DbBills DEF IsBills
  <1>7. BillsTallied(db', req')
    <2>1. Besides(db, req, db', req', b) BY <1>3, <1>4, <1>5, <1>6 DEF Besides
    <2> QED BY <2>1, OneBill DEF Tallied
  <1>8. Kinds(db') BY <1>2 DEF Tallied, PapersTallied, Kinds, Renoted
  <1>9. NotedReturns(db', req') BY <1>1, <1>3, <1>2 DEF NotedReturns, Tallied, PapersTallied, Renoted
  <1> QED BY <1>3, <1>7, <1>8, <1>9 DEF Tallied, PapersTallied

LEMMA KindAtWork ==
    ASSUME TypeInv, Story, Tallied(db, req), NEW r \in Requests, req[r].op \in {"issue_note", "cancel_note"}
    PROVE  /\ NoteKind(req[r].id, req[r].seen) /\ req[r].id \in Notes \cup Returns /\ req[r].seen \in NoteType
           /\ req[r].seen.bill \in Bills \cup {None} /\ req[r].seen.doc = "live"
           /\ \/ db.notes[req[r].id] = req[r].seen
              \/ req[r].seen.st = "draft" /\ db.notes[req[r].id].doc = "deleted"
  BY NoteAtWork DEF Tallied, PapersTallied, KindOf, KnowsNote, Deleted, NoteType

LEMMA IssueNoteTallied ==
    ASSUME OneAtATime, OwnNumbers, ~Faults, TypeInv, Story, Tallied(db, req), NEW r \in Requests, IssueNote(r)
    PROVE  Tallied(db', req')
  <1> DEFINE n == req[r].id
             s == req[r].seen
             b == s.bill
             x == [s EXCEPT !.st = "issued"]
             y == Lowered(db.bills[b], s.amt)
  <1>1. Done(r) /\ NotedIn(db, db', n, x, b, y) BY IssueNoteStory, IssuedWhole
  <1>2. req[r].op = "issue_note" BY DEF IssueNote
  <1>3. /\ NoteKind(n, s) /\ n \in Notes \cup Returns /\ s \in NoteType
        /\ db.notes[n] = s \/ (s.st = "draft" /\ db.notes[n].doc = "deleted")
    BY <1>2, KindAtWork
  <1>4. s.st = "draft" BY <1>2, NoteAtWork DEF KnowsNote
  <1> HIDE DEF n, s, y
  <1>5. n \in Notes /\ n \notin Returns /\ ~s.auto BY <1>3, <1>4 DEF NoteKind
  <1>6. x.doc = "live" /\ x.st = "issued" /\ x.bill = b /\ ~x.auto BY <1>3, <1>5 DEF NoteType
  <1> HIDE DEF x, b
  <1>7. Renoted(db, n, x, b) BY <1>3, <1>4, <1>5, <1>6 DEF Renoted, NoteKind
  <1>8. Eased(db', b) /\ TouchedIn(db', b)
    <2>1. db'.notes[n] = x BY <1>1, <1>3, AtWork DEF NotedIn, Db, DbType
    <2> QED BY <1>5, <1>6, <2>1 DEF Eased, TouchedIn
  <1>9. CoveredAt(db', b) /\ PaidAt(db', b) BY <1>8 DEF CoveredAt, PaidAt
  <1> QED BY <1>1, <1>2, <1>3, <1>7, <1>9, NotedTallied

LEMMA RaisedCovers ==
    ASSUME NEW bill \in BillType, NEW amt \in Int
    PROVE  CoveredBy(Raised(bill, amt))
  <1>1. bill.paid + amt \in Int BY DEF BillType
  <1> QED BY <1>1, StatusCovers DEF Raised, Settlement

LEMMA CancelNoteTallied ==
    ASSUME OneAtATime, OwnNumbers, TypeInv, Story, Tallied(db, req), NEW r \in Requests, CancelNote(r)
    PROVE  Tallied(db', req')
  <1> DEFINE n == req[r].id
             s == req[r].seen
             b == s.bill
             x == CancelledNote(db.notes[n])
             y == GivenBack(s, db.bills[b])
  <1>1. Done(r) /\ NotedIn(db, db', n, x, b, y) BY CancelNoteStory
  <1>2. req[r].op = "cancel_note" BY DEF CancelNote
  <1>3. /\ NoteKind(n, s) /\ n \in Notes \cup Returns /\ s \in NoteType /\ s.doc = "live" /\ b \in Bills \cup {None}
        /\ db.notes[n] = s \/ (s.st = "draft" /\ db.notes[n].doc = "deleted")
    BY <1>2, KindAtWork
  <1>4. s.amt \in Int BY <1>2, NoteAtWork
  <1> HIDE DEF n, s
  <1>5. x.doc = db.notes[n].doc /\ (x.doc = "live" => x = [s EXCEPT !.st = "cancelled"])
    BY <1>3 DEF CancelledNote, NoteType
  <1>6. x.doc = "live" => x.st = "cancelled" /\ x.bill = b /\ x.auto = s.auto BY <1>3, <1>5 DEF NoteType
  <1> HIDE DEF x, b
  <1>7. Renoted(db, n, x, b) BY <1>3, <1>5, <1>6 DEF b, Renoted, NoteKind
  <1>8. /\ db'.notes[n] = x /\ \A m \in Notes : m # n => db'.notes[m] = db.notes[m]
        /\ db'.returns = db.returns /\ LiveIn(db') = LiveIn(db)
        /\ db'.bills = IF b \in Bills /\ db.bills[b].doc = "live" THEN [db.bills EXCEPT ![b] = y] ELSE db.bills
    BY <1>1, <1>3, AtWork DEF NotedIn, Db, DbType, SameMoney, LiveIn
  <1>9. ASSUME b \in Bills PROVE CoveredAt(db', b) /\ PaidAt(db', b)
    <2>1. CASE db.bills[b].doc = "live" /\ s.st = "issued" /\ ~s.auto
      <3>1. db.notes[n] = s BY <1>3, <2>1
      <3>2. n \in Notes BY <1>3, <2>1 DEF NoteKind
      <3>3. TouchedIn(db', b) BY <1>3, <1>5, <1>6, <1>8, <3>1, <3>2 DEF TouchedIn
      <3>4. db'.bills[b] = Raised(db.bills[b], s.amt) BY <1>8, <1>9, <2>1, AtWork DEF GivenBack, IsBills
      <3>5. db.bills[b] \in BillType BY <1>9, <2>1, AtWork, TakenType
      <3>6. CoveredBy(db'.bills[b]) BY <1>4, <3>4, <3>5, RaisedCovers
      <3> QED BY <3>3, <3>6 DEF CoveredAt, PaidAt
    <2>2. CASE ~(db.bills[b].doc = "live" /\ s.st = "issued" /\ ~s.auto)
      <3>1. db'.bills[b] = db.bills[b] BY <1>8, <1>9, <2>2, AtWork DEF GivenBack, IsBills
      <3>2. ASSUME db.bills[b].doc = "live", Eased(db, b) PROVE Eased(db', b)
        BY <3>2, <1>3, <2>2, <1>8 DEF Eased, NoteKind
      <3>3. TouchedIn(db, b) => TouchedIn(db', b) BY <1>8, <1>5, <1>6 DEF TouchedIn
      <3>4. CoveredAt(db, b) /\ PaidAt(db, b)
        <4>1. \A c : ~MarkedIn(req, c) BY <1>2, NoneMarked
        <4> QED BY <1>9, <4>1 DEF Tallied, BillsTallied
      <3>5. PaidOf(db', b) = PaidOf(db, b) BY <1>8, SameOuts
      <3> QED BY <3>1, <3>2, <3>3, <3>4, <3>5 DEF CoveredAt, CoveredBy, PaidAt
    <2> QED BY <2>1, <2>2
  <1> HIDE DEF y
  <1> QED BY <1>1, <1>2, <1>3, <1>7, <1>9, NotedTallied

LEMMA LoadTallied ==
    ASSUME OneAtATime, TypeInv, Tallied(db, req), NEW r \in Requests, NEW op, NEW id, NEW seen, Begin(r, op, id, seen),
           op \in {"issue_note", "cancel_note"} => NoteKind(id, seen)
    PROVE  Tallied(db', req')
  <1> DEFINE q == [op |-> op, id |-> id, seen |-> seen, step |-> 1]
  <1>1. db' = db /\ req[r] = Idle /\ req'[r] = q BY DEF Begin, TypeInv
  <1>2. /\ \A c : ~MarkedIn(req, c)
        /\ \A t : ~Busy(req, t)
    BY <1>1, NoneMarked, NoneBusy DEF Idle
  <1>3. KindOf(q) BY DEF KindOf
  <1>4. \A s \in Requests : KindOf(req'[s]) BY <1>1, <1>3 DEF OneAtATime
  <1> HIDE DEF q
  <1>5. BillsTallied(db', req') BY <1>1, <1>2 DEF Tallied, BillsTallied
  <1>6. PapersTallied(db', req') BY <1>1, <1>2, <1>4 DEF Tallied, PapersTallied, NotedReturns
  <1> QED BY <1>5, <1>6 DEF Tallied

LEMMA LoadNoteTallied ==
    ASSUME OneAtATime, TypeInv, Tallied(db, req), NEW r \in Requests, NEW n \in Notes \cup Returns,
           NEW op \in {"issue_note", "cancel_note"}, LoadNote(r, op, n)
    PROVE  Tallied(db', req')
  BY LoadTallied DEF LoadNote, Tallied, PapersTallied, Kinds

LEMMA DropTallied ==
    ASSUME OneAtATime, ~Faults, TypeInv, Tallied(db, req), NEW r \in Requests, Drop(r)
    PROVE  Tallied(db', req')
  BY NoneMarked, EndPapers DEF Drop, Tallied, BillsTallied, SamePapers

LEMMA NextTallied ==
    ASSUME OneAtATime, OwnNumbers, ~Faults
    PROVE  TypeInv /\ Story /\ Tallied(db, req) /\ [Next]_vars => Tallied(db, req)'
  <1> SUFFICES ASSUME TypeInv, Story, Tallied(db, req), [Next]_vars PROVE Tallied(db', req') OBVIOUS
  <1>1. CASE UNCHANGED vars BY <1>1 DEF vars
  <1>2. CASE \E b \in Bills, v \in Vendors, st \in Statuses, total \in Totals, paid \in {0} \cup Amounts, mode \in Modes :
                \E number \in NumbersOf(b) : CreateBill(b, v, number, st, total, paid, mode)
    BY <1>2, CreateBillTallied
  <1>3. CASE \E v \in Vendors, amt \in Amounts, disc \in Discounts, mode \in Modes, refund \in BOOLEAN :
                PayVendor(v, amt, disc, mode, refund)
    BY <1>3, PayVendorTallied
  <1>4. CASE \E t \in Returns, b \in Bills \cup {None}, v \in Vendors, amt \in Amounts, money \in BOOLEAN :
                CreateReturn(t, b, v, amt, money)
    BY <1>4, CreateReturnStory, DraftReturnTallied
  <1>5. CASE \E t \in Returns, money \in BOOLEAN : ReviseReturn(t, money)
    BY <1>5, ReviseReturnStory, DraftReturnTallied
  <1>6. CASE \E t \in Returns : DeleteReturn(t) BY <1>6, DeleteReturnStory, DraftReturnTallied
  <1>7. CASE \E n \in Notes, b \in Bills, amt \in Amounts : CreateNote(n, b, amt)
    BY <1>7, CreateNoteStory, DraftNoteTallied
  <1>8. CASE \E n \in Notes : DeleteNote(n) BY <1>8, DeleteNoteStory, DraftNoteTallied
  <1>9. ASSUME NEW r \in Requests, BillSteps(r) PROVE Tallied(db', req')
    <2>1. CASE \E b \in Bills, op \in {"update_bill", "mark_paid", "delete_bill", "pay_bill"} : LoadBill(r, op, b)
      BY <2>1, LoadTallied DEF LoadBill
    <2>2. CASE \E v \in Vendors, st \in Statuses, total \in Totals, paid \in {0} \cup Amounts, mode \in Modes :
                  \E number \in Numbers : UpdateBill(r, v, number, st, total, paid, mode)
      BY <2>2, UpdateBillTallied
    <2>3. CASE MarkSave(r) BY <2>3, MarkSaveTallied
    <2>4. CASE MarkReverse(r) BY <2>4, MarkReverseTallied
    <2>5. CASE \E mode \in Modes : MarkPay(r, mode) BY <2>5, MarkPayTallied
    <2>6. CASE DeleteBill(r) BY <2>6, DeleteBillTallied
    <2> QED BY <1>9, <2>1, <2>2, <2>3, <2>4, <2>5, <2>6 DEF BillSteps
  <1>10. ASSUME NEW r \in Requests, OutSteps(r) PROVE Tallied(db', req')
    BY PayBillTallied, LoadTallied, OutEndTallied, <1>10 DEF LoadOut, OutSteps
  <1>11. ASSUME NEW r \in Requests, ReturnSteps(r) PROVE Tallied(db', req')
    <2>1. CASE \E t \in Returns : LoadReturn(r, t) BY <2>1, LoadTallied DEF LoadReturn
    <2>2. CASE ProcessReturn(r) BY <2>2, ProcessReturnTallied
    <2>3. CASE SettleReturn(r) BY <2>3, RefundTallied, OffsetTallied
    <2>4. CASE NoteReturn(r) BY <2>4, NoteReturnTallied
    <2> QED BY <1>11, <2>1, <2>2, <2>3, <2>4 DEF ReturnSteps
  <1>12. ASSUME NEW r \in Requests, NoteSteps(r) PROVE Tallied(db', req')
    BY LoadNoteTallied, IssueNoteTallied, CancelNoteTallied, <1>12 DEF NoteSteps
  <1> QED BY <1>1, <1>2, <1>3, <1>4, <1>5, <1>6, <1>7, <1>8, <1>9, <1>10, <1>11, <1>12, DropTallied DEF Next

LEMMA InitTallied == Init => Tallied(db, req)
  <1> SUFFICES ASSUME Init PROVE Tallied(db, req) OBVIOUS
  <1>1. BillsTallied(db, req) BY DEF Init, Unused, BillsTallied, CoveredAt, CoveredBy, PaidAt, Posted
  <1>2. PapersTallied(db, req) BY IdleKind DEF Init, Unused, PapersTallied, Kinds, NotedReturns, Processed
  <1> QED BY <1>1, <1>2 DEF Tallied

LEMMA TalliedPaid == TypeInv /\ Story /\ Tallied(db, req) => PaidExact
  <1> SUFFICES ASSUME TypeInv, Story, Tallied(db, req) PROVE PaidExact OBVIOUS
  <1>1. Db(db) /\ Papers(db) BY DEF Story, StoryOf, InOrder
  <1>2. Quiet => \A b : ~MarkedIn(req, b) /\ ~Busy(req, b) BY DEF Quiet, MarkedIn, Busy, Idle
  <1>3. PaidMatchesPayments
    <2> SUFFICES ASSUME Quiet, NEW b \in Bills, IsPosted(b), ~Touched(b)
                 PROVE  db.bills[b].paid = NetOf({o \in LiveOuts : o.bill = b})
      BY DEF PaidMatchesPayments
    <2>1. Posted(db.bills[b]) /\ ~TouchedIn(db, b) BY DEF IsPosted, Live, Posted, Touched, TouchedIn, Processed
    <2>2. PaidAt(db, b) BY <1>2 DEF Tallied, BillsTallied
    <2>3. {o \in LiveOuts : o.bill = b} = OutsOf(db, b) BY DEF LiveOuts, OutsOf
    <2> QED BY <2>1, <2>2, <2>3 DEF PaidAt, PaidOf
  <1>4. PaidMeansCovered BY DEF PaidMeansCovered, Tallied, BillsTallied, CoveredAt, CoveredBy, Eased, Live
  <1>5. ReturnedOnce BY <1>1, <1>2 DEF ReturnedOnce, Papers, Tallied, PapersTallied, NotedReturns, Unused
  <1> QED BY <1>3, <1>4, <1>5 DEF PaidExact

\* With one client at work at a time and no crash, discounts or not, whenever
\* no request is under way the amount paid of a bill that no return or note has
\* touched is what its payments add up to, a bill marked paid is covered unless
\* a note took some of it away, and a return has sent its goods once and has
\* its note.
THEOREM PaidExactHolds ==
    ASSUME OneAtATime, OwnNumbers, ~Faults
    PROVE  Spec => []PaidExact
  <1>1. TypeInv /\ Story /\ Tallied(db, req) /\ [Next]_vars => TypeInv' /\ Story' /\ Tallied(db, req)'
    BY NextStory, NextType, NextTallied
  <1>2. Init => TypeInv /\ Story /\ Tallied(db, req) BY InitStory, InitType, InitTallied
  <1>3. TypeInv /\ Story /\ Tallied(db, req) => PaidExact BY TalliedPaid
  <1> QED BY <1>1, <1>2, <1>3, PTL DEF Spec
=============================================================================
