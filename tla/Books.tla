-------------------------------- MODULE Books --------------------------------
(***************************************************************************)
(* The chart of accounts, journal entries by hand, the journals that the   *)
(* handlers post, and the statements read from them.                       *)
(* (controllers/accounting.go, accounting_helpers.go)                      *)
(*                                                                         *)
(* An account is found by its code when a handler posts, by its identity   *)
(* when an entry by hand is posted or a posting is reversed.  Codes are    *)
(* counted in hundreds: type t has the codes Base(t) + 1, Base(t) + 2 ...  *)
(***************************************************************************)
EXTENDS Integers, Sequences, FiniteSets, FiniteSetsExt, SequencesExt

CONSTANTS
    Clerks,             \* requests that post an entry by hand
    Defaults,           \* sequence of [code, type, name], EnsureDefaultChartOfAccounts
    Types,              \* of the accounts that are added
    Categories,         \* of expenses, each with an account of its name
    General,            \* the name of the account of expenses without a category
    Openings, Amounts,
    Entries,            \* journal entries by hand
    Documents,          \* what handlers post journals of
    Meanwhile,          \* whether two requests post one entry
    MaxAccounts         \* bound

VARIABLES
    db,     \* the tables
    req     \* what each request has read

vars   == << db, req >>
Idle   == [op |-> "idle"]
Unused == [st |-> "unused"]

Init ==
    /\ db = [accounts |-> << >>,
             entries  |-> [j \in Entries |-> Unused],
             ledger   |-> {}]
    /\ req = [c \in Clerks |-> Idle]

Total(f, S) == SumFunctionOnSet(f, S)

Base(type) == CASE type = "asset" -> 10 [] type = "liability" -> 20 [] type = "equity" -> 30
                [] type = "income" -> 40 [] type = "expense" -> 50

DebitTypes == {"asset", "expense"}

Write(to) == db' = to /\ UNCHANGED req

-----------------------------------------------------------------------------
(* Accounts *)

Ids(t)          == DOMAIN t.accounts
Live(t, a)      == a \in Ids(t) /\ t.accounts[a].live
ByCode(t, code) == {a \in Ids(t) : Live(t, a) /\ t.accounts[a].code = code}

Account(code, type, name, opening, default) ==
    [live |-> TRUE, code |-> code, type |-> type, name |-> name, default |-> default, active |-> TRUE,
     opening |-> opening, balance |-> opening]

WithDefault(t, d) ==
    IF ByCode(t, d.code) # {} THEN t
    ELSE [t EXCEPT !.accounts = Append(@, Account(d.code, d.type, d.name, 0, TRUE))]

Ensured(t) == FoldLeft(WithDefault, t, Defaults)

OfType(t, type) == {a \in Ids(t) : Live(t, a) /\ t.accounts[a].type = type}

NextCode_ByCount(t, type) == Base(type) + Cardinality(OfType(t, type)) + 1

NextCode(t, type) == Max({Base(type)} \cup {t.accounts[a].code : a \in OfType(t, type)}) + 1

\* GetAccounts
GetAccounts == Ensured(db) # db /\ Write(Ensured(db))

CreateAccount(type, name, opening) ==
    Write([db EXCEPT !.accounts = Append(@, Account(NextCode(db, type), type, name, opening, FALSE))])

UpdateAccount(a, name, active) ==
    Live(db, a) /\ Write([db EXCEPT !.accounts[a].name = name, !.accounts[a].active = active])

\* A default account stays, and one with a balance
DeleteAccount(a) ==
    /\ Live(db, a) /\ ~db.accounts[a].default /\ db.accounts[a].balance = 0
    /\ Write([db EXCEPT !.accounts[a].live = FALSE])

-----------------------------------------------------------------------------
(* Posting *)

\* applyAccountBalance
Applied_DebitAdds(v, debit, credit) == v.balance + debit - credit

Applied(v, debit, credit) ==
    IF v.type \in DebitTypes THEN v.balance + debit - credit ELSE v.balance + credit - debit

Rows(t, ref) == {row \in t.ledger : row.ref = ref}

\* One line: the account's balance and a row of the ledger
Posted(t, ref, a, debit, credit) ==
    LET n == Cardinality({row \in Rows(t, ref) : row.acct = a /\ row.debit = debit}) IN
    [t EXCEPT !.accounts[a].balance = Applied(t.accounts[a], debit, credit),
              !.ledger = @ \cup {[ref |-> ref, acct |-> a, debit |-> debit, credit |-> credit, n |-> n]}]

\* applyJournalLinesToAccountsAndLedger: amt from one account to another
Journal(t, ref, to, from, amt) == Posted(Posted(t, ref, to, amt, 0), ref, from, 0, amt)

\* postAutoJournal: one journal for a document, however often it is posted
PostAuto(t, ref, to, from, amt) == IF Rows(t, ref) # {} THEN t ELSE Journal(t, ref, to, from, amt)

\* reverseAccountingByRef fails where an account of a row is gone
Reversible(t, ref) == \A row \in Rows(t, ref) : Live(t, row.acct)

Reversed(t, ref) ==
    LET net == [row \in t.ledger |-> row.credit - row.debit]
        Back(v, a) == [v EXCEPT !.balance = Applied(v, Total(net, {row \in Rows(t, ref) : row.acct = a}), 0)]
    IN  [t EXCEPT !.accounts = [a \in Ids(t) |-> Back(@[a], a)], !.ledger = @ \ Rows(t, ref)]

-----------------------------------------------------------------------------
(* Journals of documents.  An expense is charged to its category's account, *)
(* which is made when there is none.                                        *)

Named(t, name) == {a \in OfType(t, "expense") : t.accounts[a].name = name /\ t.accounts[a].active}

Charged(t, category) ==
    LET D == Ensured(t) IN
    IF category = General \/ Named(t, category) # {} THEN D
    ELSE [D EXCEPT !.accounts = Append(@, Account(NextCode(D, "expense"), "expense", category, 0, FALSE))]

ChargedTo(t, category) ==
    IF category # General THEN Named(t, category)
    ELSE UNION {ByCode(t, Defaults[i].code) : i \in {k \in DOMAIN Defaults : Defaults[k].name = General}}

PostExpense(d, category, amt, cash) ==
    LET T == Charged(db, category) IN
    /\ Len(T.accounts) <= MaxAccounts
    /\ \E to \in ChargedTo(T, category), from \in ByCode(T, cash) : Write(PostAuto(T, d, to, from, amt))

PostDocument(d, debit, credit, amt) ==
    LET T == Ensured(db) IN
    /\ Len(T.accounts) <= MaxAccounts
    /\ \E to \in ByCode(T, debit), from \in ByCode(T, credit) : Write(PostAuto(T, d, to, from, amt))

ReverseDocument(d) == Rows(db, d) # {} /\ Reversible(db, d) /\ Write(Reversed(db, d))

-----------------------------------------------------------------------------
(* Entries by hand: made as drafts, whatever accounts they name *)

CreateJournalEntry(j, to, from, amt) ==
    /\ db.entries[j] = Unused
    /\ Write([db EXCEPT !.entries[j] = [st |-> "draft", to |-> to, from |-> from, amt |-> amt]])

DeleteJournalEntry(j) ==
    /\ db.entries[j].st = "draft" /\ (Meanwhile \/ \A c \in Clerks : req[c] # [op |-> "post", j |-> j])
    /\ Write([db EXCEPT !.entries[j].st = "deleted"])

LoadEntry(c, j) ==
    /\ req[c] = Idle /\ db.entries[j].st = "draft"
    /\ Meanwhile \/ \A e \in Clerks : req[e] # [op |-> "post", j |-> j]
    /\ req' = [req EXCEPT ![c] = [op |-> "post", j |-> j]] /\ UNCHANGED db

\* One transaction: undone where an account of a line is gone
PostJournalEntry(c) ==
    LET j == req[c].j
        v == db.entries[j]
    IN  /\ req[c].op = "post"
        /\ req' = [req EXCEPT ![c] = Idle]
        /\ db' = IF Live(db, v.to) /\ Live(db, v.from)
                 THEN Journal([db EXCEPT !.entries[j].st = "posted"], j, v.to, v.from, v.amt)
                 ELSE db

-----------------------------------------------------------------------------
(* Statements, of the accounts that are active *)

Shown == {a \in Ids(db) : Live(db, a) /\ db.accounts[a].active}

Side(a) == LET v == db.accounts[a] IN
    IF (v.type \in DebitTypes) = (v.balance > 0) THEN "debit" ELSE "credit"

Balance == [a \in Ids(db) |-> db.accounts[a].balance]
Size    == [a \in Ids(db) |-> IF Balance[a] > 0 THEN Balance[a] ELSE - Balance[a]]

TrialTotal(side) == Total(Size, {a \in Shown : Side(a) = side})

Sum(types) == Total(Balance, {a \in Shown : db.accounts[a].type \in types})

NetProfit == Sum({"income"}) - Sum({"expense"})

TotalEquity == Sum({"equity"}) + NetProfit

-----------------------------------------------------------------------------
Next ==
    \/ GetAccounts
    \/ Len(db.accounts) < MaxAccounts
       /\ \E type \in Types, name \in Categories, n \in Openings : CreateAccount(type, name, n)
    \/ \E a \in Ids(db) : DeleteAccount(a) \/ \E name \in Categories, b \in BOOLEAN : UpdateAccount(a, name, b)
    \/ \E d \in Documents, n \in Amounts :
          \/ \E category \in Categories \cup {General} : PostExpense(d, category, n, Defaults[1].code)
          \/ \E i, k \in DOMAIN Defaults : i # k /\ PostDocument(d, Defaults[i].code, Defaults[k].code, n)
    \/ \E d \in Documents : ReverseDocument(d)
    \/ \E j \in Entries :
          \/ \E to, from \in Ids(db), n \in Amounts : CreateJournalEntry(j, to, from, n)
          \/ DeleteJournalEntry(j) \/ \E c \in Clerks : LoadEntry(c, j)
    \/ \E c \in Clerks : PostJournalEntry(c)

Spec == Init /\ [][Next]_vars

-----------------------------------------------------------------------------
(* Properties *)

Weight(type, n) == IF type \in DebitTypes THEN n ELSE - n

\* Every balance is the account's opening balance and its rows of the ledger; so the
\* trial balance is out by the opening balances that were entered and by what is
\* hidden with the inactive accounts, and by nothing else, and the balance sheet is
\* out by as much ("is_balanced", accounting.go:488, 684).
BooksBalance ==
    LET net     == [row \in db.ledger |-> row.debit - row.credit]
        opening == [a \in Ids(db) |-> Weight(db.accounts[a].type, db.accounts[a].opening)]
        hidden  == [a \in Ids(db) |-> Weight(db.accounts[a].type, db.accounts[a].balance)]
        gap     == Total(opening, Ids(db)) - Total(hidden, Ids(db) \ Shown)
    IN  /\ \A a \in Ids(db) : LET v == db.accounts[a] IN
              Weight(v.type, v.balance - v.opening) = Total(net, {row \in db.ledger : row.acct = a})
        /\ TrialTotal("debit") - TrialTotal("credit") = gap
        /\ Sum({"asset"}) - (Sum({"liability"}) + TotalEquity) = gap

\* While no type has more accounts than it has codes, no two accounts have one code,
\* and the account a handler posts to is of the type it takes it for.
CodesUnique ==
    /\ \A a, b \in Ids(db) : a # b /\ Live(db, a) /\ Live(db, b) => db.accounts[a].code # db.accounts[b].code
    /\ \A i \in DOMAIN Defaults : \A a \in ByCode(db, Defaults[i].code) : db.accounts[a].type = Defaults[i].type

=============================================================================
