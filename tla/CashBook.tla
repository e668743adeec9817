------------------------------ MODULE CashBook ------------------------------
(***************************************************************************)
(* Money that no bill or invoice moves: bank accounts, entries by hand,    *)
(* transfers, expenses, and the profit that partners take out.             *)
(* (controllers/cashbank.go, expense.go, profit_distribution.go, and the   *)
(* expense part of cashbank_helpers.go)                                    *)
(*                                                                         *)
(* Entries by hand, their deletion and a new account are several writes in *)
(* no transaction: req holds what the request has read and how far it has  *)
(* come, and the server may die in between.  An expense is one             *)
(* transaction.                                                            *)
(***************************************************************************)
EXTENDS Integers, FiniteSets, Functions

CONSTANTS
    Clerks,                 \* requests under way at a time
    Accounts,               \* bank accounts
    Expenses, Shares,       \* rows of expenses and of profit distributions
    Partners,
    Openings, Amounts,
    ByHand,                 \* kinds of rows that somebody deletes from the cash book
    Reuse,                  \* whether a number is given again after a deletion
    Meanwhile,              \* whether requests under way are about the same things
    MaxRows, MaxDeaths      \* bounds

VARIABLES
    db,     \* the tables
    req     \* what each request has read

vars   == << db, req >>
Cash   == "cash"            \* a row of no bank account
Hand   == << "hand", 0 >>   \* the reference of an entry by hand
Idle   == [op |-> "idle"]
Unused == [st |-> "unused"]

Init ==
    /\ db = [accounts |-> [a \in Accounts |-> Unused],
             rows     |-> {},
             made     |-> 0,                                \* rows ever made
             expenses |-> [e \in Expenses |-> Unused],
             shares   |-> [s \in Shares |-> Unused],
             partners |-> [p \in Partners |-> "unused"],
             journals |-> {},
             removed  |-> {},                               \* references of rows deleted by hand
             cut      |-> [a \in Accounts |-> 0],           \* written to an account, never to the book
             deaths   |-> 0]
    /\ req = [c \in Clerks |-> Idle]

Total(f, S) == SumFunctionOnSet(f, S)

Live(a)   == a \in Accounts /\ db.accounts[a].st = "live"
Active(a) == Live(a) /\ db.accounts[a].active
Ins       == {"add", "transfer_in"}
Signed(row) == IF row.kind \in Ins THEN row.amt ELSE - row.amt

Free     == Meanwhile \/ \A c \in Clerks : req[c] = Idle
Begin(c, r)  == req[c] = Idle /\ Free /\ req' = [req EXCEPT ![c] = r] /\ UNCHANGED db
Go(c, r, to) == req' = [req EXCEPT ![c] = r] /\ db' = to
Write(to)    == Free /\ db' = to /\ UNCHANGED req

-----------------------------------------------------------------------------
(* What the handlers share, over the tables t that they have made so far *)

Moved(t, a, delta) ==
    IF a \in Accounts /\ t.accounts[a].st = "live" THEN [t EXCEPT !.accounts[a].balance = @ + delta] ELSE t

Entered(t, kind, a, amt, ref) ==
    [t EXCEPT !.made = @ + 1,
              !.rows = @ \cup {[id |-> t.made + 1, kind |-> kind, acct |-> a, amt |-> amt, ref |-> ref]}]

Room(n) == db.made + n <= MaxRows

\* recordExpenseCashOut
CashOut(t, a, amt, ref) ==
    IF amt = 0 THEN t ELSE Entered(Moved(t, a, - amt), "expense", a, amt, ref)

\* reverseExpenseCashOut: the rows of that reference
RowsOf_OfAccount(t, kind, ref) == {r \in t.rows : r.kind = kind /\ r.ref = ref /\ r.acct \in Accounts}

RowsOf(t, kind, ref) == {r \in t.rows : r.kind = kind /\ r.ref = ref}

CashBack(t, ref) ==
    LET gone    == RowsOf(t, "expense", ref)
        amount  == [r \in gone |-> r.amt]
        Back(a) == Total(amount, {r \in gone : r.acct = a})
    IN  [t EXCEPT !.rows = @ \ gone,
                  !.accounts = [a \in Accounts |-> IF t.accounts[a].st = "live"
                                                   THEN [t.accounts[a] EXCEPT !.balance = @ + Back(a)]
                                                   ELSE t.accounts[a]]]

Posted(t, of, amt)  == IF amt = 0 THEN t ELSE [t EXCEPT !.journals = @ \cup {[of |-> of, amt |-> amt]}]
Unposted(t, of)     == [t EXCEPT !.journals = {j \in @ : j.of # of}]

-----------------------------------------------------------------------------
(* Bank accounts *)

CreateBankAccount(c, a, opening) ==
    /\ db.accounts[a] = Unused /\ req[c] = Idle /\ Free
    /\ Go(c, [op |-> "first", acct |-> a],
          [db EXCEPT !.accounts[a] = [st |-> "live", active |-> TRUE, primary |-> FALSE,
                                      opening |-> opening, balance |-> opening]])

\* The first account is the primary one
MarkFirst(c) ==
    LET a == req[c].acct IN
    /\ req[c].op = "first"
    /\ Go(c, Idle, IF Cardinality({b \in Accounts : Live(b)}) = 1 /\ Live(a)
                   THEN [db EXCEPT !.accounts[a].primary = TRUE] ELSE db)

UpdateBankAccount(a, active) == Live(a) /\ Write([db EXCEPT !.accounts[a].active = active])

DeleteBankAccount(a) == Live(a) /\ Write([db EXCEPT !.accounts[a].st = "deleted"])

SetPrimaryBankAccount(a) ==
    /\ Live(a)
    /\ Write([db EXCEPT !.accounts = [b \in Accounts |->
                CASE b = a   -> [@[b] EXCEPT !.primary = TRUE, !.active = TRUE]
                  [] Live(b) /\ b # a -> [@[b] EXCEPT !.primary = FALSE]
                  [] OTHER   -> @[b]]])

-----------------------------------------------------------------------------
(* Entries by hand: the account's balance, then the row, then its journal.  *)
(* The account is optional, and one that is not found is passed over.       *)

Seen(a) == IF Live(a) THEN db.accounts[a].balance ELSE 0

LoadMoney(c, kind, a, amt) ==
    /\ Room(1) /\ (a # Cash => db.accounts[a] # Unused)
    /\ Begin(c, [op |-> "money", at |-> IF Live(a) THEN "save" ELSE "row", kind |-> kind, acct |-> a,
                 amt |-> amt, seen |-> Seen(a)])

\* The balance it saves is the one it has read, with the amount
SaveBalance(c) ==
    LET r == req[c] IN
    /\ r.op \in {"money", "delete"} /\ r.at = "save"
    /\ Go(c, [r EXCEPT !.at = "row"],
          [db EXCEPT !.accounts[r.acct].balance = r.seen + (IF r.op = "money" THEN Signed(r) ELSE - Signed(r))])

StoreRow(c) ==
    LET r == req[c] IN
    /\ r.op = "money" /\ r.at = "row"
    /\ Go(c, [op |-> "post", id |-> db.made + 1, amt |-> r.amt], Entered(db, r.kind, r.acct, r.amt, Hand))

\* postManualCashAddAccounting, postManualCashReduceAccounting; a failure is logged
PostMoney(c) ==
    LET r == req[c] IN
    /\ r.op = "post" /\ Go(c, Idle, Posted(db, << "row", r.id >>, r.amt))

LoadTransfer(c, from, to, amt) ==
    /\ Room(2) /\ from # to /\ Live(from) /\ Live(to) /\ db.accounts[from].balance >= amt
    /\ Begin(c, [op |-> "transfer", from |-> from, to |-> to, amt |-> amt,
                 less |-> Seen(from) - amt, more |-> Seen(to) + amt])

TransferMoney(c) ==
    LET r == req[c]
        T == [db EXCEPT !.accounts[r.from].balance = r.less, !.accounts[r.to].balance = r.more]
    IN  /\ r.op = "transfer"
        /\ Go(c, Idle, Entered(Entered(T, "transfer_out", r.from, r.amt, Hand), "transfer_in", r.to, r.amt, Hand))

\* Any row may be deleted, of a transfer one side; its journal stays
LoadRow(c, row) ==
    /\ row.kind \in ByHand
    /\ Begin(c, [op |-> "delete", at |-> IF Live(row.acct) THEN "save" ELSE "row", row |-> row, kind |-> row.kind,
                 acct |-> row.acct, amt |-> row.amt, seen |-> Seen(row.acct)])

DeleteCashTransaction(c) ==
    LET r == req[c] IN
    /\ r.op = "delete" /\ r.at = "row"
    /\ Go(c, Idle, [db EXCEPT !.rows = @ \ {r.row}, !.removed = @ \cup ({r.row.ref} \ {Hand})])

-----------------------------------------------------------------------------
(* Expenses.  The number counts the expenses that are left. *)

LeftOf(T) == {x \in DOMAIN T : T[x].st \notin {"unused", "deleted"}}
NextNo(T) == Cardinality(LeftOf(T)) + 1
Given(T)  == {T[x].no : x \in {y \in DOMAIN T : T[y].st # "unused"}}
Fresh(T)  == Reuse \/ NextNo(T) \notin Given(T)

Payable(a) == a = Cash \/ Active(a)

Ref(e) == << "expense", db.expenses[e].no >>
Of(e)  == << "expense", e >>

CreateExpense(e, amt, a) ==
    LET no == NextNo(db.expenses)
        T  == [db EXCEPT !.expenses[e] = [st |-> "active", no |-> no, amt |-> amt, acct |-> a]]
    IN  /\ db.expenses[e] = Unused /\ Fresh(db.expenses) /\ Payable(a) /\ Room(1)
        /\ Write(Posted(CashOut(T, a, amt, << "expense", no >>), Of(e), amt))

\* The cash row is made again when the amount, the account, the date or the mode changes
UpdateExpense(e, amt, a, redated) ==
    LET x       == db.expenses[e]
        changed == x.amt # amt \/ x.acct # a \/ redated
        T       == [db EXCEPT !.expenses[e].amt = amt, !.expenses[e].acct = a]
    IN  /\ x.st = "active" /\ Payable(a) /\ Room(1)
        /\ Write(IF changed THEN Posted(Unposted(CashOut(CashBack(T, Ref(e)), a, amt, Ref(e)), Of(e)), Of(e), amt)
                 ELSE T)

EndedExpense(e, st) == Unposted(CashBack([db EXCEPT !.expenses[e].st = st], Ref(e)), Of(e))

CancelExpense(e) == db.expenses[e].st = "active" /\ Write(EndedExpense(e, "cancelled"))

DeleteExpense(e) == e \in LeftOf(db.expenses) /\ Write(EndedExpense(e, "deleted"))

-----------------------------------------------------------------------------
(* Partners take profit out of an account that has it, or of the cash in    *)
(* hand.  The account is read before the transaction.                       *)

CreatePartner(p) == db.partners[p] = "unused" /\ Write([db EXCEPT !.partners[p] = "live"])

SharesOf(p) == {s \in LeftOf(db.shares) : db.shares[s].partner = p}

DeletePartner(p) == db.partners[p] = "live" /\ SharesOf(p) = {} /\ Write([db EXCEPT !.partners[p] = "deleted"])

LoadShare(c, s, p, amt, a) ==
    /\ Room(1) /\ db.shares[s] = Unused /\ Fresh(db.shares) /\ db.partners[p] = "live"
    /\ Payable(a) /\ (a # Cash => db.accounts[a].balance >= amt)
    /\ Begin(c, [op |-> "share", s |-> s, p |-> p, amt |-> amt, acct |-> a, seen |-> Seen(a), no |-> NextNo(db.shares)])

CreateProfitDistribution(c) ==
    LET r == req[c]
        T == [db EXCEPT !.shares[r.s] = [st |-> "live", no |-> r.no, amt |-> r.amt, acct |-> r.acct, partner |-> r.p],
                        !.accounts = [a \in Accounts |->
                                        IF a = r.acct THEN [@[a] EXCEPT !.balance = r.seen - r.amt] ELSE @[a]]]
    IN  /\ r.op = "share"
        /\ Go(c, Idle, Posted(Entered(T, "share", r.acct, r.amt, << "share", r.no >>), << "share", r.s >>, r.amt))

\* Gives the amount back, whether or not its row is still there
GivenBack_Never(t, x) == t

GivenBack(t, x) == Moved(t, x.acct, x.amt)

DeleteProfitDistribution(s) ==
    LET x == db.shares[s]
        T == [db EXCEPT !.shares[s].st = "deleted", !.rows = @ \ RowsOf(db, "share", << "share", x.no >>)]
    IN  x.st = "live" /\ Write(Unposted(GivenBack(T, x), << "share", s >>))

-----------------------------------------------------------------------------
\* What a request has written to the account and not yet to the book
Unbooked(c, a) ==
    LET r == req[c] IN
    IF ~(r.op \in {"money", "delete"}) \/ r.acct # a \/ r.at # "row" \/ ~Live(a) THEN 0
    ELSE IF r.op = "money" THEN Signed(r) ELSE - Signed(r)

InFlight(a) == Total([c \in Clerks |-> Unbooked(c, a)], Clerks)

Die ==
    /\ db.deaths < MaxDeaths /\ \E c \in Clerks : req[c] # Idle
    /\ db' = [db EXCEPT !.deaths = @ + 1, !.cut = [a \in Accounts |-> @[a] + InFlight(a)]]
    /\ req' = [c \in Clerks |-> Idle]

AccountSteps ==
    \/ \E a \in Accounts :
          \/ \E c \in Clerks, n \in Openings : CreateBankAccount(c, a, n)
          \/ \E active \in BOOLEAN : UpdateBankAccount(a, active)
          \/ DeleteBankAccount(a) \/ SetPrimaryBankAccount(a)
    \/ \E c \in Clerks : MarkFirst(c)

MoneySteps ==
    \E c \in Clerks :
       \/ \E kind \in {"add", "reduce"}, a \in Accounts \cup {Cash}, n \in Amounts : LoadMoney(c, kind, a, n)
       \/ SaveBalance(c) \/ StoreRow(c) \/ PostMoney(c)
       \/ \E from, to \in Accounts, n \in Amounts : LoadTransfer(c, from, to, n)
       \/ TransferMoney(c)
       \/ \E row \in db.rows : LoadRow(c, row)
       \/ DeleteCashTransaction(c)

ExpenseSteps ==
    \E e \in Expenses :
       \/ \E a \in Accounts \cup {Cash}, n \in Amounts \cup {0} :
             CreateExpense(e, n, a) \/ \E redated \in BOOLEAN : UpdateExpense(e, n, a, redated)
       \/ CancelExpense(e) \/ DeleteExpense(e)

ShareSteps ==
    \/ \E p \in Partners : CreatePartner(p) \/ DeletePartner(p)
    \/ \E c \in Clerks :
          \/ \E s \in Shares, p \in Partners, n \in Amounts, a \in Accounts \cup {Cash} : LoadShare(c, s, p, n, a)
          \/ CreateProfitDistribution(c)
    \/ \E s \in Shares : DeleteProfitDistribution(s)

Next == AccountSteps \/ MoneySteps \/ ExpenseSteps \/ ShareSteps \/ Die

Spec == Init /\ [][Next]_vars

-----------------------------------------------------------------------------
(* Properties *)

\* GetCashBankSummary shows an account as its opening balance and its rows
\* (sumSignedCashMovements), the handlers above keep a balance of their own: with
\* one request at a time the two agree, but for what requests that died had saved.
BookMatchesBank ==
    LET signed == [r \in db.rows |-> Signed(r)] IN
    \A a \in Accounts : Live(a) =>
        db.accounts[a].balance =
            db.accounts[a].opening + Total(signed, {r \in db.rows : r.acct = a}) + InFlight(a) + db.cut[a]

\* An expense that stands has one row, from its account, of its amount, unless
\* somebody deleted the row, and a journal of its amount; a cancelled or deleted one
\* has neither.  A share of the profit likewise, and its partner is still there.
PaidOutOnce ==
    LET Books(x, ref, kind, of, stands) ==
            LET R == RowsOf(db, kind, ref) IN
            /\ ~stands => R = {} /\ \A j \in db.journals : j.of # of
            /\ stands /\ x.amt > 0 =>
                  /\ R = {} => ref \in db.removed
                  /\ R # {} => \E r \in R : R = {r} /\ r.acct = x.acct /\ r.amt = x.amt
                  /\ {j \in db.journals : j.of = of} = {[of |-> of, amt |-> x.amt]}
    IN  /\ \A e \in Expenses : LET x == db.expenses[e] IN
              x.st # "unused" => Books(x, Ref(e), "expense", Of(e), x.st = "active")
        /\ \A s \in Shares : LET x == db.shares[s] IN
              x.st # "unused" => /\ Books(x, << "share", x.no >>, "share", << "share", s >>, x.st = "live")
                                 /\ x.st = "live" => db.partners[x.partner] = "live"

=============================================================================
