\* One request at a time, one invoice that moves between two parties.
SPECIFICATION Spec
CONSTANTS
    c1 = c1
    c2 = c2
    i1 = i1
    i2 = i2
    q1 = q1
    q2 = q2
    None = None
    Clients = {c1}
    Parties = {q1, q2}
    Invoices = {i1}
    Modes = {"bank"}
    Totals = {1, 2}
    Amounts = {1}
    SplitInputs <- NoSplits
    Statuses = {"sent", "paid", "cancelled"}
    Lates = {FALSE}
    Ops = {"create_invoice", "update_invoice", "patch_status", "delete_invoice", "create_payment", "delete_payment", "cancel_payment"}
    Habits = {}
    Faults = FALSE
    MaxOwed = 10
    MaxPay = 3
INVARIANTS BooksExact PartyBalanced PaidExact
CHECK_DEADLOCK FALSE
