\* Every payment method, split payments, drafts and due dates; one request at a time.
SPECIFICATION Spec
CONSTANTS
    c1 = c1
    c2 = c2
    i1 = i1
    i2 = i2
    q1 = q1
    q2 = q2
    None = None
    Clients = {c1}
    Parties = {q1}
    Invoices = {i1}
    Modes = {"cash", "bank", "initial_investment"}
    Totals = {2}
    Amounts = {1, 2}
    SplitInputs <- SplitsOrNone
    Statuses = {"draft", "sent"}
    Lates = {FALSE, TRUE}
    Ops = {"create_invoice", "update_invoice", "patch_status", "cancel_payment", "sync_overdue"}
    Habits = {}
    Faults = FALSE
    MaxOwed = 10
    MaxPay = 3
INVARIANTS PaymentsExact
CHECK_DEADLOCK FALSE
