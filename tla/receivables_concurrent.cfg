\* Two requests at once, any of which may fail or die at any step.
SPECIFICATION Spec
CONSTANTS
    c1 = c1
    c2 = c2
    i1 = i1
    i2 = i2
    q1 = q1
    q2 = q2
    None = None
    Clients = {c1, c2}
    Parties = {q1}
    Invoices = {i1}
    Modes = {"bank"}
    Totals = {1}
    Amounts = {1}
    SplitInputs <- NoSplits
    Statuses = {"sent", "cancelled"}
    Lates = {FALSE}
    Ops = {"create_invoice", "update_invoice", "patch_status", "cancel_payment", "delete_payment", "delete_invoice"}
    Habits = {}
    Faults = TRUE
    MaxOwed = 1
    MaxPay = 2
INVARIANTS JournalsExact BankMatchesRows
CHECK_DEADLOCK FALSE
SYMMETRY TwoClients
