\* One request at a time over one bill that moves between two vendors.
SPECIFICATION Spec
CONSTANTS
    b1 = b1
    b2 = b2
    v1 = v1
    v2 = v2
    n1 = n1
    n2 = n2
    r1 = r1
    r2 = r2
    t1 = t1
    d1 = d1
    Requests = {r1}
    Vendors = {v1, v2}
    Bills = {b1}
    Numbers = {n1, n2}
    Returns = {t1}
    Notes = {d1}
    None = None
    Totals = {1, 2}
    Amounts = {1}
    Discounts = {0}
    Modes = {"bank"}
    Statuses = {"draft", "unpaid", "paid"}
    Ops = {"create_bill", "update_bill", "mark_paid", "delete_bill", "pay_bill", "pay_vendor", "cancel_out", "delete_out", "returns", "process_return", "notes", "issue_note", "cancel_note"}
    PayDrafts = FALSE
    Faults = FALSE
    MaxOuts = 2
    NumbersOf <- AnyNumber
SYMMETRY Alike
INVARIANTS BooksExact VendorBalanced PaidExact
PROPERTY NeverOversettled
CHECK_DEADLOCK FALSE
