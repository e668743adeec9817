\* One request at a time over one invoice, one bill and two batches.
SPECIFICATION Spec
CONSTANTS
    o1 = o1
    o2 = o2
    i1 = i1
    b1 = b1
    r1 = r1
    r2 = r2
    None = None
    Requests = {r1}
    Outlets = {o1, o2}
    DefaultOutlet = o1
    Batches = {1}
    Batching = TRUE
    Invoices = {i1}
    Bills = {b1}
    Quantities = {1}
    Targets = {0, 2}
    Ops = {"create_entry", "bulk", "edit", "approve", "reject", "reserve", "release", "invoice", "update_invoice", "patch", "delete_invoice", "bills"}
    Signed = TRUE
    DraftPatches = FALSE
    Refusable = {"draft"}
    MaxEntries = 2
INVARIANTS RowsExact DocumentsFollow
PROPERTY CheckIsExact
CHECK_DEADLOCK FALSE
