\* Two workers, two months, entries replayed and new, and a shutdown at any point.
SPECIFICATION CasesSpec
CONSTANTS
    e1 = e1
    e2 = e2
    e3 = e3
    w1 = w1
    w2 = w2
    Entries = {e1, e2, e3}
    Callers = {"c1"}
    Workers = {w1, w2}
    Months = {1, 2}
    MonthOf <- TwoMonths
    Ahead = {2}
    QueueCapacity = 2
    BatchSize = 2
    Faults = {"crash"}
    Events = {"drop"}
    MaxStarts = 2
    MaxDrops = 1
INVARIANTS CleanShutdown DropCostsNothing
PROPERTIES ShutdownEnds HeldInTheEnd
CHECK_DEADLOCK FALSE
