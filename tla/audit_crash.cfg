\* Crashes, shutdowns, failed statements and compactions, deleted logs, a dropped table; two lives.
SPECIFICATION Spec
CONSTANTS
    e1 = e1
    e2 = e2
    e3 = e3
    w1 = w1
    w2 = w2
    Entries = {e1, e2, e3}
    Callers = {"c1", "c2"}
    Workers = {w1}
    Months = {1}
    MonthOf <- OneMonth
    Ahead = {1}
    QueueCapacity = 1
    BatchSize = 2
    Faults = {"db", "compact", "crash"}
    Events = {"delete", "drop", "shutdown"}
    MaxStarts = 2
    MaxDrops = 1
INVARIANTS Durable
PROPERTIES TrailSpec
CHECK_DEADLOCK FALSE
