\* Two requests for overlapping ranges, a queue of one, and one failure.
SPECIFICATION FairSpec
CONSTANTS
    Handlers = {"h1", "h2"}
    Today = 2
    Ranges <- TwoRanges
    None = None
    Capacity = 1
    MaxRequests = 2
    MaxChanges = 1
    MaxFailures = 1
INVARIANTS OneJobPerRange
PROPERTIES JobsEnd RowsCatchUp
