\* One job, two clients that enqueue, poll and list, and one fault.
SPECIFICATION FairMigrationSpec
CONSTANTS
    Jobs = {"j1"}
    Clients = {"c1", "c2"}
    Rows = 2
    MaxFaults = 1
INVARIANTS ListNotBehind
PROPERTIES PollsForward JobsFinish
