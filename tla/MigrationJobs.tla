--------------------------- MODULE MigrationJobs ---------------------------
(***************************************************************************)
(* Imports that run in the background: a job is a row of migration_jobs, a *)
(* live copy in memory that its worker updates, and a registry of the live *)
(* copies that status requests look into before they read the row.         *)
(* (services/migration_jobs.go)                                            *)
(***************************************************************************)
EXTENDS Integers

CONSTANTS
    Jobs,           \* job ids; all are one user's
    Clients,        \* requests under way
    Rows,           \* rows of an import
    MaxFaults       \* bound: statements that fail and restarts of the server

ASSUME MigrationAssumption == Rows \in Nat /\ MaxFaults \in Nat

VARIABLES
    table,      \* the migration_jobs table
    live,       \* the liveJob of each job
    registry,   \* the jobs in liveJobs
    runner,     \* where the worker of each job is
    client,     \* where each request is
    seen,       \* what GetMigrationJob last told each client of each job
    faults      \* faults so far

migrationVars == << table, live, registry, runner, client, seen, faults >>

NoJob     == [status |-> "none", row |-> 0]
Queued    == [status |-> "queued", row |-> 0]
NoRequest == [at |-> "idle"]
Ended     == {"completed", "failed"}

MigrationInit ==
    /\ table = [j \in Jobs |-> NoJob]
    /\ live = [j \in Jobs |-> NoJob]
    /\ registry = {}
    /\ runner = [j \in Jobs |-> "none"]
    /\ client = [c \in Clients |-> NoRequest]
    /\ seen = [c \in Clients |-> [j \in Jobs |-> NoJob]]
    /\ faults = 0

Fault == faults < MaxFaults /\ faults' = faults + 1

-----------------------------------------------------------------------------
(* EnqueueMigrationJob *)

\* A row that cannot be created ends the request.
Create(c, j) ==
    /\ client[c] = NoRequest /\ table[j] = NoJob
    /\ table' = [table EXCEPT ![j] = Queued]
    /\ client' = [client EXCEPT ![c] = [at |-> "register", job |-> j]]
    /\ UNCHANGED << live, registry, runner, seen, faults >>

\* storeLive, and the goroutine is started.
Register(c) ==
    /\ client[c].at = "register"
    /\ LET j == client[c].job
       IN  /\ live' = [live EXCEPT ![j] = Queued]
           /\ registry' = registry \cup {j}
           /\ runner' = [runner EXCEPT ![j] = "start"]
    /\ client' = [client EXCEPT ![c] = NoRequest]
    /\ UNCHANGED << table, seen, faults >>

-----------------------------------------------------------------------------
(* runMigrationJob *)

Update(j, status, row) == live' = [live EXCEPT ![j] = [status |-> status, row |-> row]]
Goto(j, at)            == runner' = [runner EXCEPT ![j] = at]
Server                 == UNCHANGED << client, seen >>

\* Each "save" step is a persistJob, which ignores an error.
Persist(j) ==
    \/ table' = [table EXCEPT ![j] = live[j]] /\ UNCHANGED faults
    \/ Fault /\ UNCHANGED table

MarkRunning(j) ==
    /\ runner[j] = "start"
    /\ Update(j, "running", 0) /\ Goto(j, "save_start")
    /\ UNCHANGED << table, registry, faults >> /\ Server

SaveStart(j) ==
    /\ runner[j] = "save_start"
    /\ Persist(j) /\ Goto(j, "run")
    /\ UNCHANGED << live, registry >> /\ Server

Progress_OneTooMany(j) ==
    /\ runner[j] = "run"
    /\ \E row \in live[j].row + 1 .. Rows + 1 : Update(j, "running", row)
    /\ \E next \in {"run", "save_run"} : Goto(j, next)
    /\ UNCHANGED << table, registry, faults >> /\ Server

\* The runner has got to a row; at most one such state a second is saved.
Progress(j) ==
    /\ runner[j] = "run"
    /\ \E row \in live[j].row + 1 .. Rows : Update(j, "running", row)
    /\ \E next \in {"run", "save_run"} : Goto(j, next)
    /\ UNCHANGED << table, registry, faults >> /\ Server

SaveProgress(j) ==
    /\ runner[j] = "save_run"
    /\ Persist(j) /\ Goto(j, "run")
    /\ UNCHANGED << live, registry >> /\ Server

Finish_SavedFirst(j) ==
    /\ runner[j] = "run"
    /\ \E status \in Ended :
         table' = [table EXCEPT ![j] = [status |-> status, row |-> live[j].row]]
    /\ Goto(j, "save_end")
    /\ UNCHANGED << live, registry, faults >> /\ Server

Finish_DropsFirst(j) ==
    /\ runner[j] = "run"
    /\ \E status \in Ended : Update(j, status, live[j].row)
    /\ Goto(j, "save_end") /\ registry' = registry \ {j}
    /\ UNCHANGED << table, faults >> /\ Server

\* The runner returns, and the row shown becomes the total it has reported, or
\* it panics, and the deferred recover marks the job failed where it is.
Finish(j) ==
    /\ runner[j] = "run"
    /\ \/ \E status \in Ended :
            Update(j, status, IF live[j].row = 0 THEN 0 ELSE Rows)
       \/ Update(j, "failed", live[j].row)
    /\ Goto(j, "save_end")
    /\ UNCHANGED << table, registry, faults >> /\ Server

SaveEnd_NotSaved(j) ==
    /\ runner[j] = "save_end"
    /\ Goto(j, "drop")
    /\ UNCHANGED << table, live, registry, faults >> /\ Server

SaveEnd(j) ==
    /\ runner[j] = "save_end"
    /\ Persist(j) /\ Goto(j, "drop")
    /\ UNCHANGED << live, registry >> /\ Server

DropLive(j) ==
    /\ runner[j] = "drop"
    /\ registry' = registry \ {j} /\ Goto(j, "done")
    /\ UNCHANGED << table, live, faults >> /\ Server

Work(j) ==
    \/ MarkRunning(j) \/ SaveStart(j) \/ Progress(j) \/ SaveProgress(j)
    \/ Finish(j) \/ SaveEnd(j) \/ DropLive(j)

-----------------------------------------------------------------------------
(* Status requests *)

System == UNCHANGED << table, live, registry, runner, faults >>

\* GetMigrationJob of a job the client has heard of: a live job is copied, any
\* other is read from the table.
Lookup(c, j) ==
    /\ client[c] = NoRequest /\ table[j] # NoJob
    /\ client' = [client EXCEPT
                    ![c] = [at |-> IF j \in registry THEN "copy" ELSE "query", job |-> j]]
    /\ UNCHANGED seen /\ System

Tell(c, state) ==
    /\ seen' = [seen EXCEPT ![c] = [@ EXCEPT ![client[c].job] = state]]
    /\ client' = [client EXCEPT ![c] = NoRequest]

Copy(c)  == client[c].at = "copy"  /\ Tell(c, live[client[c].job])  /\ System
Query(c) == client[c].at = "query" /\ Tell(c, table[client[c].job]) /\ System

\* ListMigrationJobs: the rows are read ...
ReadList(c) ==
    /\ client[c].at \in {"idle", "listed"}
    /\ client' = [client EXCEPT ![c] = [at |-> "overlay", read |-> table]]
    /\ UNCHANGED seen /\ System

\* ... and those of live jobs replaced.
Overlay(c) ==
    /\ client[c].at = "overlay"
    /\ LET read == client[c].read
       IN  client' = [client EXCEPT
                        ![c] = [at |-> "listed", read |-> read,
                                list |-> [j \in Jobs |->
                                            IF j \in registry /\ read[j] # NoJob
                                            THEN live[j] ELSE read[j]]]]
    /\ UNCHANGED seen /\ System

ReturnList(c) ==
    /\ client[c].at = "listed"
    /\ client' = [client EXCEPT ![c] = NoRequest]
    /\ UNCHANGED seen /\ System

Serve(c) ==
    \/ \E j \in Jobs : Create(c, j) \/ Lookup(c, j)
    \/ Register(c) \/ Copy(c) \/ Query(c) \/ ReadList(c) \/ Overlay(c) \/ ReturnList(c)

\* The server dies and is started again; nothing resumes a job.
Restart ==
    /\ Fault
    /\ registry' = {}
    /\ runner' = [j \in Jobs |-> "none"]
    /\ client' = [c \in Clients |-> NoRequest]
    /\ UNCHANGED << table, live, seen >>

MigrationNext ==
    \/ \E c \in Clients : Serve(c)
    \/ \E j \in Jobs : Work(j)
    \/ Restart

MigrationSpec == MigrationInit /\ [][MigrationNext]_migrationVars

\* A runner ends, and so does a request to enqueue.
MigrationFairness ==
    /\ \A j \in Jobs : WF_migrationVars(Work(j))
    /\ \A c \in Clients : WF_migrationVars(Register(c))

FairMigrationSpec == MigrationSpec /\ MigrationFairness

-----------------------------------------------------------------------------
(* Properties *)

State     == [status : {"none", "queued", "running"} \cup Ended, row : 0 .. Rows]
ClientType ==
    [at : {"idle"}] \cup [at : {"register", "copy", "query"}, job : Jobs]
    \cup [at : {"overlay"}, read : [Jobs -> State]]
    \cup [at : {"listed"}, read : [Jobs -> State], list : [Jobs -> State]]

\* Types of the variables.
MigrationTypeOK ==
    /\ table \in [Jobs -> State] /\ live \in [Jobs -> State]
    /\ registry \subseteq Jobs
    /\ runner \in [Jobs -> {"none", "start", "save_start", "run", "save_run", "save_end",
                            "drop", "done"}]
    /\ client \in [Clients -> ClientType]
    /\ seen \in [Clients -> [Jobs -> State]]
    /\ faults \in 0 .. MaxFaults

Order   == [none |-> 0, queued |-> 1, running |-> 2, completed |-> 3, failed |-> 3]
Rank(s) == Order[s.status]

\* s is where a job can be once it has been at r.
Reaches(r, s) ==
    /\ Rank(r) <= Rank(s) /\ r.row <= s.row
    /\ r.status \in Ended => s = r

\* The live state "may be ahead of the DB" (migration_jobs.go:245-247), never
\* behind, so that the overlay of a list takes no job back.
ListNotBehind ==
    \A c \in Clients : client[c].at = "listed" =>
        \A j \in Jobs : Reaches(client[c].read[j], client[c].list[j])

\* A client that polls a job never sees it go back, as long as no statement has
\* failed and the server has not been restarted: not when the worker drops the
\* live job between the two lookups either (migration_jobs.go:82-90, 249-263).
PollsForward ==
    [][faults' = 0 => \A c \in Clients, j \in Jobs : Reaches(seen[c][j], seen'[c][j])]_migrationVars

\* A job that was accepted ends in the table, unless a fault took place.
JobsFinish == \A j \in Jobs : table[j].status = "queued" ~>
                                 (table[j].status \in Ended \/ faults > 0)

\* "The final state is persisted to the DB before dropLive is called"
\* (migration_jobs.go:82-84).
FinalPersisted == \A j \in Jobs : runner[j] = "done" => table[j].status \in Ended
=============================================================================
