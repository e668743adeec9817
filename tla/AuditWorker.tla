---------------------------- MODULE AuditWorker ----------------------------
(***************************************************************************)
(* How long an entry may wait in the batch of one queue worker.  Time      *)
(* passes in ticks; the timer is restarted after every event that leaves   *)
(* the batch non-empty.  (services/audit/queue.go, worker)                 *)
(***************************************************************************)
EXTENDS Integers

CONSTANTS
    BatchLimit,     \* the size at which a batch is written
    FlushInterval   \* in ticks

ASSUME WorkerAssumption == BatchLimit \in Nat \ {0} /\ FlushInterval \in Nat \ {0}

VARIABLES
    batch,  \* entries in the batch
    age,    \* ticks since the first of them came
    timer   \* ticks until the timer fires, or Stopped

workerVars == << batch, age, timer >>

Stopped == -1

WorkerInit == batch = 0 /\ age = 0 /\ timer = Stopped

\* A full batch is written, and the timer left as it is.
TakeEntry_ExtraEntry ==
    IF batch >= BatchLimit
    THEN batch' = 0 /\ age' = 0 /\ UNCHANGED timer
    ELSE batch' = batch + 1 /\ timer' = FlushInterval /\ UNCHANGED age

TakeEntry ==
    IF batch + 1 >= BatchLimit
    THEN batch' = 0 /\ age' = 0 /\ UNCHANGED timer
    ELSE batch' = batch + 1 /\ timer' = FlushInterval /\ UNCHANGED age

TimerFires ==
    /\ timer = 0
    /\ batch' = 0 /\ age' = 0 /\ timer' = Stopped

\* A timer that has fired is served before more time passes.
Tick ==
    /\ timer # 0
    /\ timer' = IF timer = Stopped THEN Stopped ELSE timer - 1
    /\ age'   = IF batch = 0 THEN 0 ELSE age + 1
    /\ UNCHANGED batch

WorkerNext == TakeEntry \/ TimerFires \/ Tick

WorkerSpec == WorkerInit /\ [][WorkerNext]_workerVars

-----------------------------------------------------------------------------

\* "How long a partial batch may linger" (queue.go:20-21): flushInterval.
LingerBounded == age <= FlushInterval

\* What the worker does guarantee: every entry but the one that fills the
\* batch may put its writing off by one interval more.
LingerAtMost == age <= (BatchLimit - 1) * FlushInterval
=============================================================================
