-------------------------- MODULE DailyProfitJobs --------------------------
(***************************************************************************)
(* The daily profit worker: requests to recompute a range of days share a  *)
(* ticket while one is pending, go through a bounded queue to the worker,  *)
(* or run on their own when the queue is full; the worker also sweeps all  *)
(* materialized days.  (controllers/daily_profit_worker.go,                *)
(* ensureDailyProfitCoverage of controllers/daily_profit_report.go)        *)
(*                                                                         *)
(* The books of one user: data[d] counts the changes made to what the row  *)
(* of day d is computed from, rows[d] is the count its row was computed    *)
(* from.                                                                   *)
(***************************************************************************)
EXTENDS Integers, Sequences

CONSTANTS
    Handlers,       \* HTTP requests under way
    Today,          \* days are numbered 1 to Today
    Ranges,         \* sets of days asked for
    None,
    Capacity,       \* of the job queue
    MaxRequests,    \* bound: requests, and so tickets
    MaxChanges,     \* bound: changes to the data of a day
    MaxFailures     \* bound: recomputes that fail or panic

Days    == 1 .. Today
Tickets == 1 .. MaxRequests

ASSUME DailyProfitAssumption ==
    /\ Today \in Nat \ {0} /\ Ranges \subseteq SUBSET Days
    /\ None \notin Tickets
    /\ Capacity \in Nat \ {0}
    /\ MaxRequests \in Nat /\ MaxChanges \in Nat /\ MaxFailures \in Nat

VARIABLES
    data,       \* changes to each day
    rows,       \* the materialized rows
    pend,       \* dailyProfitPend: the ticket pending for each range
    queue,      \* dailyProfitJobCh
    job,        \* the job of each ticket
    worker,     \* the scheduler goroutine
    handler,    \* where each handler is
    requests,   \* requests so far
    failures    \* failures so far

vars == << data, rows, pend, queue, job, worker, handler, requests, failures >>

Missing == -1
Idle    == [at |-> "idle"]
Polling == [at |-> "poll"]

Init ==
    /\ data = [d \in Days |-> 0]
    /\ rows = [d \in Days |-> Missing]
    /\ pend = [r \in Ranges |-> None]
    /\ queue = << >>
    /\ job = [t \in Tickets |-> [at |-> "none"]]
    /\ worker = Polling
    /\ handler = [h \in Handlers |-> Idle]
    /\ requests = 0 /\ failures = 0

Change(d) ==
    /\ data[d] < MaxChanges
    /\ data' = [data EXCEPT ![d] = @ + 1]
    /\ UNCHANGED << rows, pend, queue, job, worker, handler, requests, failures >>

-----------------------------------------------------------------------------
(* Handlers *)

Begin(h, r) ==
    /\ handler[h] = Idle /\ requests < MaxRequests
    /\ requests' = requests + 1
    /\ handler' = [handler EXCEPT
                     ![h] = [at |-> "schedule", range |-> r, ticket |-> requests + 1,
                             asked |-> data]]
    /\ UNCHANGED << data, rows, pend, queue, job, worker, failures >>

RefreshDailyProfitReport(h) == \E r \in Ranges : Begin(h, r)

\* A report asks only when the row of some day is missing.
EnsureCoverage(h) == \E r \in {s \in Ranges : \E d \in s : rows[d] = Missing} : Begin(h, r)

Go(h, at, ticket) ==
    handler' = [handler EXCEPT
                  ![h] = [at |-> at, range |-> handler[h].range, ticket |-> ticket,
                          asked |-> handler[h].asked]]

Schedule_Unshared(h) ==
    LET r == handler[h].range
        t == handler[h].ticket
    IN  /\ handler[h].at = "schedule"
        /\ pend' = [pend EXCEPT ![r] = t]
        /\ job'  = [job EXCEPT ![t] = [at |-> "new", range |-> r]]
        /\ Go(h, "send", t)
        /\ UNCHANGED << data, rows, queue, worker, requests, failures >>

\* scheduleDailyProfitRecompute holding dailyProfitMu: join, or make a ticket.
Schedule(h) ==
    LET r == handler[h].range
        t == handler[h].ticket
    IN  /\ handler[h].at = "schedule"
        /\ \/ /\ pend[r] # None
              /\ Go(h, "wait", pend[r])
              /\ UNCHANGED << pend, job >>
           \/ /\ pend[r] = None
              /\ pend' = [pend EXCEPT ![r] = t]
              /\ job'  = [job EXCEPT ![t] = [at |-> "new", range |-> r]]
              /\ Go(h, "send", t)
        /\ UNCHANGED << data, rows, queue, worker, requests, failures >>

Step(t, record) == job' = [job EXCEPT ![t] = record]
Advance(t, at)  == Step(t, [at |-> at, range |-> job[t].range])

Enqueue_Overfull(t) ==
    /\ Len(queue) <= Capacity
    /\ queue' = Append(queue, t)
    /\ Advance(t, "queued")

Enqueue(t) ==
    /\ Len(queue) < Capacity
    /\ queue' = Append(queue, t)
    /\ Advance(t, "queued")

Send_FullWaits(h) ==
    /\ handler[h].at = "send"
    /\ \/ Enqueue(handler[h].ticket)
       \/ Len(queue) >= Capacity /\ UNCHANGED << queue, job >>
    /\ Go(h, "wait", handler[h].ticket)
    /\ UNCHANGED << data, rows, pend, worker, requests, failures >>

\* ... and after it: a full queue makes the job run in a goroutine of its own.
Send(h) ==
    /\ handler[h].at = "send"
    /\ LET t == handler[h].ticket
       IN  \/ Enqueue(t)
           \/ /\ Len(queue) >= Capacity
              /\ Advance(t, "read")
              /\ UNCHANGED queue
    /\ Go(h, "wait", handler[h].ticket)
    /\ UNCHANGED << data, rows, pend, worker, requests, failures >>

Leave(h) ==
    /\ handler' = [handler EXCEPT ![h] = Idle]
    /\ UNCHANGED << data, rows, pend, queue, job, worker, requests, failures >>

\* waitDailyProfitTicket: the ticket is closed, or the wait is over.
Answer(h)  == handler[h].at = "wait" /\ job[handler[h].ticket].at = "done" /\ Leave(h)
Timeout(h) == handler[h].at = "wait" /\ Leave(h)

-----------------------------------------------------------------------------
(* recomputeDailyProfitRange and finishDailyProfitJob *)

Written(seen) == [d \in Days |-> IF d \in DOMAIN seen THEN seen[d] ELSE rows[d]]
Seen(S)       == [d \in S |-> data[d]]
Fails         == failures < MaxFailures /\ failures' = failures + 1

\* The transaction reads ...
Read(t) ==
    /\ job[t].at = "read"
    /\ Step(t, [at |-> "write", range |-> job[t].range, seen |-> Seen(job[t].range)])
    /\ UNCHANGED << data, rows, pend, queue, worker, handler, requests, failures >>

\* ... and writes, or it fails, or panics.
Write(t) ==
    /\ job[t].at = "write"
    /\ \/ /\ rows' = Written(job[t].seen) /\ UNCHANGED failures
          /\ Step(t, [at |-> "clear", range |-> job[t].range, failed |-> FALSE])
       \/ /\ Fails /\ UNCHANGED rows
          /\ Step(t, [at |-> "clear", range |-> job[t].range, failed |-> TRUE])
    /\ UNCHANGED << data, pend, queue, worker, handler, requests >>

\* The deferred clean-up: the pending entry goes, then the ticket is closed.
Clear(t) ==
    /\ job[t].at = "clear"
    /\ pend' = [pend EXCEPT ![job[t].range] = None]
    /\ Step(t, [at |-> "close", failed |-> job[t].failed])
    /\ UNCHANGED << data, rows, queue, worker, handler, requests, failures >>

Close(t) ==
    /\ job[t].at = "close"
    /\ Step(t, [at |-> "done", failed |-> job[t].failed])
    /\ worker' = IF worker = [at |-> "job", ticket |-> t] THEN Polling ELSE worker
    /\ UNCHANGED << data, rows, pend, queue, handler, requests, failures >>

JobStep(t) == Read(t) \/ Write(t) \/ Clear(t) \/ Close(t)

-----------------------------------------------------------------------------
(* The scheduler goroutine *)

TakeJob ==
    /\ worker.at \in {"poll", "block"} /\ queue # << >>
    /\ worker' = [at |-> "job", ticket |-> Head(queue)]
    /\ Advance(Head(queue), "read")
    /\ queue' = Tail(queue)
    /\ UNCHANGED << data, rows, pend, handler, requests, failures >>

\* No job was there at the first select: the second waits for one or a tick.
FindNoJob ==
    /\ worker.at = "poll" /\ queue = << >>
    /\ worker' = [at |-> "block"]
    /\ UNCHANGED << data, rows, pend, queue, job, handler, requests, failures >>

From(later) == IF later = {} THEN {Today} ELSE later

Tracked_FromSecond == From({d \in Days : \E e \in 1 .. d - 1 : rows[e] # Missing})

\* sweepDailyProfitEntries: from the earliest row, or today, through today.
Tracked == From({d \in Days : \E e \in 1 .. d : rows[e] # Missing})

SweepRead ==
    /\ worker.at = "block"
    /\ worker' = [at |-> "sweep", seen |-> Seen(Tracked)]
    /\ UNCHANGED << data, rows, pend, queue, job, handler, requests, failures >>

\* A failure is logged, a panic recovered.
SweepWrite ==
    /\ worker.at = "sweep"
    /\ \/ rows' = Written(worker.seen) /\ UNCHANGED failures
       \/ Fails /\ UNCHANGED rows
    /\ worker' = Polling
    /\ UNCHANGED << data, pend, queue, job, handler, requests >>

WorkerStep == TakeJob \/ FindNoJob \/ SweepRead \/ SweepWrite

HandlerStep(h) ==
    \/ RefreshDailyProfitReport(h) \/ EnsureCoverage(h)
    \/ Schedule(h) \/ Send(h) \/ Answer(h) \/ Timeout(h)

Next ==
    \/ \E d \in Days : Change(d)
    \/ \E h \in Handlers : HandlerStep(h)
    \/ \E t \in Tickets : JobStep(t)
    \/ WorkerStep

Spec == Init /\ [][Next]_vars

\* Goroutines that can run do; the ticker ticks, and a select with a tick and
\* no job takes it.
Fairness ==
    /\ \A h \in Handlers : WF_vars(Schedule(h) \/ Send(h))
    /\ \A t \in Tickets : WF_vars(JobStep(t))
    /\ WF_vars(WorkerStep)

FairSpec == Spec /\ Fairness

-----------------------------------------------------------------------------
(* Properties *)

Unfinished == {"new", "queued", "read", "write", "clear"}

Count == 0 .. MaxChanges

JobType ==
    [at : {"none"}] \cup [at : {"new", "queued", "read"}, range : Ranges]
    \cup [at : {"write"}, range : Ranges, seen : UNION {[r -> Count] : r \in Ranges}]
    \cup [at : {"clear"}, range : Ranges, failed : BOOLEAN]
    \cup [at : {"close", "done"}, failed : BOOLEAN]

WorkerType ==
    [at : {"poll", "block"}] \cup [at : {"job"}, ticket : Tickets]
    \cup [at : {"sweep"}, seen : UNION {[S -> Count] : S \in SUBSET Days}]

HandlerType ==
    [at : {"idle"}]
    \cup [at : {"schedule", "send", "wait"}, range : Ranges, ticket : Tickets,
          asked : [Days -> Count]]

\* Types of the variables; the queue never holds more than its capacity.
TypeOK ==
    /\ data \in [Days -> Count]
    /\ rows \in [Days -> Count \cup {Missing}]
    /\ pend \in [Ranges -> Tickets \cup {None}]
    /\ queue \in Seq(Tickets) /\ Len(queue) <= Capacity
    /\ job \in [Tickets -> JobType]
    /\ worker \in WorkerType
    /\ handler \in [Handlers -> HandlerType]
    /\ requests \in 0 .. MaxRequests

\* "Identical pending requests share one job" (daily_profit_worker.go:86-90):
\* a job that is not over is the one its range's pending entry names, so no
\* range has two, and no pending entry outlives its job.
OneJobPerRange ==
    /\ \A t \in Tickets : job[t].at \in Unfinished => pend[job[t].range] = t
    /\ \A r \in Ranges : pend[r] # None => job[pend[r]].at \in Unfinished
                                            /\ job[pend[r]].range = r

\* "So callers never get stuck" (daily_profit_worker.go:88-89): every job that
\* was made wakes its waiters, with a full queue, a failure or a panic too.
JobsEnd == \A t \in Tickets : job[t].at = "new" ~> job[t].at = "done"

\* Once the data rest, the sweep brings every materialized row up to date
\* ("the cron sweep keeps them current", daily_profit_report.go:527-530).
Current == \A d \in Days : rows[d] # Missing => rows[d] = data[d]

RowsCatchUp == <>[]Current

\* A refresh answers with "the fresh rows" (daily_profit_worker.go:345-346):
\* one that was woken by a job that succeeded counts every change made before
\* it was asked for.
FreshAnswer ==
    [][\A h \in Handlers :
         Answer(h) /\ ~ job[handler[h].ticket].failed =>
             \A d \in handler[h].range : rows[d] >= handler[h].asked[d]]_vars
=============================================================================
