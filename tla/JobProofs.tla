----------------------------- MODULE JobProofs -----------------------------
(***************************************************************************)
(* The background jobs.  Of the daily profit worker: types, and the one    *)
(* job of a range, for any handlers, ranges and queue.  Of the migration   *)
(* jobs: what status requests may answer, for any number of jobs, clients, *)
(* rows and faults.                                                        *)
(***************************************************************************)
EXTENDS DailyProfitJobs, MigrationJobs, SequenceTheorems, FiniteSetTheorems, TLAPS

-----------------------------------------------------------------------------
(* The daily profit worker *)

\* A request has its number to itself until it has a job ...
Unscheduled ==
    \A h \in Handlers :
        /\ handler[h].at \in {"schedule", "send"} => handler[h].ticket <= requests
        /\ handler[h].at = "schedule" => job[handler[h].ticket].at = "none"
        /\ handler[h].at = "send" => job[handler[h].ticket].at = "new"

OwnNumber ==
    \A h, k \in Handlers :
        /\ handler[h].at \in {"schedule", "send"} /\ handler[k].at \in {"schedule", "send"}
        /\ handler[h].ticket = handler[k].ticket
        => h = k

\* ... and numbers not given out have none.
Unused == \A t \in Tickets : t > requests => job[t].at = "none"

\* The queue holds queued jobs, each once.
QueueHolds ==
    /\ \A i \in 1 .. Len(queue) : job[queue[i]].at = "queued"
    /\ \A i, j \in 1 .. Len(queue) : queue[i] = queue[j] => i = j

IInv == TypeOK /\ Unscheduled /\ OwnNumber /\ Unused /\ QueueHolds /\ OneJobPerRange

-----------------------------------------------------------------------------
(* Types *)

\* What a range's transaction reads has the type of a job's data.
LEMMA SeenType ==
    ASSUME TypeOK, NEW S \in SUBSET Days
    PROVE  Seen(S) \in [S -> Count]
  BY DEF Seen, TypeOK

LEMMA WrittenType ==
    ASSUME TypeOK, NEW S \in SUBSET Days, NEW found \in [S -> Count]
    PROVE  Written(found) \in [Days -> Count \cup {Missing}]
  BY DEF Written, TypeOK

LEMMA TrackedDays == Tracked \in SUBSET Days
  BY DailyProfitAssumption DEF Tracked, From, Days, DailyProfitAssumption

LEMMA InitIInv == Init => IInv
  BY DailyProfitAssumption, EmptySeq
     DEF Init, IInv, TypeOK, Unscheduled, OwnNumber, Unused, QueueHolds, OneJobPerRange,
         JobType, WorkerType, HandlerType, Idle, Polling, Unfinished, Count,
         DailyProfitAssumption, Missing

-----------------------------------------------------------------------------
(* Every step keeps the invariant *)

LEMMA ChangeStep ==
    ASSUME IInv, NEW d \in Days, Change(d)
    PROVE  IInv'
  <1> USE DailyProfitAssumption DEF DailyProfitAssumption, Change, Count
  <1>1. TypeOK' BY DEF IInv, TypeOK, JobType, WorkerType, HandlerType, Idle, Polling
  <1>2. Unscheduled' BY DEF IInv, Unscheduled, Unused, TypeOK, HandlerType, Idle
  <1>3. OwnNumber' BY DEF IInv, OwnNumber, Unscheduled, TypeOK, HandlerType, Idle
  <1>4. Unused' BY DEF IInv, Unused, TypeOK, Tickets
  <1>5. QueueHolds' BY DEF IInv, QueueHolds, TypeOK
  <1>6. OneJobPerRange' BY DEF IInv, OneJobPerRange, TypeOK, JobType, Unfinished
  <1> QED BY <1>1, <1>2, <1>3, <1>4, <1>5, <1>6 DEF IInv

LEMMA BeginStep ==
    ASSUME IInv, NEW h \in Handlers, NEW r \in Ranges, Begin(h, r)
    PROVE  IInv'
  <1> USE DailyProfitAssumption DEF DailyProfitAssumption, Begin, Tickets
  <1>1. TypeOK' BY DEF IInv, TypeOK, JobType, WorkerType, HandlerType, Idle, Polling
  <1>2. Unscheduled' BY DEF IInv, Unscheduled, Unused, TypeOK, HandlerType, Idle
  <1>3. OwnNumber' BY DEF IInv, OwnNumber, Unscheduled, TypeOK, HandlerType, Idle
  <1>4. Unused' BY DEF IInv, Unused, TypeOK, Tickets
  <1>5. QueueHolds' BY DEF IInv, QueueHolds, TypeOK
  <1>6. OneJobPerRange' BY DEF IInv, OneJobPerRange, TypeOK, JobType, Unfinished
  <1> QED BY <1>1, <1>2, <1>3, <1>4, <1>5, <1>6 DEF IInv

\* What a request that is not idle carries.
LEMMA HandlerFacts ==
    ASSUME TypeOK, NEW h \in Handlers, handler[h].at \in {"schedule", "send", "wait"}
    PROVE  /\ handler[h].range \in Ranges /\ handler[h].ticket \in Tickets
           /\ handler[h].asked \in [Days -> Count]
  BY DEF TypeOK, HandlerType

LEMMA ScheduleStep ==
    ASSUME IInv, NEW h \in Handlers, Schedule(h)
    PROVE  IInv'
  <1> DEFINE r == handler[h].range
             t == handler[h].ticket
             Now(at, n) == [at |-> at, range |-> r, ticket |-> n, asked |-> handler[h].asked]
  <1> USE DailyProfitAssumption DEF DailyProfitAssumption
  <1>1. /\ handler[h].at = "schedule" /\ r \in Ranges /\ t \in Tickets
        /\ handler[h].asked \in [Days -> Count]
        /\ t <= requests /\ job[t].at = "none"
    BY HandlerFacts DEF IInv, Schedule, Unscheduled
  <1>2. CASE pend[r] # None
    <2>1. pend[r] \in Tickets BY <1>1, <1>2 DEF IInv, TypeOK
    <2>2. handler' = [handler EXCEPT ![h] = Now("wait", pend[r])] BY <1>2 DEF Schedule, Go
    <2>3. UNCHANGED << data, rows, pend, queue, job, worker, requests, failures >> BY <1>2 DEF Schedule
    <2>4. Now("wait", pend[r]) \in HandlerType BY <1>1, <2>1 DEF HandlerType
    <2> HIDE DEF Now
    <2>5. handler' \in [Handlers -> HandlerType] BY <2>2, <2>4 DEF IInv, TypeOK
    <2>6. \A k \in Handlers : handler'[k] = IF k = h THEN Now("wait", pend[r]) ELSE handler[k]
      BY <2>2 DEF IInv, TypeOK
    <2>7. Now("wait", pend[r]).at = "wait" BY DEF Now
    <2>8. TypeOK' BY <2>3, <2>5 DEF IInv, TypeOK
    <2>9. Unscheduled' /\ OwnNumber' BY <2>3, <2>6, <2>7 DEF IInv, Unscheduled, OwnNumber
    <2>10. Unused' /\ QueueHolds' /\ OneJobPerRange' BY <2>3 DEF IInv, Unused, QueueHolds, OneJobPerRange
    <2> QED BY <2>8, <2>9, <2>10 DEF IInv
  <1>3. CASE pend[r] = None
    <2>1. handler' = [handler EXCEPT ![h] = Now("send", t)] BY <1>3 DEF Schedule, Go
    <2>2. /\ pend' = [pend EXCEPT ![r] = t]
          /\ job' = [job EXCEPT ![t] = [at |-> "new", range |-> r]]
          /\ UNCHANGED << data, rows, queue, worker, requests, failures >>
      BY <1>3 DEF Schedule
    <2>3. Now("send", t) \in HandlerType BY <1>1 DEF HandlerType
    <2>4. [at |-> "new", range |-> r] \in JobType BY <1>1 DEF JobType
    <2>5. /\ Now("send", t).at = "send" /\ Now("send", t).ticket = t OBVIOUS
    <2> HIDE DEF Now
    <2>6. /\ handler' \in [Handlers -> HandlerType]
          /\ \A k \in Handlers : handler'[k] = IF k = h THEN Now("send", t) ELSE handler[k]
      BY <2>1, <2>3 DEF IInv, TypeOK
    <2>7. TypeOK' BY <1>1, <2>2, <2>4, <2>6 DEF IInv, TypeOK
    <2>8. \A u \in Tickets : job'[u] = IF u = t THEN [at |-> "new", range |-> r] ELSE job[u]
      BY <2>2 DEF IInv, TypeOK
    <2>9. OwnNumber' BY <1>1, <2>5, <2>6 DEF IInv, OwnNumber
    <2>10. Unscheduled'
      <3> SUFFICES ASSUME NEW k \in Handlers, k # h, handler[k].at \in {"schedule", "send"}
                   PROVE  handler[k].ticket \in Tickets /\ handler[k].ticket # t
        BY <1>1, <2>2, <2>5, <2>6, <2>8 DEF IInv, Unscheduled
      <3> QED BY <1>1, HandlerFacts DEF IInv, OwnNumber
    <2>11. Unused' BY <1>1, <2>2, <2>8 DEF IInv, Unused, TypeOK, Tickets
    <2>12. QueueHolds'
      <3>1. \A i \in 1 .. Len(queue) : queue[i] \in Tickets /\ queue[i] # t BY <1>1 DEF IInv, QueueHolds, TypeOK
      <3> QED BY <2>2, <2>8, <3>1 DEF IInv, QueueHolds
    <2>13. OneJobPerRange' BY <1>1, <1>3, <2>2, <2>8 DEF IInv, TypeOK, OneJobPerRange, Unfinished
    <2> QED BY <2>7, <2>9, <2>10, <2>11, <2>12, <2>13 DEF IInv
  <1> QED BY <1>2, <1>3

\* A job goes on, keeping its range.
LEMMA AdvanceFacts ==
    ASSUME TypeOK, NEW t \in Tickets, NEW at \in {"queued", "read"}, Advance(t, at),
           job[t].at \in {"new", "queued"}
    PROVE  /\ job' \in [Tickets -> JobType]
           /\ \A u \in Tickets :
                job'[u] = IF u = t THEN [at |-> at, range |-> job[t].range] ELSE job[u]
  BY DEF TypeOK, JobType, Advance, Step

LEMMA SendStep ==
    ASSUME IInv, NEW h \in Handlers, Send(h)
    PROVE  IInv'
  <1> DEFINE t == handler[h].ticket
             now == [at |-> "wait", range |-> handler[h].range, ticket |-> t,
                     asked |-> handler[h].asked]
  <1> USE DailyProfitAssumption DEF DailyProfitAssumption
  <1>1. /\ handler[h].at = "send" /\ t \in Tickets /\ t <= requests /\ job[t].at = "new"
        /\ now \in HandlerType
    BY HandlerFacts DEF IInv, Send, Unscheduled, HandlerType
  <1>2. handler' = [handler EXCEPT ![h] = now] BY DEF Send, Go
  <1>3. now.at = "wait" OBVIOUS
  <1> HIDE DEF now
  <1>4. /\ handler' \in [Handlers -> HandlerType]
        /\ \A k \in Handlers : handler'[k] = IF k = h THEN now ELSE handler[k]
    BY <1>1, <1>2 DEF IInv, TypeOK
  <1>5. UNCHANGED << data, rows, pend, worker, requests, failures >> BY DEF Send
  <1>6. PICK at \in {"queued", "read"} : Advance(t, at) BY DEF Send, Enqueue
  <1>7. /\ job' \in [Tickets -> JobType]
        /\ \A u \in Tickets :
             job'[u] = IF u = t THEN [at |-> at, range |-> job[t].range] ELSE job[u]
    BY <1>1, <1>6, AdvanceFacts DEF IInv
  <1>8. \/ Len(queue) < Capacity /\ queue' = Append(queue, t) /\ job'[t].at = "queued"
        \/ queue' = queue
    BY <1>1 DEF Send, Enqueue, Advance, Step, IInv, TypeOK
  <1>9. TypeOK'
    <2>1. queue' \in Seq(Tickets) /\ Len(queue') <= Capacity
      <3>1. queue \in Seq(Tickets) /\ Len(queue) <= Capacity BY DEF IInv, TypeOK
      <3>2. CASE queue' = queue BY <3>1, <3>2
      <3>3. CASE Len(queue) < Capacity /\ queue' = Append(queue, t) BY <1>1, <3>1, <3>3
      <3> QED BY <1>8, <3>2, <3>3
    <2> QED BY <1>4, <1>5, <1>7, <2>1 DEF IInv, TypeOK
  <1>10. Unscheduled'
    <2> SUFFICES ASSUME NEW k \in Handlers, k # h, handler[k].at \in {"schedule", "send"}
                 PROVE  handler[k].ticket \in Tickets /\ handler[k].ticket # t
      BY <1>3, <1>4, <1>5, <1>7 DEF IInv, Unscheduled
    <2> QED BY <1>1, HandlerFacts DEF IInv, OwnNumber
  <1>11. OwnNumber' BY <1>3, <1>4 DEF IInv, OwnNumber
  <1>12. Unused' BY <1>1, <1>5, <1>7 DEF IInv, Unused, TypeOK, Tickets
  <1>13. QueueHolds'
    <2>1. \A i \in 1 .. Len(queue) : queue[i] \in Tickets /\ queue[i] # t BY <1>1 DEF IInv, QueueHolds, TypeOK
    <2>2. CASE queue' = queue BY <1>7, <2>1, <2>2 DEF IInv, QueueHolds
    <2>3. CASE queue' = Append(queue, t) /\ job'[t].at = "queued"
      BY <1>1, <2>3, <1>7, <2>1 DEF IInv, TypeOK, QueueHolds
    <2> QED BY <1>8, <2>2, <2>3
  <1>14. OneJobPerRange' BY <1>1, <1>5, <1>7 DEF IInv, TypeOK, OneJobPerRange, Unfinished
  <1> QED BY <1>9, <1>10, <1>11, <1>12, <1>13, <1>14 DEF IInv

LEMMA LeaveStep ==
    ASSUME IInv, NEW h \in Handlers, Leave(h)
    PROVE  IInv'
  <1> USE DailyProfitAssumption DEF DailyProfitAssumption, Leave
  <1>1. TypeOK' BY DEF IInv, TypeOK, JobType, WorkerType, HandlerType, Idle, Polling
  <1>2. Unscheduled' BY DEF IInv, Unscheduled, TypeOK, HandlerType, Idle
  <1>3. OwnNumber' BY DEF IInv, OwnNumber, Unscheduled, TypeOK, HandlerType, Idle
  <1>4. Unused' BY DEF IInv, Unused, TypeOK, Tickets
  <1>5. QueueHolds' BY DEF IInv, QueueHolds, TypeOK
  <1>6. OneJobPerRange' BY DEF IInv, OneJobPerRange, TypeOK, JobType, Unfinished
  <1> QED BY <1>1, <1>2, <1>3, <1>4, <1>5, <1>6 DEF IInv

LEMMA ReadStep ==
    ASSUME IInv, NEW t \in Tickets, Read(t)
    PROVE  IInv'
  <1> USE DailyProfitAssumption DEF DailyProfitAssumption, Read, Step
  <1>1. TypeOK' BY SeenType DEF IInv, TypeOK, JobType
  <1>2. Unscheduled' BY DEF IInv, Unscheduled, TypeOK, HandlerType, Idle
  <1>3. OwnNumber' BY DEF IInv, OwnNumber, Unscheduled, TypeOK, HandlerType, Idle
  <1>4. Unused' BY DEF IInv, Unused, TypeOK, Tickets
  <1>5. QueueHolds' BY DEF IInv, QueueHolds, TypeOK
  <1>6. OneJobPerRange' BY DEF IInv, OneJobPerRange, TypeOK, JobType, Unfinished
  <1> QED BY <1>1, <1>2, <1>3, <1>4, <1>5, <1>6 DEF IInv

LEMMA WriteStep ==
    ASSUME IInv, NEW t \in Tickets, Write(t)
    PROVE  IInv'
  <1> USE DailyProfitAssumption DEF DailyProfitAssumption, Write, Step, Fails
  <1>1. TypeOK'
    <2>1. /\ job[t].range \in Ranges /\ job[t].range \in SUBSET Days
          /\ \E r \in Ranges : job[t].seen \in [r -> Count]
      BY DEF IInv, TypeOK, JobType
    <2>2. Written(job[t].seen) \in [Days -> Count \cup {Missing}] BY <2>1, WrittenType DEF IInv
    <2>3. rows' \in [Days -> Count \cup {Missing}] BY <2>2 DEF IInv, TypeOK
    <2>4. \A b \in BOOLEAN : [at |-> "clear", range |-> job[t].range, failed |-> b] \in JobType
      BY <2>1 DEF JobType
    <2>5. \E b \in BOOLEAN :
            job' = [job EXCEPT ![t] = [at |-> "clear", range |-> job[t].range, failed |-> b]]
      OBVIOUS
    <2>6. job' \in [Tickets -> JobType] BY <2>4, <2>5 DEF IInv, TypeOK
    <2> QED BY <2>3, <2>6 DEF IInv, TypeOK
  <1>2. /\ job[t].at = "write" /\ job'[t].at = "clear" /\ job'[t].range = job[t].range
        /\ \A u \in Tickets : u # t => job'[u] = job[u]
    BY DEF IInv, TypeOK
  <1>3. UNCHANGED << pend, queue, handler, requests >> OBVIOUS
  <1>4. IInv OBVIOUS
  <1>5. /\ queue \in Seq(Tickets)
        /\ \A r \in Ranges : pend[r] # None => pend[r] \in Tickets
        /\ \A h \in Handlers : handler[h].at \in {"schedule", "send"} =>
               handler[h].ticket \in Tickets
    BY DEF IInv, TypeOK, HandlerType
  <1> HIDE DEF Write, Step, Fails
  <1>6. Unscheduled' BY <1>2, <1>3, <1>4, <1>5 DEF IInv, Unscheduled
  <1>7. OwnNumber' BY <1>3, <1>4 DEF IInv, OwnNumber
  <1>8. Unused' BY <1>2, <1>3, <1>4 DEF IInv, Unused
  <1>9. QueueHolds' BY <1>3, <1>4, <1>5, <1>2 DEF IInv, QueueHolds
  <1>10. OneJobPerRange' BY <1>2, <1>3, <1>4, <1>5 DEF IInv, OneJobPerRange, Unfinished
  <1> QED BY <1>1, <1>6, <1>7, <1>8, <1>9, <1>10 DEF IInv

LEMMA ClearStep ==
    ASSUME IInv, NEW t \in Tickets, Clear(t)
    PROVE  IInv'
  <1> USE DailyProfitAssumption DEF DailyProfitAssumption, Clear, Step
  <1>1. TypeOK' BY DEF IInv, TypeOK, JobType, WorkerType, HandlerType, Idle, Polling
  <1>2. Unscheduled' BY DEF IInv, Unscheduled, TypeOK, HandlerType, Idle
  <1>3. OwnNumber' BY DEF IInv, OwnNumber, Unscheduled, TypeOK, HandlerType, Idle
  <1>4. Unused' BY DEF IInv, Unused, TypeOK, Tickets
  <1>5. QueueHolds' BY DEF IInv, QueueHolds, TypeOK
  <1>6. OneJobPerRange' BY DEF IInv, OneJobPerRange, TypeOK, JobType, Unfinished
  <1> QED BY <1>1, <1>2, <1>3, <1>4, <1>5, <1>6 DEF IInv

LEMMA CloseStep ==
    ASSUME IInv, NEW t \in Tickets, Close(t)
    PROVE  IInv'
  <1> USE DailyProfitAssumption DEF DailyProfitAssumption, Close, Step
  <1>1. TypeOK' BY DEF IInv, TypeOK, JobType, WorkerType, HandlerType, Idle, Polling
  <1>2. Unscheduled' BY DEF IInv, Unscheduled, TypeOK, HandlerType, Idle
  <1>3. OwnNumber' BY DEF IInv, OwnNumber, Unscheduled, TypeOK, HandlerType, Idle
  <1>4. Unused' BY DEF IInv, Unused, TypeOK, Tickets
  <1>5. QueueHolds' BY DEF IInv, QueueHolds, TypeOK
  <1>6. OneJobPerRange' BY DEF IInv, OneJobPerRange, TypeOK, JobType, Unfinished
  <1> QED BY <1>1, <1>2, <1>3, <1>4, <1>5, <1>6 DEF IInv

LEMMA TakeJobStep ==
    ASSUME IInv, TakeJob
    PROVE  IInv'
  <1> DEFINE t == Head(queue)
  <1> USE DailyProfitAssumption DEF DailyProfitAssumption
  <1>1. /\ queue # << >> /\ Advance(t, "read") /\ queue' = Tail(queue)
        /\ worker' = [at |-> "job", ticket |-> t]
        /\ UNCHANGED << data, rows, pend, handler, requests, failures >>
    BY DEF TakeJob
  <1>2. /\ Len(queue) \in Nat \ {0} /\ t = queue[1] /\ t \in Tickets
        /\ Len(queue') = Len(queue) - 1
        /\ \A i \in 1 .. Len(queue') : i \in 1 .. Len(queue) /\ i + 1 \in 1 .. Len(queue)
                                         /\ queue'[i] = queue[i + 1]
        /\ queue' \in Seq(Tickets)
    BY <1>1 DEF IInv, TypeOK
  <1>3. job[t].at = "queued" BY <1>2 DEF IInv, QueueHolds
  <1>4. /\ job' \in [Tickets -> JobType]
        /\ \A u \in Tickets :
             job'[u] = IF u = t THEN [at |-> "read", range |-> job[t].range] ELSE job[u]
    BY <1>1, <1>2, <1>3, AdvanceFacts DEF IInv
  <1>5. worker' \in WorkerType BY <1>1, <1>2 DEF WorkerType
  <1> HIDE DEF t
  <1>6. TypeOK' BY <1>1, <1>2, <1>4, <1>5 DEF IInv, TypeOK
  <1>7. Unscheduled' BY <1>1, <1>4, <1>3, HandlerFacts DEF IInv, Unscheduled
  <1>8. OwnNumber' BY <1>1 DEF IInv, OwnNumber
  <1>9. Unused' BY <1>1, <1>2, <1>3, <1>4 DEF IInv, Unused, TypeOK, Tickets
  <1>10. QueueHolds'
    <2>1. \A i \in 1 .. Len(queue') : queue[i + 1] \in Tickets /\ queue[i + 1] # t
      BY <1>2 DEF IInv, QueueHolds, TypeOK
    <2>2. \A i \in 1 .. Len(queue') : job'[queue'[i]].at = "queued" BY <1>2, <1>4, <2>1 DEF IInv, QueueHolds
    <2>3. \A i, j \in 1 .. Len(queue') : queue'[i] = queue'[j] => i = j BY <1>2 DEF IInv, QueueHolds
    <2> QED BY <2>2, <2>3 DEF QueueHolds
  <1>11. OneJobPerRange' BY <1>1, <1>2, <1>3, <1>4 DEF IInv, TypeOK, OneJobPerRange, Unfinished
  <1> QED BY <1>6, <1>7, <1>8, <1>9, <1>10, <1>11 DEF IInv

LEMMA SweepReadStep ==
    ASSUME IInv, SweepRead
    PROVE  IInv'
  <1> USE DailyProfitAssumption DEF DailyProfitAssumption, SweepRead
  <1>1. TypeOK' BY SeenType, TrackedDays DEF IInv, WorkerType, TypeOK
  <1>2. Unscheduled' BY DEF IInv, Unscheduled, TypeOK, HandlerType, Idle
  <1>3. OwnNumber' BY DEF IInv, OwnNumber, Unscheduled, TypeOK, HandlerType, Idle
  <1>4. Unused' BY DEF IInv, Unused, TypeOK, Tickets
  <1>5. QueueHolds' BY DEF IInv, QueueHolds, TypeOK
  <1>6. OneJobPerRange' BY DEF IInv, OneJobPerRange, TypeOK, JobType, Unfinished
  <1> QED BY <1>1, <1>2, <1>3, <1>4, <1>5, <1>6 DEF IInv

LEMMA SweepWriteStep ==
    ASSUME IInv, SweepWrite
    PROVE  IInv'
  <1> USE DailyProfitAssumption DEF DailyProfitAssumption, SweepWrite, Fails
  <1>1. TypeOK'
    <2>1. PICK S \in SUBSET Days : worker.seen \in [S -> Count]
      <3>1. worker \in WorkerType /\ worker.at = "sweep" BY DEF IInv, TypeOK
      <3>2. worker \in [at : {"sweep"}, seen : UNION {[S -> Count] : S \in SUBSET Days}] BY <3>1 DEF WorkerType
      <3>3. worker.seen \in UNION {[S -> Count] : S \in SUBSET Days} BY <3>2
      <3> QED BY <3>3, Zenon
    <2>2. Written(worker.seen) \in [Days -> Count \cup {Missing}] BY <2>1, WrittenType DEF IInv
    <2>3. Polling \in WorkerType BY DEF Polling, WorkerType
    <2> QED BY <2>2, <2>3 DEF IInv, TypeOK
  <1>2. Unscheduled' BY DEF IInv, Unscheduled, TypeOK, HandlerType, Idle
  <1>3. OwnNumber' BY DEF IInv, OwnNumber, Unscheduled, TypeOK, HandlerType, Idle
  <1>4. Unused' BY DEF IInv, Unused, TypeOK, Tickets
  <1>5. QueueHolds' BY DEF IInv, QueueHolds, TypeOK
  <1>6. OneJobPerRange' BY DEF IInv, OneJobPerRange, TypeOK, JobType, Unfinished
  <1> QED BY <1>1, <1>2, <1>3, <1>4, <1>5, <1>6 DEF IInv

LEMMA FindNoJobStep ==
    ASSUME IInv, FindNoJob
    PROVE  IInv'
  <1> USE DailyProfitAssumption DEF DailyProfitAssumption, FindNoJob
  <1>1. TypeOK' BY DEF IInv, TypeOK, JobType, WorkerType, HandlerType, Idle, Polling
  <1>2. Unscheduled' BY DEF IInv, Unscheduled, TypeOK, HandlerType, Idle
  <1>3. OwnNumber' BY DEF IInv, OwnNumber, Unscheduled, TypeOK, HandlerType, Idle
  <1>4. Unused' BY DEF IInv, Unused, TypeOK, Tickets
  <1>5. QueueHolds' BY DEF IInv, QueueHolds, TypeOK
  <1>6. OneJobPerRange' BY DEF IInv, OneJobPerRange, TypeOK, JobType, Unfinished
  <1> QED BY <1>1, <1>2, <1>3, <1>4, <1>5, <1>6 DEF IInv

LEMMA NextIInv == IInv /\ [Next]_vars => IInv'
  <1> SUFFICES ASSUME IInv, [Next]_vars PROVE IInv' OBVIOUS
  <1>1. CASE \E d \in Days : Change(d) BY <1>1, ChangeStep
  <1>2. CASE \E h \in Handlers : HandlerStep(h)
    BY <1>2, BeginStep, ScheduleStep, SendStep, LeaveStep
       DEF HandlerStep, RefreshDailyProfitReport, EnsureCoverage, Answer, Timeout
  <1>3. CASE \E t \in Tickets : JobStep(t) BY <1>3, ReadStep, WriteStep, ClearStep, CloseStep DEF JobStep
  <1>4. CASE WorkerStep BY <1>4, TakeJobStep, FindNoJobStep, SweepReadStep, SweepWriteStep DEF WorkerStep
  <1>5. CASE UNCHANGED vars
    BY <1>5 DEF vars, IInv, TypeOK, Unscheduled, OwnNumber, Unused, QueueHolds, OneJobPerRange
  <1> QED BY <1>1, <1>2, <1>3, <1>4, <1>5 DEF Next

LEMMA Invariance == Spec => []IInv
  BY InitIInv, NextIInv, PTL DEF Spec

\* Every variable keeps its type and the queue its capacity, for any numbers of
\* handlers, days, ranges and requests.
THEOREM TypeOKHolds == Spec => []TypeOK
  <1>1. IInv => TypeOK BY DEF IInv
  <1> QED BY <1>1, Invariance, PTL

\* A job that is not over is the one pending for its range, and a pending entry
\* has such a job (scheduleDailyProfitRecompute, finishDailyProfitJob).
THEOREM OneJobPerRangeHolds == Spec => []OneJobPerRange
  <1>1. IInv => OneJobPerRange BY DEF IInv
  <1> QED BY <1>1, Invariance, PTL

-----------------------------------------------------------------------------
(* The migration jobs *)

Busy == {"start", "save_start", "run", "save_run", "save_end", "drop"}

\* The registry holds the jobs that are worked on, and their live state is
\* what their worker says, at or past the saved one.
Working ==
    \A j \in Jobs :
        /\ runner[j] = "start" => live[j] = Queued
        /\ runner[j] \in {"save_start", "run", "save_run"} => live[j].status = "running"
        /\ j \in registry <=> runner[j] \in Busy
        /\ j \in registry => Reaches(table[j], live[j])
        /\ table[j] = NoJob => runner[j] = "none"

\* A job waits for one request to register it.
Registering ==
    /\ \A c \in Clients : client[c].at = "register" =>
           table[client[c].job] = Queued /\ runner[client[c].job] = "none"
    /\ \A c, d \in Clients :
           client[c].at = "register" /\ client[d].at = "register"
           /\ client[c].job = client[d].job => c = d

\* What a list has read is not ahead of the table.
Listing ==
    \A c \in Clients : client[c].at = "overlay" =>
        \A j \in Jobs : Reaches(client[c].read[j], table[j])

\* Without faults, what a client was told is not ahead of what it will be told,
\* wherever it has looked already.
Saved   == \A j \in Jobs : runner[j] \in {"drop", "done"} => table[j] = live[j]
Told    == \A c \in Clients, j \in Jobs :
               Reaches(seen[c][j], IF j \in registry THEN live[j] ELSE table[j])
Looked  == \A c \in Clients :
               /\ client[c].at = "copy" => runner[client[c].job] # "none"
               /\ client[c].at = "query" => Reaches(seen[c][client[c].job], table[client[c].job])
PollsOn == faults = 0 => Saved /\ Told /\ Looked

MigrationInv == MigrationTypeOK /\ Working /\ Registering /\ Listing /\ ListNotBehind /\ PollsOn

-----------------------------------------------------------------------------
(* States of a job *)

LEMMA Constants == NoJob \in State /\ Queued \in State /\ NoJob # Queued
  BY MigrationAssumption DEF MigrationAssumption, NoJob, Queued, State

LEMMA ReachesSame == ASSUME NEW r \in State PROVE Reaches(r, r)
  BY MigrationAssumption DEF MigrationAssumption, Reaches, Rank, Order, State, Ended

LEMMA ReachesOn ==
    ASSUME NEW r \in State, NEW s \in State, NEW t \in State, Reaches(r, s), Reaches(s, t)
    PROVE  Reaches(r, t)
  BY MigrationAssumption DEF MigrationAssumption, Reaches, Rank, Order, State, Ended

LEMMA NewReaches == Reaches(NoJob, Queued)
  BY DEF Reaches, Rank, Order, NoJob, Queued, Ended

LEMMA InitMigrationInv == MigrationInit => MigrationInv
  <1> SUFFICES ASSUME MigrationInit PROVE MigrationInv OBVIOUS
  <1>1. MigrationTypeOK
    BY Constants, MigrationAssumption
       DEF MigrationInit, MigrationTypeOK, MigrationAssumption, ClientType, NoRequest
  <1>2. Working /\ Registering /\ Listing /\ ListNotBehind
    BY DEF MigrationInit, Working, Registering, Listing, ListNotBehind, Busy, NoRequest
  <1>3. PollsOn BY ReachesSame, Constants DEF MigrationInit, PollsOn, Saved, Told, Looked, NoRequest
  <1> QED BY <1>1, <1>2, <1>3 DEF MigrationInv

-----------------------------------------------------------------------------
(* The worker *)

\* A worker's step disturbs its own job alone and takes neither of its states
\* back; it saves the live one or, after a fault, nothing.
Forward(j) ==
    /\ live' \in [Jobs -> State] /\ table' \in [Jobs -> State]
    /\ faults' \in 0 .. MaxFaults /\ (faults' = 0 => faults = 0)
    /\ UNCHANGED << client, seen >>
    /\ runner' \in [Jobs -> Busy \cup {"none", "done"}]
    /\ runner[j] \in Busy
    /\ \A k \in Jobs \ {j} : UNCHANGED << live[k], table[k], runner[k] >>
                               /\ (k \in registry' <=> k \in registry)
    /\ Reaches(live[j], live'[j])
    /\ table'[j] = table[j] \/ (table'[j] = live[j] /\ live'[j] = live[j])
    /\ runner'[j] = "done" <=> runner[j] = "drop"
    /\ registry' = IF runner[j] = "drop" THEN registry \ {j} ELSE registry
    /\ runner'[j] \in {"save_start", "run", "save_run"} => live'[j].status = "running"
    /\ runner'[j] \notin {"none", "start"}
    /\ faults' = 0 /\ runner'[j] \in {"drop", "done"} =>
           \/ table'[j] = live'[j]
           \/ runner[j] = "drop" /\ table'[j] = table[j] /\ live'[j] = live[j]

LEMMA WorkForward ==
    ASSUME MigrationInv, NEW j \in Jobs, Work(j)
    PROVE  Forward(j)
  <1> USE MigrationAssumption DEF MigrationAssumption, Server, Goto, Busy
  <1>1. MigrationTypeOK /\ Working BY DEF MigrationInv
  <1>2. live[j] \in State /\ table[j] \in State BY <1>1 DEF MigrationTypeOK
  <1>3. CASE MarkRunning(j)
    <2> DEFINE s == [status |-> "running", row |-> 0]
    <2>1. s \in State /\ Reaches(Queued, s) /\ s.status = "running"
      BY DEF State, Reaches, Rank, Order, Queued, Ended
    <2>2. live[j] = Queued /\ live' = [live EXCEPT ![j] = s] BY <1>1, <1>3 DEF MarkRunning, Working, Update
    <2> HIDE DEF s
    <2> QED BY <1>1, <1>3, <2>1, <2>2 DEF MarkRunning, Forward, MigrationTypeOK
  <1>4. CASE Progress(j)
    <2>1. PICK row \in live[j].row + 1 .. Rows : Update(j, "running", row) BY <1>4 DEF Progress
    <2> DEFINE s == [status |-> "running", row |-> row]
    <2>2. live[j].status = "running" /\ live[j].row \in 0 .. Rows
      BY <1>1, <1>2, <1>4 DEF Progress, Working, State
    <2>3. s \in State /\ Reaches(live[j], s) /\ s.status = "running"
      BY <2>1, <2>2 DEF State, Reaches, Rank, Order, Ended
    <2>4. live' = [live EXCEPT ![j] = s] BY <2>1 DEF Update
    <2> HIDE DEF s
    <2> QED BY <1>1, <1>4, <2>3, <2>4 DEF Progress, Forward, MigrationTypeOK
  <1>5. CASE Finish(j)
    <2>1. live[j].status = "running" /\ live[j].row \in 0 .. Rows BY <1>1, <1>2, <1>5 DEF Finish, Working, State
    <2>2. PICK status \in Ended, row \in {live[j].row, IF live[j].row = 0 THEN 0 ELSE Rows} :
             Update(j, status, row)
      BY <1>5 DEF Finish, Ended
    <2> DEFINE s == [status |-> status, row |-> row]
    <2>3. s \in State /\ Reaches(live[j], s) BY <2>1 DEF State, Reaches, Rank, Order, Ended
    <2>4. live' = [live EXCEPT ![j] = s] BY <2>2 DEF Update
    <2> HIDE DEF s
    <2> QED BY <1>1, <1>5, <2>3, <2>4 DEF Finish, Forward, MigrationTypeOK
  <1>6. CASE SaveStart(j) \/ SaveProgress(j) \/ SaveEnd(j)
    <2>1. /\ UNCHANGED << live, registry, client, seen >>
          /\ runner[j] \in {"save_start", "save_run", "save_end"}
          /\ runner' = [runner EXCEPT ![j] = IF runner[j] = "save_end" THEN "drop" ELSE "run"]
          /\ Persist(j)
      BY <1>6 DEF SaveStart, SaveProgress, SaveEnd
    <2>2. /\ table' = [table EXCEPT ![j] = live[j]] \/ (table' = table /\ faults' # 0)
          /\ faults' \in 0 .. MaxFaults /\ (faults' = 0 => faults = 0)
      BY <1>1, <2>1 DEF Persist, Fault, MigrationTypeOK
    <2>3. Reaches(live[j], live'[j]) BY <1>2, <2>1, ReachesSame
    <2>4. /\ live' \in [Jobs -> State] /\ table' \in [Jobs -> State]
          /\ \A k \in Jobs \ {j} : UNCHANGED << live[k], table[k], runner[k] >>
          /\ table'[j] = live[j] \/ (table'[j] = table[j] /\ faults' # 0)
          /\ runner' \in [Jobs -> Busy \cup {"none", "done"}]
          /\ runner'[j] = IF runner[j] = "save_end" THEN "drop" ELSE "run"
      BY <1>1, <1>2, <2>1, <2>2 DEF MigrationTypeOK
    <2>5. runner[j] # "save_end" => live[j].status = "running" BY <1>1, <2>1 DEF Working
    <2> QED BY <2>1, <2>2, <2>3, <2>4, <2>5 DEF Forward
  <1>7. CASE DropLive(j) BY <1>2, <1>7, ReachesSame, <1>1 DEF DropLive, Forward, MigrationTypeOK
  <1> QED BY <1>3, <1>4, <1>5, <1>6, <1>7 DEF Work

LEMMA ForwardIInv ==
    ASSUME MigrationInv, NEW j \in Jobs, Forward(j)
    PROVE  MigrationInv'
  <1>1. /\ MigrationTypeOK /\ Working /\ Registering /\ Listing /\ ListNotBehind
        /\ live[j] \in State /\ table[j] \in State
        /\ live'[j] \in State /\ table'[j] \in State
    BY DEF MigrationInv, Forward, MigrationTypeOK
  <1>2. runner[j] \in Busy /\ j \in registry /\ Reaches(table[j], live[j]) BY <1>1 DEF Forward, Working
  <1>3. Reaches(table[j], table'[j]) /\ Reaches(table'[j], live'[j])
    BY <1>1, <1>2, ReachesSame, ReachesOn DEF Forward
  <1>4. \A k \in Jobs : Reaches(table[k], table'[k]) BY <1>1, <1>3, ReachesSame DEF Forward, MigrationTypeOK
  <1>5. MigrationTypeOK' BY <1>1 DEF Forward, MigrationTypeOK, Busy
  <1>6. Working'
    <2> SUFFICES ASSUME NEW k \in Jobs
                 PROVE  /\ runner'[k] = "start" => live'[k] = Queued
                        /\ runner'[k] \in {"save_start", "run", "save_run"} =>
                             live'[k].status = "running"
                        /\ k \in registry' <=> runner'[k] \in Busy
                        /\ k \in registry' => Reaches(table'[k], live'[k])
                        /\ table'[k] = NoJob => runner'[k] = "none"
      BY DEF Working
    <2>1. CASE k = j
      <3>1. table[j] # NoJob /\ live[j] # NoJob
        BY <1>1, <1>2 DEF Working, Busy, Reaches, NoJob, Rank, Order, State, Ended
      <3>2. table'[j] # NoJob BY <3>1 DEF Forward
      <3>3. j \in registry' <=> runner'[j] \in Busy BY <1>2 DEF Forward, Busy
      <3> QED BY <1>3, <2>1, <3>2, <3>3 DEF Forward
    <2>2. CASE k # j BY <1>1, <2>2 DEF Forward, Working
    <2> QED BY <2>1, <2>2
  <1>7. Registering' BY <1>1, <1>2 DEF Registering, Busy, MigrationTypeOK, ClientType, Forward
  <1>8. Listing'
    <2> SUFFICES ASSUME NEW c \in Clients, client[c].at = "overlay", NEW k \in Jobs
                 PROVE  Reaches(client[c].read[k], table'[k])
      BY DEF Listing, Forward
    <2>1. client[c].read[k] \in State /\ table[k] \in State /\ table'[k] \in State
      BY <1>1, <1>5 DEF MigrationTypeOK, ClientType
    <2> QED BY <1>1, <1>4, <2>1, ReachesOn DEF Listing
  <1>9. ListNotBehind' BY <1>1 DEF ListNotBehind, Forward
  <1>10. PollsOn'
    <2> SUFFICES ASSUME faults' = 0 PROVE Saved' /\ Told' /\ Looked' BY DEF PollsOn
    <2>1. Saved /\ Told /\ Looked BY DEF MigrationInv, PollsOn, Forward
    <2>2. Saved' BY <2>1 DEF Saved, Forward
    <2>3. Told'
      <3> SUFFICES ASSUME NEW c \in Clients, NEW k \in Jobs
                   PROVE  Reaches(seen[c][k], IF k \in registry' THEN live'[k] ELSE table'[k])
        BY DEF Told, Forward
      <3>1. CASE k # j BY <2>1, <3>1 DEF Told, Forward
      <3>2. CASE k = j
        <4>1. seen[c][j] \in State /\ Reaches(seen[c][j], live[j]) BY <1>1, <1>2, <2>1 DEF Told, MigrationTypeOK
        <4>2. Reaches(seen[c][j], live'[j]) BY <1>1, <4>1, ReachesOn DEF Forward
        <4>3. j \notin registry' => table'[j] = live'[j] BY <1>2, <2>1 DEF Forward, Saved
        <4> QED BY <3>2, <4>2, <4>3
      <3> QED BY <3>1, <3>2
    <2>4. Looked'
      <3> SUFFICES ASSUME NEW c \in Clients
                   PROVE  /\ client[c].at = "copy" => runner'[client[c].job] # "none"
                          /\ client[c].at = "query" =>
                               Reaches(seen[c][client[c].job], table'[client[c].job])
        BY DEF Looked, Forward
      <3>1. client[c].at \in {"copy", "query"} => client[c].job \in Jobs BY <1>1 DEF MigrationTypeOK, ClientType
      <3>2. client[c].at = "copy" => runner'[client[c].job] # "none" BY <2>1, <3>1 DEF Looked, Forward
      <3>3. ASSUME client[c].at = "query"
            PROVE  Reaches(seen[c][client[c].job], table'[client[c].job])
        <4> DEFINE k == client[c].job
        <4>1. /\ k \in Jobs /\ Reaches(seen[c][k], table[k]) /\ Reaches(table[k], table'[k])
              /\ seen[c][k] \in State /\ table[k] \in State /\ table'[k] \in State
          BY <1>1, <1>4, <1>5, <2>1, <3>1, <3>3 DEF Looked, MigrationTypeOK
        <4> QED BY <4>1, ReachesOn
      <3> QED BY <3>2, <3>3
    <2> QED BY <2>2, <2>3, <2>4
  <1> QED BY <1>5, <1>6, <1>7, <1>8, <1>9, <1>10 DEF MigrationInv

-----------------------------------------------------------------------------
(* The requests *)

LEMMA CreateIInv ==
    ASSUME MigrationInv, NEW c \in Clients, NEW j \in Jobs, Create(c, j)
    PROVE  MigrationInv'
  <1>1. /\ MigrationTypeOK /\ Working /\ Registering /\ Listing /\ ListNotBehind
        /\ table[j] = NoJob /\ runner[j] = "none" /\ j \notin registry
    BY DEF MigrationInv, Create, Working, Busy
  <1>2. /\ client[c] = NoRequest
        /\ table' = [table EXCEPT ![j] = Queued]
        /\ client' = [client EXCEPT ![c] = [at |-> "register", job |-> j]]
        /\ UNCHANGED << live, registry, runner, seen, faults >>
    BY DEF Create
  <1>3. /\ \A k \in Jobs : table'[k] = IF k = j THEN Queued ELSE table[k]
        /\ \A d \in Clients :
             client'[d] = IF d = c THEN [at |-> "register", job |-> j] ELSE client[d]
    BY <1>1, <1>2 DEF MigrationTypeOK
  <1>4. MigrationTypeOK' BY <1>1, <1>2, Constants DEF MigrationTypeOK, ClientType
  <1>5. Working' BY <1>1, <1>2, <1>3, Constants DEF Working
  <1>6. Registering' BY <1>1, Constants, <1>2, <1>3 DEF Registering, MigrationTypeOK, ClientType
  <1>7. \A k \in Jobs, s \in State : Reaches(s, table[k]) => Reaches(s, table'[k])
    BY <1>1, <1>3, Constants, NewReaches, ReachesOn
  <1>8. Listing' BY <1>1, <1>2, <1>3, <1>7 DEF Listing, MigrationTypeOK, ClientType
  <1>9. ListNotBehind' BY <1>1, <1>3 DEF ListNotBehind
  <1>10. PollsOn'
    <2> SUFFICES ASSUME faults = 0 PROVE Saved' /\ Told' /\ Looked' BY <1>2 DEF PollsOn
    <2>1. Saved /\ Told /\ Looked BY DEF MigrationInv, PollsOn
    <2>2. Saved' BY <1>1, <1>2, <1>3, <2>1 DEF Saved
    <2>3. Told' BY <1>1, <1>2, <1>3, <1>7, <2>1 DEF Told, MigrationTypeOK
    <2>4. Looked' BY <1>1, <1>2, <1>3, <1>7, <2>1 DEF MigrationTypeOK, ClientType, Looked
    <2> QED BY <2>2, <2>3, <2>4
  <1> QED BY <1>4, <1>5, <1>6, <1>8, <1>9, <1>10 DEF MigrationInv

LEMMA RegisterIInv ==
    ASSUME MigrationInv, NEW c \in Clients, Register(c)
    PROVE  MigrationInv'
  <1> DEFINE j == client[c].job
  <1>1. /\ MigrationTypeOK /\ Working /\ Registering /\ Listing /\ ListNotBehind
        /\ client[c].at = "register" /\ j \in Jobs
        /\ table[j] = Queued /\ runner[j] = "none" /\ j \notin registry
    BY DEF MigrationInv, Register, Registering, MigrationTypeOK, ClientType, Working, Busy
  <1>2. /\ live' = [live EXCEPT ![j] = Queued]
        /\ registry' = registry \cup {j}
        /\ runner' = [runner EXCEPT ![j] = "start"]
        /\ client' = [client EXCEPT ![c] = NoRequest]
        /\ UNCHANGED << table, seen, faults >>
    BY DEF Register
  <1> HIDE DEF j
  <1>3. /\ \A k \in Jobs : live'[k] = IF k = j THEN Queued ELSE live[k]
        /\ \A k \in Jobs : runner'[k] = IF k = j THEN "start" ELSE runner[k]
        /\ \A d \in Clients : client'[d] = IF d = c THEN NoRequest ELSE client[d]
    BY <1>1, <1>2 DEF MigrationTypeOK
  <1>4. MigrationTypeOK' BY <1>1, <1>2, Constants DEF MigrationTypeOK, ClientType, NoRequest
  <1>5. Working' BY <1>1, <1>2, <1>3, Constants, ReachesSame DEF Working, Busy
  <1>6. Registering' BY <1>1, <1>2, <1>3 DEF Registering, MigrationTypeOK, ClientType, j, NoRequest
  <1>7. Listing' /\ ListNotBehind' BY <1>1, <1>2, <1>3 DEF Listing, ListNotBehind, NoRequest
  <1>8. PollsOn'
    BY <1>1, <1>2, <1>3 DEF MigrationInv, PollsOn, Saved, Told, Looked, NoRequest, MigrationTypeOK, ClientType
  <1> QED BY <1>4, <1>5, <1>6, <1>7, <1>8 DEF MigrationInv

\* A status request changes nothing but its own state and what it was told.
Answers(c) ==
    /\ UNCHANGED << table, live, registry, runner, faults >>
    /\ client' \in [Clients -> ClientType]
    /\ \A d \in Clients \ {c} : client'[d] = client[d]
    /\ client'[c].at # "register"
    /\ client'[c].at \in {"copy", "query"} =>
         /\ seen' = seen
         /\ client'[c].at = "copy" <=> client'[c].job \in registry
    /\ client'[c].at = "overlay" => client'[c].read = table
    /\ client'[c].at = "listed" =>
         \A j \in Jobs : Reaches(client'[c].read[j], client'[c].list[j])
    /\ seen' \in [Clients -> [Jobs -> State]]
    /\ \A d \in Clients \ {c} : seen'[d] = seen[d]
    /\ faults = 0 => \A j \in Jobs :
         /\ Reaches(seen[c][j], seen'[c][j])
         /\ Reaches(seen'[c][j], IF j \in registry THEN live[j] ELSE table[j])

LEMMA AnswersIInv ==
    ASSUME MigrationInv, NEW c \in Clients, Answers(c)
    PROVE  MigrationInv'
  <1>1. MigrationTypeOK /\ Working /\ Registering /\ Listing /\ ListNotBehind BY DEF MigrationInv
  <1>2. MigrationTypeOK' BY <1>1 DEF MigrationTypeOK, Answers
  <1>3. Working' BY <1>1 DEF Working, Answers
  <1>4. Registering' BY <1>1 DEF Registering, Answers
  <1>5. Listing' BY <1>1, ReachesSame DEF Listing, Answers, MigrationTypeOK
  <1>6. ListNotBehind' BY <1>1 DEF ListNotBehind, Answers
  <1>7. PollsOn'
    <2> SUFFICES ASSUME faults = 0 PROVE Saved' /\ Told' /\ Looked' BY DEF PollsOn, Answers
    <2>1. Saved /\ Told /\ Looked BY DEF MigrationInv, PollsOn
    <2>2. Saved' /\ Told' BY <2>1 DEF Saved, Told, Answers
    <2>3. client'[c].at \in {"copy", "query"} => client'[c].job \in Jobs BY DEF Answers, ClientType
    <2>4. Looked' BY <1>1, <2>1, <2>3 DEF Looked, Told, Working, Busy, Answers
    <2> QED BY <2>2, <2>4
  <1> QED BY <1>2, <1>3, <1>4, <1>5, <1>6, <1>7 DEF MigrationInv

LEMMA LookupAnswers ==
    ASSUME MigrationInv, NEW c \in Clients, NEW j \in Jobs, Lookup(c, j)
    PROVE  Answers(c)
  <1> DEFINE s == [at |-> IF j \in registry THEN "copy" ELSE "query", job |-> j]
  <1>1. s \in ClientType /\ s.job = j /\ s.at = IF j \in registry THEN "copy" ELSE "query" BY DEF ClientType
  <1>2. client' = [client EXCEPT ![c] = s] /\ UNCHANGED seen /\ System BY DEF Lookup
  <1> HIDE DEF s
  <1>3. client' \in [Clients -> ClientType] /\ client'[c] = s
        /\ \A d \in Clients \ {c} : client'[d] = client[d]
    BY <1>1, <1>2 DEF MigrationInv, MigrationTypeOK
  <1>4. \A k \in Jobs : seen[c][k] \in State BY DEF MigrationInv, MigrationTypeOK
  <1> QED
    BY <1>1, <1>2, <1>3, <1>4, ReachesSame DEF Answers, System, MigrationInv, MigrationTypeOK, PollsOn, Told

LEMMA TellAnswers ==
    ASSUME MigrationInv, NEW c \in Clients, Copy(c) \/ Query(c)
    PROVE  Answers(c)
  <1> DEFINE j == client[c].job
             state == IF client[c].at = "copy" THEN live[j] ELSE table[j]
  <1>1. client[c].at \in {"copy", "query"} /\ j \in Jobs /\ System /\ Tell(c, state)
    BY DEF Copy, Query, MigrationInv, MigrationTypeOK, ClientType
  <1>2. state \in State BY <1>1 DEF MigrationInv, MigrationTypeOK
  <1>3. /\ client' = [client EXCEPT ![c] = NoRequest]
        /\ seen' = [seen EXCEPT ![c] = [@ EXCEPT ![j] = state]]
    BY <1>1 DEF Tell
  <1>4. faults = 0 => /\ Reaches(seen[c][j], state)
                      /\ Reaches(state, IF j \in registry THEN live[j] ELSE table[j])
    <2> SUFFICES ASSUME faults = 0
                 PROVE  /\ Reaches(seen[c][j], state)
                        /\ Reaches(state, IF j \in registry THEN live[j] ELSE table[j])
      OBVIOUS
    <2>1. Saved /\ Told /\ Looked /\ Working /\ MigrationTypeOK BY DEF MigrationInv, PollsOn
    <2>2. CASE client[c].at = "copy"
      <3>1. runner[j] \in Busy \/ runner[j] = "done" BY <1>1, <2>1, <2>2 DEF Looked, MigrationTypeOK, Busy
      <3>2. j \notin registry => table[j] = live[j] BY <1>1, <2>1, <3>1 DEF Saved, Working
      <3> QED BY <1>1, <1>2, <2>1, <2>2, <3>2, ReachesSame DEF Told
    <2>3. CASE client[c].at = "query" BY <1>1, <2>1, <2>3, <1>2, ReachesSame DEF Looked, Working
    <2> QED BY <1>1, <2>2, <2>3
  <1> HIDE DEF j, state
  <1>5. /\ client' \in [Clients -> ClientType] /\ client'[c] = NoRequest
        /\ \A d \in Clients \ {c} : client'[d] = client[d]
    BY <1>3 DEF MigrationInv, MigrationTypeOK, ClientType, NoRequest
  <1>6. /\ seen' \in [Clients -> [Jobs -> State]]
        /\ \A d \in Clients \ {c} : seen'[d] = seen[d]
        /\ \A k \in Jobs : seen'[c][k] = IF k = j THEN state ELSE seen[c][k]
    BY <1>1, <1>2, <1>3 DEF MigrationInv, MigrationTypeOK
  <1>7. \A k \in Jobs : seen[c][k] \in State BY DEF MigrationInv, MigrationTypeOK
  <1>8. faults = 0 => \A k \in Jobs :
          /\ Reaches(seen[c][k], seen'[c][k])
          /\ Reaches(seen'[c][k], IF k \in registry THEN live[k] ELSE table[k])
    BY <1>1, <1>4, <1>6, <1>7, ReachesSame DEF MigrationInv, PollsOn, Told
  <1> QED BY <1>1, <1>5, <1>6, <1>8 DEF Answers, System, NoRequest

LEMMA ListAnswers ==
    ASSUME MigrationInv, NEW c \in Clients, ReadList(c) \/ Overlay(c) \/ ReturnList(c)
    PROVE  Answers(c)
  <1>1. System /\ UNCHANGED seen BY DEF ReadList, Overlay, ReturnList
  <1>2. \A k \in Jobs : seen[c][k] \in State /\ Reaches(seen[c][k], seen[c][k])
    BY ReachesSame DEF MigrationInv, MigrationTypeOK
  <1>3. PICK s \in ClientType :
          /\ client' = [client EXCEPT ![c] = s]
          /\ s.at \in {"idle", "overlay", "listed"}
          /\ s.at = "overlay" => s.read = table
          /\ s.at = "listed" => \A j \in Jobs : Reaches(s.read[j], s.list[j])
    <2>1. CASE ReadList(c)
      <3> DEFINE t == [at |-> "overlay", read |-> table]
      <3>1. t \in ClientType /\ t.at = "overlay" /\ t.read = table
        BY DEF ClientType, MigrationInv, MigrationTypeOK
      <3>2. client' = [client EXCEPT ![c] = t] BY <2>1 DEF ReadList
      <3> QED BY <3>1, <3>2
    <2>2. CASE Overlay(c)
      <3> DEFINE read == client[c].read
                 list == [j \in Jobs |-> IF j \in registry /\ read[j] # NoJob
                                         THEN live[j] ELSE read[j]]
                 t == [at |-> "listed", read |-> read, list |-> list]
      <3>1. client[c].at = "overlay" /\ read \in [Jobs -> State]
        BY <2>2 DEF Overlay, MigrationInv, MigrationTypeOK, ClientType
      <3>2. list \in [Jobs -> State] BY <3>1 DEF MigrationInv, MigrationTypeOK
      <3>3. \A j \in Jobs : Reaches(read[j], list[j])
        BY <3>1, ReachesSame, ReachesOn DEF MigrationInv, MigrationTypeOK, Listing, Working
      <3>4. client' = [client EXCEPT ![c] = t] BY <2>2 DEF Overlay
      <3>5. t \in ClientType /\ t.at = "listed" /\ t.read = read /\ t.list = list BY <3>1, <3>2 DEF ClientType
      <3> HIDE DEF t, list
      <3> QED BY <3>3, <3>4, <3>5
    <2>3. CASE ReturnList(c)
      <3>1. NoRequest \in ClientType /\ NoRequest.at = "idle" BY DEF NoRequest, ClientType
      <3>2. client' = [client EXCEPT ![c] = NoRequest] BY <2>3 DEF ReturnList
      <3> QED BY <3>1, <3>2
    <2> QED BY <2>1, <2>2, <2>3
  <1>4. /\ client' \in [Clients -> ClientType] /\ client'[c] = s
        /\ \A d \in Clients \ {c} : client'[d] = client[d]
    BY <1>3 DEF MigrationInv, MigrationTypeOK
  <1> QED BY <1>1, <1>2, <1>3, <1>4 DEF Answers, System, MigrationInv, MigrationTypeOK, PollsOn, Told

LEMMA RestartIInv ==
    ASSUME MigrationInv, Restart
    PROVE  MigrationInv'
  <1>1. MigrationTypeOK'
    BY MigrationAssumption DEF MigrationInv, MigrationTypeOK, Restart, Fault, ClientType, NoRequest, MigrationAssumption
  <1>2. faults' # 0
    BY MigrationAssumption DEF MigrationInv, MigrationTypeOK, Restart, Fault, MigrationAssumption
  <1> QED
    BY <1>1, <1>2 DEF MigrationInv, Restart, Working, Registering, Listing, ListNotBehind, PollsOn,
                      Busy, NoRequest

-----------------------------------------------------------------------------
(* Theorems *)

LEMMA ServeIInv ==
    ASSUME MigrationInv, NEW c \in Clients, Serve(c)
    PROVE  MigrationInv' /\ (faults' = 0 => \A d \in Clients, j \in Jobs :
                                      Reaches(seen[d][j], seen'[d][j]))
  <1>1. \A d \in Clients, j \in Jobs : Reaches(seen[d][j], seen[d][j])
    BY ReachesSame DEF MigrationInv, MigrationTypeOK
  <1>2. CASE \E j \in Jobs : Create(c, j) BY <1>1, <1>2, CreateIInv DEF Create
  <1>3. CASE Register(c) BY <1>1, <1>3, RegisterIInv DEF Register
  <1>4. CASE Answers(c) BY <1>1, <1>4, AnswersIInv DEF Answers
  <1> QED BY <1>2, <1>3, <1>4, LookupAnswers, TellAnswers, ListAnswers DEF Serve

LEMMA NextMigrationInv ==
    ASSUME MigrationInv, [MigrationNext]_migrationVars
    PROVE  MigrationInv' /\ (faults' = 0 => \A c \in Clients, j \in Jobs :
                                      Reaches(seen[c][j], seen'[c][j]))
  <1>1. \A c \in Clients, j \in Jobs : Reaches(seen[c][j], seen[c][j])
    BY ReachesSame DEF MigrationInv, MigrationTypeOK
  <1>2. CASE \E c \in Clients : Serve(c) BY <1>2, ServeIInv
  <1>3. CASE \E j \in Jobs : Work(j) BY <1>1, <1>3, WorkForward, ForwardIInv DEF Forward
  <1>4. CASE Restart BY <1>1, <1>4, RestartIInv DEF Restart
  <1>5. CASE UNCHANGED migrationVars
    BY <1>1, <1>5 DEF migrationVars, MigrationInv, MigrationTypeOK, Working, Registering, Listing, ListNotBehind,
                      PollsOn, Saved, Told, Looked
  <1> QED BY <1>2, <1>3, <1>4, <1>5 DEF MigrationNext

LEMMA MigrationInvHolds == MigrationSpec => []MigrationInv
  BY InitMigrationInv, NextMigrationInv, PTL DEF MigrationSpec

\* Every variable keeps its type.
THEOREM MigrationTypeOKHolds == MigrationSpec => []MigrationTypeOK
  <1>1. MigrationInv => MigrationTypeOK BY DEF MigrationInv
  <1> QED BY <1>1, MigrationInvHolds, PTL

\* A list is never taken back by the live jobs laid over it
\* (ListMigrationJobs), faults or not.
THEOREM ListNotBehindHolds == MigrationSpec => []ListNotBehind
  <1>1. MigrationInv => ListNotBehind BY DEF MigrationInv
  <1> QED BY <1>1, MigrationInvHolds, PTL

\* Before the first fault, no client that polls GetMigrationJob sees a job go back.
THEOREM PollsForwardHolds == MigrationSpec => PollsForward
  <1>1. MigrationInv /\ [MigrationNext]_migrationVars =>
          [faults' = 0 => \A c \in Clients, j \in Jobs : Reaches(seen[c][j], seen'[c][j])]_migrationVars
    BY NextMigrationInv
  <1> QED BY <1>1, MigrationInvHolds, PTL DEF MigrationSpec, PollsForward
=============================================================================
