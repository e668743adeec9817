---------------------------- MODULE AuditProofs ----------------------------
(***************************************************************************)
(* The audit pipeline forgets no entry and implements AuditTrail, for any  *)
(* number of entries, callers, workers and months, through any crashes,    *)
(* failed statements, dropped tables and aborted compactions; and what a   *)
(* shutdown may leave in the spool file, with at least one worker.  Last,  *)
(* the wait of an entry in a batch, for every batch size and interval.     *)
(***************************************************************************)
EXTENDS MCAuditCases, AuditWorker, TLAPS

USE DEF life, spooler, channel, disk, database, notes

-----------------------------------------------------------------------------
(* Types *)

LEMMA ProceedType ==
    ASSUME TypeOK, NEW w \in Workers, NEW rest \in SUBSET Entries, Proceed(w, rest)
    PROVE  work' \in [Workers -> WorkState]
  BY AuditAssumption DEF TypeOK, Proceed, Resting, WorkState, AuditAssumption, InsertAttempts

LEMMA BusyWorker ==
    ASSUME TypeOK, NEW w \in Workers, work[w].at \in {"ensure", "insert", "ack"}
    PROVE  /\ work[w] \in [at : {"ensure", "insert", "ack"}, batch : SUBSET Entries,
                           month : Months, left : Nat]
           /\ Rows(work[w]) \subseteq Entries
  BY DEF TypeOK, WorkState, Gone, Rows

LEMMA RetryType ==
    ASSUME TypeOK, NEW w \in Workers, work[w].at \in {"ensure", "insert"}, Retry(w)
    PROVE  work' \in [Workers -> WorkState] /\ failed' \subseteq Entries
  BY BusyWorker, ProceedType DEF TypeOK, Retry, WorkState

LEMMA WorkerType ==
    ASSUME TypeOK, NEW w \in Workers, WorkerStep(w)
    PROVE  TypeOK'
  <1>1. CASE Receive(w)
    <2>1. /\ Head(queue) \in Entries
          /\ queue' \in Seq(Entries) /\ Len(queue') <= QueueCapacity
      BY <1>1, AuditAssumption DEF Receive, TypeOK, AuditAssumption
    <2>2. work[w] \in [at : {"receive"}, batch : SUBSET Entries] BY <1>1 DEF Receive, TypeOK, WorkState, Gone
    <2>3. work' \in [Workers -> WorkState] BY <1>1, <2>1, <2>2, ProceedType DEF Receive, TypeOK, WorkState
    <2> QED BY <1>1, <2>1, <2>3 DEF Receive, TypeOK
  <1>2. CASE Flush(w) BY <1>2, ProceedType DEF Flush, TypeOK, WorkState, Gone
  <1>3. CASE WorkerDone(w) BY <1>3 DEF WorkerDone, TypeOK, WorkState
  <1>4. CASE EnsureMonthTable(w) BY <1>4, BusyWorker, RetryType DEF EnsureMonthTable, TypeOK, WorkState
  <1>5. CASE Insert(w)
    <2>1. work' \in [Workers -> WorkState] /\ failed' \subseteq Entries BY <1>5, BusyWorker, RetryType
      DEF Insert, InsertMissing, InsertFails, InsertSucceeds, TypeOK, WorkState
    <2>2. db' \subseteq Entries /\ ensured' \subseteq Months
      BY <1>5, BusyWorker DEF Insert, InsertMissing, InsertFails, InsertSucceeds, TypeOK
    <2> QED BY <1>5, <2>1, <2>2 DEF Insert, TypeOK
  <1>6. CASE Ack(w) BY <1>6, BusyWorker, ProceedType DEF Ack, TypeOK
  <1> QED BY <1>1, <1>2, <1>3, <1>4, <1>5, <1>6 DEF WorkerStep

LEMMA CallerType ==
    ASSUME TypeOK, NEW c \in Callers, CallerStep(c)
    PROVE  TypeOK'
  <1>1. CASE Enqueue(c) BY <1>1 DEF Enqueue, TypeOK, CallState
  <1>2. CASE AppendLine(c)
    <2>1. call[c] \in [at : {"append"}, e : Entries] BY <1>2 DEF AppendLine, TypeOK, CallState, Idle
    <2>2. call' \in [Callers -> CallState] BY <1>2, <2>1 DEF AppendLine, TypeOK, CallState
    <2> QED BY <1>2, <2>1, <2>2 DEF AppendLine, WriteLine, TypeOK
  <1>3. CASE Send(c)
    <2>1. call[c] \in [at : {"send"}, e : Entries] BY <1>3 DEF Send, TypeOK, CallState, Idle
    <2>2. call' \in [Callers -> CallState] BY <1>3, <2>1 DEF Send, Return, TypeOK, CallState
    <2>3. queue' \in Seq(Entries) /\ Len(queue') <= QueueCapacity /\ dropped' \subseteq Entries
      <3>1. \/ Len(queue) < QueueCapacity /\ queue' = Append(queue, call[c].e)
                                           /\ dropped' = dropped
            \/ queue' = queue /\ dropped' \subseteq dropped \cup {call[c].e}
        BY <1>3 DEF Send, Return
      <3>2. call[c].e \in Entries /\ queue \in Seq(Entries) /\ Len(queue) <= QueueCapacity
            /\ dropped \subseteq Entries /\ QueueCapacity \in Nat
        BY <2>1, AuditAssumption DEF TypeOK, AuditAssumption
      <3>3. CASE Len(queue) < QueueCapacity /\ queue' = Append(queue, call[c].e)
                                           /\ dropped' = dropped
        BY <3>2, <3>3
      <3>4. CASE queue' = queue /\ dropped' \subseteq dropped \cup {call[c].e} BY <3>2, <3>4
      <3> QED BY <3>1, <3>3, <3>4
    <2> QED BY <1>3, <2>2, <2>3 DEF Send, TypeOK
  <1> QED BY <1>1, <1>2, <1>3 DEF CallerStep

LEMMA InitType == Init => TypeOK
  <1> SUFFICES ASSUME Init PROVE TypeOK OBVIOUS
  <1>1. queue \in Seq(Entries) /\ Len(queue) <= QueueCapacity BY AuditAssumption DEF Init, AuditAssumption
  <1>2. call \in [Callers -> CallState] /\ work \in [Workers -> WorkState] /\ comp \in CompState
    BY DEF Init, CallState, WorkState, CompState
  <1> QED BY <1>1, <1>2 DEF Init, TypeOK

LEMMA NextType == TypeOK /\ [Next]_vars => TypeOK'
  <1> SUFFICES ASSUME TypeOK, [Next]_vars PROVE TypeOK' OBVIOUS
  <1>1. CASE Start BY <1>1, AuditAssumption
    DEF Start, TypeOK, AuditAssumption, CallState, CompState, WorkState, Resting
  <1>2. CASE Crash \/ Shutdown \/ CloseSpool BY <1>2 DEF Crash, Shutdown, CloseSpool, TypeOK
  <1>3. CASE \E c \in Callers : CallerStep(c) BY <1>3, CallerType
  <1>4. CASE Replay
    <2>1. queue' \in Seq(Entries) /\ Len(queue') <= QueueCapacity /\ replay' \subseteq Entries
      BY <1>4, AuditAssumption DEF Replay, TypeOK, AuditAssumption
    <2> QED BY <1>4, <2>1 DEF Replay, TypeOK
  <1>5. CASE \E w \in Workers : WorkerStep(w) BY <1>5, WorkerType
  <1>6. CASE Compact BY <1>6 DEF Compact, Kept, TypeOK, CompState
  <1>7. CASE Rename BY <1>7 DEF Rename, TypeOK, CompState
  <1>8. CASE EnsureAhead \/ DeleteAuditLogs \/ DropShard BY <1>8, AuditAssumption
    DEF EnsureAhead, DeleteAuditLogs, DropShard, TypeOK, AuditAssumption
  <1>9. CASE UNCHANGED vars BY <1>9 DEF vars, TypeOK
  <1> QED BY <1>1, <1>2, <1>3, <1>4, <1>5, <1>6, <1>7, <1>8, <1>9 DEF Next

\* The variables keep their types, and the channel its capacity.
THEOREM TypeOKHolds == Spec => []TypeOK
  BY InitType, NextType, PTL DEF Spec

-----------------------------------------------------------------------------
(* Durability *)

\* No append is cut short and no compaction loses buffered lines.
NoDiskErrors == "short_write" \notin Faults /\ "flush" \notin Faults

\* The file ends at a line; acked entries are written; what a compaction in
\* progress leaves out is written; so is what a worker is about to ack.
SpoolSafe ==
    /\ torn = FALSE
    /\ acked \subseteq Stored
    /\ comp # Idle => comp.kept \subseteq lines /\ lines \subseteq comp.kept \cup Stored

AckSafe == \A w \in Workers : work[w].at = "ack" => Rows(work[w]) \subseteq Stored

IInv == TypeOK /\ Durable /\ SpoolSafe /\ AckSafe

LEMMA ProceedAckSafe ==
    ASSUME TypeOK, AckSafe, NEW w \in Workers, NEW rest, Proceed(w, rest),
           Stored \subseteq Stored'
    PROVE  AckSafe'
  BY DEF AckSafe, Rows, Proceed, Resting, TypeOK

LEMMA RetryAckSafe ==
    ASSUME TypeOK, AckSafe, NEW w \in Workers, work[w].at \in {"ensure", "insert"}, Retry(w),
           Stored \subseteq Stored'
    PROVE  AckSafe'
  <1>1. CASE work[w].left > 1 BY <1>1, BusyWorker DEF Retry, TypeOK, AckSafe, Rows
  <1>2. CASE ~ (work[w].left > 1)
    <2> PICK rest : Proceed(w, rest) BY <1>2 DEF Retry
    <2> QED BY ProceedAckSafe
  <1> QED BY <1>1, <1>2

\* A worker writes the rows it will ack, and touches no line.
LEMMA WorkerSafe ==
    ASSUME IInv, NEW w \in Workers, WorkerStep(w)
    PROVE  Durable' /\ SpoolSafe' /\ AckSafe'
  <1> USE DEF IInv
  <1>1. CASE Receive(w)
    <2>1. UNCHANGED << lines, torn, acked, comp, db, deleted, appended >> BY <1>1 DEF Receive
    <2>2. work[w].at = "receive" BY <1>1 DEF Receive
    <2>3. PICK taken : Proceed(w, taken) \/ work' = [work EXCEPT ![w].batch = taken] BY <1>1 DEF Receive
    <2>4. CASE Proceed(w, taken) BY <2>1, <2>4, ProceedAckSafe DEF Durable, SpoolSafe, Stored
    <2>5. CASE work' = [work EXCEPT ![w].batch = taken]
      <3>1. work[w] \in [at : {"receive"}, batch : SUBSET Entries] BY <2>2 DEF TypeOK, WorkState, Gone
      <3>2. work'[w].at = "receive" /\ \A v \in Workers \ {w} : work'[v] = work[v] BY <2>5, <3>1 DEF TypeOK
      <3> QED BY <2>1, <3>2 DEF Durable, SpoolSafe, AckSafe, Rows, Stored
    <2> QED BY <2>3, <2>4, <2>5
  <1>2. CASE Flush(w) BY <1>2, ProceedAckSafe DEF Flush, Durable, SpoolSafe, Stored
  <1>3. CASE WorkerDone(w)
    <2>1. UNCHANGED << lines, torn, acked, comp, db, deleted, appended >> BY <1>3 DEF WorkerDone
    <2>2. work'[w].at # "ack" /\ \A v \in Workers \ {w} : work'[v] = work[v]
      BY <1>3 DEF WorkerDone, Gone, TypeOK
    <2> QED BY <2>1, <2>2 DEF Durable, SpoolSafe, AckSafe, Rows, Stored
  <1>4. CASE EnsureMonthTable(w)
    <2>1. UNCHANGED << lines, torn, acked, comp, db, deleted, appended >> BY <1>4 DEF EnsureMonthTable
    <2>2. work[w].at = "ensure" BY <1>4 DEF EnsureMonthTable
    <2>3. CASE Retry(w) BY <2>1, <2>2, <2>3, RetryAckSafe DEF Durable, SpoolSafe, Stored
    <2>4. CASE work' = [work EXCEPT ![w].at = "insert"]
      <3>1. work'[w].at = "insert" /\ \A v \in Workers \ {w} : work'[v] = work[v]
        BY <2>2, <2>4, BusyWorker DEF TypeOK
      <3> QED BY <2>1, <3>1 DEF Durable, SpoolSafe, AckSafe, Rows, Stored
    <2> QED BY <1>4, <2>3, <2>4 DEF EnsureMonthTable
  <1>5. CASE Insert(w)
    <2>1. UNCHANGED << lines, torn, acked, comp, deleted, appended >> /\ db \subseteq db'
      BY <1>5 DEF Insert, InsertMissing, InsertFails, InsertSucceeds
    <2>2. work[w].at = "insert" BY <1>5 DEF Insert
    <2>3. CASE Retry(w) BY <2>1, <2>2, <2>3, RetryAckSafe DEF Durable, SpoolSafe, Stored
    <2>4. CASE InsertSucceeds(w)
      <3>1. db' = db \cup Rows(work[w]) BY <2>4 DEF InsertSucceeds
      <3>2. /\ Rows(work'[w]) = Rows(work[w])
            /\ \A v \in Workers \ {w} : work'[v] = work[v]
        BY <2>2, <2>4, BusyWorker DEF InsertSucceeds, TypeOK, Rows
      <3> QED BY <2>1, <3>1, <3>2 DEF Durable, SpoolSafe, AckSafe, Rows, Stored
    <2> QED BY <1>5, <2>3, <2>4 DEF Insert, InsertMissing, InsertFails
  <1>6. CASE Ack(w) BY <1>6, ProceedAckSafe DEF Ack, AckSafe, Durable, SpoolSafe, Stored
  <1> QED BY <1>1, <1>2, <1>3, <1>4, <1>5, <1>6 DEF WorkerStep

\* An append waits for a compaction to end and then adds its line.
LEMMA CallerSafe ==
    ASSUME NoDiskErrors, IInv, NEW c \in Callers, CallerStep(c)
    PROVE  Durable' /\ SpoolSafe' /\ AckSafe'
  <1>1. UNCHANGED << acked, comp, db, deleted, work >> BY DEF CallerStep, Enqueue, AppendLine, Send
  <1>2. CASE AppendLine(c)
    <2>1. comp = Idle BY <1>2 DEF AppendLine
    <2>2. \/ UNCHANGED << disk, appended >>
          \/ torn' = FALSE /\ lines' = lines \cup {call[c].e}
                           /\ appended' = appended \cup {call[c].e}
      BY <1>2 DEF AppendLine, WriteLine, NoDiskErrors, IInv, SpoolSafe
    <2> QED BY <1>1, <2>1, <2>2 DEF IInv, Durable, SpoolSafe, AckSafe, Rows, Stored
  <1>3. CASE Enqueue(c) \/ Send(c)
    <2>1. UNCHANGED << disk, appended >> BY <1>3 DEF Enqueue, Send
    <2> QED BY <1>1, <2>1 DEF IInv, Durable, SpoolSafe, AckSafe, Rows, Stored
  <1> QED BY <1>2, <1>3 DEF CallerStep

\* A compaction drops only what is written, whether it ends or not.
LEMMA CompactorSafe ==
    ASSUME NoDiskErrors, IInv, Compact \/ Rename
    PROVE  Durable' /\ SpoolSafe' /\ AckSafe'
  <1>1. UNCHANGED << db, deleted, work, appended >> BY DEF Compact, Rename
  <1>2. CASE Compact
    <2>1. UNCHANGED disk /\ acked' = {} /\ comp'.kept = lines \ acked BY <1>2 DEF Compact, Kept
    <2> QED BY <1>1, <2>1 DEF IInv, Durable, SpoolSafe, AckSafe, Rows, Stored
  <1>3. CASE Rename
    <2>1. /\ comp # Idle /\ comp' = Idle /\ UNCHANGED acked
          /\ UNCHANGED disk \/ (lines' = comp.kept /\ torn' = FALSE)
      BY <1>3 DEF Rename, NoDiskErrors
    <2> QED BY <1>1, <2>1 DEF IInv, Durable, SpoolSafe, AckSafe, Rows, Stored
  <1> QED BY <1>2, <1>3

LEMMA InitIInv == Init => IInv
  BY InitType DEF Init, IInv, Durable, SpoolSafe, AckSafe, Gone

LEMMA NextIInv == NoDiskErrors => (IInv /\ [Next]_vars => IInv')
  <1> SUFFICES ASSUME NoDiskErrors, IInv, [Next]_vars PROVE IInv' OBVIOUS
  <1>1. TypeOK' BY NextType DEF IInv
  <1>2. Durable' /\ SpoolSafe' /\ AckSafe'
    <2>1. CASE Start
      <3>1. \A w \in Workers : work'[w].at # "ack" BY <2>1 DEF Start, Resting
      <3> QED BY <2>1, <3>1 DEF Start, IInv, Durable, SpoolSafe, AckSafe, Rows, Stored
    <2>2. CASE Crash \/ Shutdown \/ CloseSpool \/ Replay \/ EnsureAhead \/ UNCHANGED vars
      <3>1. UNCHANGED << lines, torn, acked, comp, db, deleted, work, appended >>
        BY <2>2 DEF Crash, Shutdown, CloseSpool, Replay, EnsureAhead, vars
      <3> QED BY <3>1 DEF IInv, Durable, SpoolSafe, AckSafe, Rows, Stored
    <2>3. CASE DeleteAuditLogs \/ DropShard
      <3>1. /\ UNCHANGED << lines, torn, acked, comp, work, appended >>
            /\ Stored' = Stored
        BY <2>3 DEF DeleteAuditLogs, DropShard, Stored
      <3> QED BY <3>1 DEF IInv, Durable, SpoolSafe, AckSafe, Rows
    <2> QED BY <2>1, <2>2, <2>3, WorkerSafe, CallerSafe, CompactorSafe DEF Next
  <1> QED BY <1>1, <1>2 DEF IInv

\* An appended entry is in the spool file or has been written, at every
\* moment of every execution in which the disk takes what it is given.
THEOREM DurableHolds == NoDiskErrors => (Spec => []Durable)
  <1> SUFFICES ASSUME NoDiskErrors PROVE Spec => []Durable OBVIOUS
  <1>1. IInv /\ [Next]_vars => IInv' BY NextIInv
  <1>2. IInv => Durable BY DEF IInv
  <1> QED BY InitIInv, <1>1, <1>2, PTL DEF Spec

-----------------------------------------------------------------------------
(* Refinement *)

LEMMA InitRefines == Init => Trail!Init
  BY DEF Init, Trail!Init, Stored

\* Inserting rows stores them, appending a line accepts its entry, and every
\* other step, a compaction included, changes neither set.
LEMMA StepRefines ==
    ASSUME NoDiskErrors, IInv, [Next]_vars
    PROVE  [Trail!Next]_<< lines \ Stored, Stored >>
  <1>1. ASSUME NEW w \in Workers, WorkerStep(w)
        PROVE  [Trail!Next]_<< lines \ Stored, Stored >>
    <2>1. UNCHANGED lines /\ UNCHANGED deleted
      BY <1>1 DEF WorkerStep, Receive, Flush, WorkerDone, EnsureMonthTable, Insert, Ack
    <2>2. CASE db' = db BY <2>1, <2>2 DEF Stored
    <2>3. CASE db' # db
      <3>1. Insert(w) /\ InsertSucceeds(w)
        BY <1>1, <2>3 DEF WorkerStep, Receive, Flush, WorkerDone, EnsureMonthTable,
                          Insert, InsertMissing, InsertFails, Ack
      <3>2. db' = db \cup Rows(work[w]) BY <3>1 DEF InsertSucceeds
      <3>3. Rows(work[w]) \in SUBSET Entries BY <3>1, BusyWorker DEF Insert, IInv
      <3>4. PICK S \in SUBSET Entries : db' = db \cup S BY <3>2, <3>3
      <3>5. /\ Stored' = Stored \cup S
            /\ (lines \ Stored)' = (lines \ Stored) \ S
        BY <2>1, <3>4 DEF Stored
      <3>6. Trail!Store(S) BY <3>5 DEF Trail!Store
      <3> QED BY <3>6 DEF Trail!Next
    <2> QED BY <2>2, <2>3
  <1>2. ASSUME NEW c \in Callers, CallerStep(c)
        PROVE  [Trail!Next]_<< lines \ Stored, Stored >>
    <2>1. Stored' = Stored BY <1>2 DEF CallerStep, Enqueue, AppendLine, Send, Stored
    <2>2. CASE lines' = lines BY <2>1, <2>2
    <2>3. CASE lines' # lines
      <3>1. AppendLine(c) BY <1>2, <2>3 DEF CallerStep, Enqueue, Send
      <3>2. lines' = lines \cup {call[c].e} BY <2>3, <3>1 DEF AppendLine, WriteLine
      <3>3. call[c].e \in Entries BY <3>1 DEF AppendLine, IInv, TypeOK, CallState, Idle
      <3>4. PICK e \in Entries : lines' = lines \cup {e} BY <3>2, <3>3
      <3>5. CASE e \in Stored BY <2>1, <3>4, <3>5
      <3>6. CASE e \notin Stored
        <4>1. Trail!Accept(e) BY <2>1, <3>4, <3>6 DEF Trail!Accept
        <4> QED BY <3>6, <4>1 DEF Trail!Next
      <3> QED BY <3>5, <3>6
    <2> QED BY <2>2, <2>3
  <1>3. CASE Rename BY <1>3 DEF Rename, Stored, NoDiskErrors, IInv, SpoolSafe
  <1>4. CASE \/ Start \/ Crash \/ Shutdown \/ CloseSpool \/ Replay \/ Compact
             \/ EnsureAhead \/ DeleteAuditLogs \/ DropShard \/ UNCHANGED vars
    <2>1. lines' = lines /\ Stored' = Stored
      BY <1>4 DEF Start, Crash, Shutdown, CloseSpool, Replay, Compact, EnsureAhead,
                  DeleteAuditLogs, DropShard, vars, Stored
    <2> QED BY <2>1
  <1> QED BY <1>1, <1>2, <1>3, <1>4 DEF Next

\* The pipeline keeps what AuditTrail promises: an entry with a line in the
\* file waits there until it is written, and is never forgotten after that.
THEOREM TrailHolds == NoDiskErrors => (Spec => TrailSpec)
  <1> SUFFICES ASSUME NoDiskErrors PROVE Spec => TrailSpec OBVIOUS
  <1>1. IInv /\ [Next]_vars => IInv' BY NextIInv
  <1>2. IInv /\ [Next]_vars => [Trail!Next]_<< lines \ Stored, Stored >> BY StepRefines
  <1> QED BY InitIInv, InitRefines, <1>1, <1>2, PTL DEF Spec, TrailSpec, Trail!Spec

-----------------------------------------------------------------------------
(* What a shutdown may leave in the spool file: where an entry with a line *)
(* can be, followed from the start of the process to its end.              *)

\* Some worker runs, and every compaction replaces the file.
Compacting == Workers # {} /\ "compact" \notin Faults

\* Entries a goroutine or the next compaction will deal with.
Flow == replay \cup Range(queue) \cup InWork \cup failed \cup acked

\* Lines the compaction under way leaves out.
Leaving == IF comp = Idle THEN {} ELSE lines \ comp.kept

\* Entries that nobody deals with before the next start.
Left == (dropped \cup InCalls) \ db

Covered == proc # "down" => lines \subseteq Flow \cup Leaving \cup Left

\* Lines are those of appended entries.
Known ==
    /\ lines \cup replay \subseteq appended
    /\ comp # Idle => comp.kept \subseteq lines

\* An entry that is about to be appended is nowhere else.
Fresh ==
    \A c \in Callers : call[c].at = "append" =>
        /\ call[c].e \notin appended \cup Range(queue) \cup InWork \cup db
        /\ \A k \in Callers \ {c} : call[k] # Idle => call[k].e # call[c].e

\* A worker leaves a closed channel that is empty.
Drained ==
    \A w \in Workers : work[w] = Gone =>
        proc = "down" \/ (proc \in {"closing", "stopped"} /\ queue = << >>)

Ended == proc = "stopped" => comp = Idle /\ acked = {} /\ \A w \in Workers : work[w] = Gone

ShutdownInv == TypeOK /\ Covered /\ Known /\ Fresh /\ Drained /\ Ended

-----------------------------------------------------------------------------
(* What a step of a worker does with its batch *)

OthersWork(w) == UNION {work[v].batch : v \in {k \in Workers \ {w} : work[k] # Gone}}

\* The entries in work are those of one worker and those of the others.
LEMMA InWorkSplit ==
    ASSUME TypeOK, NEW w \in Workers, work[w] # Gone
    PROVE  InWork = OthersWork(w) \cup work[w].batch
  BY DEF InWork, OthersWork

\* They change with the batch of the worker that takes a step.
LEMMA InWorkNext ==
    ASSUME TypeOK, NEW w \in Workers, NEW r, r # Gone, work' = [work EXCEPT ![w] = r]
    PROVE  InWork' = OthersWork(w) \cup r.batch
  BY DEF TypeOK, InWork, OthersWork

LEMMA ProceedWork ==
    ASSUME TypeOK, NEW w \in Workers, NEW rest, Proceed(w, rest)
    PROVE  /\ InWork' = OthersWork(w) \cup rest
           /\ work'[w] # Gone
           /\ \A v \in Workers \ {w} : work'[v] = work[v]
  <1>1. CASE rest = {}
    <2>1. work' = [work EXCEPT ![w] = Resting] /\ Resting # Gone /\ Resting.batch = {}
      BY <1>1 DEF Proceed, Resting, Gone
    <2> QED BY <1>1, <2>1, InWorkNext DEF TypeOK
  <1>2. CASE rest # {} BY <1>2, InWorkNext DEF Proceed, Gone, TypeOK
  <1> QED BY <1>1, <1>2

LEMMA RetryWork ==
    ASSUME TypeOK, NEW w \in Workers, work[w].at \in {"ensure", "insert"}, Retry(w)
    PROVE  /\ InWork \cup failed = InWork' \cup failed' /\ InWork' \subseteq InWork
           /\ failed \subseteq failed'
           /\ work'[w] # Gone
           /\ \A v \in Workers \ {w} : work'[v] = work[v]
  BY InWorkSplit, BusyWorker, InWorkNext, ProceedWork DEF Gone, Retry, TypeOK, Rows

-----------------------------------------------------------------------------
(* The channel *)

LEMMA RangeTail ==
    ASSUME NEW S, NEW q \in Seq(S), q # << >>
    PROVE  Range(q) = {Head(q)} \cup Range(Tail(q))
  <1>1. /\ Len(q) \in Nat \ {0} /\ DOMAIN q = 1 .. Len(q)
        /\ Tail(q) \in Seq(S) /\ Len(Tail(q)) = Len(q) - 1
        /\ DOMAIN Tail(q) = 1 .. Len(q) - 1
        /\ \A i \in 1 .. Len(q) - 1 : Tail(q)[i] = q[i + 1]
        /\ Head(q) = q[1]
    OBVIOUS
  <1>2. Range(q) \subseteq {Head(q)} \cup Range(Tail(q))
    <2> SUFFICES ASSUME NEW i \in 1 .. Len(q), i # 1 PROVE q[i] \in Range(Tail(q)) BY <1>1 DEF Range
    <2>1. i - 1 \in 1 .. Len(q) - 1 /\ q[i] = Tail(q)[i - 1] BY <1>1
    <2> QED BY <1>1, <2>1 DEF Range
  <1>3. {Head(q)} \cup Range(Tail(q)) \subseteq Range(q) BY <1>1 DEF Range
  <1> QED BY <1>2, <1>3

LEMMA RangeAppend ==
    ASSUME NEW S, NEW q \in Seq(S), NEW e \in S
    PROVE  Range(Append(q, e)) = Range(q) \cup {e}
  <1>1. /\ Len(q) \in Nat /\ DOMAIN q = 1 .. Len(q)
        /\ DOMAIN Append(q, e) = 1 .. Len(q) + 1
        /\ \A i \in 1 .. Len(q) : Append(q, e)[i] = q[i]
        /\ Append(q, e)[Len(q) + 1] = e
    OBVIOUS
  <1>2. \A i \in 1 .. Len(q) + 1 : i \in 1 .. Len(q) \/ i = Len(q) + 1 BY <1>1
  <1>3. Range(Append(q, e)) \subseteq Range(q) \cup {e} BY <1>1, <1>2 DEF Range
  <1>4. Range(q) \cup {e} \subseteq Range(Append(q, e)) BY <1>1 DEF Range
  <1> QED BY <1>3, <1>4

-----------------------------------------------------------------------------
(* Workers *)

\* A worker moves entries from the channel to its batch, and from there to the
\* written or the given up ones; it loses none and invents none.
LEMMA WorkerEffect ==
    ASSUME TypeOK, NEW w \in Workers, WorkerStep(w)
    PROVE  /\ UNCHANGED << proc, lines, appended, dropped, replay, call, comp >> /\ Running
           /\ Flow \subseteq Flow'
           /\ Range(queue') \cup InWork' \subseteq Range(queue) \cup InWork
           /\ db' \subseteq db \cup (InWork \cap InWork')
           /\ queue = << >> => queue' = << >>
           /\ \A v \in Workers : work'[v] = Gone =>
                 work[v] = Gone \/ (proc = "closing" /\ queue = << >>)
  <1>1. CASE Receive(w)
    <2>1. /\ UNCHANGED << proc, lines, appended, dropped, replay, call, comp, acked, failed, db >>
          /\ Running /\ queue # << >> /\ queue' = Tail(queue)
      BY <1>1 DEF Receive
    <2>2. Range(queue) = {Head(queue)} \cup Range(queue') BY <2>1, RangeTail DEF TypeOK
    <2>3. work[w] \in [at : {"receive"}, batch : SUBSET Entries] /\ work[w] # Gone
      BY <1>1 DEF Receive, TypeOK, WorkState, Gone
    <2> DEFINE taken == work[w].batch \cup {Head(queue)}
    <2>4. InWork' = OthersWork(w) \cup taken /\ work'[w] # Gone
          /\ \A v \in Workers \ {w} : work'[v] = work[v]
      <3>1. CASE Proceed(w, taken) BY <3>1, ProceedWork
      <3>2. CASE work' = [work EXCEPT ![w].batch = taken]
        <4> DEFINE r == [work[w] EXCEPT !.batch = taken]
        <4>1. work' = [work EXCEPT ![w] = r] /\ r # Gone /\ r.batch = taken BY <2>3, <3>2 DEF Gone
        <4> HIDE DEF r
        <4> QED BY <4>1, InWorkNext DEF TypeOK
      <3> QED BY <1>1, <3>1, <3>2 DEF Receive
    <2>5. InWork = OthersWork(w) \cup work[w].batch BY <2>3, InWorkSplit
    <2> QED BY <2>1, <2>2, <2>4, <2>5 DEF Flow
  <1>2. CASE Flush(w) BY <1>2, InWorkSplit, ProceedWork DEF Flush, Gone, Flow
  <1>3. CASE WorkerDone(w)
    <2>1. /\ UNCHANGED << proc, lines, appended, dropped, replay, call, comp, acked, failed, db, queue >>
          /\ Running /\ proc = "closing" /\ queue = << >>
          /\ work[w] = Resting /\ work' = [work EXCEPT ![w] = Gone]
      BY <1>3 DEF WorkerDone, Running
    <2>2. InWork = OthersWork(w) /\ InWork' = OthersWork(w)
      BY <2>1, InWorkSplit DEF Resting, Gone, TypeOK, InWork, OthersWork
    <2> QED BY <2>1, <2>2 DEF Flow, TypeOK
  <1>4. CASE EnsureMonthTable(w)
    <2>1. UNCHANGED << proc, lines, appended, dropped, replay, call, comp, acked, db, queue >> /\ Running
      BY <1>4 DEF EnsureMonthTable
    <2>2. work[w].at = "ensure" BY <1>4 DEF EnsureMonthTable
    <2>3. CASE Retry(w) BY <2>1, <2>2, <2>3, RetryWork DEF Flow
    <2>4. CASE work' = [work EXCEPT ![w].at = "insert"] /\ failed' = failed
      <3> DEFINE r == [work[w] EXCEPT !.at = "insert"]
      <3>1. work' = [work EXCEPT ![w] = r] /\ r # Gone /\ r.batch = work[w].batch /\ work[w] # Gone
        BY <2>2, <2>4, BusyWorker DEF Gone
      <3> HIDE DEF r
      <3>2. InWork' = InWork BY <3>1, InWorkSplit, InWorkNext
      <3>3. \A v \in Workers : work'[v] = Gone => work[v] = Gone BY <3>1 DEF TypeOK
      <3> QED BY <2>1, <2>4, <3>2, <3>3 DEF Flow
    <2> QED BY <1>4, <2>3, <2>4 DEF EnsureMonthTable
  <1>5. CASE Insert(w)
    <2>1. UNCHANGED << proc, lines, appended, dropped, replay, call, comp, acked, queue >> /\ Running
      BY <1>5 DEF Insert
    <2>2. work[w].at = "insert" BY <1>5 DEF Insert
    <2>3. CASE Retry(w) /\ db' = db BY <2>1, <2>2, <2>3, RetryWork DEF Flow
    <2>4. CASE InsertSucceeds(w)
      <3> DEFINE r == [work[w] EXCEPT !.at = "ack"]
      <3>1. work' = [work EXCEPT ![w] = r] /\ r # Gone /\ r.batch = work[w].batch /\ work[w] # Gone
        BY <2>2, <2>4, BusyWorker DEF Gone, InsertSucceeds
      <3> HIDE DEF r
      <3>2. InWork' = InWork /\ work[w].batch \subseteq InWork BY <3>1, InWorkSplit, InWorkNext
      <3>3. \A v \in Workers : work'[v] = Gone => work[v] = Gone BY <3>1 DEF TypeOK
      <3>4. failed' = failed /\ db' = db \cup Rows(work[w]) /\ Rows(work[w]) \subseteq work[w].batch
        BY <2>4 DEF InsertSucceeds, Rows
      <3> QED BY <2>1, <3>2, <3>3, <3>4 DEF Flow
    <2> QED BY <1>5, <2>3, <2>4 DEF Insert, InsertMissing, InsertFails
  <1>6. CASE Ack(w) BY <1>6, InWorkSplit, ProceedWork DEF Ack, Gone, Flow
  <1> QED BY <1>1, <1>2, <1>3, <1>4, <1>5, <1>6 DEF WorkerStep

LEMMA WorkerShutdown ==
    ASSUME ShutdownInv, NEW w \in Workers, WorkerStep(w)
    PROVE  Covered' /\ Known' /\ Fresh' /\ Drained' /\ Ended'
  <1> USE DEF ShutdownInv
  <1>1. /\ UNCHANGED << proc, lines, appended, dropped, replay, call, comp >> /\ proc \in {"up", "closing"}
        /\ Flow \subseteq Flow'
        /\ Range(queue') \cup InWork' \subseteq Range(queue) \cup InWork
        /\ db' \subseteq db \cup (InWork \cap InWork')
        /\ queue = << >> => queue' = << >>
        /\ \A v \in Workers : work'[v] = Gone =>
              work[v] = Gone \/ (proc = "closing" /\ queue = << >>)
    BY WorkerEffect DEF Running
  <1>2. InCalls' = InCalls /\ Leaving' = Leaving BY <1>1 DEF InCalls, Leaving
  <1>3. Left \subseteq Left' \cup InWork' /\ InWork' \subseteq Flow' BY <1>1, <1>2 DEF Left, Flow
  <1>4. Covered' BY <1>1, <1>2, <1>3 DEF Covered
  <1>5. Known' /\ Ended' BY <1>1 DEF Known, Ended
  <1>6. Fresh' BY <1>1 DEF Fresh
  <1>7. Drained' BY <1>1 DEF Drained
  <1> QED BY <1>4, <1>5, <1>6, <1>7

-----------------------------------------------------------------------------
(* Callers and the replay *)

LEMMA CallerShutdown ==
    ASSUME ShutdownInv, NEW c \in Callers, CallerStep(c)
    PROVE  Covered' /\ Known' /\ Fresh' /\ Drained' /\ Ended'
  <1> USE DEF ShutdownInv
  <1>0. UNCHANGED << replay, acked, comp, db, failed, work >> /\ proc \in {"up", "closing"}
        /\ InWork' = InWork
    BY DEF CallerStep, Enqueue, AppendLine, Send, Running, InWork
  <1>1. CASE Enqueue(c)
    <2>1. UNCHANGED << proc, lines, appended, dropped, queue >> /\ call[c] = Idle BY <1>1 DEF Enqueue
    <2>2. PICK e \in Entries \ (appended \cup InCalls \cup InWork \cup Range(queue) \cup db) :
             call' = [call EXCEPT ![c] = [at |-> "append", e |-> e]]
      BY <1>1 DEF Enqueue, Stored
    <2>3. call'[c] = [at |-> "append", e |-> e] /\ \A k \in Callers \ {c} : call'[k] = call[k]
      BY <2>2 DEF TypeOK
    <2>4. InCalls \subseteq InCalls' BY <2>1, <2>3 DEF InCalls
    <2>5. Covered' /\ Known' /\ Drained' /\ Ended'
      BY <1>0, <2>1, <2>4 DEF Covered, Known, Drained, Ended, Flow, Leaving, Left
    <2>6. Fresh' BY <1>0, <2>1, <2>2, <2>3 DEF Fresh, InCalls, Idle
    <2> QED BY <2>5, <2>6
  <1>2. CASE AppendLine(c)
    <2>1. /\ UNCHANGED << proc, dropped, queue >> /\ call[c].at = "append" /\ comp = Idle
          /\ call' = [call EXCEPT ![c].at = "send"]
      BY <1>2 DEF AppendLine
    <2>2. call[c] \in [at : {"append"}, e : Entries] BY <2>1 DEF TypeOK, CallState, Idle
    <2>3. /\ call'[c].at = "send" /\ call'[c].e = call[c].e /\ call'[c] # Idle
          /\ \A k \in Callers \ {c} : call'[k] = call[k]
      BY <2>1, <2>2 DEF TypeOK, Idle
    <2>4. /\ lines \subseteq lines' /\ lines' \subseteq lines \cup {call[c].e}
          /\ appended \subseteq appended' /\ appended' \subseteq appended \cup {call[c].e}
          /\ lines' \subseteq lines \cup appended'
      BY <1>2 DEF AppendLine, WriteLine
    <2>5. InCalls \subseteq InCalls' /\ call[c].e \in InCalls' /\ call[c].e \notin db
      BY <2>1, <2>3 DEF Idle, Fresh, InCalls
    <2>6. Covered' BY <1>0, <2>1, <2>4, <2>5 DEF Covered, Flow, Leaving, Left
    <2>7. Known' /\ Drained' /\ Ended' BY <1>0, <2>1, <2>4 DEF Known, Drained, Ended
    <2>8. Fresh' BY <1>0, <2>1, <2>3, <2>4 DEF Fresh, Idle
    <2> QED BY <2>6, <2>7, <2>8
  <1>3. CASE Send(c)
    <2>1. UNCHANGED << lines, appended >> /\ call[c].at = "send" /\ call[c] # Idle BY <1>3 DEF Send, Idle
    <2>2. call[c] \in [at : {"send"}, e : Entries] BY <2>1 DEF TypeOK, CallState, Idle
    <2>3. /\ \A k \in Callers \ {c} : call'[k] = call[k]
          /\ call'[c] # Idle => call'[c].at = "panic" /\ call'[c].e = call[c].e
          /\ call'[c].at # "append"
      BY <1>3, <2>2 DEF Send, Return, TypeOK, Idle
    <2>4. /\ proc' \in {proc, "down"}
          /\ \/ proc = "up" /\ queue' = Append(queue, call[c].e) /\ UNCHANGED dropped
             \/ queue' = queue /\ dropped' = dropped \cup {call[c].e}
             \/ UNCHANGED << queue, dropped >> /\ call'[c].at = "panic" /\ call'[c].e = call[c].e /\ call'[c] # Idle
      BY <1>3, <2>2 DEF Send, TypeOK, Idle
    <2>5. Range(queue) \subseteq Range(queue') /\ Range(queue') \subseteq Range(queue) \cup {call[c].e}
          /\ call[c].e \in Range(queue') \cup dropped' \cup InCalls'
      <3>1. CASE queue' = Append(queue, call[c].e) BY <2>2, <3>1, RangeAppend DEF TypeOK
      <3>2. CASE queue' = queue /\ dropped' = dropped \cup {call[c].e} BY <3>2
      <3>3. CASE queue' = queue /\ call'[c].e = call[c].e /\ call'[c] # Idle BY <3>3 DEF InCalls
      <3> QED BY <2>4, <3>1, <3>2, <3>3
    <2>6. InCalls \subseteq InCalls' \cup {call[c].e} /\ dropped \subseteq dropped' BY <2>3, <2>4 DEF InCalls
    <2>7. Covered' BY <1>0, <2>1, <2>5, <2>6 DEF Flow, Leaving, Left, Covered
    <2>8. Known' /\ Drained' /\ Ended' BY <1>0, <2>1, <2>4 DEF Known, Drained, Ended
    <2>9. Fresh' BY <1>0, <2>1, <2>3, <2>5 DEF Fresh
    <2> QED BY <2>7, <2>8, <2>9
  <1> QED BY <1>1, <1>2, <1>3 DEF CallerStep

LEMMA ReplayShutdown ==
    ASSUME ShutdownInv, Replay
    PROVE  Covered' /\ Known' /\ Fresh' /\ Drained' /\ Ended'
  <1> USE DEF ShutdownInv
  <1>1. /\ UNCHANGED << lines, appended, dropped, acked, comp, db, failed, work, call >>
        /\ proc \in {"up", "closing"} /\ proc' \in {proc, "down"}
        /\ InWork' = InWork /\ InCalls' = InCalls
    BY DEF Replay, Running, InWork, InCalls
  <1>2. PICK e \in replay :
           \/ proc = "up" /\ queue' = Append(queue, e) /\ replay' = replay \ {e}
           \/ UNCHANGED channel
    BY DEF Replay
  <1>3. /\ Range(queue) \subseteq Range(queue') /\ Range(queue') \subseteq Range(queue) \cup {e}
        /\ replay' \subseteq replay /\ replay \subseteq replay' \cup Range(queue')
    <2>1. CASE queue' = Append(queue, e) /\ replay' = replay \ {e} BY <2>1, RangeAppend DEF TypeOK
    <2>2. CASE UNCHANGED channel BY <2>2
    <2> QED BY <1>2, <2>1, <2>2
  <1>4. Covered' /\ Known' /\ Ended' BY <1>1, <1>3 DEF Covered, Known, Ended, Flow, Leaving, Left
  <1>5. Drained' BY <1>1, <1>2 DEF Drained
  <1>6. e \in appended BY DEF Known
  <1>7. Fresh' BY <1>1, <1>3, <1>6 DEF Fresh
  <1> QED BY <1>4, <1>5, <1>7

-----------------------------------------------------------------------------
(* Compactions, the tables, and the life of the process *)

LEMMA CompactorShutdown ==
    ASSUME Compacting, ShutdownInv, Compact \/ Rename
    PROVE  Covered' /\ Known' /\ Fresh' /\ Drained' /\ Ended'
  <1> USE DEF ShutdownInv
  <1>1. /\ UNCHANGED << proc, queue, replay, appended, dropped, db, failed, work, call >>
        /\ proc \in {"up", "closing"} /\ InWork' = InWork /\ InCalls' = InCalls
    BY DEF Compact, Rename, Running, InWork, InCalls
  <1>2. CASE Compact
    <2>1. /\ comp = Idle /\ comp' = [at |-> "rewrite", kept |-> lines \ acked]
          /\ comp' # Idle /\ comp'.kept = lines \ acked /\ lines' = lines /\ acked' = {}
      BY <1>2 DEF Compact, Kept, Idle
    <2>2. acked \cap lines \subseteq Leaving' BY <2>1 DEF Leaving
    <2> QED BY <1>1, <2>1, <2>2 DEF Covered, Known, Fresh, Drained, Ended, Flow, Leaving, Left
  <1>3. CASE Rename
    <2>1. comp # Idle /\ comp' = Idle /\ lines' \subseteq comp.kept /\ acked' = acked
      BY <1>3 DEF Rename, Compacting
    <2> QED BY <1>1, <2>1 DEF Covered, Known, Fresh, Drained, Ended, Flow, Leaving, Left
  <1> QED BY <1>2, <1>3

\* A start puts every line into the replay.
LEMMA StartShutdown ==
    ASSUME ShutdownInv, Start
    PROVE  Covered' /\ Known' /\ Fresh' /\ Drained' /\ Ended'
  <1>1. /\ proc' = "up" /\ lines' = lines /\ replay' = lines /\ appended' = appended /\ comp' = Idle
        /\ \A c \in Callers : call'[c].at # "append"
        /\ \A w \in Workers : work'[w] # Gone
    BY DEF Start, Idle, Resting, Gone
  <1> QED BY <1>1 DEF ShutdownInv, Covered, Known, Fresh, Drained, Ended, Flow, Leaving, Left

LEMMA InitShutdown == Init => ShutdownInv
  <1> SUFFICES ASSUME Init PROVE ShutdownInv OBVIOUS
  <1>1. \A c \in Callers : call[c].at # "append" BY DEF Init, Idle
  <1> QED BY <1>1, InitType DEF Init, ShutdownInv, Covered, Known, Fresh, Drained, Ended

LEMMA NextShutdown == Compacting => (ShutdownInv /\ [Next]_vars => ShutdownInv')
  <1> SUFFICES ASSUME Compacting, ShutdownInv, [Next]_vars PROVE ShutdownInv' OBVIOUS
  <1>1. TypeOK' BY NextType DEF ShutdownInv
  <1>2. Covered' /\ Known' /\ Fresh' /\ Drained' /\ Ended'
    <2>1. CASE Start BY <2>1, StartShutdown
    <2>2. CASE Crash \/ Shutdown \/ CloseSpool
      <3>1. /\ UNCHANGED << lines, acked, comp, queue, replay, call, work, db, failed, dropped, appended >>
            /\ Flow' = Flow /\ Leaving' = Leaving /\ Left' = Left /\ InWork' = InWork
        BY <2>2 DEF Crash, Shutdown, CloseSpool, Flow, Leaving, Left, InCalls, InWork
      <3>2. CASE Crash BY <3>1, <3>2 DEF Crash, ShutdownInv, Covered, Known, Fresh, Drained, Ended
      <3>3. CASE Shutdown BY <3>1, <3>3 DEF Shutdown, ShutdownInv, Covered, Known, Fresh, Drained, Ended
      <3>4. CASE CloseSpool BY <3>1, <3>4 DEF CloseSpool, ShutdownInv, Covered, Known, Fresh, Drained, Ended
      <3> QED BY <2>2, <3>2, <3>3, <3>4
    <2>3. CASE \E c \in Callers : CallerStep(c) BY <2>3, CallerShutdown
    <2>4. CASE Replay BY <2>4, ReplayShutdown
    <2>5. CASE \E w \in Workers : WorkerStep(w) BY <2>5, WorkerShutdown
    <2>6. CASE Compact \/ Rename BY <2>6, CompactorShutdown
    <2>7. CASE EnsureAhead \/ DeleteAuditLogs \/ DropShard \/ UNCHANGED vars
      <3>1. /\ UNCHANGED << proc, lines, acked, comp, queue, replay, call, work, failed, dropped, appended >>
            /\ db' \subseteq db
        BY <2>7 DEF EnsureAhead, DeleteAuditLogs, DropShard, vars
      <3>2. /\ Flow' = Flow /\ Leaving' = Leaving /\ Left \subseteq Left' /\ InWork' = InWork
        BY <3>1 DEF Flow, Leaving, Left, InCalls, InWork
      <3> QED BY <3>1, <3>2 DEF ShutdownInv, Covered, Known, Fresh, Drained, Ended
    <2> QED BY <2>1, <2>2, <2>3, <2>4, <2>5, <2>6, <2>7 DEF Next
  <1> QED BY <1>1, <1>2 DEF ShutdownInv

LEMMA ShutdownIsClean == Compacting /\ ShutdownInv => CleanShutdown
  <1> SUFFICES ASSUME Compacting, ShutdownInv, proc = "stopped", NEW e \in lines
               PROVE  e \in replay \cup failed \/ (e \notin db /\ e \in dropped \cup InCalls)
    BY DEF CleanShutdown
  <1>1. comp = Idle /\ acked = {} /\ \A w \in Workers : work[w] = Gone BY DEF ShutdownInv, Ended
  <1>2. queue = << >> BY <1>1 DEF ShutdownInv, Drained, Compacting
  <1>3. InWork = {} /\ Range(queue) = {} /\ Leaving = {} BY <1>1, <1>2 DEF InWork, Range, Leaving
  <1> QED BY <1>1, <1>3 DEF ShutdownInv, Covered, Flow, Left

\* When Shutdown has returned (queue.go:119-120), what is left in the spool is
\* what the replay had yet to send, what could not be written, and what is not
\* in the database because the channel was full or its caller came too late -
\* as long as every compaction replaces the file.
THEOREM CleanShutdownHolds == Compacting => (Spec => []CleanShutdown)
  <1> SUFFICES ASSUME Compacting PROVE Spec => []CleanShutdown OBVIOUS
  <1>1. ShutdownInv /\ [Next]_vars => ShutdownInv' BY NextShutdown
  <1>2. ShutdownInv => CleanShutdown BY ShutdownIsClean
  <1> QED BY InitShutdown, <1>1, <1>2, PTL DEF Spec

-----------------------------------------------------------------------------
(* A dropped table *)

\* Statements do not fail of themselves, and one table is dropped.
OneDrop == "db" \notin Faults /\ MaxDrops = 1

\* Before the drop the tables that are taken for known exist.
Undropped ==
    drops = 0 =>
        /\ ensured \subseteq shards
        /\ \A w \in Workers :
              /\ work[w].at \in {"ensure", "insert"} => work[w].left = InsertAttempts
              /\ work[w].at = "insert" => work[w].month \in shards

\* A second attempt creates the table, or finds it.
SecondTry ==
    \A w \in Workers :
        /\ work[w].at = "ensure" => work[w].left = InsertAttempts \/ work[w].month \notin ensured \/ work[w].month \in shards
        /\ work[w].at = "insert" => work[w].left = InsertAttempts \/ work[w].month \in shards

DropInv == TypeOK /\ drops \in Nat /\ DropTolerated /\ Undropped /\ SecondTry

\* A worker that goes on to the next month starts with its first attempt.
LEMMA ProceedDrop ==
    ASSUME TypeOK, NEW w \in Workers, NEW rest, Proceed(w, rest)
    PROVE  /\ \A v \in Workers \ {w} : work'[v] = work[v]
           /\ work'[w].at \in {"receive", "ensure"}
           /\ work'[w].at = "ensure" => work'[w].left = InsertAttempts
  BY DEF Proceed, Resting, TypeOK

LEMMA WorkerDrop ==
    ASSUME OneDrop, DropInv, NEW w \in Workers, WorkerStep(w)
    PROVE  DropTolerated' /\ Undropped' /\ SecondTry'
  <1> USE DEF DropInv
  <1>1. CASE Receive(w) \/ Flush(w) \/ WorkerDone(w) \/ Ack(w)
    <2>1. UNCHANGED << ensured, shards, drops, failed >> BY <1>1 DEF Receive, Flush, WorkerDone, Ack
    <2>2. /\ \A v \in Workers \ {w} : work'[v] = work[v]
          /\ work'[w].at \in {"receive", "ensure", "gone"}
          /\ work'[w].at = "ensure" => work'[w].left = InsertAttempts
      <3>1. CASE \E rest : Proceed(w, rest) BY <3>1, ProceedDrop
      <3>2. CASE work' = [work EXCEPT ![w] = Gone] BY <3>2 DEF TypeOK, Gone
      <3>3. CASE Receive(w) /\ ~ \E rest : Proceed(w, rest) BY <3>3 DEF Receive, TypeOK, WorkState, Gone
      <3> QED BY <1>1, <3>1, <3>2, <3>3 DEF Flush, WorkerDone, Ack
    <2> QED BY <2>1, <2>2 DEF DropTolerated, Undropped, SecondTry
  <1>2. CASE EnsureMonthTable(w)
    BY <1>2, BusyWorker DEF EnsureMonthTable, OneDrop, TypeOK, SecondTry, Undropped, DropTolerated
  <1>3. CASE Insert(w)
    <2>1. UNCHANGED << drops, shards >> /\ work[w].at = "insert" BY <1>3 DEF Insert
    <2>2. CASE InsertMissing(w)
      <3>1. work[w].month \notin shards /\ work[w].left = InsertAttempts /\ drops # 0
        BY <2>1, <2>2 DEF InsertMissing, SecondTry, Undropped
      <3>2. /\ UNCHANGED failed /\ ensured' = ensured \ {work[w].month}
            /\ work' = [work EXCEPT ![w].at = "ensure", ![w].left = @ - 1]
        BY <2>2, <3>1 DEF InsertMissing, Retry, InsertAttempts
      <3>3. /\ \A v \in Workers \ {w} : work'[v] = work[v]
            /\ work'[w].at = "ensure" /\ work'[w].month = work[w].month
        BY <2>1, <3>2, BusyWorker DEF TypeOK
      <3>4. DropTolerated' /\ Undropped' BY <2>1, <3>1, <3>2 DEF DropTolerated, Undropped
      <3>5. SecondTry'
        <4> SUFFICES ASSUME NEW v \in Workers
                     PROVE  /\ work'[v].at = "ensure" => work'[v].left = InsertAttempts \/ work'[v].month \notin ensured'
                                                           \/ work'[v].month \in shards'
                            /\ work'[v].at = "insert" => work'[v].left = InsertAttempts \/ work'[v].month \in shards'
          BY DEF SecondTry
        <4>1. CASE v = w BY <3>2, <3>3, <4>1
        <4>2. CASE v # w
          <5>1. work'[v] = work[v] /\ ensured' \subseteq ensured /\ shards' = shards BY <2>1, <3>2, <3>3, <4>2
          <5>2. /\ work[v].at = "ensure" => work[v].left = InsertAttempts \/ work[v].month \notin ensured
                                                             \/ work[v].month \in shards
                /\ work[v].at = "insert" => work[v].left = InsertAttempts \/ work[v].month \in shards
            BY DEF SecondTry
          <5> QED BY <5>1, <5>2
        <4> QED BY <4>1, <4>2
      <3> QED BY <3>4, <3>5
    <2>3. CASE InsertSucceeds(w)
      BY <2>3, <2>1, BusyWorker DEF InsertSucceeds, TypeOK, DropTolerated, Undropped, SecondTry
    <2> QED BY <1>3, <2>2, <2>3 DEF Insert, InsertFails, OneDrop
  <1> QED BY <1>1, <1>2, <1>3 DEF WorkerStep

LEMMA NextDrop == OneDrop => (DropInv /\ [Next]_vars => DropInv')
  <1> SUFFICES ASSUME OneDrop, DropInv, [Next]_vars PROVE DropInv' OBVIOUS
  <1>1. TypeOK' BY NextType DEF DropInv
  <1>2. CASE \E w \in Workers : WorkerStep(w)
    <2>1. UNCHANGED drops BY <1>2 DEF WorkerStep, Receive, Flush, WorkerDone, EnsureMonthTable, Insert, Ack
    <2> QED BY <1>1, <1>2, <2>1, WorkerDrop DEF DropInv
  <1>3. CASE Start BY <1>3, <1>1 DEF Start, Resting, DropInv, DropTolerated, Undropped, SecondTry
  <1>4. CASE DropShard BY <1>4, <1>1 DEF DropShard, OneDrop, DropInv, Undropped, DropTolerated, SecondTry
  <1>5. CASE EnsureAhead BY <1>5, <1>1 DEF EnsureAhead, DropInv, DropTolerated, Undropped, SecondTry
  <1>6. CASE \/ Crash \/ Shutdown \/ CloseSpool \/ Replay \/ Compact \/ Rename \/ DeleteAuditLogs
             \/ UNCHANGED vars \/ \E c \in Callers : CallerStep(c)
    <2>1. UNCHANGED << drops, ensured, shards, work, failed >>
      BY <1>6 DEF Crash, Shutdown, CloseSpool, Replay, Compact, Rename, DeleteAuditLogs, vars,
                  CallerStep, Enqueue, AppendLine, Send
    <2> QED BY <1>1, <2>1 DEF DropInv, DropTolerated, Undropped, SecondTry
  <1> QED BY <1>2, <1>3, <1>4, <1>5, <1>6 DEF Next

\* A table dropped while the pipeline runs makes no worker give rows up: the
\* second attempt (queue.go:204-208) creates it again, whatever the other
\* workers, the month scheduler and restarts do in between.
THEOREM DropToleratedHolds == OneDrop => (Spec => []DropTolerated)
  <1> SUFFICES ASSUME OneDrop PROVE Spec => []DropTolerated OBVIOUS
  <1>1. Init => DropInv BY InitType DEF Init, DropInv, DropTolerated, Undropped, SecondTry, Gone
  <1>2. DropInv /\ [Next]_vars => DropInv' BY NextDrop
  <1>3. DropInv => DropTolerated BY DEF DropInv
  <1> QED BY <1>1, <1>2, <1>3, PTL DEF Spec
\* A table dropped while the pipeline runs, and the process crashes, costs no entry: the
\* write is tried again on a new table (queue.go:204-208).  This is DropTolerated for the
\* specification that MCAuditCases checks: a behaviour of it stays in the case it starts in.
THEOREM DropCostsNothingHolds == OneDrop => (CasesSpec => []DropCostsNothing)
  <1> DEFINE CasesInv == focus = "drop" => DropInv
  <1> SUFFICES ASSUME OneDrop PROVE CasesSpec => []DropCostsNothing OBVIOUS
  <1>1. CasesInit => CasesInv
    BY InitType DEF CasesInit, Init, DropInv, DropTolerated, Undropped, SecondTry, Gone
  <1>2. CasesInv /\ [CasesNext]_<< focus, vars >> => CasesInv'
    <2> SUFFICES ASSUME CasesInv, [CasesNext]_<< focus, vars >>, focus' = "drop" PROVE DropInv' OBVIOUS
    <2>1. CASE DropStep BY <2>1, NextDrop DEF DropStep
    <2>2. CASE ShutdownStep BY <2>2 DEF ShutdownStep
    <2>3. CASE UNCHANGED << focus, vars >> BY <2>3, NextDrop
    <2> QED BY <2>1, <2>2, <2>3 DEF CasesNext
  <1>3. CasesInv => DropCostsNothing BY DEF DropInv, DropCostsNothing
  <1> QED BY <1>1, <1>2, <1>3, PTL DEF CasesSpec

-----------------------------------------------------------------------------
(* How long an entry waits in the batch of one worker *)

\* While entries wait the timer is running, and what has passed with what it
\* has left is at most an interval for each of them.
Waiting ==
    /\ batch \in 0 .. BatchLimit - 1
    /\ age \in Nat
    /\ timer \in Nat \cup {Stopped}
    /\ batch = 0 => age = 0
    /\ batch > 0 => timer \in Nat /\ age + timer <= batch * FlushInterval

\* The only facts about products the proof needs.
LEMMA OneMore ==
    ASSUME NEW n \in Nat, NEW k \in Nat
    PROVE  (n + 1) * k = n * k + k /\ n * k \in Nat
  OBVIOUS

LEMMA Monotone ==
    ASSUME NEW n \in Nat, NEW m \in Nat, NEW k \in Nat, n <= m
    PROVE  n * k <= m * k
  OBVIOUS

LEMMA InitWaiting == WorkerInit => Waiting
  BY WorkerAssumption DEF WorkerInit, Waiting, WorkerAssumption, Stopped

LEMMA NextWaiting == Waiting /\ [WorkerNext]_workerVars => Waiting'
  <1> SUFFICES ASSUME Waiting, [WorkerNext]_workerVars PROVE Waiting' OBVIOUS
  <1> USE WorkerAssumption DEF WorkerAssumption, Stopped
  <1>1. CASE TakeEntry BY <1>1, OneMore DEF TakeEntry, Waiting
  <1>2. CASE TimerFires BY <1>2 DEF TimerFires, Waiting
  <1>3. CASE Tick BY <1>3 DEF Tick, Waiting
  <1>4. CASE UNCHANGED workerVars BY <1>4 DEF workerVars, Waiting
  <1> QED BY <1>1, <1>2, <1>3, <1>4 DEF WorkerNext

\* An entry waits at most (BatchLimit - 1) * FlushInterval in the batch of a
\* worker, whenever entries come.
THEOREM LingerAtMostHolds == WorkerSpec => []LingerAtMost
  <1>1. Waiting => LingerAtMost
    BY WorkerAssumption, OneMore, Monotone DEF WorkerAssumption, Waiting, LingerAtMost
  <1> QED BY <1>1, InitWaiting, NextWaiting, PTL DEF WorkerSpec
=============================================================================
