--------------------------- MODULE AuditPipeline ---------------------------
(***************************************************************************)
(* The asynchronous audit log: callers append an entry to a spool file and *)
(* offer it to a bounded channel, workers write batches of them into one   *)
(* table per month, and a compactor drops written entries from the file.   *)
(* (services/audit/queue.go, spool.go, tables.go)                          *)
(***************************************************************************)
EXTENDS Integers, Sequences, SequencesExt, FiniteSets

CONSTANTS
    Entries,        \* log entries; each is handed to Enqueue at most once
    Callers,        \* goroutines that call Enqueue
    Workers,        \* queue workers
    Months,         \* months entries belong to
    MonthOf,        \* the month of each entry
    Ahead,          \* months whose tables the month scheduler creates ahead
    QueueCapacity,
    BatchSize,
    Faults,         \* "db": statements may fail; "compact": opening, creating or
                    \* renaming a file in a compaction may fail; "short_write": an
                    \* append may be cut short; "flush": a compaction's buffered
                    \* writes may fail; "crash": the process may die
    Events,         \* "delete": logs may be deleted; "drop": tables may be dropped;
                    \* "shutdown": the process may be asked to stop
    MaxStarts,      \* bound: times the process starts
    MaxDrops        \* bound: tables dropped

ASSUME AuditAssumption ==
    /\ MonthOf \in [Entries -> Months]
    /\ Ahead \subseteq Months
    /\ QueueCapacity \in Nat /\ BatchSize \in Nat \ {0}
    /\ MaxStarts \in Nat /\ MaxDrops \in Nat

VARIABLES
    proc,       \* "down", "up", "closing" (in Shutdown) or "stopped"
    starts,     \* times the process has started
    lines,      \* the entries with a readable line in the spool file
    torn,       \* the file ends in the middle of a line
    open,       \* the spooler has the file open
    acked,      \* entries acked since the last compaction (s.committed)
    comp,       \* the compactor
    queue,      \* the channel
    replay,     \* entries the replay goroutine has yet to send
    call,       \* where each caller is in Enqueue
    work,       \* where each worker is in its loop
    ensured,    \* months whose table is in the cache of known tables
    shards,     \* months whose table exists
    db,         \* entries in the tables
    deleted,    \* entries deleted from them
    failed,     \* entries given up by writeBatch
    dropped,    \* entries the full channel refused
    appended,   \* entries whose append reported no error
    drops       \* tables dropped so far

life     == << proc, starts >>
spooler  == << open, acked, comp >>
channel  == << queue, replay >>
disk     == << lines, torn >>
database == << ensured, shards, db, deleted, drops >>
notes    == << failed, dropped, appended >>
vars     == << life, spooler, channel, disk, database, notes, call, work >>

Idle    == [at |-> "idle"]
Resting == [at |-> "receive", batch |-> {}]
Gone    == [at |-> "gone"]

Running == proc \in {"up", "closing"}
Stored  == db \cup deleted
InCalls == {call[c].e : c \in {k \in Callers : call[k] # Idle}}
InWork  == UNION {work[w].batch : w \in {k \in Workers : work[k] # Gone}}

Init ==
    /\ proc = "down" /\ starts = 0
    /\ lines = {} /\ torn = FALSE
    /\ open = FALSE /\ acked = {} /\ comp = Idle
    /\ queue = << >> /\ replay = {}
    /\ call = [c \in Callers |-> Idle]
    /\ work = [w \in Workers |-> Gone]
    /\ ensured = {} /\ shards = {} /\ db = {} /\ deleted = {} /\ drops = 0
    /\ failed = {} /\ dropped = {} /\ appended = {}

-----------------------------------------------------------------------------
(* Start, crash and shutdown *)

\* Start, with openSpool and the scheduler's first round.
Start ==
    /\ proc \in {"down", "stopped"} /\ starts < MaxStarts
    /\ proc' = "up" /\ starts' = starts + 1
    /\ open' = TRUE /\ acked' = {} /\ comp' = Idle
    /\ queue' = << >> /\ replay' = lines
    /\ call' = [c \in Callers |-> Idle]
    /\ work' = [w \in Workers |-> Resting]
    /\ ensured' = Ahead /\ shards' = shards \cup Ahead
    /\ UNCHANGED << disk, db, deleted, drops, notes >>

\* Followed to the next start only.
Crash ==
    /\ "crash" \in Faults /\ Running /\ starts < MaxStarts
    /\ proc' = "down"
    /\ UNCHANGED << starts, spooler, channel, disk, database, notes, call, work >>

\* Enqueue refuses from now on, and the channel is closed.
Shutdown ==
    /\ "shutdown" \in Events /\ proc = "up"
    /\ proc' = "closing"
    /\ UNCHANGED << starts, spooler, channel, disk, database, notes, call, work >>

CloseSpool_NoWait ==
    /\ proc = "closing"
    /\ comp = Idle /\ acked = {}
    /\ proc' = "stopped" /\ open' = FALSE
    /\ UNCHANGED << starts, acked, comp, channel, disk, database, notes, call, work >>

\* The workers have drained the channel and the final compaction is over.
CloseSpool ==
    /\ proc = "closing"
    /\ \A w \in Workers : work[w] = Gone
    /\ comp = Idle /\ acked = {}
    /\ proc' = "stopped" /\ open' = FALSE
    /\ UNCHANGED << starts, acked, comp, channel, disk, database, notes, call, work >>

-----------------------------------------------------------------------------
(* Enqueue *)

\* An entry has an id nobody has seen before.
Enqueue(c) ==
    /\ proc = "up" /\ call[c] = Idle
    /\ \E e \in Entries \ (appended \cup InCalls \cup InWork \cup Range(queue)
                             \cup Stored \cup dropped \cup failed) :
           call' = [call EXCEPT ![c] = [at |-> "append", e |-> e]]
    /\ UNCHANGED << life, spooler, channel, disk, database, notes, work >>

\* What s.append does to the file.  A line written after a torn one continues
\* it, and neither can be read.
WriteLine(e) ==
    \/ ~open /\ UNCHANGED << disk, appended >>
    \/ /\ open
       /\ torn' = FALSE
       /\ lines' = IF torn THEN lines ELSE lines \cup {e}
       /\ appended' = appended \cup {e}
    \/ /\ open /\ "short_write" \in Faults
       /\ torn' = TRUE
       /\ UNCHANGED << lines, appended >>

AppendLine_ErrorReturns(c) ==
    /\ Running /\ call[c].at = "append"
    /\ comp = Idle
    /\ WriteLine(call[c].e)
    /\ call' = [call EXCEPT ![c] = IF torn' THEN Idle ELSE [@ EXCEPT !.at = "send"]]
    /\ UNCHANGED << life, spooler, channel, database, failed, dropped, work >>

AppendLine_Unlocked(c) ==
    /\ Running /\ call[c].at = "append"
    /\ WriteLine(call[c].e)
    /\ call' = [call EXCEPT ![c].at = "send"]
    /\ UNCHANGED << life, spooler, channel, database, failed, dropped, work >>

\* The compactor holds s.mu while it rewrites the file.
AppendLine(c) ==
    /\ Running /\ call[c].at = "append"
    /\ comp = Idle
    /\ WriteLine(call[c].e)
    /\ call' = [call EXCEPT ![c].at = "send"]
    /\ UNCHANGED << life, spooler, channel, database, failed, dropped, work >>

Return(c) == call' = [call EXCEPT ![c] = Idle]

Send_Overfull(c) ==
    /\ proc = "up" /\ call[c].at = "send"
    /\ Len(queue) <= QueueCapacity
    /\ queue' = Append(queue, call[c].e) /\ Return(c)
    /\ UNCHANGED << life, replay, spooler, disk, database, notes, work >>

\* The non-blocking send.  On a closed channel it panics: the caller's request
\* is lost, or the process if nothing recovers the panic.
Send(c) ==
    /\ Running /\ call[c].at = "send"
    /\ \/ /\ proc = "up" /\ Len(queue) < QueueCapacity
          /\ queue' = Append(queue, call[c].e) /\ Return(c)
          /\ UNCHANGED << proc, dropped >>
       \/ /\ proc = "up" /\ Len(queue) >= QueueCapacity
          /\ dropped' = dropped \cup {call[c].e} /\ Return(c)
          /\ UNCHANGED << proc, queue >>
       \/ /\ proc = "closing"
          /\ proc' \in {proc, "down"}
          /\ call' = [call EXCEPT ![c] = [at |-> "panic", e |-> @.e]]
          /\ UNCHANGED << queue, dropped >>
    /\ UNCHANGED << starts, replay, spooler, disk, database, failed, appended, work >>

\* The goroutine that sends the recovered entries; its panic is not recovered.
Replay ==
    /\ Running
    /\ \E e \in replay :
           \/ /\ proc = "up" /\ Len(queue) < QueueCapacity
              /\ queue' = Append(queue, e) /\ replay' = replay \ {e}
              /\ UNCHANGED proc
           \/ /\ proc = "closing" /\ proc' = "down"
              /\ UNCHANGED channel
    /\ UNCHANGED << starts, spooler, disk, database, notes, call, work >>

-----------------------------------------------------------------------------
(* Workers *)

Rows(r) == {e \in r.batch : MonthOf[e] = r.month}

InsertAttempts == 2

\* writeBatch goes on with the rows that are left, one month's table at a time.
Proceed(w, rest) ==
    IF rest = {}
    THEN work' = [work EXCEPT ![w] = Resting]
    ELSE \E m \in {MonthOf[e] : e \in rest} :
             work' = [work EXCEPT ![w] = [at |-> "ensure", batch |-> rest, month |-> m,
                                          left |-> InsertAttempts]]

\* An attempt has failed: the next one, or the rows are given up.
Retry(w) ==
    LET r == work[w]
    IN  IF r.left > 1
        THEN /\ work' = [work EXCEPT ![w].at = "ensure", ![w].left = @ - 1]
             /\ UNCHANGED failed
        ELSE /\ failed' = failed \cup Rows(r)
             /\ Proceed(w, r.batch \ Rows(r))

Receive(w) ==
    /\ Running /\ work[w].at = "receive" /\ queue # << >>
    /\ LET batch == work[w].batch \cup {Head(queue)}
       IN  IF Cardinality(batch) >= BatchSize
           THEN Proceed(w, batch)
           ELSE work' = [work EXCEPT ![w].batch = batch]
    /\ queue' = Tail(queue)
    /\ UNCHANGED << life, spooler, replay, disk, database, notes, call >>

Flush_OnClose(w) ==
    /\ proc = "closing" /\ work[w].at = "receive" /\ work[w].batch # {}
    /\ Proceed(w, work[w].batch)
    /\ UNCHANGED << life, spooler, channel, disk, database, notes, call >>

Flush_AcksFirst(w) ==
    /\ Running /\ work[w].at = "receive" /\ work[w].batch # {}
    /\ Proceed(w, work[w].batch)
    /\ acked' = acked \cup work[w].batch
    /\ UNCHANGED << life, open, comp, channel, disk, database, notes, call >>

\* The timer fires, or the channel is closed and drained.
Flush(w) ==
    /\ Running /\ work[w].at = "receive" /\ work[w].batch # {}
    /\ Proceed(w, work[w].batch)
    /\ UNCHANGED << life, spooler, channel, disk, database, notes, call >>

WorkerDone_OnReceive(w) ==
    /\ proc = "closing" /\ queue # << >> /\ work[w] = Resting
    /\ work' = [work EXCEPT ![w] = Gone]
    /\ UNCHANGED << life, spooler, channel, disk, database, notes, call >>

WorkerDone(w) ==
    /\ proc = "closing" /\ queue = << >> /\ work[w] = Resting
    /\ work' = [work EXCEPT ![w] = Gone]
    /\ UNCHANGED << life, spooler, channel, disk, database, notes, call >>

\* EnsureMonthTable
EnsureMonthTable(w) ==
    /\ Running /\ work[w].at = "ensure"
    /\ LET m == work[w].month
       IN  \/ /\ ensured' = ensured \cup {m}
              /\ shards'  = IF m \in ensured THEN shards ELSE shards \cup {m}
              /\ work'    = [work EXCEPT ![w].at = "insert"]
              /\ UNCHANGED failed
           \/ /\ "db" \in Faults /\ m \notin ensured
              /\ Retry(w)
              /\ UNCHANGED << ensured, shards >>
    /\ UNCHANGED << life, spooler, channel, disk, db, deleted, drops, dropped, appended, call >>

InsertMissing_Kept(w) ==
    /\ work[w].month \notin shards
    /\ Retry(w)
    /\ UNCHANGED << db, ensured >>

\* The table is gone: its name leaves the cache, so that it is created again.
InsertMissing(w) ==
    /\ work[w].month \notin shards
    /\ ensured' = ensured \ {work[w].month}
    /\ Retry(w)
    /\ UNCHANGED db

InsertFails(w) ==
    /\ "db" \in Faults
    /\ Retry(w)
    /\ UNCHANGED << db, ensured >>

\* Rows that are in the table already are skipped.
InsertSucceeds(w) ==
    /\ work[w].month \in shards
    /\ db' = db \cup Rows(work[w])
    /\ work' = [work EXCEPT ![w].at = "ack"]
    /\ UNCHANGED << failed, ensured >>

Insert(w) ==
    /\ Running /\ work[w].at = "insert"
    /\ InsertMissing(w) \/ InsertFails(w) \/ InsertSucceeds(w)
    /\ UNCHANGED << life, spooler, channel, disk, shards, deleted, drops, dropped, appended, call >>

Ack(w) ==
    /\ Running /\ work[w].at = "ack"
    /\ acked' = acked \cup Rows(work[w])
    /\ Proceed(w, work[w].batch \ Rows(work[w]))
    /\ UNCHANGED << life, open, comp, channel, disk, database, notes, call >>

WorkerStep(w) ==
    Receive(w) \/ Flush(w) \/ WorkerDone(w) \/ EnsureMonthTable(w) \/ Insert(w) \/ Ack(w)

-----------------------------------------------------------------------------
(* The compactor, every interval and once more in Shutdown *)

\* The lines a compaction keeps.
Kept(gone) == lines \ gone

\* It takes the acks it will act on, and reads the file, holding s.mu.
Compact ==
    /\ Running /\ comp = Idle /\ acked # {}
    /\ comp' = [at |-> "rewrite", kept |-> Kept(acked)]
    /\ acked' = {}
    /\ UNCHANGED << life, open, channel, disk, database, notes, call, work >>

\* It replaces the file and opens the new one; a failure is only logged.
Rename ==
    /\ Running /\ comp # Idle
    /\ \/ lines' = comp.kept /\ torn' = FALSE /\ open' = TRUE
       \/ "compact" \in Faults /\ UNCHANGED << disk, open >>
       \/ "compact" \in Faults /\ lines' = comp.kept /\ torn' = FALSE /\ open' = FALSE
       \/ /\ "flush" \in Faults
          /\ \E kept \in SUBSET comp.kept : lines' = kept
          /\ torn' \in BOOLEAN /\ open' = TRUE
    /\ comp' = Idle
    /\ UNCHANGED << life, acked, channel, database, notes, call, work >>

-----------------------------------------------------------------------------
(* The month scheduler, and what else happens to the tables *)

EnsureAhead ==
    /\ proc = "up" /\ ~ (Ahead \subseteq ensured)
    /\ ensured' = ensured \cup Ahead
    /\ shards'  = shards \cup (Ahead \ ensured)
    /\ UNCHANGED << life, spooler, channel, disk, db, deleted, drops, notes, call, work >>

\* DeleteAuditLogs
DeleteAuditLogs ==
    /\ "delete" \in Events
    /\ \E e \in db : db' = db \ {e} /\ deleted' = deleted \cup {e}
    /\ UNCHANGED << life, spooler, channel, disk, ensured, shards, drops, notes, call, work >>

\* CleanupOldAuditLogs
DropShard ==
    /\ "drop" \in Events /\ drops < MaxDrops
    /\ \E m \in shards :
           LET rows == {e \in db : MonthOf[e] = m}
           IN  shards' = shards \ {m} /\ db' = db \ rows /\ deleted' = deleted \cup rows
    /\ drops' = drops + 1
    /\ UNCHANGED << life, spooler, channel, disk, ensured, notes, call, work >>

CallerStep(c) == Enqueue(c) \/ AppendLine(c) \/ Send(c)

Next ==
    \/ Start \/ Crash \/ Shutdown \/ CloseSpool
    \/ \E c \in Callers : CallerStep(c)
    \/ Replay
    \/ \E w \in Workers : WorkerStep(w)
    \/ Compact \/ Rename
    \/ EnsureAhead \/ DeleteAuditLogs \/ DropShard

Spec == Init /\ [][Next]_vars

\* The operator starts the server again; goroutines that can run do.
Fairness ==
    /\ WF_vars(Start) /\ WF_vars(CloseSpool)
    /\ WF_vars(Replay) /\ WF_vars(Compact) /\ WF_vars(Rename)
    /\ \A c \in Callers : WF_vars(AppendLine(c) \/ Send(c))
    /\ \A w \in Workers : WF_vars(WorkerStep(w))

FairSpec == Spec /\ Fairness

-----------------------------------------------------------------------------
(* Properties *)

CallState == {Idle} \cup [at : {"append", "send", "panic"}, e : Entries]
CompState == {Idle} \cup [at : {"rewrite"}, kept : SUBSET Entries]
WorkState == {Gone} \cup [at : {"receive"}, batch : SUBSET Entries]
                    \cup [at : {"ensure", "insert", "ack"}, batch : SUBSET Entries,
                          month : Months, left : Nat]

\* Types of the variables; the channel never holds more than its capacity.
TypeOK ==
    /\ proc \in {"down", "up", "closing", "stopped"}
    /\ lines \subseteq Entries /\ torn \in BOOLEAN
    /\ open \in BOOLEAN /\ acked \subseteq Entries /\ comp \in CompState
    /\ queue \in Seq(Entries) /\ Len(queue) <= QueueCapacity
    /\ replay \subseteq Entries
    /\ call \in [Callers -> CallState]
    /\ work \in [Workers -> WorkState]
    /\ ensured \subseteq Months /\ shards \subseteq Months
    /\ db \subseteq Entries /\ deleted \subseteq Entries
    /\ failed \subseteq Entries /\ dropped \subseteq Entries /\ appended \subseteq Entries

\* Every entry that was appended is in the file until it is written: the
\* spool "makes the in-memory queue survive process crashes and restarts"
\* (spool.go:18-23), and a dropped entry "still survives in the crash spool"
\* (queue.go:81-83).
Durable == appended \subseteq lines \cup Stored

\* Once Shutdown has returned (queue.go:119-120) an entry is left in the spool
\* only when the replay had yet to send it, its write was given up or, if it
\* is not in the database, it was dropped or is still with its caller.
CleanShutdown ==
    proc = "stopped" =>
        \A e \in lines : e \in replay \cup failed
                          \/ (e \notin db /\ e \in dropped \cup InCalls)

\* A table dropped while the pipeline runs costs no entry: the write is tried
\* again on a new table (queue.go:204-208).
DropTolerated == failed = {}

\* The abstract promise: waiting entries are the lines not yet written.
Trail == INSTANCE AuditTrail WITH Entries <- Entries, waiting <- lines \ Stored, stored <- Stored

TrailSpec == Trail!Spec

\* Every appended entry a queue, a batch or the replay holds is written in the
\* end, by this process or by a later one.
Held == replay \cup Range(queue) \cup InWork

HeldIsWritten == \A e \in Entries : (e \in Held /\ e \in appended) ~> e \in Stored

\* While the process lives and the database answers, every entry handed to
\* Enqueue is written or counted as dropped, whatever the disk does (spool
\* errors are logged only, spool.go:137-139).
CallIsWritten == \A e \in Entries : e \in InCalls ~> e \in Stored \cup dropped

\* Shutdown does not wait for ever (queue.go:119-133).
ShutdownEnds == proc = "closing" ~> proc \in {"stopped", "down"}

\* Shutdown "drains the queue, and compacts the spool before returning"
\* (queue.go:119-120).
ShutdownCompletes == proc = "closing" ~> proc = "stopped"

\* "An entry committed before a crash but still present in the spool is a
\* no-op" (queue.go:195-196): what was deleted since does not come back.
DeletedStayDeleted == deleted \cap db = {}
=============================================================================
