----------------------------- MODULE Schedulers -----------------------------
(***************************************************************************)
(* The three clock-driven jobs of the server: the database backup          *)
(* (controllers/db_backup.go), the nightly vacuum (db_maintenance.go) and  *)
(* the mailed report (daily_report_email.go).                              *)
(*                                                                         *)
(* Each job has one settings row that holds both what the administrator    *)
(* chose and when the job last ran.  A ticker reads the row every minute   *)
(* and starts the job when it is due; an administrator may start it by     *)
(* hand.  A run works on the copy of the row that was read when it was     *)
(* started and saves the WHOLE copy when it ends; the settings handler     *)
(* saves the whole row it read as well.  Backup and vacuum runs exclude    *)
(* each other through a mutex that is only tried; mails have none, their   *)
(* scheduler sends one after the other.                                    *)
(*                                                                         *)
(* Time is counted in half days.  A ticker's minute is short against that: *)
(* the clock moves on only when nothing is due and nothing runs, or while  *)
(* the server is down.  Files are removed and rows saved and deleted in    *)
(* steps of their own, whose errors are logged at most.                    *)
(***************************************************************************)
EXTENDS Integers, FiniteSets, Sequences

CONSTANTS Jobs,        \* among "backup", "maintenance", "mail"
          Recipients,  \* of the mailed report
          Choices,     \* settings an administrator may save
          LastTick,    \* bound: the clock
          MaxDumps,    \* bound: dumps ever started
          MaxDeaths,   \* bound: crashes, and removals and saves that fail
          RecordCap,   \* dbBackupRecordCap, history rows kept
          Meanwhile    \* settings and hand-made mails may overlap a run

VARIABLES db,   \* clock, settings rows, backup history and files
          req   \* what the tickers, runs and handlers hold in memory

Never == -10
NoRow == [last |-> -20]
Lanes == Jobs \union (IF "mail" \in Jobs THEN {"test"} ELSE {})
JobOf(lane) == IF lane = "test" THEN "mail" ELSE lane
Idle  == [pc |-> "idle"]
DayOf(t) == t \div 2

(* The instant, at or before t, at which a backup was last scheduled.      *)
LastInstant(t, row) == t - ((t - row.at) % (2 * row.every))

(* Vacuum and mail look at the calendar day and at the time of day.        *)
PastTimeToday(t, row) == t % 2 >= row.at

Slot(j, t, row) == IF j = "backup" THEN LastInstant(t, row) ELSE DayOf(t)

(* Mutant: a run that ended right at the scheduled instant does not count. *)
Due_OnOrBefore(j, t, row) ==
  /\ row.enabled
  /\ CASE j = "backup"      -> row.last <= LastInstant(t, row)
       [] j = "maintenance" -> PastTimeToday(t, row) /\ DayOf(row.last) # DayOf(t)
       [] j = "mail"        -> PastTimeToday(t, row) /\ DayOf(row.sched) # DayOf(t)

Due(j, t, row) ==
  /\ row.enabled
  /\ CASE j = "backup"      -> row.last < LastInstant(t, row)
       [] j = "maintenance" -> PastTimeToday(t, row) /\ DayOf(row.last) # DayOf(t)
       [] j = "mail"        -> PastTimeToday(t, row) /\ DayOf(row.sched) # DayOf(t)

Settings(c, row) == [row EXCEPT !.enabled = c.enabled, !.at = c.at,
                                !.every = c.every, !.keep = c.keep]

Init ==
  /\ \E c \in Choices :
       db = [clock   |-> 0,
             up      |-> TRUE,
             deaths  |-> 0,              \* and failures
             row     |-> [j \in Jobs |->
                           Settings(c, [enabled |-> FALSE, at |-> 0, every |-> 1,
                                        keep |-> 0, last |-> Never, sched |-> Never])],
             dumps   |-> 0,              \* ever started, each known by its number
             files   |-> {},             \* dumps whose file is on disk
             failed  |-> {},             \* dumps that never had a file
             records |-> << >>,          \* of the history, oldest first: their dumps
             wanted  |-> [j \in Jobs |-> c],          \* what the administrator saved last
             ran     |-> [j \in Jobs |-> << >>],      \* slots of the scheduled runs that ended
             ended   |-> [j \in Jobs |-> Never],      \* when a run last ended
             strays  |-> {},             \* files left by a crash, a failed statement or the cap
             gaps    |-> {},             \* files removed by hand, or by a pruning cut short
             mailed  |-> << >>,          \* <<day, recipient>> of the scheduler's mails
             unsaved |-> [j \in Jobs |-> {}]]         \* slots whose run could not be saved
  /\ req = [seen  |-> [j \in Jobs |-> NoRow],
            asked |-> [j \in Jobs |-> NoRow],
            edit  |-> [j \in Jobs |-> NoRow],
            del   |-> 0,
            run   |-> [l \in Lanes |-> Idle]]

Slip(d) == db.deaths < MaxDeaths /\ db' = [d EXCEPT !.deaths = @ + 1]

Running(j)    == \E l \in Lanes : JobOf(l) = j /\ req.run[l].pc # "idle"
Edited(j)     == req.edit[j] # NoRow
Undisturbed(j) == ~ Running(j) /\ req.seen[j] = NoRow /\ req.asked[j] = NoRow

-----------------------------------------------------------------------------
(* Settings                                                                *)

OpenSettings(j) ==
  /\ db.up /\ ~ Edited(j)
  /\ Meanwhile \/ Undisturbed(j)
  /\ req' = [req EXCEPT !.edit[j] = db.row[j]]
  /\ UNCHANGED db

SaveSettings(j, c) ==
  /\ Edited(j)
  /\ UNCHANGED db \/ db' = [db EXCEPT !.row[j] = Settings(c, req.edit[j]), !.wanted[j] = c]
  /\ req' = [req EXCEPT !.edit[j] = NoRow]

-----------------------------------------------------------------------------
(* Starting a run                                                          *)

Started(lane, by, row) ==
  [pc |-> IF JobOf(lane) = "backup" THEN "dump"
          ELSE IF JobOf(lane) = "mail" THEN "send" ELSE "vacuum",
   by |-> by, row |-> row, slot |-> Slot(JobOf(lane), db.clock, row),
   file |-> 0, left |-> IF JobOf(lane) = "mail" THEN Recipients ELSE {},
   list |-> << >>, size |-> 0, seen |-> 0, gone |-> {}]

(* The ticker reads the row, decides, and only then tries the mutex.       *)
TickReads(j) ==
  /\ db.up /\ j # "mail" /\ req.seen[j] = NoRow
  /\ Meanwhile \/ (~ Running(j) /\ ~ Edited(j))
  /\ Due(j, db.clock, db.row[j])
  /\ req' = [req EXCEPT !.seen[j] = db.row[j]]
  /\ UNCHANGED db

TickTriesLock(j) ==
  /\ req.seen[j] # NoRow
  /\ req' = [req EXCEPT !.seen[j] = NoRow,
                        !.run[j]  = IF @.pc = "idle"
                                    THEN Started(j, "scheduled", req.seen[j]) ELSE @]
  /\ UNCHANGED db

(* The report's ticker mails in its own goroutine.                         *)
TickMails ==
  /\ db.up /\ "mail" \in Jobs /\ req.run["mail"].pc = "idle"
  /\ Meanwhile \/ (~ Running("mail") /\ ~ Edited("mail"))
  /\ Due("mail", db.clock, db.row["mail"])
  /\ req' = [req EXCEPT !.run["mail"] = Started("mail", "scheduled", db.row["mail"])]
  /\ UNCHANGED db

(* "Run now" reads the row and tries the mutex afterwards.                 *)
AskRun(j) ==
  /\ db.up /\ j # "mail" /\ req.asked[j] = NoRow
  /\ Meanwhile \/ ~ Edited(j)
  /\ req' = [req EXCEPT !.asked[j] = db.row[j]]
  /\ UNCHANGED db

RunNow(j) ==
  /\ req.asked[j] # NoRow
  /\ req' = [req EXCEPT !.asked[j] = NoRow,
                        !.run[j]   = IF @.pc = "idle"
                                     THEN Started(j, "manual", req.asked[j]) ELSE @]
  /\ UNCHANGED db

SendNow ==
  /\ db.up /\ "mail" \in Jobs
  /\ req.run["test"].pc = "idle"
  /\ Meanwhile \/ (Undisturbed("mail") /\ ~ Edited("mail"))
  /\ req' = [req EXCEPT !.run["test"] = Started("test", "manual", db.row["mail"])]
  /\ UNCHANGED db

-----------------------------------------------------------------------------
(* A run that ends saves the row it was given, with the time of its end.   *)
(* If that fails, the slot counts as not served.                           *)
Served(lane) ==
  LET run == req.run[lane] IN
  [db EXCEPT !.ran[JobOf(lane)] = IF run.by = "scheduled" THEN Append(@, run.slot) ELSE @]

Saved(lane) ==
  LET run == req.run[lane]  j == JobOf(lane) IN
  [Served(lane) EXCEPT !.row[j]   = [run.row EXCEPT
                                      !.last  = db.clock,
                                      !.sched = IF j = "mail" /\ run.by = "scheduled"
                                                THEN db.clock ELSE @],
                       !.ended[j] = db.clock]

Saves(lane) ==
  \/ db' = Saved(lane)
  \/ Slip([Served(lane) EXCEPT !.unsaved[JobOf(lane)] = @ \union {req.run[lane].slot}])

(* createDBBackupFile: a dump that fails removes what it wrote.            *)
Dump(ok) ==
  LET n == db.dumps + 1 IN
  /\ "backup" \in Jobs /\ req.run["backup"].pc = "dump" /\ n <= MaxDumps
  /\ db' = IF ok THEN [db EXCEPT !.dumps = n, !.files = @ \union {n}]
                  ELSE [db EXCEPT !.dumps = n, !.failed = @ \union {n}]
  /\ req' = [req EXCEPT !.run["backup"].pc = "record", !.run["backup"].file = n]

(* The upload only colours the status.  The history row may fail to be     *)
(* stored, which is logged and no more.                                    *)
Record ==
  LET n == req.run["backup"].file IN
  /\ "backup" \in Jobs /\ req.run["backup"].pc = "record"
  /\ \/ db' = [db EXCEPT !.records = Append(@, n)]
     \/ Slip([db EXCEPT !.strays = @ \union {n}])
  /\ req' = [req EXCEPT !.run["backup"].pc = "save"]

SaveBackup ==
  /\ "backup" \in Jobs /\ req.run["backup"].pc = "save"
  /\ Saves("backup")
  /\ req' = [req EXCEPT !.run["backup"].pc = "list"]

(* pruneDBBackups reads the history, newest first, or gives up.            *)
ListRecords ==
  /\ "backup" \in Jobs /\ req.run["backup"].pc = "list"
  /\ \/ /\ req' = [req EXCEPT !.run["backup"].pc = "prune", !.run["backup"].list = db.records,
                              !.run["backup"].size = Len(db.records)]
        /\ UNCHANGED db
     \/ req' = [req EXCEPT !.run["backup"] = Idle] /\ Slip(db)

(* Of the rows that are left the last one is next; seen counts the files   *)
(* found before it.                                                        *)
Next1(run) == run.list[Len(run.list)]
OnDisk(run) == Next1(run) \in db.files

(* A file is removed when enough newer ones are on disk.                   *)
Outdated(run) == OnDisk(run) /\ run.row.keep > 0 /\ run.seen + 1 > run.row.keep

PruneFile ==
  LET run == req.run["backup"] IN
  /\ "backup" \in Jobs /\ run.pc = "prune" /\ run.list # << >>
  /\ \E gone \in {{}, {Next1(run)}} :
       /\ IF ~ Outdated(run) THEN gone = {} /\ UNCHANGED db
          ELSE IF gone = {} THEN Slip([db EXCEPT !.gaps = @ \union run.gone])
          ELSE db' = [db EXCEPT !.files = @ \ gone]
       /\ req' = [req EXCEPT !.run["backup"] =
                     [@ EXCEPT !.pc = "drop", !.gone = @ \union gone,
                               !.seen = @ + IF OnDisk(run) THEN 1 ELSE 0]]

(* A row that goes leaves its file behind, if that is still there.         *)
WithoutRow(n) == [db EXCEPT !.records = SelectSeq(@, LAMBDA m : m # n),
                            !.strays  = @ \union ({n} \intersect db.files)]

(* A history row goes when it is past the cap.  (The list's rest, counted  *)
(* from the oldest, tells the position.)                                   *)
PastCap(run) == Len(run.list) <= run.size - RecordCap

PruneRow ==
  LET run == req.run["backup"] IN
  /\ "backup" \in Jobs /\ run.pc = "drop"
  /\ IF PastCap(run) THEN db' = WithoutRow(Next1(run)) \/ Slip(db) ELSE UNCHANGED db
  /\ req' = [req EXCEPT !.run["backup"].pc = "prune",
                        !.run["backup"].list = SubSeq(@, 1, Len(@) - 1)]

Pruned ==
  /\ "backup" \in Jobs /\ req.run["backup"].pc = "prune" /\ req.run["backup"].list = << >>
  /\ req' = [req EXCEPT !.run["backup"] = Idle]
  /\ UNCHANGED db

(* VACUUM over all tables: failures of single tables only colour the status.*)
Vacuum ==
  /\ "maintenance" \in Jobs /\ req.run["maintenance"].pc = "vacuum"
  /\ Saves("maintenance")
  /\ req' = [req EXCEPT !.run["maintenance"] = Idle]

-----------------------------------------------------------------------------
(* Mailing the report                                                      *)

(* No PDF, or no SMTP account: nothing is sent and nothing is saved.       *)
NoReport(lane) ==
  /\ lane \in {"mail", "test"} /\ req.run[lane].pc = "send"
  /\ req.run[lane].left = Recipients
  /\ req' = [req EXCEPT !.run[lane] = Idle]
  /\ UNCHANGED db

Send(lane, to, ok) ==
  LET run == req.run[lane] IN
  /\ lane \in {"mail", "test"} /\ run.pc = "send" /\ to \in run.left
  /\ req' = [req EXCEPT !.run[lane].left = @ \ {to}]
  /\ db' = IF ok /\ run.by = "scheduled"
           THEN [db EXCEPT !.mailed = Append(@, <<run.slot, to>>)] ELSE db

Sent(lane) ==
  /\ lane \in {"mail", "test"} /\ req.run[lane].pc = "send"
  /\ req.run[lane].left = {}
  /\ Saves(lane)
  /\ req' = [req EXCEPT !.run[lane] = Idle]

-----------------------------------------------------------------------------
(* The history's delete button removes the file, then the row; an error of *)
(* the first is logged, one of the second answered.                        *)
DeleteFile(n) ==
  /\ db.up /\ req.del = 0
  /\ req' = [req EXCEPT !.del = n]
  /\ \/ db' = [db EXCEPT !.files = @ \ {n}, !.gaps = @ \union {n}]
     \/ Slip(db)

DeleteRecord ==
  /\ req.del # 0
  /\ req' = [req EXCEPT !.del = 0]
  /\ db' = WithoutRow(req.del) \/ Slip(db)

Pass ==
  /\ db.clock < LastTick
  /\ db.up => \A j \in Jobs : Undisturbed(j) /\ ~ Edited(j) /\ ~ Due(j, db.clock, db.row[j])
  /\ db' = [db EXCEPT !.clock = @ + 1]
  /\ UNCHANGED req

(* What is in memory is gone.  A dump that was being written stays on disk.*)
Crash ==
  /\ db.up /\ db.deaths < MaxDeaths
  /\ LET backup  == IF "backup" \in Jobs THEN req.run["backup"] ELSE Idle
         cut(j)  == IF j = "mail" /\ req.run["mail"].pc = "send"
                    THEN {req.run["mail"].slot} ELSE {}
         half    == IF backup.pc = "dump" /\ db.dumps < MaxDumps THEN {db.dumps + 1} ELSE {}
         orphan  == IF backup.pc = "record" THEN {backup.file} ELSE {} IN
     db' = [db EXCEPT !.up = FALSE, !.deaths = @ + 1,
                      !.dumps  = @ + Cardinality(half),
                      !.files  = @ \union half,
                      !.strays = @ \union half \union orphan,
                      !.gaps   = @ \union (IF backup = Idle THEN {} ELSE backup.gone),
                      !.unsaved = [j \in Jobs |-> @[j] \union cut(j)]]
  /\ req' = [seen  |-> [j \in Jobs |-> NoRow], asked |-> [j \in Jobs |-> NoRow],
             edit  |-> [j \in Jobs |-> NoRow], del   |-> 0, run   |-> [l \in Lanes |-> Idle]]

Restart ==
  /\ ~ db.up
  /\ db' = [db EXCEPT !.up = TRUE]
  /\ UNCHANGED req

Next ==
  \/ \E j \in Jobs : OpenSettings(j)
  \/ \E j \in Jobs, c \in Choices : SaveSettings(j, c)
  \/ \E j \in Jobs : TickReads(j)
  \/ \E j \in Jobs : TickTriesLock(j)
  \/ TickMails
  \/ \E j \in Jobs : AskRun(j)
  \/ \E j \in Jobs : RunNow(j)
  \/ SendNow
  \/ \E ok \in BOOLEAN : Dump(ok)
  \/ Record
  \/ SaveBackup
  \/ ListRecords
  \/ PruneFile
  \/ PruneRow
  \/ Pruned
  \/ Vacuum
  \/ \E lane \in Lanes : NoReport(lane)
  \/ \E lane \in Lanes, to \in Recipients, ok \in BOOLEAN : Send(lane, to, ok)
  \/ \E lane \in Lanes : Sent(lane)
  \/ \E i \in DOMAIN db.records : DeleteFile(db.records[i])
  \/ DeleteRecord
  \/ Pass
  \/ Crash
  \/ Restart

Spec == Init /\ [][Next]_<<db, req>>

-----------------------------------------------------------------------------
(* No slot is served twice by the schedule, whatever crashes, restarts,    *)
(* runs by hand and changes of the schedule come between, unless a run of  *)
(* it could not be saved (db_backup.go:624).                               *)
OncePerSlot ==
  \A j \in Jobs : \A a, b \in DOMAIN db.ran[j] :
     a # b /\ db.ran[j][a] = db.ran[j][b] => db.ran[j][a] \in db.unsaved[j]

(* No recipient gets a day's report twice from the scheduler, unless the   *)
(* server died while it was being mailed or that it was could not be saved *)
(* (daily_report_email.go:290).                                            *)
MailedOnce ==
  \A a, b \in DOMAIN db.mailed :
     a # b /\ db.mailed[a] = db.mailed[b] => db.mailed[a][1] \in db.unsaved["mail"]

(* The row tells when the last run that could be saved ended, and still    *)
(* holds what the administrator saved last.                                *)
RowsTrue ==
  \A j \in Jobs : /\ db.row[j].last = db.ended[j]
                  /\ Settings(db.wanted[j], db.row[j]) = db.row[j]

(* Retention removes the oldest dumps: a recorded file is on disk whenever *)
(* an older one is, but for files removed by hand, and for those removed   *)
(* by a pruning that is under way, was cut short by a crash, or could not  *)
(* remove an older one (db_backup.go:493, 660).                            *)
OldestFirst ==
  \A a, b \in DOMAIN db.records :
     a < b /\ db.records[a] \in db.files /\ db.records[b] \notin db.files \union db.failed
       => \/ db.records[b] \in db.gaps
          \/ Running("backup") /\ db.records[b] \in req.run["backup"].gone

(* Every dump on disk can be found in the history or belongs to the run in *)
(* progress, apart from those a crash, a failed statement or the cap on    *)
(* the history has cut loose.                                              *)
Findable ==
  \A f \in db.files : \/ \E i \in DOMAIN db.records : db.records[i] = f
                      \/ f \in db.strays
                      \/ "backup" \in Jobs /\ req.run["backup"].pc = "record"
                                           /\ req.run["backup"].file = f

SchedulesExact == OncePerSlot /\ MailedOnce /\ RowsTrue /\ OldestFirst /\ Findable

(* What the retention setting promises: no dump escapes it.                *)
NoStrays == db.strays \intersect db.files = {}
=============================================================================
