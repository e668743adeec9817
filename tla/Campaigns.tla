------------------------------ MODULE Campaigns ------------------------------
(***************************************************************************)
(* Marketing campaigns: mails (controllers/email_marketing.go), with a     *)
(* scheduler of their own and recurring dates, text messages               *)
(* (sms_marketing.go) and WhatsApp messages (whatsapp_marketing.go), which *)
(* are only sent by hand.                                                  *)
(*                                                                         *)
(* No handler uses a transaction, and no save of a campaign or of a        *)
(* recipient is looked at: any of them may fail, and the handler goes on.  *)
(* A campaign is marked sent before the first message leaves, every        *)
(* recipient's row is saved as it is served, and the counts are saved at   *)
(* the end, each time with the whole row the handler holds.  The scheduler *)
(* works through the list of due campaigns it has read.                    *)
(*                                                                         *)
(* One request at a time works on a campaign.  Two that meet - a button    *)
(* while the scheduler holds the campaign - would both send it, and the    *)
(* later save of a whole row would undo the other: not modelled.  Neither  *)
(* is an interval: a campaign recurs every tick.                           *)
(***************************************************************************)
EXTENDS Naturals, FiniteSets, Sequences

CONSTANTS Clerks, Campaigns, People,
          Audiences,   \* sequences of them: whom a campaign may be for
          Kinds,       \* among "email", "sms", "whatsapp"
          Dates,       \* that a clerk may choose
          Ends,        \* values of RecurrenceEndDate
          Recurring,   \* whether a campaign may recur, a set of Booleans
          LastTick,    \* bound: the clock
          MaxOrders,   \* bound: requests of the clerks
          MaxSlips,    \* bound: writes that fail unnoticed
          Deaths       \* the server may crash

VARIABLES db, req

Ticker == "ticker"
NoDate == 1000
None == [status |-> "none"]
Idle == [pc |-> "idle", id |-> "", todo |-> << >>]

\* A recipient is a row of the table; two of them may have one address
Init ==
  /\ db = [clock    |-> 0,
           account  |-> TRUE,                             \* mail and text services are set up
           row      |-> [c \in Campaigns |-> None],
           people   |-> [c \in Campaigns |-> << >>],      \* its recipients
           got      |-> [c \in Campaigns |-> [p \in People |-> 0]],
           resent   |-> [c \in Campaigns |-> 0],
           ever     |-> {},                               \* have been recurring campaigns
           byHand   |-> {},                               \* campaigns sent by button
           torn     |-> {},                               \* a crash or an error cut short
           unmarked |-> {},                               \* could not be marked sent
           slipped  |-> {},                               \* any other write failed
           regrouped |-> {},                              \* new recipients beside old numbers
           putBack  |-> {},                               \* put back to a past date by a clerk
           served   |-> << >>,                            \* <<campaign, date>> of the scheduler
           slips    |-> 0,
           orders   |-> 0]
  /\ req = [k \in Clerks \union {Ticker} |-> Idle]

Row(c)     == db.row[c]
Exists(c)  == Row(c).status \notin {"none", "deleted"}
Busy(c)    == \E k \in DOMAIN req :
                 \/ req[k].id = c
                 \/ \E i \in DOMAIN req[k].todo : req[k].todo[i].id = c
Free(k, c) == req[k].pc = "idle" /\ db.orders < MaxOrders /\ ~ Busy(c)
Ordered    == [db EXCEPT !.orders = @ + 1]
With(pc, c, row, recurs) ==
  [pc |-> pc, id |-> c, row |-> row, todo |-> << >>, recurs |-> recurs,
   left |-> {}, sent |-> 0, failed |-> 0, new |-> FALSE, dated |-> FALSE]

Pending(ps)  == [i \in DOMAIN ps |-> [ps[i] EXCEPT !.status = "pending"]]
Listed(whom) == [i \in DOMAIN whom |-> [who |-> whom[i], status |-> "pending"]]

\* A write of request k that fails, and leaves what it was to change
Slip(k)     == db.slips < MaxSlips
               /\ db' = [db EXCEPT !.slips = @ + 1, !.slipped = @ \union {req[k].id}]

\* Save, and the request goes on with the row whether it is stored or not
Save(k, row) == db' = [db EXCEPT !.row[req[k].id] = row] \/ Slip(k)

-----------------------------------------------------------------------------
(* The clerks' requests                                                    *)

(* A mail whose date is past is to be sent at once; text messages start as *)
(* drafts whatever their date.                                             *)
FirstStatus(kind, at) ==
  IF kind # "email" \/ at = NoDate THEN "draft"
  ELSE IF at < db.clock THEN "sent" ELSE "scheduled"

Create(k, c, kind, at, recurring, until) ==
  LET row == [status |-> FirstStatus(kind, at), kind |-> kind, at |-> at,
              recurring |-> recurring, until |-> until, total |-> 0, sent |-> 0, failed |-> 0] IN
  /\ kind \in Kinds /\ Free(k, c) /\ Row(c) = None /\ at # db.clock
  /\ recurring => at # NoDate
  /\ db' = [Ordered EXCEPT !.row[c] = row, !.ever = IF recurring THEN @ \union {c} ELSE @]
  /\ req' = [req EXCEPT ![k] = [With("fill", c, row, TRUE) EXCEPT !.new = TRUE]]

CreateEmail(k, c, at, recurring, until) == Create(k, c, "email", at, recurring, until)
CreateSMS(k, c, at)              == Create(k, c, "sms", at, FALSE, NoDate)
CreateWhatsApp(k, c, at)         == Create(k, c, "whatsapp", at, FALSE, NoDate)

(* The old recipients go, unless that fails unnoticed, and those of the    *)
(* audience come, one for every address given: an insert that fails ends   *)
(* the request.                                                            *)
Fill(k, whom, stored, kept) ==
  LET r   == req[k]
      old == IF kept THEN db.people[r.id] ELSE << >> IN
  /\ r.pc = "fill"
  /\ kept => db.slips < MaxSlips /\ old # << >>
  /\ db' = [db EXCEPT !.people[r.id] = IF stored THEN old \o Listed(whom) ELSE old,
                      !.torn = IF stored THEN @ ELSE @ \union {r.id},
                      !.slips = IF kept THEN @ + 1 ELSE @,
                      !.slipped = IF kept THEN @ \union {r.id} ELSE @,
                      !.regrouped = IF r.row.sent + r.row.failed > 0 \/ r.row.status = "sent"
                                    THEN @ \union {r.id} ELSE @]
  /\ req' = [req EXCEPT ![k] = IF stored THEN [@ EXCEPT !.pc = "total", !.row.total = Len(whom)] ELSE Idle]

Total(k) == req[k].pc = "total" /\ Save(k, req[k].row) /\ req' = [req EXCEPT ![k].pc = "decide"]

(* A completed recurring campaign that is edited without a date resumes.   *)
Resumed(row) ==
  IF row.recurring /\ row.status = "completed" /\ db.clock + 1 <= row.until
  THEN [row EXCEPT !.status = "scheduled", !.at = db.clock + 1] ELSE row

(* What a date calls for: send now, or fail for want of an account, or     *)
(* wait for the scheduler.                                                 *)
Decide(k) ==
  LET r    == req[k]
      now  == IF r.new THEN r.row.status = "sent" ELSE r.dated /\ r.row.at < db.clock
      rest == IF now THEN [r.row EXCEPT !.status = "failed"]
              ELSE IF r.new THEN r.row
              ELSE IF r.dated THEN [r.row EXCEPT !.status = "scheduled"]
              ELSE Resumed(r.row) IN
  /\ r.pc = "decide"
  /\ IF now /\ db.account
     THEN /\ req' = [req EXCEPT ![k].pc = "start"]
          /\ UNCHANGED db
     ELSE /\ IF rest = r.row THEN UNCHANGED db ELSE Save(k, rest)
          /\ req' = [req EXCEPT ![k] = Idle]

(* An edit of a mail may give it a date, a new audience, and other rules   *)
(* of recurrence.  A date that is not past is still to come: never the     *)
(* present tick.                                                           *)
UpdateEmail(k, c, at, rebuild, recurring, until) ==
  LET row == [Row(c) EXCEPT !.at = IF at = NoDate THEN @ ELSE at, !.recurring = recurring, !.until = until] IN
  /\ Free(k, c) /\ Exists(c) /\ Row(c).kind = "email" /\ at # db.clock
  /\ ~ (Row(c).status = "sent" /\ ~ Row(c).recurring)
  /\ recurring => row.at # NoDate
  /\ db' = [Ordered EXCEPT !.row[c] = row,
                           !.ever = IF recurring THEN @ \union {c} ELSE @,
                           !.putBack = IF at < db.clock THEN @ \union {c} ELSE @]
  /\ req' = [req EXCEPT ![k] = [With(IF rebuild THEN "fill" ELSE "decide", c, row, TRUE)
                                  EXCEPT !.dated = at # NoDate]]

(* Text messages: only drafts are edited, and their recipients stay.       *)
UpdateDraft(k, c, kind, at) ==
  /\ Free(k, c) /\ Exists(c) /\ Row(c).kind = kind /\ Row(c).status = "draft"
  /\ db' = [Ordered EXCEPT !.row[c].at = at]
  /\ UNCHANGED req

UpdateSMS(k, c, at)      == UpdateDraft(k, c, "sms", at)
UpdateWhatsApp(k, c, at) == UpdateDraft(k, c, "whatsapp", at)

Schedule(k, c, kind, at) ==
  /\ Free(k, c) /\ Exists(c) /\ Row(c).kind = kind /\ Row(c).status = "draft"
  /\ \/ db' = [Ordered EXCEPT !.row[c].status = "scheduled", !.row[c].at = at]
     \/ db.slips < MaxSlips /\ db' = [Ordered EXCEPT !.slips = @ + 1]
  /\ UNCHANGED req

ScheduleEmail(k, c, at)    == Schedule(k, c, "email", at)
ScheduleSMS(k, c, at)      == Schedule(k, c, "sms", at)
ScheduleWhatsApp(k, c, at) == Schedule(k, c, "whatsapp", at)

Delete(k, c, kind) ==
  /\ Free(k, c) /\ Exists(c) /\ Row(c).kind = kind
  /\ ~ (Row(c).status = "sent" /\ ~ Row(c).recurring)
  /\ db' = [Ordered EXCEPT !.row[c] = [@ EXCEPT !.status = "deleted"]]
  /\ UNCHANGED req

DeleteEmail(k, c)    == Delete(k, c, "email")
DeleteSMS(k, c)      == Delete(k, c, "sms")
DeleteWhatsApp(k, c) == Delete(k, c, "whatsapp")

Send(k, c, kind) ==
  /\ Free(k, c) /\ Exists(c) /\ Row(c).kind = kind
  /\ Row(c).status \in {"draft", "scheduled"}
  /\ db' = [Ordered EXCEPT !.byHand = @ \union {c}]
  /\ req' = [req EXCEPT ![k] = With("start", c, Row(c), FALSE)]

SendEmail(k, c)    == db.account /\ Send(k, c, "email")
SendSMS(k, c)      == db.account /\ Send(k, c, "sms")
SendWhatsApp(k, c) == Send(k, c, "whatsapp")

Resend(k, c) ==
  /\ Free(k, c) /\ Exists(c) /\ Row(c).kind = "email" /\ db.account
  /\ Row(c).status \in {"sent", "failed"}
  /\ db' = [Ordered EXCEPT !.resent[c] = @ + 1, !.byHand = @ \union {c}]
  /\ req' = [req EXCEPT ![k] = With("clear", c, Row(c), FALSE)]

(* resetCampaignRecipientsAndStats: the recipients, then the counts        *)
Clear(k) ==
  /\ req[k].pc = "clear"
  /\ db' = [db EXCEPT !.people[req[k].id] = Pending(@)] \/ Slip(k)
  /\ req' = [req EXCEPT ![k].pc = "zero", ![k].row.sent = 0, ![k].row.failed = 0]

Zero(k) ==
  /\ req[k].pc = "zero" /\ Save(k, req[k].row)
  /\ req' = [req EXCEPT ![k].pc = IF req[k].recurs THEN "date" ELSE "start"]

-----------------------------------------------------------------------------
(* Sending, by a request or by the scheduler                               *)

Sending(k) == [req EXCEPT ![k].pc = "send", ![k].row.status = "sent", ![k].left = DOMAIN db.people[req[k].id]]
Serving(k) == IF k = Ticker THEN Append(db.served, <<req[k].id, req[k].row.at>>) ELSE db.served

(* Mutant: the campaign is marked sent only with the counts at the end.    *)
Start_Unmarked(k) ==
  /\ req[k].pc = "start" /\ db' = [db EXCEPT !.served = Serving(k)] /\ req' = Sending(k)

Start(k) ==
  LET r == req[k] IN
  /\ r.pc = "start" /\ req' = Sending(k)
  /\ \/ db' = [db EXCEPT !.row[r.id] = [r.row EXCEPT !.status = "sent"], !.served = Serving(k)]
     \/ /\ db.slips < MaxSlips
        /\ db' = [db EXCEPT !.slips = @ + 1, !.unmarked = @ \union {r.id}, !.served = Serving(k)]

(* WhatsApp messages are only simulated and never fail.                    *)
Message(k, i, ok, saved) ==
  LET r == req[k]  p == db.people[r.id][i].who IN
  /\ r.pc = "send" /\ i \in r.left
  /\ ok \/ r.row.kind # "whatsapp"
  /\ saved \/ db.slips < MaxSlips
  /\ db' = [db EXCEPT !.people[r.id][i].status = IF ~ saved THEN @ ELSE IF ok THEN "sent" ELSE "failed",
                      !.slips = IF saved THEN @ ELSE @ + 1,
                      !.slipped = IF saved THEN @ ELSE @ \union {r.id},
                      !.got[r.id][p] = IF ok THEN @ + 1 ELSE @]
  /\ req' = [req EXCEPT ![k].left = @ \ {i},
                        ![k].sent = IF ok THEN @ + 1 ELSE @,
                        ![k].failed = IF ok THEN @ ELSE @ + 1]

Done(k) == IF k = Ticker THEN [Idle EXCEPT !.pc = "next", !.todo = req[k].todo] ELSE Idle

(* A send that leaves the date behind goes on with scheduleNextRecurrence. *)
Count(k) ==
  LET r == req[k]  row == [r.row EXCEPT !.sent = r.sent, !.failed = r.failed] IN
  /\ r.pc = "send" /\ r.left = {}
  /\ db' = [db EXCEPT !.row[r.id] = row, !.regrouped = @ \ {r.id}] \/ Slip(k)
  /\ req' = [req EXCEPT ![k] = IF r.recurs /\ row.recurring
                               THEN [@ EXCEPT !.pc = "advance", !.row = row] ELSE Done(k)]

NextDate(row) == (IF row.at = NoDate THEN db.clock ELSE row.at) + 1

(* scheduleNextRecurrence ends the campaign, or clears it for its next     *)
(* date.                                                                   *)
Advance(k) ==
  LET row == req[k].row IN
  /\ req[k].pc = "advance"
  /\ IF NextDate(row) > row.until
     THEN Save(k, [row EXCEPT !.status = "completed", !.at = NoDate]) /\ req' = [req EXCEPT ![k] = Done(k)]
     ELSE req' = [req EXCEPT ![k].pc = "clear"] /\ UNCHANGED db

Date(k) ==
  LET row == req[k].row IN
  /\ req[k].pc = "date"
  /\ Save(k, [row EXCEPT !.status = "scheduled", !.at = NextDate(row)])
  /\ req' = [req EXCEPT ![k] = Done(k)]

-----------------------------------------------------------------------------
(* The scheduler of mails                                                  *)

DueNow(c) == Exists(c) /\ Row(c).kind = "email" /\ Row(c).status = "scheduled"
                       /\ Row(c).at <= db.clock

TickReads ==
  /\ req[Ticker].pc = "idle"
  /\ \E c \in Campaigns : DueNow(c)
  /\ \A c \in Campaigns : DueNow(c) => ~ Busy(c)
  /\ \E list \in [1 .. Cardinality({c \in Campaigns : DueNow(c)}) -> {c \in Campaigns : DueNow(c)}] :
       /\ \A i, j \in DOMAIN list : i # j => list[i] # list[j]
       /\ req' = [req EXCEPT ![Ticker] =
                    [Idle EXCEPT !.pc = "next",
                                 !.todo = [i \in DOMAIN list |->
                                             [id |-> list[i], row |-> Row(list[i])]]]]
  /\ UNCHANGED db

(* Without an account the campaign is left for the next tick.              *)
TickTakes ==
  LET r == req[Ticker] IN
  /\ r.pc = "next"
  /\ req' = [req EXCEPT ![Ticker] =
       IF r.todo = << >> THEN Idle
       ELSE IF db.account
       THEN [With("start", Head(r.todo).id, Head(r.todo).row, TRUE) EXCEPT !.todo = Tail(r.todo)]
       ELSE [r EXCEPT !.todo = Tail(@)]]
  /\ UNCHANGED db

-----------------------------------------------------------------------------
Pass ==
  /\ db.clock < LastTick
  /\ db' = [db EXCEPT !.clock = @ + 1]
  /\ UNCHANGED req

(* DeveloperSettings is not part of this module.                           *)
ChangeAccount ==
  /\ db' = [db EXCEPT !.account = ~ @]
  /\ UNCHANGED req

Crash ==
  /\ Deaths
  /\ \E k \in DOMAIN req : req[k].pc # "idle"
  /\ db' = [db EXCEPT !.torn = @ \union {req[k].id : k \in {h \in DOMAIN req :
                                               req[h].pc \notin {"idle", "next"}}}]
  /\ req' = [k \in DOMAIN req |-> Idle]

Next ==
  \/ \E k \in Clerks, c \in Campaigns :
       \/ \E at \in Dates \union {NoDate}, r \in Recurring, e \in Ends : CreateEmail(k, c, at, r, e)
       \/ \E at \in Dates \union {NoDate} : CreateSMS(k, c, at)
       \/ \E at \in Dates \union {NoDate} : CreateWhatsApp(k, c, at)
       \/ \E at \in Dates \union {NoDate}, rebuild \in BOOLEAN, r \in Recurring, e \in Ends :
             UpdateEmail(k, c, at, rebuild, r, e)
       \/ \E at \in Dates : UpdateSMS(k, c, at)
       \/ \E at \in Dates : UpdateWhatsApp(k, c, at)
       \/ \E at \in Dates : ScheduleEmail(k, c, at)
       \/ \E at \in Dates : ScheduleSMS(k, c, at)
       \/ \E at \in Dates : ScheduleWhatsApp(k, c, at)
       \/ DeleteEmail(k, c)
       \/ DeleteSMS(k, c)
       \/ DeleteWhatsApp(k, c)
       \/ SendEmail(k, c)
       \/ SendSMS(k, c)
       \/ SendWhatsApp(k, c)
       \/ Resend(k, c)
  \/ \E k \in Clerks, whom \in Audiences, stored, kept \in BOOLEAN :
       Fill(k, whom, stored, kept)
  \/ \E k \in Clerks : Total(k) \/ Decide(k)
  \/ \E k \in DOMAIN req : Start(k)
  \/ \E k \in DOMAIN req, ok, saved \in BOOLEAN :
       \E i \in UNION {DOMAIN db.people[c] : c \in Campaigns} : Message(k, i, ok, saved)
  \/ \E k \in DOMAIN req : Count(k) \/ Advance(k) \/ Clear(k) \/ Zero(k) \/ Date(k)
  \/ TickReads
  \/ TickTakes
  \/ Pass
  \/ ChangeAccount
  \/ Crash

Spec == Init /\ [][Next]_<<db, req>>

-----------------------------------------------------------------------------
(* A campaign that never recurred brings no more messages to an address    *)
(* than it has recipients with that address, unless it is sent again on    *)
(* purpose: not after a crash, an edit, a delay for want of an account, or *)
(* a button.  It does where the save that marks it sent failed (:122).     *)
AtMostOnce ==
  \A c \in Campaigns : Exists(c) /\ c \notin db.ever \union db.unmarked \union db.slipped
     => \A p \in People :
          db.got[c][p] <= Cardinality({i \in DOMAIN db.people[c] : db.people[c][i].who = p}) * (1 + db.resent[c])

(* The scheduler serves no date of a campaign twice, whatever crashes,     *)
(* saves that fail and other rules of recurrence come between, unless a    *)
(* clerk put the campaign back to a date that is past or it could not be   *)
(* marked sent.                                                            *)
DatesOnce ==
  \A a, b \in DOMAIN db.served :
     a # b /\ db.served[a] = db.served[b] => db.served[a][1] \in db.putBack \union db.unmarked

(* A campaign at rest that nothing cut short, every write of which was     *)
(* stored, and whose recipients were not exchanged after it was sent,      *)
(* shows the numbers of its recipients' rows, and one that is sent has no  *)
(* recipient left waiting.                                                 *)
Having(c, status) == Cardinality({i \in DOMAIN db.people[c] : db.people[c][i].status = status})
CountsTrue ==
  \A c \in Campaigns : Exists(c) /\ ~ Busy(c) /\ c \notin db.torn \union db.slipped \union db.regrouped
     => /\ Row(c).total = Len(db.people[c])
        /\ Row(c).sent = Having(c, "sent") /\ Row(c).failed = Having(c, "failed")
        /\ Row(c).status = "sent" => Having(c, "pending") = 0

(* A recurring campaign stays sent, with no date to come, only when a      *)
(* clerk sent it by button, a crash came between or a save failed.         *)
GoesOn ==
  \A c \in Campaigns : Exists(c) /\ Row(c).recurring /\ Row(c).status = "sent"
     => Busy(c) \/ c \in db.byHand \union db.torn \union db.slipped

CampaignsExact == AtMostOnce /\ DatesOnce /\ CountsTrue /\ GoesOn
=============================================================================
