-------------------------- MODULE TransferTemplates --------------------------
(***************************************************************************)
(* Recurring payments: TransferTemplatesService, RemindersService and      *)
(* RemindersCronJob (src/src/transfer-templates/).                         *)
(*                                                                         *)
(* HTTP requests and the daily job run at the same time; every await is a  *)
(* statement of its own, and nothing here is in a database transaction.    *)
(* save(entity) reads the row again and writes the columns in which the    *)
(* entity differs from it, or inserts it when it is gone.                  *)
(*                                                                         *)
(* Days are counted in Bogotá.  The server runs in UTC: from 19:00 on      *)
(* (evening) its day is already the next one.  A template is due again     *)
(* Interval days later; what the frequencies make of a month is left out.  *)
(***************************************************************************)
EXTENDS Naturals

CONSTANTS
    Templates,     \* ids of transfer_templates
    Requests,      \* HTTP requests that may be in flight at the same time
    Job,           \* RemindersCronJob
    Interval,      \* days between two due dates
    LastDay,       \* bound: the days a behaviour lasts
    MaxReminders   \* bound: reminders created in a behaviour

ASSUME TemplateConstants ==
    /\ Templates # {}
    /\ Job \notin Requests
    /\ Interval \in Nat \ {0}
    /\ LastDay \in Nat \ {0}
    /\ MaxReminders \in Nat

VARIABLES
    today,         \* todayInBogota()
    evening,       \* it is 19:00 or later
    templates,     \* templates[t]: the row of template t
    reminders,     \* reminders[i]: row i of reminders
    nextReminder,  \* the number of the next row
    act,           \* act[p]: what p holds between two statements
    job,           \* the run of the job: its day, its list, how it ended
    paid,          \* history: paid[t][d]: payments of t by the job, by the due
                   \* date it found in its list
    touched        \* history: listed templates others wrote to since then

tables == <<templates, reminders, nextReminder>>
clock == <<today, evening>>
histories == <<paid, touched>>

vars == <<clock, tables, act, job, histories>>

Actors == Requests \union {Job}
ReminderId == 1 .. MaxReminders

\* Due dates, and the days before them on which reminders are scheduled.
Day == 1 .. LastDay + Interval + 1

\* The columns that the module tells apart.  amount is lastAmount: unknown, one
\* that executeTransfer refuses, or a payable one.
Entity == [kind : {"reminder", "automatic"}, active : BOOLEAN,
           amount : {"unknown", "refused", "payable"}, due : Day]
Columns == {"kind", "active", "amount", "due"}
NoEntity == [kind |-> "reminder", active |-> FALSE, amount |-> "unknown", due |-> 1]

Row == [life : {"none", "live", "removed"}, entity : Entity]
NoRow == [life |-> "none", entity |-> NoEntity]

Reminder == [status : {"none", "scheduled", "sent", "dismissed", "gone"},
             template : Templates, day : 0 .. LastDay + Interval]

\* "pay" is about to create the transaction; "save", "write" and "insert" are
\* save's SELECT and its two writes; "find" looks for the reminder to mark and
\* "mark" or "dismiss" saves it; "check" and "remind" are the last statements of
\* generateForTemplate; the job is at "loop" between two templates.
Holding ==
    [at : {"idle", "pay", "save", "write", "insert", "find", "mark", "dismiss",
           "loop", "check", "remind"},
     template : Templates, entity : Entity, columns : SUBSET Columns,
     advances : BOOLEAN,              \* the due date is calculated before save
     executes : BOOLEAN,              \* executeTransfer: a reminder is marked after save
     reminder : 0 .. MaxReminders, day : 0 .. LastDay + Interval]

AnyTemplate == CHOOSE t \in Templates : TRUE

Step(at, t, entity, advances, executes) ==
    [at |-> at, template |-> t, entity |-> entity, columns |-> {},
     advances |-> advances, executes |-> executes, reminder |-> 0, day |-> 0]

Reminding(at, t, reminder, day, entity, advances) ==
    [at |-> at, template |-> t, entity |-> entity, columns |-> {},
     advances |-> advances, executes |-> FALSE, reminder |-> reminder, day |-> day]

Idle == Step("idle", AnyTemplate, NoEntity, FALSE, FALSE)
Looping == Step("loop", AnyTemplate, NoEntity, FALSE, FALSE)

\* The run of the job.  listed holds the entities findDueToday returned, which
\* the loop goes on using.
Run == [day : 0 .. LastDay,
        state : {"running", "done", "aborted", "stopped"},
        all : SUBSET Templates, todo : SUBSET Templates,
        listed : [Templates -> Entity]]

\* A run that ended early.
Ended(day, state) ==
    [day |-> day, state |-> state, all |-> {}, todo |-> {},
     listed |-> [t \in Templates |-> NoEntity]]

Init ==
    /\ today = 1
    /\ evening = FALSE
    /\ templates = [t \in Templates |-> NoRow]
    /\ reminders = [i \in ReminderId |->
                      [status |-> "none", template |-> AnyTemplate, day |-> 0]]
    /\ nextReminder = 1
    /\ act = [p \in Actors |-> Idle]
    /\ job = Ended(0, "stopped")
    /\ paid = [t \in Templates |-> [d \in Day |-> 0]]
    /\ touched = {}

-----------------------------------------------------------------------------
(* Operators *)

Live(t) == templates[t].life = "live"

Exists(i) == reminders[i].status \in {"scheduled", "sent", "dismissed"}

\* calcNextDueDate: from the server's date, not from Bogotá's.
NextDue == today + Interval + (IF evening THEN 1 ELSE 0)

\* What p does when its handler returns: a request ends, the job goes on with
\* its list.
Return(p) == IF p = Job THEN Looping ELSE Idle

\* An exception ends the handler; nothing catches it in the job's loop, which
\* ends too.
JobAfterException(p) ==
    IF p = Job THEN Ended(job.day, "aborted") ELSE job

\* The columns that save will write.
Differing(t, entity) == {c \in Columns : entity[c] # templates[t].entity[c]}

Merged(t, entity, columns) ==
    [kind |-> IF "kind" \in columns THEN entity.kind ELSE templates[t].entity.kind,
     active |-> IF "active" \in columns THEN entity.active
                ELSE templates[t].entity.active,
     amount |-> IF "amount" \in columns THEN entity.amount
                ELSE templates[t].entity.amount,
     due |-> IF "due" \in columns THEN entity.due ELSE templates[t].entity.due]

Touch(p, t) == IF p = Job THEN touched ELSE touched \union ({t} \cap job.all)

-----------------------------------------------------------------------------
(* create, update, toggleActive, remove *)

Create(t, kind, amount) ==
    /\ templates[t].life = "none"
    /\ templates' = [templates EXCEPT ![t] =
                       [life |-> "live",
                        entity |-> [kind |-> kind, active |-> TRUE,
                                    amount |-> amount, due |-> NextDue]]]
    /\ UNCHANGED <<clock, reminders, nextReminder, act, job, histories>>

\* The user changes the kind, the date, or both; the dates tried are those that
\* the job may see.
Edited(t) ==
    LET e == templates[t].entity IN
    {entity \in Entity : /\ entity.active = e.active
                         /\ entity.amount = e.amount
                         /\ entity.due \in (1 .. LastDay) \union {e.due}}

\* The date is calculated again when the schedule changes and no date is given.
Update(r, t) ==
    /\ act[r].at = "idle"
    /\ Live(t)
    /\ \E entity \in Edited(t), recalculated \in BOOLEAN :
          /\ recalculated => entity.due = templates[t].entity.due
          /\ act' = [act EXCEPT ![r] = Step("save", t, entity, recalculated, FALSE)]
    /\ UNCHANGED <<clock, tables, job, histories>>

ToggleActive(r, t) ==
    /\ act[r].at = "idle"
    /\ Live(t)
    /\ act' = [act EXCEPT ![r] =
                 Step("save", t,
                      [templates[t].entity EXCEPT !.active = ~ templates[t].entity.active],
                      FALSE, FALSE)]
    /\ UNCHANGED <<clock, tables, job, histories>>

\* The row goes, and its reminders with it (ON DELETE CASCADE).
Remove(t) ==
    /\ Live(t)
    /\ templates' = [templates EXCEPT ![t] = [life |-> "removed", entity |-> NoEntity]]
    /\ reminders' = [i \in ReminderId |->
                       IF Exists(i) /\ reminders[i].template = t
                       THEN [reminders[i] EXCEPT !.status = "gone"]
                       ELSE reminders[i]]
    /\ touched' = touched \union ({t} \cap job.all)
    /\ UNCHANGED <<clock, nextReminder, act, job, paid>>

-----------------------------------------------------------------------------
(* executeTransfer, by a user or by the job, and save *)

\* The due date is not looked at.
ExecuteRead(r, t) ==
    /\ act[r].at = "idle"
    /\ Live(t)
    /\ templates[t].entity.active
    /\ act' = [act EXCEPT ![r] =
                 Step("pay", t, [templates[t].entity EXCEPT !.amount = "payable"],
                      TRUE, TRUE)]
    /\ UNCHANGED <<clock, tables, job, histories>>

\* findOrCreateCategory and TransactionsService.create went through.
Pay(p) ==
    LET t == act[p].template
        d == job.listed[t].due IN
    /\ act[p].at = "pay"
    /\ paid' = IF p = Job THEN [paid EXCEPT ![t] = [paid[t] EXCEPT ![d] = paid[t][d] + 1]]
               ELSE paid
    /\ act' = [act EXCEPT ![p].at = "save"]
    /\ UNCHANGED <<clock, tables, job, touched>>

\* save's SELECT, right after the due date was calculated.
SaveLoad(p) ==
    LET t == act[p].template
        entity == IF act[p].advances THEN [act[p].entity EXCEPT !.due = NextDue]
                  ELSE act[p].entity IN
    /\ act[p].at = "save"
    /\ act' = [act EXCEPT ![p].at = IF Live(t) THEN "write" ELSE "insert",
                          ![p].entity = entity,
                          ![p].columns = IF Live(t) THEN Differing(t, entity) ELSE {}]
    /\ UNCHANGED <<clock, tables, job, histories>>

\* What follows the save.
AfterSave(p) ==
    IF act[p].executes THEN Step("find", act[p].template, NoEntity, FALSE, FALSE)
    ELSE Return(p)

\* The UPDATE finds no row if it was removed meanwhile.
SaveWrite(p) ==
    LET t == act[p].template IN
    /\ act[p].at = "write"
    /\ templates' = IF Live(t)
                    THEN [templates EXCEPT ![t] =
                            [life |-> "live",
                             entity |-> Merged(t, act[p].entity, act[p].columns)]]
                    ELSE templates
    /\ touched' = Touch(p, t)
    /\ act' = [act EXCEPT ![p] = AfterSave(p)]
    /\ UNCHANGED <<clock, reminders, nextReminder, job, paid>>

\* The removed template is inserted again.
SaveInsert(p) ==
    LET t == act[p].template IN
    /\ act[p].at = "insert"
    /\ ~ Live(t)
    /\ templates' = [templates EXCEPT ![t] =
                       [life |-> "live", entity |-> act[p].entity]]
    /\ touched' = Touch(p, t)
    /\ act' = [act EXCEPT ![p] = AfterSave(p)]
    /\ UNCHANGED <<clock, reminders, nextReminder, job, paid>>

-----------------------------------------------------------------------------
(* markLatestScheduledReminderAsSent, markAsSent, dismiss *)

ScheduledFor(t) ==
    {i \in ReminderId : reminders[i].status = "scheduled" /\ reminders[i].template = t}

MarkNone(p) ==
    /\ act[p].at = "find"
    /\ ScheduledFor(act[p].template) = {}
    /\ act' = [act EXCEPT ![p] = Return(p)]
    /\ UNCHANGED <<clock, tables, job, histories>>

\* The latest one, whichever due date it was for.
MarkFind(p, i) ==
    LET t == act[p].template IN
    /\ act[p].at = "find"
    /\ i \in ScheduledFor(t)
    /\ \A j \in ScheduledFor(t) : reminders[j].day <= reminders[i].day
    /\ act' = [act EXCEPT ![p] = Reminding("mark", t, i, 0, NoEntity, FALSE)]
    /\ UNCHANGED <<clock, tables, job, histories>>

\* The reminder and its template, whatever the reminder's status.
DismissRead(r, i) ==
    LET t == reminders[i].template IN
    /\ act[r].at = "idle"
    /\ Exists(i)
    /\ act' = [act EXCEPT ![r] =
                 Reminding("dismiss", t, i, 0, templates[t].entity, TRUE)]
    /\ UNCHANGED <<clock, tables, job, histories>>

\* A reminder that went with its template is inserted again if the template was.
ReminderSave(p) ==
    LET i == act[p].reminder
        t == act[p].template IN
    /\ act[p].at \in {"mark", "dismiss"}
    /\ Live(t)
    /\ reminders' = [reminders EXCEPT ![i].status =
                       IF act[p].at = "mark" THEN "sent" ELSE "dismissed"]
    /\ touched' = Touch(p, t)
    /\ act' = [act EXCEPT ![p] =
                 IF act[p].at = "mark" THEN Return(p)
                 ELSE Step("save", t, act[p].entity, TRUE, FALSE)]
    /\ UNCHANGED <<clock, templates, nextReminder, job, paid>>

-----------------------------------------------------------------------------
(* RemindersCronJob.sendDailyReminders *)

\* findDueToday.
DueTodayMutant == {t \in Templates : /\ Live(t)
                                     /\ templates[t].entity.active
                                     /\ templates[t].entity.due <= today}
DueToday == {t \in Templates : /\ Live(t)
                               /\ templates[t].entity.active
                               /\ templates[t].entity.due = today}

\* Once a day at 8:00 UTC, which is not the evening in Bogotá.
JobStart ==
    /\ act[Job].at = "idle"
    /\ ~ evening
    /\ job.day < today
    /\ job' = [day |-> today, state |-> "running", all |-> DueToday,
               todo |-> DueToday,
               listed |-> [t \in Templates |-> IF t \in DueToday
                                               THEN templates[t].entity
                                               ELSE NoEntity]]
    /\ act' = [act EXCEPT ![Job] = Looping]
    /\ touched' = {}
    /\ UNCHANGED <<clock, tables, paid>>

\* An automatic template without an amount is left alone.
JobSkip(t) ==
    /\ act[Job].at = "loop"
    /\ t \in job.todo
    /\ job.listed[t].kind = "automatic"
    /\ job.listed[t].amount = "unknown"
    /\ job' = [job EXCEPT !.todo = job.todo \ {t}]
    /\ UNCHANGED <<clock, tables, act, histories>>

\* generateForTemplate begins: the template is read again, and the reminder is
\* for the day before its due date.
JobRemind(t) ==
    /\ act[Job].at = "loop"
    /\ t \in job.todo
    /\ job.listed[t].kind = "reminder"
    /\ Live(t)
    /\ job' = [job EXCEPT !.todo = job.todo \ {t}]
    /\ act' = [act EXCEPT ![Job] =
                 IF templates[t].entity.active
                 THEN Reminding("check", t, 0, templates[t].entity.due - 1,
                                NoEntity, FALSE)
                 ELSE Looping]
    /\ UNCHANGED <<clock, tables, histories>>

\* The reminders of this template that keep a new one from being created.
ExistingOtherDayMutant(t, day) == {i \in ScheduledFor(t) : reminders[i].day = day + 1}
ExistingAnyStatusMutant(t, day) ==
    {i \in ReminderId : /\ Exists(i)
                        /\ reminders[i].template = t
                        /\ reminders[i].day = day}
Existing(t, day) == {i \in ScheduledFor(t) : reminders[i].day = day}

RemindCheck ==
    LET h == act[Job] IN
    /\ h.at = "check"
    /\ act' = [act EXCEPT ![Job] =
                 IF Existing(h.template, h.day) = {}
                 THEN Reminding("remind", h.template, 0, h.day, NoEntity, FALSE)
                 ELSE Looping]
    /\ UNCHANGED <<clock, tables, job, histories>>

RemindInsert ==
    LET h == act[Job] IN
    /\ h.at = "remind"
    /\ Live(h.template)
    /\ nextReminder \in ReminderId
    /\ reminders' = [reminders EXCEPT ![nextReminder] =
                       [status |-> "scheduled", template |-> h.template,
                        day |-> h.day]]
    /\ nextReminder' = nextReminder + 1
    /\ act' = [act EXCEPT ![Job] = Looping]
    /\ UNCHANGED <<clock, templates, job, histories>>

\* The job calls executeTransfer with the amount and the owner it listed.
JobExecute(t) ==
    /\ act[Job].at = "loop"
    /\ t \in job.todo
    /\ job.listed[t].kind = "automatic"
    /\ job.listed[t].amount = "payable"
    /\ Live(t)
    /\ templates[t].entity.active
    /\ job' = [job EXCEPT !.todo = job.todo \ {t}]
    /\ act' = [act EXCEPT ![Job] =
                 Step("pay", t, [templates[t].entity EXCEPT !.amount = "payable"],
                      TRUE, TRUE)]
    /\ UNCHANGED <<clock, tables, histories>>

\* The template is gone, or inactive by now, or its amount is refused.
JobRefused(t) ==
    /\ act[Job].at = "loop"
    /\ t \in job.todo
    /\ \/ ~ Live(t) /\ job.listed[t].kind = "reminder"
       \/ /\ job.listed[t].kind = "automatic"
          /\ job.listed[t].amount # "unknown"
          /\ ~ Live(t) \/ ~ templates[t].entity.active
             \/ job.listed[t].amount = "refused"
    /\ job' = Ended(job.day, "aborted")
    /\ act' = [act EXCEPT ![Job] = Idle]
    /\ UNCHANGED <<clock, tables, histories>>

JobDone ==
    /\ act[Job].at = "loop"
    /\ job.todo = {}
    /\ job' = [job EXCEPT !.state = "done"]
    /\ act' = [act EXCEPT ![Job] = Idle]
    /\ UNCHANGED <<clock, tables, histories>>

-----------------------------------------------------------------------------
(* Failures and time *)

\* The payment is refused (the category or the account is gone), the row to
\* insert is there again, the reminder to mark is gone, or the template of the
\* reminder to write is.
MayFail(p) ==
    \/ act[p].at = "pay"
    \/ act[p].at = "insert" /\ Live(act[p].template)
    \/ act[p].at = "mark" /\ ~ Exists(act[p].reminder)
    \/ act[p].at \in {"dismiss", "remind"} /\ ~ Live(act[p].template)

Fails(p) ==
    /\ MayFail(p)
    /\ job' = JobAfterException(p)
    /\ act' = [act EXCEPT ![p] = Idle]
    /\ UNCHANGED <<clock, tables, histories>>

\* The process stops.
Stop(p) ==
    /\ act[p].at # "idle"
    /\ job' = IF p = Job THEN Ended(job.day, "stopped") ELSE job
    /\ act' = [act EXCEPT ![p] = Idle]
    /\ UNCHANGED <<clock, tables, histories>>

EveningComes ==
    /\ ~ evening
    /\ evening' = TRUE
    /\ UNCHANGED <<today, tables, act, job, histories>>

\* A run of the job ends before the next one begins; the process may have been
\* down at 8:00.
NextDay ==
    /\ evening
    /\ today < LastDay
    /\ act[Job].at = "idle"
    /\ today' = today + 1
    /\ evening' = FALSE
    /\ UNCHANGED <<tables, act, job, histories>>

Next ==
    \/ \E t \in Templates, kind \in {"reminder", "automatic"},
          amount \in {"unknown", "refused", "payable"} : Create(t, kind, amount)
    \/ \E r \in Requests, t \in Templates : Update(r, t)
    \/ \E r \in Requests, t \in Templates : ToggleActive(r, t)
    \/ \E t \in Templates : Remove(t)
    \/ \E r \in Requests, t \in Templates : ExecuteRead(r, t)
    \/ \E p \in Actors : Pay(p)
    \/ \E p \in Actors : SaveLoad(p)
    \/ \E p \in Actors : SaveWrite(p)
    \/ \E p \in Actors : SaveInsert(p)
    \/ \E p \in Actors : MarkNone(p)
    \/ \E p \in Actors, i \in ReminderId : MarkFind(p, i)
    \/ \E r \in Requests, i \in ReminderId : DismissRead(r, i)
    \/ \E p \in Actors : ReminderSave(p)
    \/ JobStart
    \/ \E t \in Templates : JobSkip(t)
    \/ \E t \in Templates : JobRemind(t)
    \/ RemindCheck
    \/ RemindInsert
    \/ \E t \in Templates : JobExecute(t)
    \/ \E t \in Templates : JobRefused(t)
    \/ JobDone
    \/ \E p \in Actors : Fails(p)
    \/ \E p \in Actors : Stop(p)
    \/ EveningComes
    \/ NextDay

Spec == Init /\ [][Next]_vars

-----------------------------------------------------------------------------
(* Properties *)

TypeOK ==
    /\ today \in 1 .. LastDay
    /\ evening \in BOOLEAN
    /\ templates \in [Templates -> Row]
    /\ reminders \in [ReminderId -> Reminder]
    /\ nextReminder \in 1 .. MaxReminders + 1
    /\ act \in [Actors -> Holding]
    /\ job \in Run
    /\ paid \in [Templates -> [Day -> Nat]]
    /\ touched \in SUBSET Templates

\* reminders.service.ts:44: "Evita duplicados": a due date of a template never
\* has two scheduled reminders, though the user moves the date under the job and
\* templates come back after they were removed.
OneScheduledReminder ==
    \A i, j \in ReminderId :
        /\ reminders[i].status = "scheduled"
        /\ reminders[j].status = "scheduled"
        /\ reminders[i].template = reminders[j].template
        /\ reminders[i].day = reminders[j].day
        => i = j

\* reminders.cron.ts:22: the job pays a due date at most once, though it may
\* stop between the payment and the change of the date.
JobPaysOnce == \A t \in Templates, d \in Day : paid[t][d] <= 1

\* A listed template has been dealt with.
DealtWith(t) ==
    CASE job.listed[t].kind = "reminder" ->
            \E i \in ScheduledFor(t) : reminders[i].day = job.day - 1
      [] job.listed[t].kind = "automatic" /\ job.listed[t].amount = "payable" ->
            paid[t][job.day] = 1 /\ templates[t].entity.due > job.day
      [] OTHER -> paid[t][job.day] = 0

\* reminders.cron.ts:17: when a run ends without an exception, every template
\* that was due and that nobody else wrote to meanwhile has its reminder, or was
\* paid and is due on a later day.
JobDealsWithAll ==
    job.state = "done" => \A t \in job.all \ touched : DealtWith(t)

\* What the job may hold.  Templates it has not come to, and the one it is about
\* to pay, were not paid for this day; a reminder it is about to create is not
\* there.
JobOK ==
    LET h == act[Job] IN
    h.at # "idle" =>
        /\ job.todo \subseteq job.all
        /\ \A t \in job.all : job.listed[t].due = job.day
        /\ \A t \in job.todo : paid[t][job.day] = 0
        /\ h.at = "pay" => /\ h.template \in job.all \ job.todo
                          /\ paid[h.template][job.day] = 0
        /\ h.at = "remind" =>
              {i \in ScheduledFor(h.template) : reminders[i].day = h.day} = {}

\* A reminder about to be marked or dismissed was inserted.
ReminderOK(h) ==
    h.at \in {"mark", "dismiss"} => h.reminder \in 1 .. nextReminder - 1

\* The invariant the proofs need: no payment is ahead of the job's day, and new
\* reminders get new rows.
IInv ==
    /\ TypeOK
    /\ \A r \in Requests : act[r].at \notin {"loop", "check", "remind"}
    /\ \A p \in Actors : ReminderOK(act[p])
    /\ \A t \in Templates, d \in Day : paid[t][d] # 0 => d <= job.day
    /\ \A i \in ReminderId : i >= nextReminder => reminders[i].status = "none"
    /\ JobOK
    /\ OneScheduledReminder
    /\ JobPaysOnce

-----------------------------------------------------------------------------
(* The invariant that JobDealsWithAll needs besides. *)

\* The statements in which the job deals with a template, and those after a payment.
Paying == {"pay", "save", "write", "insert"}
Dealing == {"check", "remind"} \union Paying
Marking == {"find", "mark"}

AsListed(t) == Live(t) /\ templates[t].entity = job.listed[t]

\* Where the job is with the template in its hands, when nobody else wrote to it.
InHand(t) ==
    LET h == act[Job] IN
    /\ h.at \in {"check", "remind"} =>
          job.listed[t].kind = "reminder" /\ h.day = job.day - 1
    /\ h.at \in Paying =>
          /\ h.at # "insert"
          /\ AsListed(t)
          /\ paid[t][job.day] = IF h.at = "pay" THEN 0 ELSE 1
          /\ IF h.at = "write" THEN "due" \in h.columns /\ h.entity.due > job.day
             ELSE h.advances

\* A listed template that nobody else wrote to: the job has not come to it, or has it in
\* its hands, or has dealt with it.
Progress(t) ==
    IF t \in job.todo THEN AsListed(t) /\ job.listed[t].active
    ELSE IF act[Job].at \in Dealing /\ act[Job].template = t THEN InHand(t)
    ELSE DealtWith(t)

\* What the job holds is one of the templates it took off its list, and a payable one
\* when it pays; what anybody marks is a reminder of the template he holds.
HandsOK ==
    LET h == act[Job] IN
    /\ h.at \in Dealing \union Marking => h.template \in job.all \ job.todo
    /\ h.at \in Paying \union Marking =>
          job.listed[h.template].kind = "automatic" /\ job.listed[h.template].amount = "payable"
    /\ h.at \in Paying => h.executes
    /\ h.at # "dismiss"
    /\ \A p \in Actors :
          act[p].at \in {"mark", "dismiss"} =>
              reminders[act[p].reminder].template = act[p].template

RunOK ==
    /\ job.day <= today
    /\ job.state = "done" => act[Job].at = "idle"
    /\ act[Job].at = "idle" => job.todo = {}
    /\ \A t \in job.all : templates[t].life # "none"

JobKeepsUp == RunOK /\ HandsOK /\ \A t \in job.all \ touched : Progress(t)
=============================================================================
