---------------------------- MODULE DatesProofs ----------------------------
(***************************************************************************)
(* Proofs about what depends on the calendar: TransferTemplates, AiUsage   *)
(* (the instance Quota of MCDates) and Profile (its instance Summary), for *)
(* any templates, requests, limits, costs, transactions, accounts and      *)
(* categories; and about Calendar itself, over any number of years.        *)
(***************************************************************************)
EXTENDS MCDates, Sums, Sequences, TLAPS

LEMMA StepIsHolding ==
  ASSUME NEW at \in {"idle", "loop", "pay", "save", "find"}, NEW t \in Templates,
         NEW entity \in Entity, NEW advances \in BOOLEAN, NEW executes \in BOOLEAN
  PROVE  /\ Step(at, t, entity, advances, executes) \in Holding
         /\ Step(at, t, entity, advances, executes).at = at
         /\ Step(at, t, entity, advances, executes).template = t
  BY TemplateConstants DEF Step, Holding

LEMMA RemindingIsHolding ==
  ASSUME NEW at \in {"mark", "dismiss", "check", "remind"}, NEW t \in Templates,
         NEW i \in 0 .. MaxReminders, NEW day \in 0 .. LastDay + Interval,
         NEW entity \in Entity, NEW advances \in BOOLEAN
  PROVE  /\ Reminding(at, t, i, day, entity, advances) \in Holding
         /\ Reminding(at, t, i, day, entity, advances).at = at
         /\ Reminding(at, t, i, day, entity, advances).template = t
         /\ Reminding(at, t, i, day, entity, advances).day = day
  BY TemplateConstants DEF Reminding, Holding

LEMMA Nothing ==
  /\ AnyTemplate \in Templates
  /\ NoEntity \in Entity
  /\ 1 \in Day
  <1>1. AnyTemplate \in Templates
    BY TemplateConstants DEF AnyTemplate
  <1>2. 1 \in Day
    BY TemplateConstants DEF Day
  <1> QED BY <1>1, <1>2 DEF NoEntity, Entity

LEMMA RestingIsHolding ==
  /\ Idle \in Holding /\ Idle.at = "idle"
  /\ Looping \in Holding /\ Looping.at = "loop"
  <1>1. /\ Step("idle", AnyTemplate, NoEntity, FALSE, FALSE) \in Holding
        /\ Step("idle", AnyTemplate, NoEntity, FALSE, FALSE).at = "idle"
    BY Nothing, TemplateConstants DEF Step, Holding
  <1>2. /\ Step("loop", AnyTemplate, NoEntity, FALSE, FALSE) \in Holding
        /\ Step("loop", AnyTemplate, NoEntity, FALSE, FALSE).at = "loop"
    BY Nothing, TemplateConstants DEF Step, Holding
  <1> QED BY <1>1, <1>2 DEF Idle, Looping

LEMMA ReturnIsHolding ==
  ASSUME NEW p \in Actors
  PROVE  /\ Return(p) \in Holding
         /\ Return(p).at \in {"idle", "loop"}
         /\ p # Job => Return(p).at = "idle"
  BY RestingIsHolding DEF Return

LEMMA EndedIsRun ==
  ASSUME NEW day \in 0 .. LastDay, NEW state \in {"aborted", "stopped"}
  PROVE  Ended(day, state) \in Run /\ Ended(day, state).day = day
  BY Nothing DEF Ended, Run

LEMMA InitIInv == Init => IInv
  <1> SUFFICES ASSUME Init PROVE IInv
    OBVIOUS
  <1>1. job \in Run /\ job.day = 0
    BY EndedIsRun, TemplateConstants DEF Init
  <1>2. \A i \in ReminderId : reminders[i] \in Reminder /\ reminders[i].status = "none"
    BY Nothing, TemplateConstants DEF Init, Reminder
  <1>3. reminders \in [ReminderId -> Reminder]
    BY <1>2 DEF Init
  <1>4. NoRow \in Row
    BY Nothing DEF NoRow, Row
  <1>5. \A p \in Actors : act[p] \in Holding /\ act[p].at = "idle"
    BY RestingIsHolding DEF Init
  <1>6. TypeOK
    <2>1. templates \in [Templates -> Row]
      BY <1>4 DEF Init
    <2>2. act \in [Actors -> Holding]
      BY RestingIsHolding DEF Init
    <2>3. paid \in [Templates -> [Day -> Nat]]
      BY DEF Init
    <2>4. today \in 1 .. LastDay /\ nextReminder \in 1 .. MaxReminders + 1
      BY TemplateConstants DEF Init
    <2>5. evening \in BOOLEAN /\ touched \in SUBSET Templates
      BY DEF Init
    <2> QED BY <1>1, <1>3, <2>1, <2>2, <2>3, <2>4, <2>5 DEF TypeOK
  <1>7. JobOK
    BY <1>5 DEF JobOK, Actors
  <1>10. \A p \in Actors : ReminderOK(act[p])
    BY <1>5 DEF ReminderOK
  <1>8. OneScheduledReminder
    BY <1>2 DEF OneScheduledReminder
  <1>9. JobPaysOnce /\ \A t \in Templates, d \in Day : paid[t][d] = 0
    BY DEF Init, JobPaysOnce
  <1> QED BY <1>2, <1>5, <1>6, <1>7, <1>8, <1>9, <1>10 DEF IInv, Actors

-----------------------------------------------------------------------------
(* What most steps have in common. *)

\* No reminder becomes a scheduled one, and no row is used ahead of its turn.
NoNewReminder(new) ==
    /\ new \in [ReminderId -> Reminder]
    /\ \A i \in ReminderId :
          /\ new[i].status = "scheduled" => new[i] = reminders[i]
          /\ i >= nextReminder => new[i].status = "none"

\* A step that pays nothing by the job, schedules no reminder, and leaves the
\* list of the job alone but for what it takes off it.
LEMMA QuietKeeps ==
  ASSUME IInv,
         today' \in 1 .. LastDay, evening' \in BOOLEAN,
         templates' \in [Templates -> Row],
         NoNewReminder(reminders'), nextReminder' = nextReminder,
         act' \in [Actors -> Holding],
         \A r \in Requests : act'[r].at \notin {"loop", "check", "remind"},
         \A p \in Actors : ReminderOK(act'[p]),
         \/ act'[Job] = act[Job]
         \/ act'[Job].at \notin {"pay", "remind"},
         job' \in Run, job'.day = job.day,
         \/ act'[Job].at = "idle"
         \/ /\ act[Job].at # "idle"
            /\ job'.all = job.all /\ job'.listed = job.listed
            /\ job'.todo \subseteq job.todo,
         paid' = paid, touched' \in SUBSET Templates
  PROVE  IInv'
  <1>1. TypeOK'
    BY DEF IInv, TypeOK, NoNewReminder
  <1>2. JobOK'
    <2>1. CASE act'[Job].at = "idle"
      BY <2>1 DEF JobOK
    <2>2. CASE act'[Job].at # "idle"
      <3>1. /\ act[Job].at # "idle"
            /\ job'.all = job.all /\ job'.listed = job.listed
            /\ job'.todo \subseteq job.todo
        BY <2>2
      <3>2. /\ job'.todo \subseteq job'.all
            /\ \A t \in job'.all : job'.listed[t].due = job'.day
            /\ \A t \in job'.todo : paid'[t][job'.day] = 0
        BY <3>1 DEF IInv, JobOK
      <3>3. CASE act'[Job].at \notin {"pay", "remind"}
        BY <3>2, <3>3 DEF JobOK
      <3>4. CASE act'[Job] = act[Job]
        <4>1. act'[Job].at = "pay" =>
                 /\ act'[Job].template \in job'.all \ job'.todo
                 /\ paid'[act'[Job].template][job'.day] = 0
          BY <3>1, <3>4 DEF IInv, JobOK
        <4>2. act'[Job].at = "remind" =>
                 \A i \in ReminderId :
                    ~ /\ reminders'[i].status = "scheduled"
                      /\ reminders'[i].template = act'[Job].template
                      /\ reminders'[i].day = act'[Job].day
          BY <3>1, <3>4 DEF IInv, JobOK, ScheduledFor, NoNewReminder
        <4> QED BY <3>2, <4>1, <4>2 DEF JobOK, ScheduledFor
      <3> QED BY <3>3, <3>4
    <2> QED BY <2>1, <2>2
  <1>3. OneScheduledReminder'
    BY DEF IInv, OneScheduledReminder, NoNewReminder
  <1>4. JobPaysOnce'
    BY DEF IInv, JobPaysOnce
  <1>5. \A t \in Templates, d \in Day : paid'[t][d] # 0 => d <= job'.day
    BY DEF IInv
  <1>6. \A i \in ReminderId : i >= nextReminder' => reminders'[i].status = "none"
    BY DEF NoNewReminder
  <1>7. \A p \in Actors : ReminderOK(act[p])'
    BY DEF ReminderOK
  <1> QED BY <1>1, <1>2, <1>3, <1>4, <1>5, <1>6, <1>7 DEF IInv

LEMMA SameReminders ==
  ASSUME IInv
  PROVE  NoNewReminder(reminders)
  BY DEF IInv, TypeOK, NoNewReminder

\* A step of p after which it holds h, the job's list unchanged.
LEMMA ActorKeeps ==
  ASSUME IInv, NEW p \in Actors, NEW h \in Holding,
         act' = [act EXCEPT ![p] = h],
         ReminderOK(h),
         p # Job => h.at \notin {"loop", "check", "remind"},
         p = Job => h.at \notin {"pay", "remind"},
         p = Job => act[Job].at # "idle",
         templates' \in [Templates -> Row],
         NoNewReminder(reminders'),
         touched' \in SUBSET Templates,
         UNCHANGED <<clock, nextReminder, job, paid>>
  PROVE  IInv'
  <1>1. act' \in [Actors -> Holding] /\ Job \in Actors
    BY DEF IInv, TypeOK, Actors
  <1>2. /\ act'[Job] = IF p = Job THEN h ELSE act[Job]
        /\ \A r \in Requests : act'[r] = IF p = r THEN h ELSE act[r]
    BY <1>1 DEF IInv, TypeOK, Actors
  <1>3. \A r \in Requests : act'[r].at \notin {"loop", "check", "remind"}
    BY <1>2, TemplateConstants DEF IInv
  <1>4. act'[Job] = act[Job] \/ act'[Job].at \notin {"pay", "remind"}
    BY <1>2
  <1>5. /\ today' \in 1 .. LastDay /\ evening' \in BOOLEAN
        /\ nextReminder' = nextReminder /\ job' \in Run /\ job' = job /\ paid' = paid
    BY DEF IInv, TypeOK, clock
  <1>6. act'[Job].at = "idle" \/ act[Job].at # "idle"
    BY <1>2
  <1>7. \A q \in Actors : ReminderOK(act'[q])
    BY DEF IInv, TypeOK
  <1> QED BY <1>1, <1>3, <1>4, <1>5, <1>6, <1>7, QuietKeeps

\* A step of the job that takes a template off its list, or ends the run.
LEMMA LoopKeeps ==
  ASSUME IInv, NEW h \in Holding,
         act' = [act EXCEPT ![Job] = h],
         h.at \notin {"pay", "remind", "mark", "dismiss"},
         job' \in Run, job'.day = job.day,
         \/ h.at = "idle"
         \/ /\ act[Job].at # "idle"
            /\ job'.all = job.all /\ job'.listed = job.listed
            /\ job'.todo \subseteq job.todo,
         UNCHANGED <<clock, tables, histories>>
  PROVE  IInv'
  <1>1. act' \in [Actors -> Holding] /\ act'[Job] = h
    BY DEF IInv, TypeOK, Actors
  <1>2. \A r \in Requests : act'[r] = act[r]
    BY TemplateConstants DEF IInv, TypeOK, Actors
  <1>3. /\ today' \in 1 .. LastDay /\ evening' \in BOOLEAN
        /\ templates' \in [Templates -> Row]
        /\ reminders' = reminders /\ nextReminder' = nextReminder
        /\ paid' = paid /\ touched' \in SUBSET Templates
    BY DEF IInv, TypeOK, clock, tables, histories
  <1>4. \A r \in Requests : act'[r].at \notin {"loop", "check", "remind"}
    BY <1>2 DEF IInv
  <1>5. \A q \in Actors : ReminderOK(act'[q])
    BY <1>1 DEF IInv, TypeOK, ReminderOK
  <1> QED BY <1>1, <1>3, <1>4, <1>5, SameReminders, QuietKeeps

-----------------------------------------------------------------------------
(* What an actor holds. *)

LEMMA HeldParts ==
  ASSUME IInv, NEW p \in Actors
  PROVE  /\ act[p] \in Holding
         /\ act[p].template \in Templates
         /\ act[p].entity \in Entity
         /\ act[p].columns \in SUBSET Columns
         /\ act[p].reminder \in 0 .. MaxReminders
         /\ act[p].day \in 0 .. LastDay + Interval
  BY DEF IInv, TypeOK, Holding

LEMMA NextDueIsDay ==
  ASSUME IInv
  PROVE  NextDue \in Day
  BY TemplateConstants DEF IInv, TypeOK, NextDue, Day

LEMMA RowParts ==
  ASSUME IInv, NEW t \in Templates
  PROVE  templates[t] \in Row /\ templates[t].entity \in Entity
  BY DEF IInv, TypeOK, Row

\* A request that was idle.
LEMMA RequestKeeps ==
  ASSUME IInv, NEW r \in Requests, NEW h \in Holding,
         act' = [act EXCEPT ![r] = h],
         h.at \notin {"loop", "check", "remind"},
         ReminderOK(h),
         UNCHANGED <<clock, tables, job, histories>>
  PROVE  IInv'
  <1>1. r \in Actors /\ r # Job
    BY TemplateConstants DEF Actors
  <1>2. /\ templates' \in [Templates -> Row] /\ touched' \in SUBSET Templates
        /\ reminders' = reminders
        /\ UNCHANGED <<clock, nextReminder, job, paid>>
    BY DEF IInv, TypeOK, tables, histories
  <1> QED BY <1>1, <1>2, SameReminders, ActorKeeps

LEMMA RowWritten ==
  ASSUME IInv, NEW t \in Templates, NEW entity \in Entity
  PROVE  [templates EXCEPT ![t] = [life |-> "live", entity |-> entity]]
            \in [Templates -> Row]
  <1>1. [life |-> "live", entity |-> entity] \in Row
    BY DEF Row
  <1> QED BY <1>1 DEF IInv, TypeOK

LEMMA TouchIsSet ==
  ASSUME IInv, NEW p, NEW t \in Templates
  PROVE  Touch(p, t) \in SUBSET Templates
  BY DEF IInv, TypeOK, Touch

-----------------------------------------------------------------------------
(* One lemma per family of actions. *)

LEMMA RequestsBegin ==
  ASSUME IInv, NEW r \in Requests, NEW t \in Templates,
         Update(r, t) \/ ToggleActive(r, t) \/ ExecuteRead(r, t)
  PROVE  IInv'
  <1> DEFINE e == templates[t].entity
  <1>1. e \in Entity /\ e.active \in BOOLEAN
    BY RowParts DEF Entity
  <1> HIDE DEF e
  <1>2. CASE Update(r, t)
    <2>1. /\ UNCHANGED <<clock, tables, job, histories>>
          /\ \E entity \in Edited(t), advances \in BOOLEAN :
                act' = [act EXCEPT ![r] = Step("save", t, entity, advances, FALSE)]
      BY <1>2 DEF Update
    <2>2. PICK entity \in Edited(t), advances \in BOOLEAN :
             act' = [act EXCEPT ![r] = Step("save", t, entity, advances, FALSE)]
      BY <2>1
    <2>3. entity \in Entity
      BY <2>2 DEF Edited
    <2> DEFINE h == Step("save", t, entity, advances, FALSE)
    <2>4. h \in Holding /\ h.at = "save"
      BY <2>2, <2>3, TemplateConstants DEF Step, Holding
    <2>5. act' = [act EXCEPT ![r] = h]
      BY <2>2
    <2> HIDE DEF h
    <2> QED BY <2>1, <2>4, <2>5, RequestKeeps DEF ReminderOK
  <1>3. CASE ToggleActive(r, t)
    <2> DEFINE h == Step("save", t, [e EXCEPT !.active = ~ e.active], FALSE, FALSE)
    <2>1. [e EXCEPT !.active = ~ e.active] \in Entity
      BY <1>1 DEF Entity
    <2>2. h \in Holding /\ h.at = "save"
      BY <2>1, TemplateConstants DEF Step, Holding
    <2>3. act' = [act EXCEPT ![r] = h] /\ UNCHANGED <<clock, tables, job, histories>>
      BY <1>3 DEF ToggleActive, e
    <2> HIDE DEF h
    <2> QED BY <2>2, <2>3, RequestKeeps DEF ReminderOK
  <1>4. CASE ExecuteRead(r, t)
    <2> DEFINE h == Step("pay", t, [e EXCEPT !.amount = "payable"], TRUE, TRUE)
    <2>1. [e EXCEPT !.amount = "payable"] \in Entity
      BY <1>1 DEF Entity
    <2>2. h \in Holding /\ h.at = "pay"
      BY <2>1, TemplateConstants DEF Step, Holding
    <2>3. act' = [act EXCEPT ![r] = h] /\ UNCHANGED <<clock, tables, job, histories>>
      BY <1>4 DEF ExecuteRead, e
    <2> HIDE DEF h
    <2> QED BY <2>2, <2>3, RequestKeeps DEF ReminderOK
  <1> QED BY <1>2, <1>3, <1>4

LEMMA TablesKeep ==
  ASSUME IInv, NEW t \in Templates,
         \/ \E kind \in {"reminder", "automatic"},
               amount \in {"unknown", "refused", "payable"} : Create(t, kind, amount)
         \/ Remove(t)
  PROVE  IInv'
  <1>1. CASE \E kind \in {"reminder", "automatic"},
               amount \in {"unknown", "refused", "payable"} : Create(t, kind, amount)
    <2>1. PICK kind \in {"reminder", "automatic"},
               amount \in {"unknown", "refused", "payable"} : Create(t, kind, amount)
      BY <1>1
    <2> DEFINE entity == [kind |-> kind, active |-> TRUE, amount |-> amount,
                          due |-> NextDue]
    <2>2. entity \in Entity
      BY <2>1, NextDueIsDay DEF Entity
    <2>3. templates' = [templates EXCEPT ![t] = [life |-> "live", entity |-> entity]]
      BY <2>1 DEF Create
    <2> HIDE DEF entity
    <2>4. templates' \in [Templates -> Row]
      BY <2>2, <2>3, RowWritten
    <2>5. UNCHANGED <<clock, reminders, nextReminder, act, job, histories>>
      BY <2>1 DEF Create
    <2> QED BY <2>4, <2>5, SameReminders, QuietKeeps
            DEF IInv, TypeOK, clock, histories
  <1>2. CASE Remove(t)
    <2>1. templates' \in [Templates -> Row]
      <3>2. [life |-> "removed", entity |-> NoEntity] \in Row
        BY Nothing DEF Row
      <3>3. templates' = [templates EXCEPT ![t] = [life |-> "removed", entity |-> NoEntity]]
        BY <1>2 DEF Remove
      <3> QED BY <3>2, <3>3 DEF IInv, TypeOK
    <2>2. NoNewReminder(reminders')
      <3>1. ASSUME NEW i \in ReminderId
            PROVE  /\ reminders'[i] \in Reminder
                   /\ reminders'[i].status = "scheduled" => reminders'[i] = reminders[i]
                   /\ i >= nextReminder => reminders'[i].status = "none"
        <4>1. reminders[i] \in Reminder
          BY DEF IInv, TypeOK
        <4>2. /\ [reminders[i] EXCEPT !.status = "gone"] \in Reminder
              /\ [reminders[i] EXCEPT !.status = "gone"].status = "gone"
          BY <4>1 DEF Reminder
        <4>3. i >= nextReminder => ~ Exists(i) /\ reminders[i].status = "none"
          BY DEF IInv, Exists
        <4>4. \/ reminders'[i] = reminders[i]
              \/ Exists(i) /\ reminders'[i] = [reminders[i] EXCEPT !.status = "gone"]
          BY <1>2 DEF Remove
        <4> QED BY <4>1, <4>2, <4>3, <4>4
      <3>2. reminders' \in [ReminderId -> Reminder]
        BY <1>2, <3>1 DEF Remove
      <3> QED BY <3>1, <3>2 DEF NoNewReminder
    <2>3. /\ UNCHANGED <<clock, nextReminder, act, job, paid>>
          /\ touched' \in SUBSET Templates
      BY <1>2 DEF Remove, IInv, TypeOK
    <2> QED BY <2>1, <2>2, <2>3, QuietKeeps DEF IInv, TypeOK, clock
  <1> QED BY <1>1, <1>2

LEMMA AfterSaveIsHolding ==
  ASSUME IInv, NEW p \in Actors
  PROVE  /\ AfterSave(p) \in Holding
         /\ AfterSave(p).at \in {"find", "idle", "loop"}
         /\ p # Job => AfterSave(p).at # "loop"
  <1>1. /\ Step("find", act[p].template, NoEntity, FALSE, FALSE) \in Holding
        /\ Step("find", act[p].template, NoEntity, FALSE, FALSE).at = "find"
    BY HeldParts, Nothing, TemplateConstants DEF Step, Holding
  <1> QED BY <1>1, ReturnIsHolding DEF AfterSave

LEMMA MergedIsEntity ==
  ASSUME NEW t, templates[t].entity \in Entity, NEW entity \in Entity, NEW columns
  PROVE  Merged(t, entity, columns) \in Entity
  <1> DEFINE e == templates[t].entity
  <1>1. /\ e.kind \in {"reminder", "automatic"} /\ entity.kind \in {"reminder", "automatic"}
        /\ e.active \in BOOLEAN /\ entity.active \in BOOLEAN
        /\ e.amount \in {"unknown", "refused", "payable"}
        /\ entity.amount \in {"unknown", "refused", "payable"}
        /\ e.due \in Day /\ entity.due \in Day
    BY DEF Entity
  <1> QED BY <1>1 DEF Merged, Entity

LEMMA SavesKeep ==
  ASSUME IInv, NEW p \in Actors, SaveLoad(p) \/ SaveWrite(p) \/ SaveInsert(p)
  PROVE  IInv'
  <1> DEFINE t == act[p].template
  <1>1. /\ t \in Templates /\ act[p] \in Holding /\ act[p].entity \in Entity
    BY HeldParts
  <1>2. CASE SaveLoad(p)
    <2> DEFINE entity == IF act[p].advances
                         THEN [act[p].entity EXCEPT !.due = NextDue]
                         ELSE act[p].entity
               at == IF Live(t) THEN "write" ELSE "insert"
               columns == IF Live(t) THEN Differing(t, entity) ELSE {}
               h == [act[p] EXCEPT !.at = at, !.entity = entity, !.columns = columns]
    <2>1. entity \in Entity
      BY <1>1, NextDueIsDay DEF Entity
    <2>2. at \in {"write", "insert"} /\ columns \in SUBSET Columns
      BY DEF Differing
    <2>3. act' = [act EXCEPT ![p] = h]
      BY <1>2 DEF SaveLoad, IInv, TypeOK
    <2>4. /\ act[p].at = "save"
          /\ UNCHANGED <<clock, tables, job, histories>>
      BY <1>2 DEF SaveLoad
    <2> HIDE DEF entity, at, columns
    <2>5. h \in Holding /\ h.at = at
      BY <1>1, <2>1, <2>2 DEF Holding
    <2> HIDE DEF h
    <2>6. /\ templates' \in [Templates -> Row] /\ touched' \in SUBSET Templates
          /\ reminders' = reminders
          /\ UNCHANGED <<clock, nextReminder, job, paid>>
      BY <2>4 DEF IInv, TypeOK, tables, histories
    <2> QED BY <2>2, <2>3, <2>4, <2>5, <2>6, SameReminders, ActorKeeps DEF ReminderOK
  <1> DEFINE h == AfterSave(p)
  <1>3. /\ h \in Holding /\ h.at \in {"find", "idle", "loop"}
        /\ p # Job => h.at # "loop"
    BY AfterSaveIsHolding
  <1>4. CASE SaveWrite(p)
    <2>1. /\ act[p].at = "write" /\ act' = [act EXCEPT ![p] = h]
          /\ reminders' = reminders /\ touched' = Touch(p, t)
          /\ UNCHANGED <<clock, nextReminder, job, paid>>
      BY <1>4 DEF SaveWrite
    <2> DEFINE entity == Merged(t, act[p].entity, act[p].columns)
    <2>2. entity \in Entity
      BY <1>1, RowParts, MergedIsEntity
    <2>3. \/ templates' = templates
          \/ templates' = [templates EXCEPT ![t] = [life |-> "live", entity |-> entity]]
      BY <1>4 DEF SaveWrite
    <2> HIDE DEF entity, t, h
    <2>4. templates' \in [Templates -> Row]
      BY <1>1, <2>2, <2>3, RowWritten DEF IInv, TypeOK
    <2> QED BY <1>1, <1>3, <2>1, <2>4, TouchIsSet, SameReminders, ActorKeeps
            DEF ReminderOK
  <1>5. CASE SaveInsert(p)
    <2>1. /\ act[p].at = "insert" /\ act' = [act EXCEPT ![p] = h]
          /\ reminders' = reminders /\ touched' = Touch(p, t)
          /\ UNCHANGED <<clock, nextReminder, job, paid>>
          /\ templates' = [templates EXCEPT ![t] =
                             [life |-> "live", entity |-> act[p].entity]]
      BY <1>5 DEF SaveInsert
    <2> HIDE DEF t, h
    <2>2. templates' \in [Templates -> Row]
      BY <1>1, <2>1, RowWritten
    <2> QED BY <1>1, <1>3, <2>1, <2>2, TouchIsSet, SameReminders, ActorKeeps
            DEF ReminderOK
  <1> QED BY <1>2, <1>4, <1>5

LEMMA MarksKeep ==
  ASSUME IInv, NEW p \in Actors,
         \/ MarkNone(p)
         \/ \E i \in ReminderId : MarkFind(p, i)
         \/ ReminderSave(p)
  PROVE  IInv'
  <1> DEFINE t == act[p].template
  <1>1. t \in Templates /\ act[p].entity \in Entity
    BY HeldParts
  <1>2. /\ Return(p) \in Holding /\ Return(p).at \in {"idle", "loop"}
        /\ p # Job => Return(p).at = "idle"
    BY ReturnIsHolding
  <1>3. CASE MarkNone(p)
    <2>1. /\ act[p].at = "find" /\ act' = [act EXCEPT ![p] = Return(p)]
          /\ UNCHANGED <<clock, tables, job, histories>>
      BY <1>3 DEF MarkNone
    <2>2. /\ templates' \in [Templates -> Row] /\ touched' \in SUBSET Templates
          /\ reminders' = reminders
          /\ UNCHANGED <<clock, nextReminder, job, paid>>
      BY <2>1 DEF IInv, TypeOK, tables, histories
    <2> QED BY <1>2, <2>1, <2>2, SameReminders, ActorKeeps DEF ReminderOK
  <1>4. CASE \E i \in ReminderId : MarkFind(p, i)
    <2>1. PICK i \in ReminderId : MarkFind(p, i)
      BY <1>4
    <2> DEFINE h == Reminding("mark", t, i, 0, NoEntity, FALSE)
    <2>2. h \in Holding /\ h.at = "mark" /\ h.reminder = i
      BY <1>1, <2>1, Nothing, TemplateConstants DEF Reminding, Holding, ReminderId
    <2>3. /\ act[p].at = "find" /\ act' = [act EXCEPT ![p] = h]
          /\ UNCHANGED <<clock, tables, job, histories>>
          /\ reminders[i].status = "scheduled"
      BY <2>1 DEF MarkFind, ScheduledFor
    <2> HIDE DEF h
    <2>4. ReminderOK(h)
      BY <2>2, <2>3, TemplateConstants DEF ReminderOK, IInv, TypeOK, ReminderId
    <2>5. /\ templates' \in [Templates -> Row] /\ touched' \in SUBSET Templates
          /\ reminders' = reminders
          /\ UNCHANGED <<clock, nextReminder, job, paid>>
      BY <2>3 DEF IInv, TypeOK, tables, histories
    <2> QED BY <2>2, <2>3, <2>4, <2>5, SameReminders, ActorKeeps
  <1>5. CASE ReminderSave(p)
    <2> DEFINE i == act[p].reminder
               status == IF act[p].at = "mark" THEN "sent" ELSE "dismissed"
               saved == [reminders[i] EXCEPT !.status = status]
               h == IF act[p].at = "mark" THEN Return(p)
                    ELSE Step("save", t, act[p].entity, TRUE, FALSE)
    <2>1. i \in ReminderId /\ i < nextReminder
      BY <1>5, TemplateConstants DEF ReminderSave, IInv, TypeOK, ReminderOK, ReminderId
    <2>2. reminders[i] \in Reminder
      BY <2>1 DEF IInv, TypeOK
    <2>3. saved \in Reminder /\ saved.status \in {"sent", "dismissed"}
      BY <2>2 DEF Reminder
    <2>4. reminders' = [reminders EXCEPT ![i] = saved]
      BY <1>5 DEF ReminderSave
    <2>5. /\ Step("save", t, act[p].entity, TRUE, FALSE) \in Holding
          /\ Step("save", t, act[p].entity, TRUE, FALSE).at = "save"
      BY <1>1, TemplateConstants DEF Step, Holding
    <2>6. /\ act[p].at # "idle" /\ act' = [act EXCEPT ![p] = h]
          /\ touched' = Touch(p, t)
          /\ UNCHANGED <<clock, templates, nextReminder, job, paid>>
      BY <1>5 DEF ReminderSave
    <2>7. /\ h \in Holding /\ h.at \in {"save", "idle", "loop"}
          /\ p # Job => h.at # "loop"
      BY <1>2, <2>5
    <2> HIDE DEF i, saved, h
    <2>8. NoNewReminder(reminders')
      <3>1. reminders' \in [ReminderId -> Reminder]
        BY <2>1, <2>3, <2>4 DEF IInv, TypeOK
      <3>2. \A j \in ReminderId : reminders'[j] = IF j = i THEN saved ELSE reminders[j]
        BY <2>1, <2>4 DEF IInv, TypeOK
      <3>3. \A j \in ReminderId : j >= nextReminder => j # i
        BY <2>1 DEF IInv, TypeOK, ReminderId
      <3> QED BY <2>3, <3>1, <3>2, <3>3 DEF IInv, NoNewReminder
    <2>9. /\ templates' \in [Templates -> Row] /\ touched' \in SUBSET Templates
          /\ UNCHANGED <<clock, nextReminder, job, paid>>
      BY <1>1, <2>6, TouchIsSet DEF IInv, TypeOK
    <2> HIDE DEF t
    <2>10. /\ ReminderOK(h)
           /\ p # Job => h.at \notin {"loop", "check", "remind"}
           /\ p = Job => h.at \notin {"pay", "remind"}
           /\ p = Job => act[Job].at # "idle"
      BY <2>6, <2>7 DEF ReminderOK
    <2> QED BY <2>6, <2>7, <2>8, <2>9, <2>10, ActorKeeps
  <1> QED BY <1>3, <1>4, <1>5

LEMMA DismissKeeps ==
  ASSUME IInv, NEW r \in Requests, NEW i \in ReminderId, DismissRead(r, i)
  PROVE  IInv'
  <1> DEFINE t == reminders[i].template
             h == Reminding("dismiss", t, i, 0, templates[t].entity, TRUE)
  <1>1. t \in Templates /\ templates[t].entity \in Entity
    BY RowParts DEF IInv, TypeOK, Reminder
  <1>2. h \in Holding /\ h.at = "dismiss" /\ h.reminder = i
    BY <1>1, TemplateConstants DEF Reminding, Holding, ReminderId
  <1>3. /\ act' = [act EXCEPT ![r] = h] /\ Exists(i)
        /\ UNCHANGED <<clock, tables, job, histories>>
    BY DEF DismissRead
  <1> HIDE DEF h
  <1>4. ReminderOK(h)
    BY <1>2, <1>3, TemplateConstants
    DEF ReminderOK, IInv, TypeOK, ReminderId, Exists
  <1> QED BY <1>2, <1>3, <1>4, RequestKeeps

-----------------------------------------------------------------------------
(* The job. *)

LEMMA JobHolds ==
  ASSUME IInv, NEW h \in Holding, act' = [act EXCEPT ![Job] = h],
         h.at \notin {"mark", "dismiss"}
  PROVE  /\ act' \in [Actors -> Holding] /\ act'[Job] = h
         /\ \A r \in Requests : act'[r].at \notin {"loop", "check", "remind"}
         /\ \A p \in Actors : ReminderOK(act'[p])
  <1>1. act' \in [Actors -> Holding] /\ act'[Job] = h
    BY DEF IInv, TypeOK, Actors
  <1>2. \A p \in Actors : act'[p] = IF p = Job THEN h ELSE act[p]
    BY DEF IInv, TypeOK
  <1>3. \A r \in Requests : act'[r] = act[r]
    BY <1>2, TemplateConstants DEF Actors
  <1> QED BY <1>1, <1>2, <1>3 DEF IInv, ReminderOK

LEMMA RunParts ==
  ASSUME IInv
  PROVE  /\ job \in Run /\ job.day \in 0 .. LastDay
         /\ job.todo \in SUBSET Templates /\ job.all \in SUBSET Templates
         /\ \A t \in Templates : job.listed[t] \in Entity /\ job.listed[t].due \in Day
         /\ \A t \in Templates :
               /\ [job EXCEPT !.todo = job.todo \ {t}] \in Run
               /\ [job EXCEPT !.todo = job.todo \ {t}].todo = job.todo \ {t}
               /\ [job EXCEPT !.todo = job.todo \ {t}].all = job.all
               /\ [job EXCEPT !.todo = job.todo \ {t}].listed = job.listed
               /\ [job EXCEPT !.todo = job.todo \ {t}].day = job.day
         /\ [job EXCEPT !.state = "done"] \in Run
         /\ [job EXCEPT !.state = "done"].day = job.day
  <1>1. job \in Run
    BY DEF IInv, TypeOK
  <1>2. \A t \in Templates : job.listed[t] \in Entity
    BY <1>1 DEF Run
  <1>3. \A t \in Templates : job.listed[t].due \in Day
    BY <1>2 DEF Entity
  <1> QED BY <1>1, <1>2, <1>3 DEF Run

LEMMA PayKeeps ==
  ASSUME IInv, NEW p \in Actors, Pay(p)
  PROVE  IInv'
  <1> DEFINE h == [act[p] EXCEPT !.at = "save"]
  <1>1. h \in Holding /\ h.at = "save"
    BY HeldParts DEF Holding
  <1>2. /\ act[p].at = "pay" /\ act' = [act EXCEPT ![p] = h]
        /\ UNCHANGED <<clock, tables, job, touched>>
    BY DEF Pay, IInv, TypeOK
  <1> HIDE DEF h
  <1>3. CASE p # Job
    <2>1. UNCHANGED <<clock, tables, job, histories>>
      BY <1>2, <1>3 DEF Pay, histories
    <2> QED BY <1>1, <1>2, <1>3, <2>1, RequestKeeps DEF Actors, ReminderOK
  <1>4. CASE p = Job
    <2> DEFINE t == act[Job].template
               d == job.listed[t].due
    <2>1. /\ t \in job.all \ job.todo /\ t \in Templates
          /\ d = job.day /\ d \in Day /\ paid[t][d] = 0
      BY <1>2, <1>4, HeldParts, RunParts DEF IInv, JobOK
    <2>2. paid' = [paid EXCEPT ![t] = [paid[t] EXCEPT ![d] = paid[t][d] + 1]]
      BY <1>4 DEF Pay
    <2> HIDE DEF t, d
    <2>3. /\ paid' \in [Templates -> [Day -> Nat]]
          /\ paid'[t][d] = 1
          /\ \A u \in Templates, e \in Day :
                u # t \/ e # d => paid'[u][e] = paid[u][e]
      BY <2>1, <2>2 DEF IInv, TypeOK
    <2>4. /\ act' \in [Actors -> Holding] /\ act'[Job] = h
          /\ \A r \in Requests : act'[r].at \notin {"loop", "check", "remind"}
          /\ \A q \in Actors : ReminderOK(act'[q])
      BY <1>1, <1>2, <1>4, JobHolds
    <2>5. TypeOK'
      BY <1>2, <2>3, <2>4 DEF IInv, TypeOK, clock, tables
    <2>6. JobOK'
      <3>1. /\ job' = job /\ job.todo \subseteq job.all /\ job.day \in Day
            /\ \A u \in job.all : job.listed[u].due = job.day
            /\ \A u \in job.todo : paid[u][job.day] = 0
        BY <1>2, <1>4, <2>1 DEF IInv, JobOK
      <3>2. \A u \in job.todo : paid'[u][job.day] = 0
        BY <2>1, <2>3, <3>1, RunParts
      <3> QED BY <1>1, <2>4, <3>1, <3>2 DEF JobOK
    <2>7. JobPaysOnce'
      BY <2>3 DEF IInv, JobPaysOnce
    <2>8. \A u \in Templates, e \in Day : paid'[u][e] # 0 => e <= job'.day
      BY <1>2, <2>1, <2>3, RunParts DEF IInv
    <2>9. /\ \A i \in ReminderId : i >= nextReminder' => reminders'[i].status = "none"
          /\ OneScheduledReminder' /\ \A q \in Actors : ReminderOK(act[q])'
      BY <1>2, <2>4 DEF IInv, tables, OneScheduledReminder, ReminderOK
    <2> QED BY <2>4, <2>5, <2>6, <2>7, <2>8, <2>9 DEF IInv
  <1> QED BY <1>3, <1>4

LEMMA JobStartKeeps ==
  ASSUME IInv, JobStart
  PROVE  IInv'
  <1>1. /\ job.day < today /\ act' = [act EXCEPT ![Job] = Looping]
        /\ touched' = {} /\ UNCHANGED <<clock, tables, paid>>
    BY DEF JobStart
  <1>2. today \in 1 .. LastDay /\ today \in Day /\ job.day \in Nat
    BY TemplateConstants, RunParts DEF IInv, TypeOK, Day
  <1> DEFINE listed == [t \in Templates |-> IF t \in DueToday THEN templates[t].entity
                                           ELSE NoEntity]
  <1>3. listed \in [Templates -> Entity] /\ DueToday \in SUBSET Templates
    BY RowParts, Nothing DEF DueToday
  <1>4. /\ job'.day = today /\ job'.all = DueToday /\ job'.todo = DueToday
        /\ job'.listed = listed
    BY DEF JobStart
  <1>5. job' = [day |-> today, state |-> "running", all |-> DueToday,
                todo |-> DueToday, listed |-> listed]
    BY DEF JobStart
  <1>6. \A t \in DueToday : listed[t].due = today
    BY DEF DueToday
  <1> HIDE DEF listed
  <1>7. job' \in Run
    BY <1>2, <1>3, <1>5 DEF Run
  <1>8. /\ act' \in [Actors -> Holding] /\ act'[Job] = Looping
        /\ \A r \in Requests : act'[r].at \notin {"loop", "check", "remind"}
        /\ \A p \in Actors : ReminderOK(act'[p])
    BY <1>1, RestingIsHolding, JobHolds
  <1>9. TypeOK'
    BY <1>1, <1>7, <1>8 DEF IInv, TypeOK, clock, tables
  <1>10. \A t \in Templates, d \in Day : paid'[t][d] # 0 => d <= job.day /\ d <= job'.day
    BY <1>1, <1>2, <1>4 DEF IInv, Day
  <1>11. JobOK'
    <2>1. \A t \in job'.todo : paid'[t][job'.day] = 0
      BY <1>1, <1>2, <1>3, <1>4, <1>10
    <2> QED BY <1>4, <1>6, <1>8, <2>1, RestingIsHolding DEF JobOK
  <1>12. /\ \A i \in ReminderId : i >= nextReminder' => reminders'[i].status = "none"
         /\ OneScheduledReminder' /\ JobPaysOnce'
         /\ \A p \in Actors : ReminderOK(act[p])'
    BY <1>1, <1>8 DEF IInv, tables, OneScheduledReminder, JobPaysOnce, ReminderOK
  <1> QED BY <1>8, <1>9, <1>10, <1>11, <1>12 DEF IInv

LEMMA JobExecuteKeeps ==
  ASSUME IInv, NEW t \in Templates, JobExecute(t)
  PROVE  IInv'
  <1> DEFINE e == [templates[t].entity EXCEPT !.amount = "payable"]
             h == Step("pay", t, e, TRUE, TRUE)
             run == [job EXCEPT !.todo = job.todo \ {t}]
  <1>1. e \in Entity
    BY RowParts DEF Entity
  <1>2. h \in Holding /\ h.at = "pay" /\ h.template = t
    BY <1>1, TemplateConstants DEF Step, Holding
  <1>3. /\ act[Job].at = "loop" /\ t \in job.todo
        /\ act' = [act EXCEPT ![Job] = h] /\ job' = run
        /\ UNCHANGED <<clock, tables, histories>>
    BY DEF JobExecute
  <1>4. /\ run \in Run /\ run.todo = job.todo \ {t} /\ run.all = job.all
        /\ run.listed = job.listed /\ run.day = job.day
    BY RunParts
  <1> HIDE DEF h, run
  <1>5. /\ act' \in [Actors -> Holding] /\ act'[Job] = h
        /\ \A r \in Requests : act'[r].at \notin {"loop", "check", "remind"}
        /\ \A p \in Actors : ReminderOK(act'[p])
    BY <1>2, <1>3, JobHolds
  <1>6. TypeOK'
    BY <1>3, <1>4, <1>5 DEF IInv, TypeOK, clock, tables, histories
  <1>7. JobOK'
    <2>1. /\ job.todo \subseteq job.all
          /\ \A u \in job.all : job.listed[u].due = job.day
          /\ \A u \in job.todo : paid[u][job.day] = 0
      BY <1>3 DEF IInv, JobOK
    <2>2. paid' = paid
      BY <1>3 DEF histories
    <2> QED BY <1>2, <1>3, <1>4, <1>5, <2>1, <2>2 DEF JobOK
  <1>8. /\ \A u \in Templates, d \in Day : paid'[u][d] # 0 => d <= job'.day
        /\ JobPaysOnce'
    BY <1>3, <1>4 DEF IInv, histories, JobPaysOnce
  <1>9. /\ \A i \in ReminderId : i >= nextReminder' => reminders'[i].status = "none"
        /\ OneScheduledReminder' /\ \A p \in Actors : ReminderOK(act[p])'
    BY <1>3, <1>5 DEF IInv, tables, OneScheduledReminder, ReminderOK
  <1> QED BY <1>5, <1>6, <1>7, <1>8, <1>9 DEF IInv

LEMMA LoopStepsKeep ==
  ASSUME IInv, NEW t \in Templates,
         JobSkip(t) \/ JobRemind(t) \/ JobRefused(t) \/ JobDone
  PROVE  IInv'
  <1> DEFINE run == [job EXCEPT !.todo = job.todo \ {t}]
  <1>1. /\ run \in Run /\ run.todo \subseteq job.todo /\ run.all = job.all
        /\ run.listed = job.listed /\ run.day = job.day
    BY RunParts
  <1> HIDE DEF run
  <1>2. CASE JobSkip(t)
    <2>1. /\ act[Job].at = "loop" /\ act' = act /\ job' = run
          /\ UNCHANGED <<clock, tables, histories>>
      BY <1>2 DEF JobSkip, run
    <2>2. /\ today' \in 1 .. LastDay /\ evening' \in BOOLEAN
          /\ templates' \in [Templates -> Row]
          /\ reminders' = reminders /\ nextReminder' = nextReminder
          /\ act' \in [Actors -> Holding]
          /\ paid' = paid /\ touched' \in SUBSET Templates
          /\ \A r \in Requests : act'[r].at \notin {"loop", "check", "remind"}
          /\ \A p \in Actors : ReminderOK(act'[p])
      BY <2>1 DEF IInv, TypeOK, clock, tables, histories
    <2> QED BY <1>1, <2>1, <2>2, SameReminders, QuietKeeps
  <1>3. CASE JobRemind(t)
    <2> DEFINE day == templates[t].entity.due - 1
               check == Reminding("check", t, 0, day, NoEntity, FALSE)
               h == IF templates[t].entity.active THEN check ELSE Looping
    <2>1. day \in 0 .. LastDay + Interval
      BY RowParts, TemplateConstants DEF Entity, Day
    <2> HIDE DEF day
    <2>2. check \in Holding /\ check.at = "check"
      BY <2>1, Nothing, TemplateConstants DEF Reminding, Holding
    <2> HIDE DEF check
    <2>3. h \in Holding /\ h.at \in {"check", "loop"}
      BY <2>2, RestingIsHolding
    <2>4. /\ act[Job].at = "loop" /\ act' = [act EXCEPT ![Job] = h] /\ job' = run
          /\ UNCHANGED <<clock, tables, histories>>
      BY <1>3 DEF JobRemind, run, check, day
    <2> HIDE DEF h
    <2> QED BY <1>1, <2>3, <2>4, LoopKeeps
  <1>4. CASE JobRefused(t)
    <2> DEFINE ended == Ended(job.day, "aborted")
    <2>1. ended \in Run /\ ended.day = job.day
      BY RunParts, EndedIsRun
    <2>2. /\ act' = [act EXCEPT ![Job] = Idle] /\ job' = ended
          /\ UNCHANGED <<clock, tables, histories>>
      BY <1>4 DEF JobRefused
    <2> HIDE DEF ended
    <2> QED BY <2>1, <2>2, RestingIsHolding, LoopKeeps
  <1>5. CASE JobDone
    <2>1. /\ act' = [act EXCEPT ![Job] = Idle] /\ job' = [job EXCEPT !.state = "done"]
          /\ UNCHANGED <<clock, tables, histories>>
      BY <1>5 DEF JobDone
    <2>2. job' \in Run /\ job'.day = job.day
      BY <2>1, RunParts
    <2> QED BY <2>1, <2>2, RestingIsHolding, LoopKeeps
  <1> QED BY <1>2, <1>3, <1>4, <1>5

LEMMA CheckKeeps ==
  ASSUME IInv, RemindCheck
  PROVE  IInv'
  <1> DEFINE t == act[Job].template
             day == act[Job].day
             h == Reminding("remind", t, 0, day, NoEntity, FALSE)
  <1>1. t \in Templates /\ day \in 0 .. LastDay + Interval /\ Job \in Actors
    BY HeldParts DEF Actors
  <1>2. h \in Holding /\ h.at = "remind" /\ h.template = t /\ h.day = day
    BY <1>1, Nothing, TemplateConstants DEF Reminding, Holding
  <1>3. /\ act[Job].at = "check" /\ UNCHANGED <<clock, tables, job, histories>>
        /\ act' = [act EXCEPT ![Job] = IF Existing(t, day) = {} THEN h ELSE Looping]
    BY DEF RemindCheck
  <1> HIDE DEF t, day, h
  <1>4. CASE Existing(t, day) # {}
    <2>1. act' = [act EXCEPT ![Job] = Looping]
      BY <1>3, <1>4
    <2>2. job' \in Run /\ job' = job /\ UNCHANGED <<clock, tables, histories>>
      BY <1>3, RunParts
    <2> QED BY <1>3, <2>1, <2>2, RestingIsHolding, LoopKeeps
  <1>5. CASE Existing(t, day) = {}
    <2>1. act' = [act EXCEPT ![Job] = h]
      BY <1>3, <1>5
    <2>2. /\ act' \in [Actors -> Holding] /\ act'[Job] = h
          /\ \A r \in Requests : act'[r].at \notin {"loop", "check", "remind"}
          /\ \A p \in Actors : ReminderOK(act'[p])
      BY <1>2, <2>1, JobHolds
    <2>3. TypeOK'
      BY <1>3, <2>2 DEF IInv, TypeOK, clock, tables, histories
    <2>4. JobOK'
      <3>1. /\ job.todo \subseteq job.all
            /\ \A u \in job.all : job.listed[u].due = job.day
            /\ \A u \in job.todo : paid[u][job.day] = 0
        BY <1>3 DEF IInv, JobOK
      <3>2. job' = job /\ paid' = paid /\ reminders' = reminders
        BY <1>3 DEF tables, histories
      <3>3. \A i \in ReminderId :
               ~ /\ reminders[i].status = "scheduled" /\ reminders[i].template = t
                 /\ reminders[i].day = day
        BY <1>5 DEF Existing, ScheduledFor
      <3> QED BY <1>2, <2>2, <3>1, <3>2, <3>3 DEF JobOK, ScheduledFor
    <2>5. /\ \A u \in Templates, d \in Day : paid'[u][d] # 0 => d <= job'.day
          /\ \A i \in ReminderId : i >= nextReminder' => reminders'[i].status = "none"
          /\ JobPaysOnce' /\ OneScheduledReminder'
          /\ \A p \in Actors : ReminderOK(act[p])'
      BY <1>3, <2>2 DEF IInv, tables, histories, JobPaysOnce, OneScheduledReminder,
                        ReminderOK
    <2> QED BY <2>2, <2>3, <2>4, <2>5 DEF IInv
  <1> QED BY <1>4, <1>5

LEMMA InsertKeeps ==
  ASSUME IInv, RemindInsert
  PROVE  IInv'
  <1> DEFINE t == act[Job].template
             day == act[Job].day
             k == nextReminder
             new == [status |-> "scheduled", template |-> t, day |-> day]
  <1>1. /\ act[Job].at = "remind" /\ k \in ReminderId /\ k \in Nat
        /\ reminders' = [reminders EXCEPT ![k] = new] /\ nextReminder' = k + 1
        /\ act' = [act EXCEPT ![Job] = Looping]
        /\ UNCHANGED <<clock, templates, job, histories>>
    BY DEF RemindInsert, ReminderId
  <1>2. t \in Templates /\ day \in 0 .. LastDay + Interval
    BY HeldParts DEF Actors
  <1>3. new \in Reminder /\ new.status = "scheduled" /\ new.template = t /\ new.day = day
    BY <1>2 DEF Reminder
  <1>4. \A i \in ReminderId :
           ~ /\ reminders[i].status = "scheduled" /\ reminders[i].template = t
             /\ reminders[i].day = day
    BY <1>1 DEF IInv, JobOK, ScheduledFor
  <1> HIDE DEF t, day, new
  <1>5. /\ reminders' \in [ReminderId -> Reminder]
        /\ \A i \in ReminderId : reminders'[i] = IF i = k THEN new ELSE reminders[i]
    BY <1>1, <1>3 DEF IInv, TypeOK
  <1>6. /\ act' \in [Actors -> Holding] /\ act'[Job] = Looping
        /\ \A r \in Requests : act'[r].at \notin {"loop", "check", "remind"}
        /\ \A p \in Actors : ReminderOK(act'[p])
    BY <1>1, RestingIsHolding, JobHolds
  <1>7. TypeOK'
    <2>1. k + 1 \in 1 .. MaxReminders + 1
      BY <1>1, TemplateConstants DEF ReminderId
    <2> QED BY <1>1, <1>5, <1>6, <2>1 DEF IInv, TypeOK, clock, histories
  <1>8. OneScheduledReminder'
    BY <1>3, <1>4, <1>5 DEF IInv, OneScheduledReminder
  <1>9. \A i \in ReminderId : i >= nextReminder' => reminders'[i].status = "none"
    BY <1>1, <1>5 DEF IInv, ReminderId
  <1>10. \A p \in Actors : ReminderOK(act[p])'
    BY <1>1, <1>6 DEF ReminderOK
  <1>11. JobOK'
    BY <1>1, <1>6, RestingIsHolding DEF IInv, JobOK, histories
  <1>12. /\ \A u \in Templates, d \in Day : paid'[u][d] # 0 => d <= job'.day
         /\ JobPaysOnce'
    BY <1>1 DEF IInv, histories, JobPaysOnce
  <1> QED BY <1>6, <1>7, <1>8, <1>9, <1>10, <1>11, <1>12 DEF IInv

LEMMA FailuresKeep ==
  ASSUME IInv, NEW p \in Actors, Fails(p) \/ Stop(p)
  PROVE  IInv'
  <1>1. /\ act' = [act EXCEPT ![p] = Idle]
        /\ UNCHANGED <<clock, tables, histories>>
    BY DEF Fails, Stop
  <1>2. CASE p = Job
    <2>1. \E state \in {"aborted", "stopped"} : job' = Ended(job.day, state)
      BY <1>2, RunParts DEF Fails, Stop, JobAfterException
    <2>2. job' \in Run /\ job'.day = job.day
      BY <2>1, RunParts, EndedIsRun
    <2> QED BY <1>1, <1>2, <2>2, RestingIsHolding, LoopKeeps
  <1>3. CASE p # Job
    <2>1. p \in Requests /\ UNCHANGED <<clock, tables, job, histories>>
      BY <1>1, <1>3 DEF Fails, Stop, JobAfterException, Actors
    <2> QED BY <1>1, <2>1, RestingIsHolding, RequestKeeps DEF ReminderOK
  <1> QED BY <1>2, <1>3

LEMMA TimeKeeps ==
  ASSUME IInv, EveningComes \/ NextDay
  PROVE  IInv'
  <1>1. today' \in 1 .. LastDay
    BY TemplateConstants DEF EveningComes, NextDay, IInv, TypeOK
  <1>2. evening' \in BOOLEAN
    BY DEF EveningComes, NextDay
  <1>3. UNCHANGED <<tables, act, job, histories>>
    BY DEF EveningComes, NextDay
  <1>4. /\ templates' \in [Templates -> Row] /\ reminders' = reminders
        /\ nextReminder' = nextReminder /\ act' \in [Actors -> Holding]
        /\ paid' = paid /\ touched' \in SUBSET Templates
        /\ act' = act /\ job' = job /\ job' \in Run
        /\ \A r \in Requests : act'[r].at \notin {"loop", "check", "remind"}
        /\ \A p \in Actors : ReminderOK(act'[p])
    BY <1>3 DEF IInv, TypeOK, tables, histories
  <1> QED BY <1>1, <1>2, <1>4, SameReminders, QuietKeeps

-----------------------------------------------------------------------------
(* Theorems *)

LEMMA NextIInv == IInv /\ [Next]_vars => IInv'
  <1> SUFFICES ASSUME IInv, [Next]_vars PROVE IInv'
    OBVIOUS
  <1>1. CASE \E r \in Requests, t \in Templates : Update(r, t)
    BY <1>1, RequestsBegin
  <1>2. CASE \E r \in Requests, t \in Templates : ToggleActive(r, t)
    BY <1>2, RequestsBegin
  <1>3. CASE \E r \in Requests, t \in Templates : ExecuteRead(r, t)
    BY <1>3, RequestsBegin
  <1>4. CASE \E t \in Templates, kind \in {"reminder", "automatic"},
               amount \in {"unknown", "refused", "payable"} : Create(t, kind, amount)
    BY <1>4, TablesKeep
  <1>5. CASE \E t \in Templates : Remove(t)
    BY <1>5, TablesKeep
  <1>6. CASE \E p \in Actors : Pay(p)
    BY <1>6, PayKeeps
  <1>7. CASE \/ \E p \in Actors : SaveLoad(p)
             \/ \E p \in Actors : SaveWrite(p)
             \/ \E p \in Actors : SaveInsert(p)
    BY <1>7, SavesKeep
  <1>8. CASE \/ \E p \in Actors : MarkNone(p)
             \/ \E p \in Actors, i \in ReminderId : MarkFind(p, i)
             \/ \E p \in Actors : ReminderSave(p)
    BY <1>8, MarksKeep
  <1>9. CASE \E r \in Requests, i \in ReminderId : DismissRead(r, i)
    BY <1>9, DismissKeeps
  <1>10. CASE JobStart \/ RemindCheck \/ RemindInsert
    BY <1>10, JobStartKeeps, CheckKeeps, InsertKeeps
  <1>11. CASE \E t \in Templates : JobSkip(t)
    BY <1>11, LoopStepsKeep
  <1>12. CASE \E t \in Templates : JobRemind(t)
    BY <1>12, LoopStepsKeep
  <1>13. CASE \E t \in Templates : JobRefused(t)
    BY <1>13, LoopStepsKeep
  <1>14. CASE JobDone
    BY <1>14, LoopStepsKeep, Nothing
  <1>15. CASE \E t \in Templates : JobExecute(t)
    BY <1>15, JobExecuteKeeps
  <1>16. CASE (\E p \in Actors : Fails(p)) \/ (\E p \in Actors : Stop(p))
    BY <1>16, FailuresKeep
  <1>17. CASE EveningComes \/ NextDay
    BY <1>17, TimeKeeps
  <1>18. CASE UNCHANGED vars
    <2>1. /\ templates' \in [Templates -> Row] /\ reminders' = reminders
          /\ nextReminder' = nextReminder /\ act' \in [Actors -> Holding]
          /\ paid' = paid /\ touched' \in SUBSET Templates
          /\ act' = act /\ job' = job /\ job' \in Run
          /\ today' \in 1 .. LastDay /\ evening' \in BOOLEAN
          /\ \A r \in Requests : act'[r].at \notin {"loop", "check", "remind"}
          /\ \A p \in Actors : ReminderOK(act'[p])
      BY <1>18 DEF vars, IInv, TypeOK, clock, tables, histories
    <2> QED BY <2>1, SameReminders, QuietKeeps
  <1>19. CASE Next
    BY <1>1, <1>2, <1>3, <1>4, <1>5, <1>6, <1>7, <1>8, <1>9, <1>10, <1>11, <1>12,
       <1>13, <1>14, <1>15, <1>16, <1>17, <1>19, Zenon DEF Next
  <1> QED BY <1>18, <1>19

\* The inductive invariant: what HTTP requests and the job hold agrees with the
\* tables (TransferTemplatesService, RemindersService, RemindersCronJob).
THEOREM TemplatesInvariant == Spec => []IInv
  <1> QED BY InitIInv, NextIInv, PTL DEF Spec

\* reminders.service.ts:44: a due date never has two scheduled reminders, for
\* any number of templates and requests.
THEOREM TemplatesOneScheduledReminder == Spec => []OneScheduledReminder
  <1>1. IInv => OneScheduledReminder
    BY DEF IInv
  <1> QED BY <1>1, TemplatesInvariant, PTL

\* reminders.cron.ts:22: the job never pays a due date twice, wherever it stops
\* and whatever requests do to the template meanwhile.
THEOREM TemplatesJobPaysOnce == Spec => []JobPaysOnce
  <1>1. IInv => JobPaysOnce
    BY DEF IInv
  <1> QED BY <1>1, TemplatesInvariant, PTL

-----------------------------------------------------------------------------
(***************************************************************************)
(* What the job deals with: JobKeepsUp is inductive beside IInv.           *)
(***************************************************************************)
LEMMA DealtWithStays ==
  ASSUME NEW t, DealtWith(t),
         job'.day = job.day, job'.listed[t] = job.listed[t],
         paid'[t] = paid[t], templates'[t] = templates[t],
         \A i \in ScheduledFor(t) : reminders'[i] = reminders[i]
  PROVE  DealtWith(t)'
  <1>1. \A i \in ScheduledFor(t) : i \in ScheduledFor(t)' /\ reminders'[i].day = reminders[i].day
    BY DEF ScheduledFor
  <1> QED BY <1>1 DEF DealtWith

\* Reminders keep their template, and so do those that somebody is about to mark.
LEMMA MarksStay ==
  ASSUME IInv, HandsOK, NEW p \in Actors, NEW h,
         act' = [act EXCEPT ![p] = h],
         \A i \in 1 .. nextReminder - 1 : reminders'[i].template = reminders[i].template,
         h.at \in {"mark", "dismiss"} => reminders'[h.reminder].template = h.template
  PROVE  \A q \in Actors : act'[q].at \in {"mark", "dismiss"} =>
            reminders'[act'[q].reminder].template = act'[q].template
  <1>1. TAKE q \in Actors
  <1>2. HAVE act'[q].at \in {"mark", "dismiss"}
  <1>3. act'[q] = IF q = p THEN h ELSE act[q]
    BY DEF IInv, TypeOK
  <1>4. CASE q = p
    BY <1>2, <1>3, <1>4
  <1>5. CASE q # p
    <2>1. act[q].reminder \in 1 .. nextReminder - 1
      BY <1>2, <1>3, <1>5 DEF IInv, ReminderOK
    <2>2. reminders[act[q].reminder].template = act[q].template
      BY <1>2, <1>3, <1>5 DEF HandsOK
    <2> QED BY <1>3, <1>5, <2>1, <2>2
  <1> QED BY <1>4, <1>5

\* A step of somebody else: what it changes of a listed template is known to be touched.
LEMMA OthersKeepUp ==
  ASSUME IInv, JobKeepsUp,
         today' \in Nat, today <= today',
         job' = job, act'[Job] = act[Job], paid' = paid,
         touched \subseteq touched',
         \A t \in job.all : templates'[t].life # "none",
         \A t \in job.all \ touched' :
            /\ templates'[t] = templates[t]
            /\ \A i \in ScheduledFor(t) : reminders'[i] = reminders[i],
         \A p \in Actors : act'[p].at \in {"mark", "dismiss"} =>
            reminders'[act'[p].reminder].template = act'[p].template
  PROVE  JobKeepsUp'
  <1>1. RunOK'
    BY DEF JobKeepsUp, RunOK, IInv, TypeOK, Run
  <1>2. HandsOK'
    BY DEF JobKeepsUp, HandsOK
  <1>3. ASSUME NEW t \in job.all \ touched'
        PROVE  Progress(t)'
    <2>1. Progress(t)
      BY DEF JobKeepsUp
    <2>2. DealtWith(t) => DealtWith(t)'
      BY DealtWithStays
    <2>3. (AsListed(t) => AsListed(t)') /\ (InHand(t) => InHand(t)')
      BY DEF AsListed, InHand, Live
    <2> QED BY <2>1, <2>2, <2>3 DEF Progress
  <1> QED BY <1>1, <1>2, <1>3 DEF JobKeepsUp

\* A step of the job, that deals with template c or with none.
LEMMA JobGoesOn ==
  ASSUME IInv, JobKeepsUp, NEW c, NEW h,
         act' = [act EXCEPT ![Job] = h],
         today' = today, touched' = touched,
         job'.day = job.day, job'.all = job.all, job'.listed = job.listed,
         job'.todo \in {job.todo, job.todo \ {c}},
         job'.state = "done" => h.at = "idle",
         h.at = "idle" => job'.todo = {},
         act[Job].at \in Dealing => act[Job].template = c,
         h.at \in Dealing => h.template = c,
         h.at \in Dealing \union Marking => h.template \in job.all \ job'.todo,
         h.at \in Paying \union Marking =>
            /\ job.listed[h.template].kind = "automatic"
            /\ job.listed[h.template].amount = "payable",
         h.at \in Paying => h.executes,
         h.at # "dismiss",
         h.at = "mark" => reminders'[h.reminder].template = h.template,
         \A i \in 1 .. nextReminder - 1 : reminders'[i].template = reminders[i].template,
         \A t \in job.all : templates'[t].life # "none",
         \A t \in job.all \ touched : t # c =>
            /\ templates'[t] = templates[t]
            /\ paid'[t] = paid[t]
            /\ \A i \in ScheduledFor(t) : reminders'[i] = reminders[i],
         c \in job.all \ touched => Progress(c)'
  PROVE  JobKeepsUp'
  <1>1. Job \in Actors /\ act'[Job] = h
    BY DEF IInv, TypeOK, Actors
  <1>2. RunOK'
    BY <1>1 DEF JobKeepsUp, RunOK
  <1>3. HandsOK'
    <2>1. \A q \in Actors : act'[q].at \in {"mark", "dismiss"} =>
             reminders'[act'[q].reminder].template = act'[q].template
      BY <1>1, MarksStay DEF JobKeepsUp
    <2> QED BY <1>1, <2>1 DEF HandsOK
  <1>4. ASSUME NEW t \in job.all \ touched, t # c
        PROVE  Progress(t)'
    <2>1. Progress(t) /\ ~ (act[Job].at \in Dealing /\ act[Job].template = t)
          /\ ~ (act'[Job].at \in Dealing /\ act'[Job].template = t)
      BY <1>1, <1>4 DEF JobKeepsUp
    <2>2. t \in job'.todo <=> t \in job.todo
      BY <1>4
    <2>3. CASE t \in job.todo
      BY <1>4, <2>1, <2>2, <2>3 DEF Progress, AsListed, Live
    <2>4. CASE t \notin job.todo
      <3>1. DealtWith(t)
        BY <2>1, <2>4 DEF Progress
      <3>2. DealtWith(t)'
        BY <1>4, <3>1, DealtWithStays
      <3> QED BY <2>1, <2>2, <2>4, <3>2 DEF Progress
    <2> QED BY <2>3, <2>4
  <1> QED BY <1>2, <1>3, <1>4 DEF JobKeepsUp

\* A request goes on: it writes nothing.
LEMMA RequestReadsKeepUp ==
  ASSUME IInv, JobKeepsUp, NEW r \in Requests, NEW h,
         act' = [act EXCEPT ![r] = h],
         h.at \in {"mark", "dismiss"} => reminders[h.reminder].template = h.template,
         UNCHANGED <<clock, tables, job, histories>>
  PROVE  JobKeepsUp'
  <1>1. r \in Actors /\ r # Job /\ act'[Job] = act[Job]
    BY TemplateConstants DEF IInv, TypeOK, Actors
  <1>2. /\ today' = today /\ templates' = templates /\ reminders' = reminders
        /\ job' = job /\ paid' = paid /\ touched' = touched
    BY DEF clock, tables, histories
  <1>3. \A p \in Actors : act'[p].at \in {"mark", "dismiss"} =>
           reminders'[act'[p].reminder].template = act'[p].template
    BY <1>1, <1>2, MarksStay DEF JobKeepsUp
  <1>4. today \in Nat /\ \A t \in job.all : templates'[t].life # "none"
    BY <1>2 DEF JobKeepsUp, RunOK, IInv, TypeOK
  <1> QED BY <1>1, <1>2, <1>3, <1>4, OthersKeepUp

LEMMA RestsHold ==
  /\ Idle.at = "idle" /\ Looping.at = "loop"
  /\ \A p \in Requests : Return(p) = Idle
  /\ Return(Job) = Looping
  BY RestingIsHolding, TemplateConstants DEF Return

\* Rows that were inserted are rows.
LEMMA NumbersAreIds ==
  ASSUME IInv
  PROVE  /\ 1 .. nextReminder - 1 \subseteq ReminderId
         /\ today \in Nat /\ job.all \subseteq Templates /\ Job \in Actors
         /\ \A p \in Actors : act[p].at \in {"mark", "dismiss"} => act[p].reminder \in ReminderId
  <1>1. 1 .. nextReminder - 1 \subseteq ReminderId
    BY TemplateConstants DEF IInv, TypeOK, ReminderId
  <1>2. today \in Nat /\ job.all \subseteq Templates /\ Job \in Actors
    BY DEF IInv, TypeOK, Run, Actors
  <1> QED BY <1>1, <1>2 DEF IInv, ReminderOK

LEMMA RequestsKeepUp ==
  ASSUME IInv, JobKeepsUp, NEW r \in Requests,
         \/ \E t \in Templates : Update(r, t) \/ ToggleActive(r, t) \/ ExecuteRead(r, t)
         \/ \E i \in ReminderId : DismissRead(r, i) \/ MarkFind(r, i)
         \/ Pay(r) \/ SaveLoad(r) \/ MarkNone(r) \/ Fails(r) \/ Stop(r)
  PROVE  JobKeepsUp'
  <1>1. r # Job /\ r \in Actors
    BY TemplateConstants DEF Actors
  <1>2. ASSUME NEW t \in Templates, Update(r, t)
        PROVE  JobKeepsUp'
    <2>1. PICK entity \in Edited(t), advances \in BOOLEAN :
             act' = [act EXCEPT ![r] = Step("save", t, entity, advances, FALSE)]
      BY <1>2 DEF Update
    <2>2. UNCHANGED <<clock, tables, job, histories>>
      BY <1>2 DEF Update
    <2>3. Step("save", t, entity, advances, FALSE).at = "save"
      BY DEF Step
    <2> QED BY <2>1, <2>2, <2>3, RequestReadsKeepUp
  <1>3. ASSUME NEW t \in Templates, ToggleActive(r, t) \/ ExecuteRead(r, t)
        PROVE  JobKeepsUp'
    <2> DEFINE e == [templates[t].entity EXCEPT !.active = ~ templates[t].entity.active]
               f == [templates[t].entity EXCEPT !.amount = "payable"]
               h == Step("save", t, e, FALSE, FALSE)
               k == Step("pay", t, f, TRUE, TRUE)
    <2>1. \/ act' = [act EXCEPT ![r] = h]
          \/ act' = [act EXCEPT ![r] = k]
      BY <1>3 DEF ToggleActive, ExecuteRead
    <2>2. UNCHANGED <<clock, tables, job, histories>>
      BY <1>3 DEF ToggleActive, ExecuteRead
    <2>3. h.at = "save" /\ k.at = "pay"
      BY DEF Step
    <2> HIDE DEF h, k
    <2> QED BY <2>1, <2>2, <2>3, RequestReadsKeepUp
  <1>4. ASSUME NEW i \in ReminderId, DismissRead(r, i) \/ MarkFind(r, i)
        PROVE  JobKeepsUp'
    <2> DEFINE t == reminders[i].template
               h == Reminding("dismiss", t, i, 0, templates[t].entity, TRUE)
               k == Reminding("mark", t, i, 0, NoEntity, FALSE)
    <2>1. \/ act' = [act EXCEPT ![r] = h]
          \/ act' = [act EXCEPT ![r] = k]
      BY <1>4 DEF DismissRead, MarkFind, ScheduledFor
    <2>2. UNCHANGED <<clock, tables, job, histories>>
      BY <1>4 DEF DismissRead, MarkFind
    <2>3. h.reminder = i /\ h.template = t /\ k.reminder = i /\ k.template = t
      BY DEF Reminding
    <2> HIDE DEF h, k
    <2> QED BY <2>1, <2>2, <2>3, RequestReadsKeepUp
  <1>5. CASE Pay(r) \/ SaveLoad(r)
    <2> DEFINE e == IF act[r].advances THEN [act[r].entity EXCEPT !.due = NextDue]
                    ELSE act[r].entity
               cs == IF Live(act[r].template) THEN Differing(act[r].template, e) ELSE {}
               at == IF Live(act[r].template) THEN "write" ELSE "insert"
               h == [act[r] EXCEPT !.at = at, !.entity = e, !.columns = cs]
               k == [act[r] EXCEPT !.at = "save"]
    <2>1. \/ act' = [act EXCEPT ![r] = h]
          \/ act' = [act EXCEPT ![r] = k]
      BY <1>5 DEF Pay, SaveLoad
    <2>3. h.at \in {"write", "insert"} /\ k.at = "save"
      <3>1. act[r] \in Holding /\ at \in {"write", "insert"}
        BY <1>1, HeldParts
      <3> HIDE DEF e, cs, at
      <3> QED BY <3>1 DEF Holding
    <2>2. UNCHANGED <<clock, tables, job, histories>>
      BY <1>1, <1>5 DEF Pay, SaveLoad, histories
    <2> HIDE DEF h, k
    <2> QED BY <2>1, <2>2, <2>3, RequestReadsKeepUp
  <1>6. CASE MarkNone(r) \/ Fails(r) \/ Stop(r)
    <2>1. act' = [act EXCEPT ![r] = Idle]
      BY <1>6, RestsHold DEF MarkNone, Fails, Stop
    <2>2. UNCHANGED <<clock, tables, job, histories>>
      BY <1>1, <1>6 DEF MarkNone, Fails, Stop, JobAfterException
    <2> QED BY <2>1, <2>2, RestsHold, RequestReadsKeepUp
  <1> QED BY <1>2, <1>3, <1>4, <1>5, <1>6

\* A request writes: the template it writes to is touched.
LEMMA RequestWritesKeepUp ==
  ASSUME IInv, JobKeepsUp, NEW r \in Requests,
         SaveWrite(r) \/ SaveInsert(r) \/ ReminderSave(r)
  PROVE  JobKeepsUp'
  <1> DEFINE t == act[r].template
  <1>1. r \in Actors /\ r # Job /\ t \in Templates
    BY TemplateConstants, HeldParts DEF Actors
  <1>2. PICK h : act' = [act EXCEPT ![r] = h] /\ h.at \notin {"mark", "dismiss"}
    <2>1. AfterSave(r).at \in {"find", "idle", "loop"} /\ Return(r).at = "idle"
      BY <1>1, AfterSaveIsHolding, RestsHold
    <2> DEFINE h == Step("save", t, act[r].entity, TRUE, FALSE)
    <2>2. h.at = "save"
      BY DEF Step
    <2>3. \/ act' = [act EXCEPT ![r] = AfterSave(r)]
          \/ act' = [act EXCEPT ![r] = Return(r)]
          \/ act' = [act EXCEPT ![r] = h]
      BY DEF SaveWrite, SaveInsert, ReminderSave
    <2> HIDE DEF h
    <2> QED BY <2>1, <2>2, <2>3
  <1>3. /\ touched' = touched \union ({t} \cap job.all)
        /\ today' = today /\ job' = job /\ paid' = paid
    BY <1>1 DEF SaveWrite, SaveInsert, ReminderSave, Touch, clock
  <1>4. act'[Job] = act[Job]
    BY <1>1, <1>2 DEF IInv, TypeOK, Actors
  <1>5. \A s \in Templates : /\ s # t => templates'[s] = templates[s]
                             /\ templates'[s].life \in {templates[s].life, "live"}
    <2> DEFINE e == Merged(t, act[r].entity, act[r].columns)
    <2>1. templates \in [Templates -> Row]
      BY DEF IInv, TypeOK
    <2>2. \/ templates' = templates
          \/ templates' = [templates EXCEPT ![t] = [life |-> "live", entity |-> e]]
          \/ templates' = [templates EXCEPT ![t] = [life |-> "live", entity |-> act[r].entity]]
      BY DEF SaveWrite, SaveInsert, ReminderSave
    <2> HIDE DEF e
    <2> QED BY <2>1, <2>2
  <1>6. \A i \in ReminderId : /\ reminders'[i].template = reminders[i].template
                              /\ reminders[i].template # t => reminders'[i] = reminders[i]
    <2>1. CASE SaveWrite(r) \/ SaveInsert(r)
      BY <2>1 DEF SaveWrite, SaveInsert
    <2>2. CASE ReminderSave(r)
      <3> DEFINE i == act[r].reminder
      <3>1. i \in ReminderId /\ reminders[i].template = t
        BY <1>1, <2>2, NumbersAreIds DEF ReminderSave, JobKeepsUp, HandsOK
      <3>2. \E s : reminders' = [reminders EXCEPT ![i].status = s]
        BY <2>2 DEF ReminderSave
      <3>3. reminders \in [ReminderId -> Reminder]
        BY DEF IInv, TypeOK
      <3> HIDE DEF i
      <3> QED BY <3>1, <3>2, <3>3 DEF Reminder
    <2> QED BY <2>1, <2>2
  <1>7. 1 .. nextReminder - 1 \subseteq ReminderId /\ today \in Nat /\ job.all \subseteq Templates
    BY NumbersAreIds
  <1>8. \A p \in Actors : act'[p].at \in {"mark", "dismiss"} =>
           reminders'[act'[p].reminder].template = act'[p].template
    BY <1>1, <1>2, <1>6, <1>7, MarksStay DEF JobKeepsUp
  <1>9. \A s \in job.all : templates'[s].life # "none"
    BY <1>5, <1>7 DEF JobKeepsUp, RunOK
  <1>10. ASSUME NEW s \in job.all \ touched'
         PROVE  /\ templates'[s] = templates[s]
                /\ \A i \in ScheduledFor(s) : reminders'[i] = reminders[i]
    <2>1. s # t
      BY <1>3, <1>10
    <2> HIDE DEF t
    <2> QED BY <1>5, <1>6, <1>7, <2>1 DEF ScheduledFor
  <1> HIDE DEF t
  <1> QED BY <1>3, <1>4, <1>7, <1>8, <1>9, <1>10, OthersKeepUp

LEMMA TablesKeepUp ==
  ASSUME IInv, JobKeepsUp, NEW t \in Templates,
         \/ \E kind \in {"reminder", "automatic"},
               amount \in {"unknown", "refused", "payable"} : Create(t, kind, amount)
         \/ Remove(t)
  PROVE  JobKeepsUp'
  <1>1. UNCHANGED <<clock, act, job, paid>>
    BY DEF Create, Remove, histories
  <1>2. /\ touched \subseteq touched'
        /\ \/ t \notin job.all
           \/ t \in touched' /\ templates'[t].life # "none"
    <2>1. CASE Remove(t)
      BY <2>1 DEF Remove, IInv, TypeOK
    <2>2. CASE ~ Remove(t)
      <3>1. templates[t].life = "none" /\ UNCHANGED histories
        BY <2>2 DEF Create
      <3> QED BY <3>1 DEF JobKeepsUp, RunOK, histories
    <2> QED BY <2>1, <2>2
  <1>3. \A s \in Templates : s # t => templates'[s] = templates[s]
    BY DEF Create, Remove, IInv, TypeOK
  <1>4. \A i \in ReminderId : /\ reminders'[i].template = reminders[i].template
                              /\ reminders[i].template # t => reminders'[i] = reminders[i]
    <2>1. CASE Remove(t)
      <3>1. TAKE i \in ReminderId
      <3>2. reminders[i] \in Reminder
        BY DEF IInv, TypeOK
      <3>3. [reminders[i] EXCEPT !.status = "gone"].template = reminders[i].template
        BY <3>2 DEF Reminder
      <3>4. reminders'[i] = IF Exists(i) /\ reminders[i].template = t
                            THEN [reminders[i] EXCEPT !.status = "gone"] ELSE reminders[i]
        BY <2>1 DEF Remove
      <3> QED BY <3>3, <3>4
    <2>2. CASE ~ Remove(t)
      BY <2>2 DEF Create
    <2> QED BY <2>1, <2>2
  <1>5. job.all \subseteq Templates /\ today \in Nat /\ today' = today
    BY <1>1 DEF IInv, TypeOK, Run, clock
  <1>6. \A p \in Actors : act'[p].at \in {"mark", "dismiss"} =>
           reminders'[act'[p].reminder].template = act'[p].template
    <2>1. TAKE p \in Actors
    <2>2. HAVE act'[p].at \in {"mark", "dismiss"}
    <2>3. act[p].reminder \in ReminderId /\ reminders[act[p].reminder].template = act[p].template
      BY <1>1, <2>2, NumbersAreIds DEF JobKeepsUp, HandsOK
    <2> QED BY <1>1, <1>4, <2>3
  <1>7. \A s \in job.all : templates'[s].life # "none"
    BY <1>2, <1>3, <1>5 DEF JobKeepsUp, RunOK
  <1>8. \A s \in job.all \ touched' :
           /\ templates'[s] = templates[s]
           /\ \A i \in ScheduledFor(s) : reminders'[i] = reminders[i]
    BY <1>2, <1>3, <1>4, <1>5 DEF ScheduledFor
  <1> QED BY <1>1, <1>2, <1>5, <1>6, <1>7, <1>8, OthersKeepUp

LEMMA TimeKeepsUp ==
  ASSUME IInv, JobKeepsUp, EveningComes \/ NextDay \/ UNCHANGED vars
  PROVE  JobKeepsUp'
  <1>1. UNCHANGED <<tables, act, job, histories>>
    BY DEF EveningComes, NextDay, vars
  <1>2. today' \in Nat /\ today <= today'
    BY DEF EveningComes, NextDay, vars, clock, IInv, TypeOK
  <1> QED BY <1>1, <1>2, OthersKeepUp DEF tables, histories, JobKeepsUp, RunOK, HandsOK

\* The job ends early: it has nothing left to answer for.
LEMMA EndedKeepsUp ==
  ASSUME IInv, JobKeepsUp,
         act' = [act EXCEPT ![Job] = Idle],
         \E state \in {"aborted", "stopped"} : job' = Ended(job.day, state),
         UNCHANGED <<clock, tables, histories>>
  PROVE  JobKeepsUp'
  <1>1. /\ job'.day = job.day /\ job'.all = {} /\ job'.todo = {} /\ job'.state # "done"
        /\ today' = today /\ reminders' = reminders
    BY DEF Ended, clock, tables
  <1>2. act'[Job].at = "idle"
    BY NumbersAreIds, RestsHold DEF IInv, TypeOK
  <1>3. RunOK'
    BY <1>1, <1>2 DEF RunOK, JobKeepsUp
  <1>4. \A q \in Actors : act'[q].at \in {"mark", "dismiss"} =>
           reminders'[act'[q].reminder].template = act'[q].template
    BY <1>1, NumbersAreIds, RestsHold, MarksStay DEF JobKeepsUp
  <1>5. HandsOK'
    BY <1>2, <1>4 DEF HandsOK, Dealing, Paying, Marking
  <1> QED BY <1>1, <1>3, <1>5 DEF JobKeepsUp

\* What JobGoesOn asks of the tables, when the step only reads them.
LEMMA NothingChanges ==
  ASSUME IInv, JobKeepsUp, UNCHANGED <<clock, tables, histories>>
  PROVE  /\ today' = today /\ touched' = touched /\ paid' = paid
         /\ templates' = templates /\ reminders' = reminders
         /\ \A i \in 1 .. nextReminder - 1 : reminders'[i].template = reminders[i].template
         /\ \A t \in job.all : templates'[t].life # "none"
  BY DEF JobKeepsUp, RunOK, clock, tables, histories

LEMMA StartKeepsUp ==
  ASSUME IInv, JobKeepsUp, JobStart
  PROVE  JobKeepsUp'
  <1>1. /\ act' = [act EXCEPT ![Job] = Looping] /\ touched' = {}
        /\ UNCHANGED <<clock, tables, paid>>
        /\ job'.day = today /\ job'.state = "running"
        /\ job'.all = DueToday /\ job'.todo = DueToday
        /\ job'.listed = [t \in Templates |-> IF t \in DueToday THEN templates[t].entity ELSE NoEntity]
    BY DEF JobStart
  <1>2. act'[Job].at = "loop"
    BY <1>1, NumbersAreIds, RestsHold DEF IInv, TypeOK
  <1>3. today' = today /\ templates' = templates /\ reminders' = reminders
    BY <1>1 DEF clock, tables
  <1>4. \A t \in DueToday : /\ t \in Templates /\ Live(t) /\ templates[t].entity.active
    BY DEF DueToday
  <1>5. RunOK'
    BY <1>1, <1>2, <1>3, <1>4, NumbersAreIds DEF RunOK, Live
  <1>6. \A q \in Actors : act'[q].at \in {"mark", "dismiss"} =>
           reminders'[act'[q].reminder].template = act'[q].template
    BY <1>1, <1>3, NumbersAreIds, RestsHold, MarksStay DEF JobKeepsUp
  <1>7. HandsOK'
    BY <1>2, <1>6 DEF HandsOK, Dealing, Paying, Marking
  <1>8. \A t \in job'.all : Progress(t)'
    BY <1>1, <1>3, <1>4 DEF Progress, AsListed, Live
  <1> QED BY <1>5, <1>7, <1>8 DEF JobKeepsUp

\* The listed due date is the day of the run.
LEMMA ListedToday ==
  ASSUME IInv, act[Job].at # "idle", NEW t \in job.all
  PROVE  job.listed[t].due = job.day /\ t \in Templates
  BY DEF IInv, JobOK, TypeOK, Run

\* The job takes a template off its list, or finds that the list is empty.
LEMMA LoopKeepsUp ==
  ASSUME IInv, JobKeepsUp, NEW t \in Templates,
         JobSkip(t) \/ JobRemind(t) \/ JobExecute(t) \/ JobRefused(t) \/ JobDone
  PROVE  JobKeepsUp'
  <1>1. act[Job].at = "loop" /\ UNCHANGED <<clock, tables, histories>>
    BY DEF JobSkip, JobRemind, JobExecute, JobRefused, JobDone
  <1>2. job.todo \subseteq job.all /\ job.state # "done" /\ job \in Run
    BY <1>1 DEF IInv, JobOK, JobKeepsUp, RunOK, TypeOK
  <1>3. /\ ~ (act[Job].at \in Dealing \union Marking) /\ act[Job].at \notin Dealing
        /\ ~ (act[Job].at \in Paying \union Marking) /\ act[Job].at \notin Paying
        /\ act[Job].at \notin {"idle", "dismiss", "mark"}
    BY <1>1 DEF Dealing, Paying, Marking
  <1>4. t \in job.todo /\ t \notin touched =>
           /\ AsListed(t) /\ job.listed[t].active /\ job.listed[t].due = job.day
           /\ paid[t][job.day] = 0
    BY <1>1, <1>2, ListedToday DEF JobKeepsUp, Progress, IInv, JobOK
  <1>5. CASE JobSkip(t)
    <2>1. act' = [act EXCEPT ![Job] = act[Job]]
      BY <1>5, NumbersAreIds DEF JobSkip, IInv, TypeOK
    <2>2. t \in job.todo /\ job' = [job EXCEPT !.todo = job.todo \ {t}]
          /\ job.listed[t].kind = "automatic" /\ job.listed[t].amount = "unknown"
      BY <1>5 DEF JobSkip
    <2>3. /\ job'.todo = job.todo \ {t} /\ job'.day = job.day /\ job'.all = job.all
          /\ job'.listed = job.listed /\ job'.state = job.state
      BY <1>2, <2>2 DEF Run
    <2>4. t \notin touched => Progress(t)'
      BY <1>1, <1>3, <1>4, <2>1, <2>2, <2>3, NothingChanges
         DEF Progress, DealtWith, JobSkip
    <2> QED BY <1>1, <1>2, <1>3, <2>1, <2>3, <2>4, NothingChanges, JobGoesOn
  <1>6. CASE JobRemind(t)
    <2> DEFINE k == Reminding("check", t, 0, templates[t].entity.due - 1, NoEntity, FALSE)
               h == IF templates[t].entity.active THEN k ELSE Looping
    <2>1. act' = [act EXCEPT ![Job] = h] /\ act'[Job] = h
      BY <1>6, NumbersAreIds DEF JobRemind, IInv, TypeOK
    <2>2. t \in job.todo /\ job' = [job EXCEPT !.todo = job.todo \ {t}]
          /\ job.listed[t].kind = "reminder"
      BY <1>6 DEF JobRemind
    <2>3. /\ job'.todo = job.todo \ {t} /\ job'.day = job.day /\ job'.all = job.all
          /\ job'.listed = job.listed /\ job'.state = job.state
      BY <1>2, <2>2 DEF Run
    <2>4. k.at = "check" /\ k.template = t /\ k.day = templates[t].entity.due - 1
      BY DEF Reminding
    <2>5. /\ h.at \in {"check", "loop"}
          /\ h.at = "check" => h.template = t
          /\ templates[t].entity.active => h = k
      BY <2>4, RestsHold
    <2> HIDE DEF k, h
    <2>6. ASSUME t \notin touched PROVE Progress(t)'
      <3>1. h = k /\ k.day = job.day - 1
        BY <1>4, <2>2, <2>4, <2>5, <2>6 DEF AsListed
      <3>2. InHand(t)'
        BY <2>1, <2>2, <2>3, <2>4, <3>1 DEF InHand, Paying
      <3> QED BY <2>1, <2>3, <2>4, <3>1, <3>2 DEF Progress, Dealing
    <2>7. /\ h.at \in Dealing \union Marking => h.template = t
          /\ h.at \notin Paying \union Marking
          /\ h.at \notin {"idle", "dismiss", "mark"}
      BY <2>5 DEF Dealing, Paying, Marking
    <2> QED BY <1>1, <1>2, <1>3, <2>1, <2>2, <2>3, <2>6, <2>7, NothingChanges, JobGoesOn
  <1>7. CASE JobExecute(t)
    <2> DEFINE e == [templates[t].entity EXCEPT !.amount = "payable"]
               h == Step("pay", t, e, TRUE, TRUE)
    <2>1. act' = [act EXCEPT ![Job] = h] /\ act'[Job] = h
      BY <1>7, NumbersAreIds DEF JobExecute, IInv, TypeOK
    <2>2. t \in job.todo /\ job' = [job EXCEPT !.todo = job.todo \ {t}]
          /\ job.listed[t].kind = "automatic" /\ job.listed[t].amount = "payable"
      BY <1>7 DEF JobExecute
    <2>3. /\ job'.todo = job.todo \ {t} /\ job'.day = job.day /\ job'.all = job.all
          /\ job'.listed = job.listed /\ job'.state = job.state
      BY <1>2, <2>2 DEF Run
    <2>4. h.at = "pay" /\ h.template = t /\ h.advances /\ h.executes
      BY DEF Step
    <2> HIDE DEF e, h
    <2>5. ASSUME t \notin touched PROVE Progress(t)'
      <3>1. AsListed(t)' /\ paid'[t][job'.day] = 0
        BY <1>1, <1>4, <2>2, <2>3, <2>5, NothingChanges DEF AsListed, Live
      <3>2. InHand(t)'
        BY <2>1, <2>2, <2>3, <2>4, <3>1 DEF InHand
      <3> QED BY <2>1, <2>3, <2>4, <3>2 DEF Progress, Dealing, Paying
    <2>6. h.at \notin {"idle", "dismiss", "mark"}
      BY <2>4
    <2> QED BY <1>1, <1>2, <1>3, <2>1, <2>2, <2>3, <2>4, <2>5, <2>6, NothingChanges, JobGoesOn
  <1>8. CASE JobRefused(t)
    BY <1>1, <1>8, EndedKeepsUp DEF JobRefused
  <1>9. CASE JobDone
    <2>1. /\ act' = [act EXCEPT ![Job] = Idle] /\ act'[Job] = Idle
          /\ job.todo = {} /\ job' = [job EXCEPT !.state = "done"]
      BY <1>9, NumbersAreIds DEF JobDone, IInv, TypeOK
    <2>2. /\ job'.todo = job.todo /\ job'.day = job.day /\ job'.all = job.all
          /\ job'.listed = job.listed
      BY <1>2, <2>1 DEF Run
    <2>3. ~ (Idle.at \in Dealing \union Marking) /\ Idle.at \notin {"dismiss", "mark"}
          /\ Idle.at \notin Paying
      BY RestsHold DEF Dealing, Paying, Marking
    <2>4. ASSUME t \in job.all \ touched PROVE Progress(t)'
      <3>1. DealtWith(t)
        BY <1>3, <2>1, <2>4 DEF JobKeepsUp, Progress
      <3>2. DealtWith(t)'
        BY <1>1, <2>2, <3>1, NothingChanges, DealtWithStays
      <3> QED BY <2>1, <2>2, <2>3, <3>2 DEF Progress
    <2> QED BY <1>1, <1>2, <1>3, <2>1, <2>2, <2>3, <2>4, NothingChanges, RestsHold, JobGoesOn
  <1> QED BY <1>5, <1>6, <1>7, <1>8, <1>9

\* The last two statements of generateForTemplate.
LEMMA CheckKeepsUp ==
  ASSUME IInv, JobKeepsUp, RemindCheck
  PROVE  JobKeepsUp'
  <1>0. PICK c : c = act[Job].template
    OBVIOUS
  <1> DEFINE k == Reminding("remind", c, 0, act[Job].day, NoEntity, FALSE)
             h == IF Existing(c, act[Job].day) = {} THEN k ELSE Looping
  <1>1. /\ act' = [act EXCEPT ![Job] = h] /\ act'[Job] = h
        /\ act[Job].at = "check" /\ UNCHANGED <<clock, tables, job, histories>>
    BY <1>0, NumbersAreIds DEF RemindCheck, IInv, TypeOK
  <1>2. k.at = "remind" /\ k.template = c /\ k.day = act[Job].day
    BY DEF Reminding
  <1>3. \/ h = k
        \/ h.at = "loop" /\ Existing(c, act[Job].day) # {}
    BY RestsHold
  <1> HIDE DEF k, h
  <1>4. c \in job.all \ job.todo /\ job.state # "done"
    BY <1>0, <1>1 DEF JobKeepsUp, HandsOK, RunOK, Dealing, Paying
  <1>5. ASSUME c \in job.all \ touched
        PROVE  Progress(c)'
    <2>1. InHand(c) /\ job.listed[c].kind = "reminder" /\ act[Job].day = job.day - 1
      BY <1>0, <1>1, <1>4, <1>5 DEF JobKeepsUp, Progress, InHand, Dealing
    <2>2. CASE h = k
      <3>1. InHand(c)'
        BY <1>1, <1>2, <2>1, <2>2 DEF InHand, Paying
      <3> QED BY <1>1, <1>2, <1>4, <2>2, <3>1 DEF Progress, Dealing
    <2>3. CASE h.at = "loop" /\ Existing(c, act[Job].day) # {}
      <3>1. DealtWith(c)
        BY <2>1, <2>3 DEF DealtWith, Existing
      <3>2. DealtWith(c)'
        BY <1>1, <3>1, NothingChanges, DealtWithStays
      <3> QED BY <1>1, <1>4, <2>3, <3>2 DEF Progress, Dealing, Paying
    <2> QED BY <1>3, <2>2, <2>3
  <1>6. /\ h.at \in Dealing \union Marking => h.template = c
        /\ h.at \in Dealing => h.template = c
        /\ h.at \notin Paying \union Marking
        /\ h.at \notin Paying
        /\ h.at \notin {"idle", "dismiss", "mark"}
    BY <1>2, <1>3 DEF Dealing, Paying, Marking
  <1>7. act[Job].at \in Dealing => act[Job].template = c
    BY <1>0
  <1> QED BY <1>1, <1>4, <1>5, <1>6, <1>7, NothingChanges, JobGoesOn

LEMMA InsertKeepsUp ==
  ASSUME IInv, JobKeepsUp, RemindInsert
  PROVE  JobKeepsUp'
  <1>0. PICK c : c = act[Job].template
    OBVIOUS
  <1> DEFINE row == [status |-> "scheduled", template |-> c, day |-> act[Job].day]
  <1>1. /\ act' = [act EXCEPT ![Job] = Looping] /\ act'[Job] = Looping
        /\ act[Job].at = "remind" /\ nextReminder \in ReminderId
        /\ reminders' = [reminders EXCEPT ![nextReminder] = row]
        /\ UNCHANGED <<clock, templates, job, histories>>
    BY <1>0, NumbersAreIds DEF RemindInsert, IInv, TypeOK
  <1>2. c \in job.all \ job.todo /\ job.state # "done"
    BY <1>0, <1>1 DEF JobKeepsUp, HandsOK, RunOK, Dealing, Paying
  <1>3. /\ \A i \in ReminderId : i # nextReminder => reminders'[i] = reminders[i]
        /\ reminders'[nextReminder] = row
        /\ \A i \in ReminderId : reminders[i].status = "scheduled" => i # nextReminder
    BY <1>1 DEF IInv, TypeOK
  <1>4. ASSUME c \in job.all \ touched
        PROVE  Progress(c)'
    <2>1. job.listed[c].kind = "reminder" /\ act[Job].day = job.day - 1
      BY <1>0, <1>1, <1>2, <1>4 DEF JobKeepsUp, Progress, InHand, Dealing
    <2>2. nextReminder \in ScheduledFor(c)' /\ reminders'[nextReminder].day = job.day - 1
      BY <1>1, <1>3, <2>1 DEF ScheduledFor
    <2>3. DealtWith(c)'
      BY <1>1, <2>1, <2>2 DEF DealtWith
    <2> QED BY <1>1, <1>2, <2>3, RestsHold DEF Progress, Dealing, Paying
  <1>5. /\ \A i \in 1 .. nextReminder - 1 : reminders'[i].template = reminders[i].template
        /\ \A t \in job.all : \A i \in ScheduledFor(t) : reminders'[i] = reminders[i]
    <2>1. \A i \in 1 .. nextReminder - 1 : i \in ReminderId /\ i # nextReminder
      BY NumbersAreIds DEF IInv, TypeOK
    <2> QED BY <1>3, <2>1 DEF ScheduledFor
  <1>6. /\ ~ (Looping.at \in Dealing \union Marking) /\ Looping.at \notin Dealing
        /\ Looping.at \notin Paying \union Marking /\ Looping.at \notin Paying
        /\ Looping.at \notin {"idle", "dismiss", "mark"}
    BY RestsHold DEF Dealing, Paying, Marking
  <1>7. /\ today' = today /\ touched' = touched /\ paid' = paid /\ templates' = templates
        /\ \A t \in job.all : templates'[t].life # "none"
    BY <1>1 DEF clock, histories, JobKeepsUp, RunOK
  <1>8. act[Job].at \in Dealing => act[Job].template = c
    BY <1>0
  <1> QED BY <1>1, <1>2, <1>4, <1>5, <1>6, <1>7, <1>8, JobGoesOn

\* What the job holds when it pays.
LEMMA JobPaying ==
  ASSUME IInv, JobKeepsUp, act[Job].at \in Paying
  PROVE  /\ act[Job] \in Holding
         /\ act[Job].template \in job.all \ job.todo
         /\ act[Job].template \in Templates
         /\ job.listed[act[Job].template].kind = "automatic"
         /\ job.listed[act[Job].template].amount = "payable"
         /\ job.listed[act[Job].template].due = job.day
         /\ act[Job].executes
         /\ act[Job].template \notin touched => InHand(act[Job].template)
         /\ job.state # "done" /\ job.day \in Day
  <1>1. act[Job].at # "idle" /\ act[Job].at \in Dealing
    BY DEF Paying, Dealing
  <1>2. /\ act[Job] \in Holding /\ act[Job].template \in job.all \ job.todo
        /\ job.listed[act[Job].template].kind = "automatic"
        /\ job.listed[act[Job].template].amount = "payable"
        /\ act[Job].executes /\ job.state # "done"
    BY <1>1, NumbersAreIds, HeldParts DEF JobKeepsUp, HandsOK, RunOK
  <1>3. /\ job.listed[act[Job].template].due = job.day /\ act[Job].template \in Templates
    BY <1>1, <1>2, ListedToday
  <1>4. job.day \in Day
    BY <1>3 DEF IInv, TypeOK, Run, Entity
  <1>5. act[Job].template \notin touched => InHand(act[Job].template)
    BY <1>1, <1>2 DEF JobKeepsUp, Progress
  <1> QED BY <1>2, <1>3, <1>4, <1>5

LEMMA PayKeepsUp ==
  ASSUME IInv, JobKeepsUp, Pay(Job)
  PROVE  JobKeepsUp'
  <1>0. PICK c : c = act[Job].template
    OBVIOUS
  <1> DEFINE h == [act[Job] EXCEPT !.at = "save"]
  <1>1. act[Job].at = "pay" /\ act[Job].at \in Paying
    BY DEF Pay, Paying
  <1>2. /\ act' = [act EXCEPT ![Job] = h] /\ act'[Job] = h
        /\ paid' = [paid EXCEPT ![c] = [paid[c] EXCEPT ![job.day] = paid[c][job.day] + 1]]
        /\ UNCHANGED <<clock, tables, job, touched>>
    BY <1>0, <1>1, JobPaying, NumbersAreIds DEF Pay, IInv, TypeOK
  <1>3. /\ h.at = "save" /\ h.template = c /\ h.executes = act[Job].executes
        /\ h.advances = act[Job].advances
    BY <1>0, <1>1, JobPaying DEF Holding
  <1> HIDE DEF h
  <1>4. ASSUME c \in job.all \ touched
        PROVE  Progress(c)'
    <2>1. InHand(c) /\ paid[c] \in [Day -> Nat]
      BY <1>0, <1>1, <1>4, JobPaying DEF IInv, TypeOK
    <2>2. paid[c][job.day] = 0 /\ act[Job].advances /\ AsListed(c)
      BY <1>0, <1>1, <2>1 DEF InHand
    <2>3. paid'[c][job.day] = 1
      BY <1>0, <1>1, <1>2, <2>1, <2>2, JobPaying DEF IInv, TypeOK
    <2>4. AsListed(c)'
      BY <1>2, <2>2 DEF AsListed, Live, tables
    <2>5. InHand(c)'
      BY <1>0, <1>1, <1>2, <1>3, <2>2, <2>3, <2>4, JobPaying DEF InHand
    <2> QED BY <1>0, <1>1, <1>2, <1>3, <2>5, JobPaying DEF Progress, Dealing, Paying
  <1>5. /\ today' = today /\ templates' = templates /\ reminders' = reminders
        /\ \A t \in job.all : templates'[t].life # "none"
        /\ \A i \in 1 .. nextReminder - 1 : reminders'[i].template = reminders[i].template
        /\ \A t \in job.all \ touched : t # c => paid'[t] = paid[t]
    <2>1. today' = today /\ templates' = templates /\ reminders' = reminders
      BY <1>2 DEF clock, tables
    <2>2. \A t \in Templates : t # c => paid'[t] = paid[t]
      BY <1>2 DEF IInv, TypeOK
    <2> QED BY <2>1, <2>2, NumbersAreIds DEF JobKeepsUp, RunOK
  <1>6. h.at \notin {"idle", "dismiss", "mark"}
    BY <1>3
  <1>7. /\ c \in job.all \ job.todo /\ job.state # "done" /\ h.executes
        /\ job.listed[c].kind = "automatic" /\ job.listed[c].amount = "payable"
    BY <1>0, <1>1, <1>3, JobPaying
  <1>8. job' = job /\ touched' = touched /\ act' = [act EXCEPT ![Job] = h]
    BY <1>2
  <1>9. \A t \in job.all \ touched : t # c =>
           /\ templates'[t] = templates[t]
           /\ paid'[t] = paid[t]
           /\ \A i \in ScheduledFor(t) : reminders'[i] = reminders[i]
    BY <1>5
  <1>10. /\ job'.day = job.day /\ job'.all = job.all /\ job'.listed = job.listed
         /\ job'.todo \in {job.todo, job.todo \ {c}}
         /\ job'.state = "done" => h.at = "idle"
         /\ h.at = "idle" => job'.todo = {}
         /\ act[Job].at \in Dealing => act[Job].template = c
         /\ h.at \in Dealing => h.template = c
         /\ h.at \in Dealing \union Marking => h.template \in job.all \ job'.todo
         /\ h.at \in Paying \union Marking =>
              /\ job.listed[h.template].kind = "automatic"
              /\ job.listed[h.template].amount = "payable"
         /\ h.at \in Paying => h.executes
         /\ h.at # "dismiss"
         /\ h.at = "mark" => reminders'[h.reminder].template = h.template
    BY <1>0, <1>3, <1>6, <1>7, <1>8
  <1>11. /\ today' = today
         /\ \A i \in 1 .. nextReminder - 1 : reminders'[i].template = reminders[i].template
         /\ \A t \in job.all : templates'[t].life # "none"
    BY <1>5
  <1>12. c \in job.all \ touched => Progress(c)'
    BY <1>4
  <1> QED BY <1>8, <1>9, <1>10, <1>11, <1>12, JobGoesOn, ZenonT(60)

LEMMA LoadKeepsUp ==
  ASSUME IInv, JobKeepsUp, SaveLoad(Job)
  PROVE  JobKeepsUp'
  <1>0. PICK c : c = act[Job].template
    OBVIOUS
  <1> DEFINE e == IF act[Job].advances THEN [act[Job].entity EXCEPT !.due = NextDue]
                  ELSE act[Job].entity
             at == IF Live(c) THEN "write" ELSE "insert"
             cs == IF Live(c) THEN Differing(c, e) ELSE {}
             h == [act[Job] EXCEPT !.at = at, !.entity = e, !.columns = cs]
  <1>1. act[Job].at = "save" /\ act[Job].at \in Paying
    BY DEF SaveLoad, Paying
  <1>2. /\ act' = [act EXCEPT ![Job] = h] /\ act'[Job] = h
        /\ UNCHANGED <<clock, tables, job, histories>>
    BY <1>0, NumbersAreIds DEF SaveLoad, IInv, TypeOK
  <1>3. /\ h.at = at /\ h.template = c /\ h.executes = act[Job].executes
        /\ h.entity = e /\ h.columns = cs
    <2>1. act[Job] \in Holding
      BY <1>1, JobPaying
    <2> HIDE DEF e, at, cs
    <2> QED BY <1>0, <2>1 DEF Holding
  <1> HIDE DEF h
  <1>4. ASSUME c \in job.all \ touched
        PROVE  Progress(c)'
    <2>1. InHand(c)
      BY <1>0, <1>1, <1>4, JobPaying
    <2>2. paid[c][job.day] = 1 /\ act[Job].advances /\ AsListed(c) /\ Live(c)
      BY <1>1, <2>1 DEF InHand, AsListed
    <2>3. templates[c].entity.due = job.day
      BY <1>0, <1>1, <2>2, JobPaying DEF AsListed
    <2>4. e.due = NextDue /\ NextDue > job.day
      <3>1. act[Job].entity \in Entity
        BY HeldParts, NumbersAreIds
      <3>2. [act[Job].entity EXCEPT !.due = NextDue].due = NextDue
        BY <3>1 DEF Entity
      <3>3. job.day <= today /\ job.day \in Nat /\ today \in Nat
        BY DEF JobKeepsUp, RunOK, IInv, TypeOK, Run
      <3>4. NextDue > job.day
        BY <3>3, TemplateConstants DEF NextDue
      <3> QED BY <2>2, <3>2, <3>4
    <2>5. "due" \in cs
      <3>1. e.due # templates[c].entity.due
        <4>1. NextDue \in Nat /\ job.day \in Nat
          BY NextDueIsDay DEF Day, IInv, TypeOK, Run
        <4> QED BY <2>3, <2>4, <4>1
      <3> HIDE DEF e
      <3> QED BY <2>2, <3>1 DEF Differing, Columns
    <2>6. h.at = "write" /\ "due" \in h.columns /\ h.entity.due > job.day
      BY <1>3, <2>2, <2>4, <2>5
    <2>7. AsListed(c)' /\ paid'[c][job'.day] = 1
      BY <1>2, <2>2, NothingChanges DEF AsListed, Live
    <2>8. InHand(c)'
      BY <1>0, <1>1, <1>2, <2>6, <2>7, JobPaying DEF InHand
    <2> QED BY <1>0, <1>1, <1>2, <1>3, <2>6, <2>8, JobPaying DEF Progress, Dealing, Paying
  <1>5. h.at \in {"write", "insert"}
    BY <1>3
  <1>6. h.at \notin {"idle", "dismiss", "mark"}
    BY <1>5
  <1>7. /\ c \in job.all \ job.todo /\ job.state # "done" /\ h.executes
        /\ job.listed[c].kind = "automatic" /\ job.listed[c].amount = "payable"
    BY <1>0, <1>1, <1>3, JobPaying
  <1> HIDE DEF e, at, cs
  <1> QED BY <1>0, <1>2, <1>3, <1>4, <1>6, <1>7, NothingChanges, JobGoesOn

\* What the job holds after it saved a template it paid.
LEMMA AfterPayment ==
  ASSUME IInv, JobKeepsUp, act[Job].at \in Paying
  PROVE  /\ AfterSave(Job) = Step("find", act[Job].template, NoEntity, FALSE, FALSE)
         /\ AfterSave(Job).at = "find" /\ AfterSave(Job).template = act[Job].template
         /\ AfterSave(Job).at \notin Dealing /\ AfterSave(Job).at \notin Paying
         /\ AfterSave(Job).at \notin {"idle", "dismiss", "mark"}
  <1>1. AfterSave(Job) = Step("find", act[Job].template, NoEntity, FALSE, FALSE)
    BY JobPaying DEF AfterSave
  <1>2. AfterSave(Job).at = "find" /\ AfterSave(Job).template = act[Job].template
    BY <1>1 DEF Step
  <1> QED BY <1>1, <1>2 DEF Dealing, Paying

LEMMA WriteKeepsUp ==
  ASSUME IInv, JobKeepsUp, SaveWrite(Job) \/ SaveInsert(Job)
  PROVE  JobKeepsUp'
  <1>0. PICK c : c = act[Job].template
    OBVIOUS
  <1> DEFINE h == AfterSave(Job)
             e == Merged(c, act[Job].entity, act[Job].columns)
  <1>1. act[Job].at \in {"write", "insert"} /\ act[Job].at \in Paying
    BY DEF SaveWrite, SaveInsert, Paying
  <1>2. /\ act' = [act EXCEPT ![Job] = h] /\ act'[Job] = h
        /\ touched' = touched
        /\ UNCHANGED <<clock, reminders, nextReminder, job, paid>>
    BY NumbersAreIds DEF SaveWrite, SaveInsert, Touch, IInv, TypeOK
  <1>3. /\ h.at = "find" /\ h.template = c
        /\ h.at \notin Dealing /\ h.at \notin Paying /\ h.at \notin {"idle", "dismiss", "mark"}
    BY <1>0, <1>1, AfterPayment
  <1> HIDE DEF h
  <1>4. ASSUME c \in job.all \ touched
        PROVE  Progress(c)'
    <2>1. InHand(c)
      BY <1>0, <1>1, <1>4, JobPaying
    <2>2. /\ act[Job].at = "write" /\ paid[c][job.day] = 1 /\ Live(c)
          /\ "due" \in act[Job].columns /\ act[Job].entity.due > job.day
      BY <1>1, <2>1 DEF InHand, AsListed
    <2>3. templates' = [templates EXCEPT ![c] = [life |-> "live", entity |-> e]]
      BY <1>0, <2>2 DEF SaveWrite, SaveInsert
    <2>4. e.due = act[Job].entity.due
      BY <2>2 DEF Merged
    <2> HIDE DEF e
    <2>5. templates'[c].entity.due > job.day
      BY <1>0, <1>1, <2>2, <2>3, <2>4, JobPaying DEF IInv, TypeOK
    <2>6. DealtWith(c)'
      BY <1>0, <1>1, <1>2, <2>2, <2>5, JobPaying DEF DealtWith
    <2> QED BY <1>0, <1>1, <1>2, <1>3, <2>6, JobPaying DEF Progress
  <1>5. /\ \A t \in job.all : templates'[t].life # "none"
        /\ \A t \in job.all \ touched : t # c => templates'[t] = templates[t]
    <2>1. \/ templates' = templates
          \/ templates' = [templates EXCEPT ![c] = [life |-> "live", entity |-> e]]
          \/ templates' = [templates EXCEPT ![c] = [life |-> "live", entity |-> act[Job].entity]]
      BY <1>0 DEF SaveWrite, SaveInsert
    <2> HIDE DEF e
    <2> QED BY <2>1, NumbersAreIds DEF JobKeepsUp, RunOK, IInv, TypeOK
  <1>6. today' = today
    BY <1>2 DEF clock
  <1>7. /\ c \in job.all \ job.todo /\ job.state # "done"
        /\ job.listed[c].kind = "automatic" /\ job.listed[c].amount = "payable"
    BY <1>0, <1>1, JobPaying
  <1> HIDE DEF e
  <1> QED BY <1>0, <1>2, <1>3, <1>4, <1>5, <1>6, <1>7, JobGoesOn

\* markLatestScheduledReminderAsSent, by the job: the template is one that it paid.
LEMMA MarkKeepsUp ==
  ASSUME IInv, JobKeepsUp,
         MarkNone(Job) \/ (\E i \in ReminderId : MarkFind(Job, i)) \/ ReminderSave(Job)
  PROVE  JobKeepsUp'
  <1>0. PICK c : c = act[Job].template
    OBVIOUS
  <1>1. /\ act[Job].at \in Marking /\ act[Job].at \notin Dealing
        /\ act[Job].at \notin {"idle", "dismiss"}
    BY DEF MarkNone, MarkFind, ReminderSave, Marking, Dealing, Paying, JobKeepsUp, HandsOK
  <1>2. /\ c \in job.all \ job.todo /\ job.state # "done"
        /\ job.listed[c].kind = "automatic" /\ job.listed[c].amount = "payable"
    BY <1>0, <1>1 DEF JobKeepsUp, HandsOK, RunOK
  <1>3. \A i \in ReminderId : Reminding("mark", c, i, 0, NoEntity, FALSE).at = "mark"
           /\ Reminding("mark", c, i, 0, NoEntity, FALSE).template = c
           /\ Reminding("mark", c, i, 0, NoEntity, FALSE).reminder = i
    BY DEF Reminding
  <1>4. PICK h : /\ act' = [act EXCEPT ![Job] = h]
                 /\ h.at \in {"loop", "mark"}
                 /\ h.at = "mark" => h.template = c /\ reminders'[h.reminder].template = c
    <2>1. CASE \E i \in ReminderId : MarkFind(Job, i)
      <3>1. PICK i \in ReminderId : MarkFind(Job, i)
        BY <2>1
      <3>2. reminders' = reminders /\ reminders[i].template = c
        BY <1>0, <3>1 DEF MarkFind, ScheduledFor, tables
      <3>3. act' = [act EXCEPT ![Job] = Reminding("mark", c, i, 0, NoEntity, FALSE)]
        BY <1>0, <3>1 DEF MarkFind
      <3> QED BY <1>3, <3>2, <3>3
    <2>2. CASE MarkNone(Job) \/ ReminderSave(Job)
      <3>1. act' = [act EXCEPT ![Job] = Looping]
        BY <1>1, <2>2, RestsHold DEF MarkNone, ReminderSave
      <3> QED BY <3>1, RestsHold
    <2> QED BY <2>1, <2>2
  <1>5. act'[Job] = h
    BY <1>4, NumbersAreIds DEF IInv, TypeOK
  <1>6. /\ today' = today /\ touched' = touched /\ job' = job /\ paid' = paid
        /\ templates' = templates
    BY DEF MarkNone, MarkFind, ReminderSave, Touch, clock, tables, histories
  <1>7. \A i \in ReminderId : /\ reminders'[i].template = reminders[i].template
                              /\ reminders[i].template # c => reminders'[i] = reminders[i]
    <2>1. CASE ReminderSave(Job)
      <3> DEFINE i == act[Job].reminder
      <3>1. i \in ReminderId /\ reminders[i].template = c
        BY <1>0, <2>1, NumbersAreIds DEF ReminderSave, JobKeepsUp, HandsOK
      <3>2. \E s : reminders' = [reminders EXCEPT ![i].status = s]
        BY <2>1 DEF ReminderSave
      <3>3. reminders \in [ReminderId -> Reminder]
        BY DEF IInv, TypeOK
      <3> HIDE DEF i
      <3> QED BY <3>1, <3>2, <3>3 DEF Reminder
    <2>2. CASE ~ ReminderSave(Job)
      BY <2>2 DEF MarkNone, MarkFind, tables
    <2> QED BY <2>1, <2>2
  <1>8. /\ \A i \in 1 .. nextReminder - 1 : reminders'[i].template = reminders[i].template
        /\ \A t \in job.all \ touched : t # c =>
              \A i \in ScheduledFor(t) : reminders'[i] = reminders[i]
        /\ \A t \in job.all : templates'[t].life # "none"
    BY <1>6, <1>7, NumbersAreIds DEF ScheduledFor, JobKeepsUp, RunOK
  <1>9. /\ h.at \notin Dealing /\ h.at \notin Paying /\ h.at \notin {"idle", "dismiss"}
        /\ h.at \in Dealing \union Marking => h.template = c
    BY <1>4 DEF Dealing, Paying, Marking
  <1>10. ASSUME c \in job.all \ touched
         PROVE  Progress(c)'
    <2>1. DealtWith(c)
      BY <1>1, <1>2, <1>10 DEF JobKeepsUp, Progress
    <2>2. DealtWith(c)'
      BY <1>2, <1>6, <2>1 DEF DealtWith
    <2> QED BY <1>2, <1>5, <1>6, <1>9, <2>2 DEF Progress
  <1> QED BY <1>1, <1>2, <1>4, <1>6, <1>8, <1>9, <1>10, JobGoesOn

LEMMA JobFailsKeepsUp ==
  ASSUME IInv, JobKeepsUp, Fails(Job) \/ Stop(Job)
  PROVE  JobKeepsUp'
  <1>1. /\ act' = [act EXCEPT ![Job] = Idle]
        /\ UNCHANGED <<clock, tables, histories>>
        /\ \E state \in {"aborted", "stopped"} : job' = Ended(job.day, state)
    BY DEF Fails, Stop, JobAfterException
  <1> QED BY <1>1, EndedKeepsUp

LEMMA NextKeepsUp == IInv /\ JobKeepsUp /\ [Next]_vars => JobKeepsUp'
  <1> SUFFICES ASSUME IInv, JobKeepsUp, [Next]_vars PROVE JobKeepsUp'
    OBVIOUS
  <1>1. ASSUME NEW r \in Requests,
               \/ \E t \in Templates : Update(r, t) \/ ToggleActive(r, t) \/ ExecuteRead(r, t)
               \/ \E i \in ReminderId : DismissRead(r, i)
        PROVE  JobKeepsUp'
    BY <1>1, RequestsKeepUp
  <1>2. ASSUME NEW p \in Actors,
               \/ Pay(p) \/ SaveLoad(p) \/ SaveWrite(p) \/ SaveInsert(p) \/ MarkNone(p)
               \/ \E i \in ReminderId : MarkFind(p, i)
               \/ ReminderSave(p) \/ Fails(p) \/ Stop(p)
        PROVE  JobKeepsUp'
    <2>1. CASE p = Job
      BY <1>2, <2>1, PayKeepsUp, LoadKeepsUp, WriteKeepsUp, MarkKeepsUp, JobFailsKeepsUp
    <2>2. CASE p \in Requests
      BY <1>2, <2>2, RequestsKeepUp, RequestWritesKeepUp
    <2> QED BY <2>1, <2>2 DEF Actors
  <1>3. ASSUME NEW t \in Templates,
               \/ \E kind \in {"reminder", "automatic"},
                     amount \in {"unknown", "refused", "payable"} : Create(t, kind, amount)
               \/ Remove(t)
        PROVE  JobKeepsUp'
    BY <1>3, TablesKeepUp
  <1>4. ASSUME NEW t \in Templates,
               JobSkip(t) \/ JobRemind(t) \/ JobExecute(t) \/ JobRefused(t)
        PROVE  JobKeepsUp'
    BY <1>4, LoopKeepsUp
  <1>5. CASE JobDone
    BY <1>5, LoopKeepsUp, Nothing
  <1>6. CASE JobStart \/ RemindCheck \/ RemindInsert
    BY <1>6, StartKeepsUp, CheckKeepsUp, InsertKeepsUp
  <1>7. CASE EveningComes \/ NextDay \/ UNCHANGED vars
    BY <1>7, TimeKeepsUp
  <1>8. CASE Next
    BY <1>1, <1>2, <1>3, <1>4, <1>5, <1>6, <1>7, <1>8, Zenon DEF Next
  <1> QED BY <1>7, <1>8

LEMMA InitKeepsUp == Init => JobKeepsUp
  <1> SUFFICES ASSUME Init PROVE JobKeepsUp
    OBVIOUS
  <1>1. /\ job.day = 0 /\ job.all = {} /\ job.todo = {} /\ job.state = "stopped"
        /\ today = 1
    BY DEF Init, Ended
  <1>2. \A p \in Actors : act[p].at = "idle"
    BY RestsHold DEF Init
  <1>3. HandsOK
    BY <1>2 DEF HandsOK, Actors, Dealing, Paying, Marking
  <1> QED BY <1>1, <1>3 DEF JobKeepsUp, RunOK

\* reminders.cron.ts:17: a run that ends without an exception has dealt with every
\* template that was due and that nobody else wrote to, whatever else requests do.
THEOREM TemplatesJobDealsWithAll == Spec => []JobDealsWithAll
  <1>1. JobKeepsUp => JobDealsWithAll
    BY DEF JobKeepsUp, RunOK, Progress, Dealing, Paying, JobDealsWithAll
  <1> QED BY <1>1, InitKeepsUp, NextKeepsUp, TemplatesInvariant, PTL DEF Spec

-----------------------------------------------------------------------------
(* The calendar *)

\* A month is one of the twelve of its year.
LEMMA MonthOfYear ==
  ASSUME NEW i \in Int
  PROVE  /\ i \div 12 \in Int /\ i % 12 \in 0 .. 11 /\ i = 12 * (i \div 12) + (i % 12)
         /\ i >= 0 => i \div 12 >= 0
         /\ NumberOf(i) \in 1 .. 12 /\ NumberOf(i) = (i % 12) + 1
         /\ YearOf(i) \in Int /\ YearOf(i) = FirstYear + (i \div 12)
  BY CalendarConstants DEF NumberOf, YearOf

LEMMA MonthNumbers == ASSUME NEW i \in Int PROVE NumberOf(i) \in 1 .. 12 /\ YearOf(i) \in Int
  BY MonthOfYear

LEMMA NextMonth ==
  ASSUME NEW i \in Int
  PROVE  /\ NumberOf(i) # 12 => /\ NumberOf(i + 1) = NumberOf(i) + 1 /\ YearOf(i + 1) = YearOf(i)
                                /\ (i + 1) \div 12 = i \div 12
         /\ NumberOf(i) = 12 => /\ NumberOf(i + 1) = 1 /\ YearOf(i + 1) = YearOf(i) + 1
                                /\ (i + 1) \div 12 = (i \div 12) + 1
  BY CalendarConstants DEF NumberOf, YearOf

\* The leap days before a month.
LeapYears(i) ==
  {y \in FirstYear .. YearOf(i) : LeapYear(y) /\ (y < YearOf(i) \/ NumberOf(i) > 2)}

LEMMA LeapDaysAre == ASSUME NEW i PROVE LeapDays(i) = Cardinality(LeapYears(i))
  BY DEF LeapDays, LeapYears

LEMMA LeapYearsAreFinite ==
  ASSUME NEW i \in Int
  PROVE  IsFiniteSet(LeapYears(i)) /\ Cardinality(LeapYears(i)) \in Nat
  <1>1. IsFiniteSet(FirstYear .. YearOf(i))
    BY CalendarConstants, MonthNumbers, FS_Interval
  <1>2. LeapYears(i) \subseteq FirstYear .. YearOf(i)
    BY DEF LeapYears
  <1> QED BY <1>1, <1>2, FS_Subset, FS_CardinalityType

LEMMA LeapDayPasses ==
  ASSUME NEW i \in Nat
  PROVE  LeapDays(i + 1) = LeapDays(i) + IF NumberOf(i) = 2 /\ LeapYear(YearOf(i)) THEN 1 ELSE 0
  <1>1. LeapDays(i) = Cardinality(LeapYears(i)) /\ LeapDays(i + 1) = Cardinality(LeapYears(i + 1))
    BY LeapDaysAre
  <1>2. /\ IsFiniteSet(LeapYears(i)) /\ Cardinality(LeapYears(i)) \in Nat
        /\ FirstYear \in Nat /\ YearOf(i) \in Int /\ FirstYear <= YearOf(i)
        /\ NumberOf(i) \in 1 .. 12
    BY LeapYearsAreFinite, CalendarConstants, MonthOfYear DEF YearOf
  <1>3. CASE NumberOf(i) = 2 /\ LeapYear(YearOf(i))
    <2>1. NumberOf(i + 1) = 3 /\ YearOf(i + 1) = YearOf(i)
      BY <1>3, NextMonth
    <2>2. LeapYears(i + 1) = LeapYears(i) \union {YearOf(i)} /\ YearOf(i) \notin LeapYears(i)
      <3>1. ASSUME NEW y \in FirstYear .. YearOf(i)
            PROVE  y \in LeapYears(i + 1) <=> y \in LeapYears(i) \/ y = YearOf(i)
        BY <1>2, <1>3, <2>1 DEF LeapYears
      <3>2. LeapYears(i + 1) \subseteq FirstYear .. YearOf(i)
            /\ LeapYears(i) \subseteq FirstYear .. YearOf(i)
        BY <2>1 DEF LeapYears
      <3>3. YearOf(i) \in FirstYear .. YearOf(i)
        BY <1>2
      <3>4. YearOf(i) \notin LeapYears(i)
        BY <1>2, <1>3 DEF LeapYears
      <3> QED BY <3>1, <3>2, <3>3, <3>4
    <2>3. Cardinality(LeapYears(i + 1)) = Cardinality(LeapYears(i)) + 1
      BY <1>2, <2>2, FS_AddElement
    <2> QED BY <1>1, <1>3, <2>3
  <1>4. CASE ~ (NumberOf(i) = 2 /\ LeapYear(YearOf(i)))
    <2>1. LeapYears(i + 1) = LeapYears(i)
      <3>1. CASE NumberOf(i) = 12
        <4>1. NumberOf(i + 1) = 1 /\ YearOf(i + 1) = YearOf(i) + 1
          BY <3>1, NextMonth
        <4> QED BY <1>2, <3>1, <4>1 DEF LeapYears
      <3>2. CASE NumberOf(i) # 12
        <4>1. NumberOf(i + 1) = NumberOf(i) + 1 /\ YearOf(i + 1) = YearOf(i)
          BY <3>2, NextMonth
        <4>2. ASSUME NEW y \in FirstYear .. YearOf(i)
              PROVE  y \in LeapYears(i + 1) <=> y \in LeapYears(i)
          BY <1>2, <1>4, <3>2, <4>1 DEF LeapYears
        <4>3. LeapYears(i + 1) \subseteq FirstYear .. YearOf(i)
              /\ LeapYears(i) \subseteq FirstYear .. YearOf(i)
          BY <4>1 DEF LeapYears
        <4> QED BY <4>2, <4>3
      <3> QED BY <3>1, <3>2
    <2> QED BY <1>1, <1>2, <1>4, <2>1
  <1> QED BY <1>3, <1>4

LEMMA MonthDaysAre ==
  ASSUME NEW i \in Months
  PROVE  MonthDays[i] \in 28 .. 31
  BY DEF MonthDays

LEMMA MonthStartIs ==
  ASSUME NEW i \in Months
  PROVE  /\ MonthStart[i] = 365 * (i \div 12) + DaysBefore[NumberOf(i)] + LeapDays(i)
         /\ MonthStart[i] \in Nat
         /\ i \in Nat
  <1>1. i \in Nat /\ MonthStart[i] = 365 * (i \div 12) + DaysBefore[NumberOf(i)] + LeapDays(i)
    BY CalendarConstants DEF MonthStart, Months
  <1>2. i \div 12 \in Nat /\ NumberOf(i) \in 1 .. 12
    <2>1. i \in Int /\ i >= 0
      BY <1>1
    <2>2. NumberOf(i) \in 1 .. 12 /\ i \div 12 \in Int /\ i \div 12 >= 0
      BY <2>1, MonthOfYear
    <2> QED BY <2>2
  <1>3. DaysBefore[NumberOf(i)] \in Nat
    BY <1>2 DEF DaysBefore
  <1>4. LeapDays(i) \in Nat
    BY <1>1, LeapDaysAre, LeapYearsAreFinite
  <1> QED BY <1>1, <1>2, <1>3, <1>4

\* A month begins when the one before is over.
LEMMA MonthFollows ==
  ASSUME NEW i \in Months, i + 1 \in Months
  PROVE  MonthStart[i + 1] = MonthStart[i] + MonthDays[i]
  <1> DEFINE n == NumberOf(i)
             q == i \div 12
             l == IF n = 2 /\ LeapYear(YearOf(i)) THEN 1 ELSE 0
  <1>1. /\ MonthStart[i] = 365 * q + DaysBefore[n] + LeapDays(i)
        /\ MonthStart[i + 1] = 365 * ((i + 1) \div 12) + DaysBefore[NumberOf(i + 1)] + LeapDays(i + 1)
        /\ i \in Nat
    BY MonthStartIs
  <1>2. LeapDays(i + 1) = LeapDays(i) + l /\ LeapDays(i) \in Nat /\ l \in 0 .. 1
    BY <1>1, LeapDayPasses, LeapDaysAre, LeapYearsAreFinite
  <1>3. n \in 1 .. 12 /\ q \in Int
    BY <1>1, MonthOfYear
  <1>4. MonthDays[i] = IF n = 2 THEN 28 + l ELSE IF n \in {4, 6, 9, 11} THEN 30 ELSE 31
    BY DEF MonthDays
  <1>5. CASE n = 12
    <2>1. NumberOf(i + 1) = 1 /\ (i + 1) \div 12 = q + 1 /\ l = 0 /\ MonthDays[i] = 31
      BY <1>1, <1>4, <1>5, NextMonth
    <2>2. DaysBefore[n] = 334 /\ DaysBefore[1] = 0
      BY <1>5 DEF DaysBefore
    <2> HIDE DEF n, q, l
    <2> QED BY <1>1, <1>2, <1>3, <2>1, <2>2
  <1>6. CASE n # 12
    <2>1. NumberOf(i + 1) = n + 1 /\ (i + 1) \div 12 = q
      BY <1>1, <1>6, NextMonth
    <2>2. DaysBefore[n + 1] = DaysBefore[n]
            + IF n = 2 THEN 28 ELSE IF n \in {4, 6, 9, 11} THEN 30 ELSE 31
      <3>1. n \in 1 .. 11
        BY <1>3, <1>6
      <3> HIDE DEF n
      <3>2. n \in {1, 2, 3, 4, 5, 6, 7, 8, 9, 10, 11}
        BY <3>1
      <3> QED BY <3>2 DEF DaysBefore
    <2>3. DaysBefore[n] \in Nat /\ (n # 2 => l = 0)
      BY <1>3 DEF DaysBefore
    <2> HIDE DEF n, q, l
    <2> QED BY <1>1, <1>2, <1>3, <1>4, <2>1, <2>2, <2>3
  <1> QED BY <1>5, <1>6

LEMMA FirstMonthStarts == 0 \in Months /\ MonthStart[0] = 0
  <1>1. 0 \in Months
    BY CalendarConstants DEF Months
  <1>2. NumberOf(0) = 1 /\ 0 \div 12 = 0 /\ YearOf(0) = FirstYear
    BY CalendarConstants DEF NumberOf, YearOf
  <1>3. LeapDays(0) = 0
    <2>1. {y \in FirstYear .. YearOf(0) : LeapYear(y) /\ (y < YearOf(0) \/ NumberOf(0) > 2)} = {}
      BY <1>2, CalendarConstants
    <2> QED BY <2>1, FS_EmptySet DEF LeapDays
  <1> QED BY <1>1, <1>2, <1>3, MonthStartIs DEF DaysBefore

\* Months have from 28 to 31 days.
LEMMA MonthsAreShort ==
  ASSUME NEW i \in Months
  PROVE  28 * i <= MonthStart[i] /\ MonthStart[i] <= 31 * i
  <1> DEFINE B == {k \in Months : ~ (28 * k <= MonthStart[k] /\ MonthStart[k] <= 31 * k)}
  <1>1. SUFFICES ASSUME B # {} PROVE FALSE
    OBVIOUS
  <1>2. PICK k \in B : \A l \in B : k <= l
    <2>1. B \in SUBSET Nat
      BY MonthStartIs
    <2> HIDE DEF B
    <2> QED BY <1>1, <2>1, LeastNumber
  <1>3. k # 0 /\ k \in Nat /\ k \in Months
    BY FirstMonthStarts, MonthStartIs
  <1>4. k - 1 \in Months /\ (k - 1) + 1 = k /\ ~ (k <= k - 1)
    BY <1>3, CalendarConstants DEF Months
  <1>5. 28 * (k - 1) <= MonthStart[k - 1] /\ MonthStart[k - 1] <= 31 * (k - 1)
    BY <1>2, <1>4
  <1>6. MonthStart[k] = MonthStart[k - 1] + MonthDays[k - 1] /\ MonthDays[k - 1] \in 28 .. 31
        /\ MonthStart[k - 1] \in Nat
    <2>1. MonthStart[(k - 1) + 1] = MonthStart[k - 1] + MonthDays[k - 1]
      BY <1>3, <1>4, MonthFollows
    <2> QED BY <1>4, <2>1, MonthDaysAre, MonthStartIs
  <1> QED BY <1>2, <1>3, <1>5, <1>6

\* Later months begin later.
LEMMA MonthsFollow ==
  ASSUME NEW i \in Months, NEW j \in Months, i < j
  PROVE  MonthStart[i] + MonthDays[i] <= MonthStart[j]
  <1> DEFINE B == {k \in Months : i < k /\ ~ (MonthStart[i] + MonthDays[i] <= MonthStart[k])}
  <1>1. SUFFICES ASSUME B # {} PROVE FALSE
    OBVIOUS
  <1>2. PICK k \in B : \A l \in B : k <= l
    <2>1. B \in SUBSET Nat
      BY MonthStartIs
    <2> HIDE DEF B
    <2> QED BY <1>1, <2>1, LeastNumber
  <1>3. k \in Nat /\ k \in Months /\ i \in Nat /\ i < k
    BY MonthStartIs
  <1>4. k - 1 \in Months /\ (k - 1) + 1 = k /\ ~ (k <= k - 1)
    BY <1>3, CalendarConstants DEF Months
  <1>5. MonthStart[k] = MonthStart[k - 1] + MonthDays[k - 1] /\ MonthDays[k - 1] \in 28 .. 31
        /\ MonthStart[k - 1] \in Nat /\ MonthStart[i] \in Nat /\ MonthDays[i] \in 28 .. 31
    <2>1. MonthStart[(k - 1) + 1] = MonthStart[k - 1] + MonthDays[k - 1]
      BY <1>3, <1>4, MonthFollows
    <2> QED BY <1>4, <2>1, MonthDaysAre, MonthStartIs
  <1>6. CASE i = k - 1
    BY <1>2, <1>5, <1>6
  <1>7. CASE i # k - 1
    <2>1. MonthStart[i] + MonthDays[i] <= MonthStart[k - 1]
      BY <1>2, <1>3, <1>4, <1>7
    <2> QED BY <1>2, <1>5, <2>1
  <1> QED BY <1>6, <1>7

\* A day is in one month.
LEMMA MonthIsOne ==
  ASSUME NEW d \in Days, NEW i \in Months, MonthStart[i] <= d, d < MonthStart[i] + MonthDays[i]
  PROVE  Month[d] = i
  <1>1. d \in Nat /\ i \in Nat /\ MonthStart[i] \in Nat /\ MonthDays[i] \in 28 .. 31
        /\ 28 * i <= MonthStart[i] /\ MonthStart[i] <= 31 * i
    <2>1. 12 * Years - 1 \in Months
      BY CalendarConstants DEF Months
    <2> QED BY <2>1, MonthStartIs, MonthDaysAre, MonthsAreShort DEF Days
  <1> DEFINE P(k) == k \in Months /\ d \in MonthStart[k] .. MonthStart[k] + MonthDays[k] - 1
  <1>2. P(i)
    BY <1>1
  <1>3. i \in d \div 31 .. d \div 28
    BY <1>1
  <1>4. ASSUME NEW k, P(k) PROVE k = i
    <2>1. k \in Nat /\ MonthStart[k] \in Nat /\ MonthDays[k] \in 28 .. 31
      BY <1>4, MonthStartIs, MonthDaysAre
    <2>2. ~ (k < i)
      BY <1>1, <1>4, <2>1, MonthsFollow
    <2>3. ~ (i < k)
      BY <1>1, <1>4, <2>1, MonthsFollow
    <2> QED BY <1>1, <2>1, <2>2, <2>3
  <1>5. Month[d] = CHOOSE k \in d \div 31 .. d \div 28 : P(k)
    BY DEF Month
  <1> HIDE DEF P
  <1> QED BY <1>2, <1>3, <1>4, <1>5

LEMMA LastMonth ==
  /\ 12 * Years - 1 \in Months
  /\ MonthDays[12 * Years - 1] = 31
  <1>1. 12 * Years - 1 \in Months
    BY CalendarConstants DEF Months
  <1>2. NumberOf(12 * Years - 1) = 12
    BY CalendarConstants DEF NumberOf
  <1> QED BY <1>1, <1>2 DEF MonthDays

LEMMA MonthHolds ==
  ASSUME NEW d \in Days
  PROVE  /\ Month[d] \in Months
         /\ MonthStart[Month[d]] <= d
         /\ d < MonthStart[Month[d]] + MonthDays[Month[d]]
         /\ d \in Nat
  <1> DEFINE B == {k \in Months : d < MonthStart[k] + MonthDays[k]}
  <1>1. d \in Nat /\ d <= MonthStart[12 * Years - 1] + 30
    BY LastMonth, MonthStartIs DEF Days
  <1>2. 12 * Years - 1 \in B
    BY <1>1, LastMonth, MonthStartIs
  <1>3. PICK k \in B : \A l \in B : k <= l
    <2>1. B \in SUBSET Nat
      BY MonthStartIs
    <2> HIDE DEF B
    <2> QED BY <1>2, <2>1, LeastNumber
  <1>4. k \in Months /\ k \in Nat /\ d < MonthStart[k] + MonthDays[k]
    BY MonthStartIs
  <1>5. MonthStart[k] <= d
    <2>1. CASE k = 0
      BY <1>1, <2>1, FirstMonthStarts
    <2>2. CASE k # 0
      <3>1. k - 1 \in Months /\ (k - 1) + 1 = k /\ ~ (k <= k - 1)
        BY <1>4, <2>2, CalendarConstants DEF Months
      <3>2. k - 1 \notin B
        BY <1>3, <3>1
      <3>3. MonthStart[(k - 1) + 1] = MonthStart[k - 1] + MonthDays[k - 1]
        BY <1>4, <3>1, MonthFollows
      <3>4. MonthStart[k - 1] \in Nat /\ MonthDays[k - 1] \in 28 .. 31
        BY <3>1, MonthStartIs, MonthDaysAre
      <3> QED BY <1>1, <3>1, <3>2, <3>3, <3>4
    <2> QED BY <2>1, <2>2
  <1>6. Month[d] = k
    BY <1>4, <1>5, MonthIsOne
  <1> QED BY <1>1, <1>4, <1>5, <1>6

LEMMA MonthGrows ==
  ASSUME NEW d \in Days, NEW e \in Days, d <= e
  PROVE  Month[d] <= Month[e]
  <1>1. /\ d \in Nat /\ e \in Nat /\ Month[d] \in Months /\ Month[e] \in Months
        /\ MonthStart[Month[d]] <= d /\ e < MonthStart[Month[e]] + MonthDays[Month[e]]
    BY MonthHolds
  <1>2. /\ Month[d] \in Nat /\ Month[e] \in Nat
        /\ MonthStart[Month[d]] \in Nat /\ MonthStart[Month[e]] \in Nat
        /\ MonthDays[Month[e]] \in 28 .. 31
    BY <1>1, MonthStartIs, MonthDaysAre
  <1>3. ASSUME Month[e] < Month[d] PROVE FALSE
    <2>1. MonthStart[Month[e]] + MonthDays[Month[e]] <= MonthStart[Month[d]]
      BY <1>1, <1>3, MonthsFollow
    <2> QED BY <1>1, <1>2, <2>1
  <1> QED BY <1>2, <1>3

\* The days from the beginning of a month are those of that month and of later ones.
LEMMA SinceMonthStarts ==
  ASSUME NEW d \in Days, NEW i \in Months
  PROVE  d >= MonthStart[i] <=> Month[d] >= i
  <1>1. /\ d \in Nat /\ Month[d] \in Months /\ i \in Nat /\ MonthStart[i] \in Nat
        /\ MonthStart[Month[d]] <= d /\ d < MonthStart[Month[d]] + MonthDays[Month[d]]
    BY MonthHolds, MonthStartIs
  <1>2. /\ Month[d] \in Nat /\ MonthStart[Month[d]] \in Nat /\ MonthDays[Month[d]] \in 28 .. 31
        /\ MonthDays[i] \in 28 .. 31
    BY <1>1, MonthStartIs, MonthDaysAre
  <1>3. ASSUME Month[d] > i PROVE MonthStart[i] + MonthDays[i] <= MonthStart[Month[d]]
    BY <1>1, <1>2, <1>3, MonthsFollow
  <1>4. ASSUME Month[d] < i PROVE MonthStart[Month[d]] + MonthDays[Month[d]] <= MonthStart[i]
    BY <1>1, <1>2, <1>4, MonthsFollow
  <1> QED BY <1>1, <1>2, <1>3, <1>4

\* A day of a month.
LEMMA DayOfMonthIs ==
  ASSUME NEW i \in Months, NEW n \in Nat \ {0}, n <= MonthDays[i]
  PROVE  /\ MonthStart[i] + n - 1 \in Days
         /\ Month[MonthStart[i] + n - 1] = i
         /\ DayOfMonth(MonthStart[i] + n - 1) = n
  <1>1. MonthStart[i] \in Nat /\ MonthDays[i] \in 28 .. 31 /\ i \in Nat
    BY MonthStartIs, MonthDaysAre
  <1>2. MonthStart[i] + MonthDays[i] <= MonthStart[12 * Years - 1] + 31
        /\ MonthStart[12 * Years - 1] \in Nat
    <2>1. 12 * Years - 1 \in Months /\ MonthStart[12 * Years - 1] \in Nat
      BY LastMonth, MonthStartIs
    <2>2. CASE i = 12 * Years - 1
      BY <2>1, <2>2, LastMonth
    <2>3. CASE i # 12 * Years - 1
      <3>1. i < 12 * Years - 1
        BY <2>3, CalendarConstants DEF Months
      <3>2. MonthStart[i] + MonthDays[i] <= MonthStart[12 * Years - 1]
        BY <2>1, <3>1, MonthsFollow
      <3> QED BY <1>1, <2>1, <3>2
    <2> QED BY <2>2, <2>3, <2>1
  <1>3. MonthStart[i] + n - 1 \in Days
    BY <1>1, <1>2 DEF Days
  <1>4. Month[MonthStart[i] + n - 1] = i
    <2>1. MonthStart[i] <= MonthStart[i] + n - 1 /\ MonthStart[i] + n - 1 < MonthStart[i] + MonthDays[i]
      BY <1>1
    <2> QED BY <1>3, <2>1, MonthIsOne
  <1> QED BY <1>1, <1>3, <1>4 DEF DayOfMonth

LEMMA DayOfMonthHolds ==
  ASSUME NEW d \in Days
  PROVE  /\ DayOfMonth(d) \in 1 .. 31
         /\ d = MonthStart[Month[d]] + DayOfMonth(d) - 1
         /\ DayOfMonth(d) <= MonthDays[Month[d]]
         /\ MonthStart[Month[d]] \in Nat /\ d \in Nat
  <1>1. /\ Month[d] \in Months /\ MonthStart[Month[d]] <= d /\ d \in Nat
        /\ d < MonthStart[Month[d]] + MonthDays[Month[d]]
    BY MonthHolds
  <1>2. MonthStart[Month[d]] \in Nat /\ MonthDays[Month[d]] \in 28 .. 31
    BY <1>1, MonthStartIs, MonthDaysAre
  <1> QED BY <1>1, <1>2 DEF DayOfMonth

-----------------------------------------------------------------------------
(* Months as the application writes them *)

YearMonth(i) == [year |-> YearOf(i), month |-> NumberOf(i)]

LEMMA MonthIsWritten ==
  ASSUME NEW i \in Int, NEW j \in Int, YearOf(i) = YearOf(j), NumberOf(i) = NumberOf(j)
  PROVE  i = j
  <1>1. ASSUME NEW k \in Int
        PROVE  \E q \in Int, r \in 0 .. 11 : k = 12 * q + r /\ NumberOf(k) = r + 1
               /\ YearOf(k) = FirstYear + q
    BY MonthOfYear
  <1>2. PICK q \in Int, r \in 0 .. 11 : i = 12 * q + r /\ NumberOf(i) = r + 1
        /\ YearOf(i) = FirstYear + q
    BY <1>1
  <1>3. PICK p \in Int, s \in 0 .. 11 : j = 12 * p + s /\ NumberOf(j) = s + 1
        /\ YearOf(j) = FirstYear + p
    BY <1>1
  <1>4. FirstYear \in Nat
    BY CalendarConstants
  <1> QED BY <1>2, <1>3, <1>4

LEMMA YearMonthIsOne ==
  ASSUME NEW i \in Int, NEW j \in Int
  PROVE  YearMonth(i) = YearMonth(j) <=> i = j
  <1>1. ASSUME YearMonth(i) = YearMonth(j) PROVE i = j
    <2>1. YearOf(i) = YearOf(j) /\ NumberOf(i) = NumberOf(j)
      BY <1>1 DEF YearMonth
    <2> QED BY <2>1, MonthIsWritten
  <1> QED BY <1>1

LEMMA ShiftedMonth ==
  ASSUME NEW i \in Int, NEW k \in Int
  PROVE  shiftMonth(YearOf(i), NumberOf(i), k) = YearMonth(i + k)
  <1>1. YearOf(i) * 12 + (NumberOf(i) - 1) + k = 12 * FirstYear + (i + k)
    <2>1. /\ i \div 12 \in Int /\ i % 12 \in 0 .. 11 /\ i = 12 * (i \div 12) + (i % 12)
          /\ NumberOf(i) = (i % 12) + 1 /\ YearOf(i) = FirstYear + (i \div 12)
      BY MonthOfYear
    <2> QED BY <2>1, CalendarConstants
  <1>2. i + k \in Int
    OBVIOUS
  <1>3. /\ (12 * FirstYear + (i + k)) \div 12 = FirstYear + ((i + k) \div 12)
        /\ (12 * FirstYear + (i + k)) % 12 = (i + k) % 12
    <2>1. ASSUME NEW n \in Int, NEW y \in Nat
          PROVE  (12 * y + n) \div 12 = y + (n \div 12) /\ (12 * y + n) % 12 = n % 12
      OBVIOUS
    <2> QED BY <1>2, <2>1, CalendarConstants
  <1> QED BY <1>1, <1>3 DEF shiftMonth, YearMonth, YearOf, NumberOf

LEMMA WrittenMonthStarts ==
  ASSUME NEW i \in Int
  PROVE  monthStartISO(YearMonth(i)) = MonthStart[i]
  <1>1. (YearOf(i) - FirstYear) * 12 + NumberOf(i) - 1 = i
    <2>1. /\ i \div 12 \in Int /\ i % 12 \in 0 .. 11 /\ i = 12 * (i \div 12) + (i % 12)
          /\ NumberOf(i) = (i % 12) + 1 /\ YearOf(i) = FirstYear + (i \div 12)
      BY MonthOfYear
    <2> QED BY <2>1, CalendarConstants
  <1> QED BY <1>1 DEF monthStartISO, YearMonth

\* The days of a month are those from its first one to the first one of the next.
LEMMA DaysOfOneMonth ==
  ASSUME NEW d \in Days, NEW i \in Months, i + 1 \in Months
  PROVE  d >= MonthStart[i] /\ d < MonthStart[i + 1] <=> Month[d] = i
  <1>1. /\ d \in Nat /\ Month[d] \in Nat /\ i \in Nat
        /\ MonthStart[i] \in Nat /\ MonthStart[i + 1] \in Nat
    BY MonthHolds, MonthStartIs
  <1>2. d >= MonthStart[i] <=> Month[d] >= i
    BY SinceMonthStarts
  <1>3. d >= MonthStart[i + 1] <=> Month[d] >= i + 1
    BY SinceMonthStarts
  <1> QED BY <1>1, <1>2, <1>3

-----------------------------------------------------------------------------
(* The clock *)

LEMMA StartsOfDays ==
  ASSUME NEW t \in Int
  PROVE  /\ startOfBogotaDay(t) <= t
         /\ todayInBogota(startOfBogotaDay(t)) = todayInBogota(t)
         /\ todayInBogota(startOfBogotaDay(t) - 1) = todayInBogota(t) - 1
  BY DEF startOfBogotaDay, todayInBogota, Hours, Offset

LEMMA DayBefore ==
  ASSUME NEW d \in Int, NEW t, t = Hours * d + Offset
  PROVE  todayInBogota(t) = d /\ todayInBogota(t - 1) = d - 1
  BY DEF todayInBogota, Hours, Offset

LEMMA StartsOfMonths ==
  ASSUME NEW t \in Int, todayInBogota(t) \in Days, Month[todayInBogota(t)] # 0
  PROVE  /\ startOfBogotaMonth(t) <= startOfBogotaDay(t)
         /\ Month[todayInBogota(startOfBogotaMonth(t))] = Month[todayInBogota(t)]
         /\ Month[todayInBogota(startOfBogotaMonth(t) - 1)] = Month[todayInBogota(t)] - 1
  <1> DEFINE d == todayInBogota(t)
             i == Month[d]
  <1>1. d \in Nat /\ i \in Months /\ i \in Nat /\ MonthStart[i] <= d /\ MonthStart[i] \in Nat
    BY MonthHolds, MonthStartIs
  <1>2. startOfBogotaMonth(t) <= startOfBogotaDay(t)
    BY <1>1 DEF startOfBogotaMonth, startOfBogotaDay, Hours, Offset
  <1>3. /\ todayInBogota(startOfBogotaMonth(t)) = MonthStart[i]
        /\ todayInBogota(startOfBogotaMonth(t) - 1) = MonthStart[i] - 1
    <2>1. MonthStart[i] \in Int
      BY <1>1
    <2>2. startOfBogotaMonth(t) = Hours * MonthStart[i] + Offset
      BY DEF startOfBogotaMonth
    <2> HIDE DEF i, d
    <2> QED BY <2>1, <2>2, DayBefore
  <1>4. Month[MonthStart[i]] = i
    <2>1. 1 <= MonthDays[i] /\ MonthStart[i] + 1 - 1 = MonthStart[i]
      BY <1>1, MonthDaysAre
    <2>2. Month[MonthStart[i] + 1 - 1] = i
      BY <1>1, <2>1, DayOfMonthIs
    <2> QED BY <2>1, <2>2
  <1>5. Month[MonthStart[i] - 1] = i - 1
    <2>1. i - 1 \in Months /\ (i - 1) + 1 = i
      BY <1>1, CalendarConstants DEF Months
    <2>2. MonthStart[(i - 1) + 1] = MonthStart[i - 1] + MonthDays[i - 1]
      BY <1>1, <2>1, MonthFollows
    <2>3. MonthDays[i - 1] \in 28 .. 31 /\ MonthStart[i - 1] \in Nat
      BY <2>1, MonthDaysAre, MonthStartIs
    <2>4. MonthDays[i - 1] \in Nat \ {0} /\ MonthDays[i - 1] <= MonthDays[i - 1]
      BY <2>3
    <2>5. Month[MonthStart[i - 1] + MonthDays[i - 1] - 1] = i - 1
      BY <2>1, <2>4, DayOfMonthIs
    <2>6. MonthStart[i - 1] + MonthDays[i - 1] - 1 = MonthStart[i] - 1
      <3> HIDE DEF i, d
      <3> QED BY <2>1, <2>2, <2>3, <1>1
    <2> HIDE DEF i
    <2> QED BY <2>5, <2>6
  <1> QED BY <1>2, <1>3, <1>4, <1>5

-----------------------------------------------------------------------------
(* Due dates *)

LEMMA MinimumIs ==
  ASSUME NEW a \in Nat, NEW b \in Nat
  PROVE  Min({a, b}) = IF a < b THEN a ELSE b
  BY DEF Min

\* setMonth keeps the day of the month, or goes over a shorter month.
LEMMA SetMonthIs ==
  ASSUME NEW d \in Days, NEW i \in Months, i + 1 \in Months
  PROVE  /\ SetMonth(d, i) \in Days
         /\ Month[SetMonth(d, i)] = IF DayOfMonth(d) > MonthDays[i] THEN i + 1 ELSE i
  <1>1. DayOfMonth(d) \in 1 .. 31 /\ MonthDays[i] \in 28 .. 31 /\ MonthDays[i + 1] \in 28 .. 31
        /\ MonthStart[i] \in Nat /\ MonthStart[i + 1] = MonthStart[i] + MonthDays[i]
    BY DayOfMonthHolds, MonthDaysAre, MonthStartIs, MonthFollows
  <1>2. CASE DayOfMonth(d) > MonthDays[i]
    <2> DEFINE n == DayOfMonth(d) - MonthDays[i]
    <2>1. n \in Nat \ {0} /\ n <= MonthDays[i + 1]
      BY <1>1, <1>2
    <2>2. SetMonth(d, i) = MonthStart[i + 1] + n - 1
      BY <1>1 DEF SetMonth
    <2> HIDE DEF n
    <2>3. MonthStart[i + 1] + n - 1 \in Days /\ Month[MonthStart[i + 1] + n - 1] = i + 1
      BY <2>1, DayOfMonthIs
    <2> QED BY <1>2, <2>2, <2>3
  <1>3. CASE ~ (DayOfMonth(d) > MonthDays[i])
    <2>1. DayOfMonth(d) \in Nat \ {0} /\ DayOfMonth(d) <= MonthDays[i]
      BY <1>1, <1>3
    <2> QED BY <1>3, <2>1, DayOfMonthIs DEF SetMonth
  <1> QED BY <1>2, <1>3

LEMMA OnItsDayIs ==
  ASSUME NEW d \in Days, NEW n \in 1 .. 31
  PROVE  /\ OnItsDay(d, n) \in Days
         /\ Month[OnItsDay(d, n)] = Month[d]
         /\ DayOfMonth(OnItsDay(d, n)) = Min({n, MonthDays[Month[d]]})
  <1>1. Month[d] \in Months /\ MonthDays[Month[d]] \in 28 .. 31
    BY MonthHolds, MonthDaysAre
  <1> DEFINE m == IF n < MonthDays[Month[d]] THEN n ELSE MonthDays[Month[d]]
  <1>2. m \in Nat \ {0} /\ m <= MonthDays[Month[d]] /\ m = Min({n, MonthDays[Month[d]]})
    BY <1>1, MinimumIs
  <1>3. OnItsDay(d, n) = MonthStart[Month[d]] + m - 1
    BY DEF OnItsDay, SetDate
  <1> HIDE DEF m
  <1> QED BY <1>1, <1>2, <1>3, DayOfMonthIs

LEMMA DueDateIs ==
  ASSUME NEW d \in Days, Month[d] + 3 \in Months, NEW n \in 1 .. 31, NEW k \in 1 .. 2
  PROVE  LET due == OnItsDay(SetMonth(d, Month[d] + k), n) IN
         /\ due > d
         /\ Month[due] = IF DayOfMonth(d) > MonthDays[Month[d] + k] THEN Month[d] + k + 1
                         ELSE Month[d] + k
         /\ DayOfMonth(due) = Min({n, MonthDays[Month[due]]})
  <1> DEFINE due == OnItsDay(SetMonth(d, Month[d] + k), n)
  <1> DEFINE i == Month[d] + k
  <1>1. Month[d] \in Months /\ Month[d] \in Nat
    BY MonthHolds, MonthStartIs
  <1>2. i \in Months /\ i + 1 \in Months /\ Month[d] < i
    BY <1>1, CalendarConstants DEF Months
  <1>3. /\ SetMonth(d, i) \in Days
        /\ Month[SetMonth(d, i)] = IF DayOfMonth(d) > MonthDays[i] THEN i + 1 ELSE i
    BY <1>2, SetMonthIs
  <1>4. /\ due \in Days /\ Month[due] = Month[SetMonth(d, i)]
        /\ DayOfMonth(due) = Min({n, MonthDays[Month[due]]})
    BY <1>3, OnItsDayIs
  <1>5. Month[due] > Month[d]
    BY <1>1, <1>2, <1>3, <1>4
  <1>6. due > d
    <2>1. due \in Nat /\ d \in Nat /\ Month[due] \in Months /\ Month[due] \in Nat
      BY <1>4, MonthHolds, MonthStartIs
    <2>2. due <= d => Month[due] <= Month[d]
      BY <1>4, MonthGrows
    <2> QED BY <1>1, <1>5, <2>1, <2>2
  <1> QED BY <1>3, <1>4, <1>6

LEMMA DaysGoOn ==
  ASSUME NEW d \in Days, NEW n \in Nat
  PROVE  SetDate(d, DayOfMonth(d) + n) = d + n
  BY DayOfMonthHolds DEF SetDate

-----------------------------------------------------------------------------
(* Quota *)

\* The operators of the instance are those of Calendar and of the library.
LEMMA QuotaMonths ==
  /\ Quota!Months = Months
  /\ Quota!MonthDays = MonthDays
  /\ Quota!MonthStart = MonthStart
  /\ Quota!Days = Days
  <1>1. Quota!Months = Months
    BY DEF Months, Quota!Months
  <1>2. \A i : Quota!NumberOf(i) = NumberOf(i) /\ Quota!YearOf(i) = YearOf(i)
    BY DEF NumberOf, YearOf, Quota!NumberOf, Quota!YearOf
  <1>3. \A y : Quota!LeapYear(y) = LeapYear(y)
    BY DEF LeapYear, Quota!LeapYear
  <1>4. Quota!MonthDays = MonthDays
    BY DEF MonthDays, Quota!MonthDays, Months, Quota!Months, NumberOf, Quota!NumberOf,
           YearOf, Quota!YearOf, LeapYear, Quota!LeapYear
  <1>5. Quota!DaysBefore = DaysBefore
    BY DEF DaysBefore, Quota!DaysBefore
  <1>6. \A i : Quota!LeapDays(i) = LeapDays(i)
    BY DEF LeapDays, Quota!LeapDays, LeapYear, Quota!LeapYear, NumberOf, Quota!NumberOf,
           YearOf, Quota!YearOf, Quota!Cardinality, Cardinality
  <1>7. Quota!MonthStart = MonthStart
    BY <1>1, <1>2, <1>5, <1>6 DEF MonthStart, Quota!MonthStart
  <1>8. Quota!Days = Days
    BY <1>7 DEF Days, Quota!Days
  <1> QED BY <1>1, <1>4, <1>7, <1>8

LEMMA QuotaMonth == Quota!Month = Month
  <1>1. ASSUME NEW d
        PROVE  (CHOOSE i \in d \div 31 .. d \div 28 :
                  /\ i \in Quota!Months
                  /\ d \in Quota!MonthStart[i] .. Quota!MonthStart[i] + Quota!MonthDays[i] - 1)
               = (CHOOSE i \in d \div 31 .. d \div 28 :
                    i \in Months /\ d \in MonthStart[i] .. MonthStart[i] + MonthDays[i] - 1)
    BY QuotaMonths
  <1> QED BY <1>1, QuotaMonths DEF Month, Quota!Month

LEMMA QuotaClock ==
  /\ Quota!Hours = Hours /\ Quota!Offset = Offset
  /\ \A t : Quota!todayInBogota(t) = todayInBogota(t)
  BY DEF Hours, Offset, todayInBogota, Quota!Hours, Quota!Offset, Quota!todayInBogota

LEMMA QuotaStarts ==
  /\ \A t : Quota!startOfBogotaDay(t) = startOfBogotaDay(t)
  /\ \A t : Quota!startOfBogotaMonth(t) = startOfBogotaMonth(t)
  BY QuotaClock, QuotaMonth, QuotaMonths
  DEF startOfBogotaDay, startOfBogotaMonth, Quota!startOfBogotaDay, Quota!startOfBogotaMonth

LEMMA QuotaCardinality == ASSUME NEW S PROVE Quota!Cardinality(S) = Cardinality(S)
  BY DEF Quota!Cardinality, Cardinality

LEMMA QuotaMax == ASSUME NEW S PROVE Quota!Max(S) = Max(S)
  BY DEF Quota!Max, Max

LEMMA QuotaSum == ASSUME NEW f PROVE Quota!SumFunction(f) = SumFunction(f)
  BY DEF Quota!SumFunction, SumFunction, Quota!SumFunctionOnSet, SumFunctionOnSet,
         Quota!FoldFunctionOnSet, FoldFunctionOnSet, Quota!MapThenFoldSet, MapThenFoldSet

\* What its definitions say with them.
LEMMA QuotaSpent == ASSUME NEW S PROVE Quota!Spent(S) = SumFunction([u \in S |-> usage[u].cost])
  BY QuotaSum DEF Quota!Spent

LEMMA QuotaReads ==
  ASSUME NEW t
  PROVE  /\ Quota!spentToday(t) = Quota!Spent(Quota!Since(startOfBogotaDay(t)))
         /\ Quota!spentMonth(t) = Quota!Spent(Quota!Since(startOfBogotaMonth(t)))
         /\ Quota!requestsLastMinute(t) = Cardinality(Quota!Since(t))
  BY QuotaStarts, QuotaCardinality
  DEF Quota!spentToday, Quota!spentMonth, Quota!requestsLastMinute

LEMMA QuotaInFlight == Quota!InFlight = Cardinality(Askers) * Max(Costs)
  BY QuotaCardinality, QuotaMax DEF Quota!InFlight

LEMMA QuotaSpans ==
  ASSUME NEW t
  PROVE  /\ {v \in Quota!Recorded : Quota!todayInBogota(usage[v].at) = Quota!todayInBogota(t)}
              = {v \in Quota!Recorded : todayInBogota(usage[v].at) = todayInBogota(t)}
         /\ {v \in Quota!Recorded : Quota!Month[Quota!todayInBogota(usage[v].at)]
                                      = Quota!Month[Quota!todayInBogota(t)]}
              = {v \in Quota!Recorded : Month[todayInBogota(usage[v].at)] = Month[todayInBogota(t)]}
  BY QuotaClock, QuotaMonth

LEMMA QuotaLimitsEnd ==
  LET tomorrow == Hours * (todayInBogota(time) + 1) + Offset
      nextMonth == Hours * MonthStart[Month[todayInBogota(time)] + 1] + Offset
  IN  Quota!LimitsEnd <=> Quota!getQuota(tomorrow) # "daily" /\ Quota!getQuota(nextMonth) = "none"
  BY QuotaClock, QuotaMonth, QuotaMonths DEF Quota!LimitsEnd

\* A finite set of natural numbers has a maximum.
LEMMA MaximumExists ==
  ASSUME NEW S, IsFiniteSet(S), S # {}
  PROVE  S \subseteq Nat => \E m \in S : \A x \in S : m >= x
  <1> DEFINE B == {u \in SUBSET S : u # {} /\ ~ \E m \in u : \A x \in u : m >= x}
  <1>0. SUFFICES ASSUME S \subseteq Nat PROVE \E m \in S : \A x \in S : m >= x
    OBVIOUS
  <1>1. SUFFICES ASSUME B # {} PROVE FALSE
    OBVIOUS
  <1>2. PICK u \in B : \A v \in B : v \subseteq u => v = u
    <2>1. B \in SUBSET (SUBSET S)
      OBVIOUS
    <2> HIDE DEF B
    <2> QED BY <1>1, <2>1, MinimalSubset
  <1>3. PICK e \in u : TRUE
    OBVIOUS
  <1>4. u \ {e} \notin B /\ u \ {e} \in SUBSET S /\ u \in SUBSET Nat
    BY <1>0, <1>2, <1>3
  <1>5. CASE u \ {e} = {}
    <2>1. \A x \in u : e >= x
      BY <1>4, <1>5
    <2> QED BY <1>2, <1>3, <2>1
  <1>6. CASE u \ {e} # {}
    <2>1. PICK m \in u \ {e} : \A x \in u \ {e} : m >= x
      BY <1>4, <1>6
    <2>2. CASE m >= e
      <3>1. \A x \in u : m >= x
        BY <2>1, <2>2
      <3> QED BY <1>2, <2>1, <3>1
    <2>3. CASE ~ (m >= e)
      <3>1. \A x \in u : e >= x
        BY <1>3, <1>4, <2>1, <2>3
      <3> QED BY <1>2, <1>3, <3>1
    <2> QED BY <2>2, <2>3
  <1> QED BY <1>5, <1>6

LEMMA CostsAreBounded == Max(Costs) \in Nat /\ \A cost \in Costs : cost \in Nat /\ cost <= Max(Costs)
  <1>1. \E m \in Costs : \A x \in Costs : m >= x
    BY QuotaConstants, MaximumExists
  <1>2. Max(Costs) \in Costs /\ \A x \in Costs : Max(Costs) >= x
    BY <1>1 DEF Max
  <1> QED BY <1>2, QuotaConstants

-----------------------------------------------------------------------------
(* Days and months of the instants *)

LEMMA InstantFacts ==
  ASSUME NEW t \in Int
  PROVE  /\ todayInBogota(t) \in Int
         /\ Hours * todayInBogota(t) + Offset <= t
         /\ t < Hours * (todayInBogota(t) + 1) + Offset
         /\ \A d \in Int : todayInBogota(Hours * d + Offset) = d
  BY DEF todayInBogota, Hours, Offset

\* The day of an instant.
LEMMA DayOfInstant ==
  ASSUME NEW t \in Times
  PROVE  /\ t \in Nat /\ todayInBogota(t) \in Nat /\ todayInBogota(t) \in Days
         /\ todayInBogota(t) < MonthStart[12 * Years - 1]
         /\ Month[todayInBogota(t)] \in Months
  <1>1. t \in Nat /\ todayInBogota(t) \in 0 .. MonthStart[12 * Years - 1] - 1
        /\ MonthStart[12 * Years - 1] \in Nat
    BY QuotaConstants, LastMonth, MonthStartIs
  <1>2. todayInBogota(t) \in Days
    BY <1>1 DEF Days
  <1> QED BY <1>1, <1>2, MonthHolds

LEMMA DaysGrow ==
  ASSUME NEW s \in Times, NEW t \in Times
  PROVE  /\ s <= t => todayInBogota(s) <= todayInBogota(t)
         /\ s <= t => Month[todayInBogota(s)] <= Month[todayInBogota(t)]
         /\ s >= startOfBogotaDay(t) <=> todayInBogota(s) >= todayInBogota(t)
         /\ s >= startOfBogotaMonth(t) <=> Month[todayInBogota(s)] >= Month[todayInBogota(t)]
  <1>1. /\ s \in Nat /\ t \in Nat /\ todayInBogota(s) \in Days /\ todayInBogota(t) \in Days
        /\ Month[todayInBogota(t)] \in Months
    BY DayOfInstant
  <1>2. s <= t => todayInBogota(s) <= todayInBogota(t)
    BY <1>1 DEF todayInBogota, Hours, Offset
  <1>3. ASSUME NEW d \in Int PROVE s >= Hours * d + Offset <=> todayInBogota(s) >= d
    BY <1>1 DEF todayInBogota, Hours, Offset
  <1>4. s >= startOfBogotaDay(t) <=> todayInBogota(s) >= todayInBogota(t)
    BY <1>1, <1>3, InstantFacts DEF startOfBogotaDay
  <1>5. s >= startOfBogotaMonth(t) <=> Month[todayInBogota(s)] >= Month[todayInBogota(t)]
    <2>1. MonthStart[Month[todayInBogota(t)]] \in Int
      BY <1>1, MonthStartIs
    <2>2. s >= startOfBogotaMonth(t) <=> todayInBogota(s) >= MonthStart[Month[todayInBogota(t)]]
      BY <1>3, <2>1 DEF startOfBogotaMonth
    <2> QED BY <1>1, <2>2, SinceMonthStarts
  <1>6. s <= t => Month[todayInBogota(s)] <= Month[todayInBogota(t)]
    BY <1>1, <1>2, MonthGrows
  <1> QED BY <1>2, <1>4, <1>5, <1>6

\* Nothing that has happened happened tomorrow or next month.
LEMMA LimitsEndInTheFuture ==
  ASSUME NEW s \in Times, NEW t \in Times, s <= t,
         NEW tomorrow, tomorrow = Hours * (todayInBogota(t) + 1) + Offset,
         NEW nextMonth, nextMonth = Hours * MonthStart[Month[todayInBogota(t)] + 1] + Offset
  PROVE  /\ ~ (s >= startOfBogotaDay(tomorrow))
         /\ ~ (s >= startOfBogotaDay(nextMonth))
         /\ ~ (s >= startOfBogotaMonth(nextMonth))
         /\ ~ (s >= nextMonth)
  <1> DEFINE d == todayInBogota(t)
             i == Month[d]
  <1>1. /\ s \in Nat /\ t \in Nat /\ d \in Nat /\ d \in Days /\ i \in Months
        /\ d < MonthStart[12 * Years - 1] /\ i \in Nat
    BY DayOfInstant, MonthStartIs
  <1>2. s < Hours * (d + 1) + Offset /\ Hours * (d + 1) + Offset \in Int
    BY <1>1, InstantFacts DEF Hours, Offset
  <1>3. startOfBogotaDay(tomorrow) = tomorrow
    <2>1. d + 1 \in Int
      BY <1>1
    <2>2. todayInBogota(Hours * (d + 1) + Offset) = d + 1
      BY <1>1, <2>1, InstantFacts
    <2> QED BY <2>2 DEF startOfBogotaDay
  <1>4. i + 1 \in Months /\ d + 1 <= MonthStart[i + 1] /\ MonthStart[i + 1] \in Days
        /\ MonthStart[i + 1] \in Nat
    <2>1. i # 12 * Years - 1
      <3>1. MonthStart[i] <= d /\ MonthStart[i] \in Nat
        BY <1>1, MonthHolds, MonthStartIs
      <3> HIDE DEF d, i
      <3> QED BY <1>1, <3>1
    <2>2. i + 1 \in Months
      BY <1>1, <2>1, CalendarConstants DEF Months
    <2>3. MonthStart[i + 1] = MonthStart[i] + MonthDays[i] /\ d < MonthStart[i] + MonthDays[i]
      BY <1>1, <2>2, MonthFollows, MonthHolds
    <2>4. MonthStart[i + 1] \in Nat /\ MonthStart[12 * Years - 1] \in Nat
      BY <2>2, LastMonth, MonthStartIs
    <2>5. MonthStart[i + 1] <= MonthStart[12 * Years - 1]
      <3>1. i + 1 <= 12 * Years - 1 /\ i + 1 \in Int /\ 12 * Years - 1 \in Int
        BY <1>1, <2>2, CalendarConstants DEF Months
      <3>2. CASE i + 1 = 12 * Years - 1
        BY <2>4, <3>2
      <3>3. CASE i + 1 < 12 * Years - 1
        <4>1. MonthStart[i + 1] + MonthDays[i + 1] <= MonthStart[12 * Years - 1]
          BY <2>2, <3>3, LastMonth, MonthsFollow
        <4>2. MonthDays[i + 1] \in 28 .. 31
          BY <2>2, MonthDaysAre
        <4> QED BY <2>4, <4>1, <4>2
      <3> QED BY <3>1, <3>2, <3>3
    <2>6. MonthStart[i + 1] \in Days
      BY <2>4, <2>5 DEF Days
    <2> QED BY <1>1, <2>2, <2>3, <2>4, <2>6
  <1>5. todayInBogota(nextMonth) = MonthStart[i + 1]
    BY <1>1, <1>4, InstantFacts
  <1>6. startOfBogotaDay(nextMonth) = nextMonth
    BY <1>5 DEF startOfBogotaDay
  <1>7. Month[MonthStart[i + 1]] = i + 1
    <2>1. MonthDays[i + 1] \in 28 .. 31
      BY <1>4, MonthDaysAre
    <2> QED BY <1>4, <2>1, MonthIsOne
  <1>8. startOfBogotaMonth(nextMonth) = nextMonth
    BY <1>5, <1>7 DEF startOfBogotaMonth
  <1>9. ~ (s >= tomorrow) /\ ~ (s >= nextMonth)
    <2>1. Hours * (d + 1) + Offset <= Hours * MonthStart[i + 1] + Offset
      BY <1>1, <1>4 DEF Hours, Offset
    <2>2. Hours * MonthStart[i + 1] + Offset \in Int
      BY <1>4 DEF Hours, Offset
    <2> HIDE DEF d, i
    <2> QED BY <1>1, <1>2, <2>1, <2>2 DEF d, i
  <1> QED BY <1>3, <1>6, <1>8, <1>9

-----------------------------------------------------------------------------
\* The rows of some instants, and what they cost.
Calls(rows, A) == {u \in DOMAIN rows : rows[u].at \in A}
CostOf(rows, A) == SumFunction([u \in Calls(rows, A) |-> rows[u].cost])

DayOf(t) == {s \in Times : todayInBogota(s) = todayInBogota(t)}
MonthOf(t) == {s \in Times : Month[todayInBogota(s)] = Month[todayInBogota(t)]}

RowsType == Seq([at : Times, cost : Costs])

LEMMA QuotaElementsAreTyped ==
  ASSUME NEW S, NEW s \in Seq(S)
  PROVE  \A i \in DOMAIN s : s[i] \in S
  OBVIOUS

LEMMA LimitHolds ==
  ASSUME NEW limit \in Nat, NEW spent \in Nat, NEW cost \in Nat, NEW most \in Nat, NEW held \in Nat,
         cost <= most, spent + (held + most) < limit
  PROVE  (spent + cost) + held < limit /\ spent + cost < limit
  OBVIOUS

LEMMA QuotaRowsAreTyped ==
  ASSUME NEW rows \in RowsType
  PROVE  /\ Len(rows) \in Nat /\ DOMAIN rows = 1 .. Len(rows)
         /\ \A u \in DOMAIN rows : rows[u].at \in Times
         /\ \A u \in DOMAIN rows : rows[u].cost \in Nat
  <1>1. Len(rows) \in Nat /\ DOMAIN rows = 1 .. Len(rows)
    BY DEF RowsType
  <1>2. \A u \in DOMAIN rows : rows[u] \in [at : Times, cost : Costs]
    BY QuotaElementsAreTyped DEF RowsType
  <1>3. \A u \in DOMAIN rows : rows[u].at \in Times /\ rows[u].cost \in Costs
    BY <1>2
  <1> QED BY <1>1, <1>3, CostsAreBounded

LEMMA CostIs ==
  ASSUME NEW rows, NEW A
  PROVE  CostOf(rows, A) = SumFunctionOnSet([u \in Calls(rows, A) |-> rows[u].cost], Calls(rows, A))
  BY DEF CostOf, SumFunction

LEMMA CostIsNatural ==
  ASSUME NEW rows \in RowsType, NEW A
  PROVE  /\ IsFiniteSet(Calls(rows, A))
         /\ Cardinality(Calls(rows, A)) \in Nat
         /\ CostOf(rows, A) \in Nat
         /\ \A u \in Calls(rows, A) : rows[u].cost \in Nat
  <1>1. Calls(rows, A) \subseteq 1 .. Len(rows) /\ Len(rows) \in Nat
    BY DEF Calls, RowsType
  <1>2. IsFiniteSet(1 .. Len(rows))
    <2>1. Len(rows) \in Int /\ 1 \in Int
      BY <1>1
    <2> QED BY <2>1, FS_Interval
  <1>3. IsFiniteSet(Calls(rows, A)) /\ Cardinality(Calls(rows, A)) \in Nat
    BY <1>1, <1>2, FS_Subset, FS_CardinalityType
  <1>4. \A u \in Calls(rows, A) : rows[u].cost \in Nat
    BY QuotaRowsAreTyped DEF Calls
  <1>5. CostOf(rows, A) \in Int /\ CostOf(rows, A) >= 0
    <2> DEFINE S == Calls(rows, A)
               f == [u \in S |-> rows[u].cost]
    <2>1. \A u \in S : f[u] \in Nat
      BY <1>4
    <2>2. CostOf(rows, A) = SumFunctionOnSet(f, S)
      BY CostIs
    <2> HIDE DEF f, S
    <2>3. IsFiniteSet(S)
      BY <1>3 DEF S
    <2> QED BY <2>1, <2>2, <2>3, SumIsNatural
  <1> QED BY <1>3, <1>4, <1>5

LEMMA CostOfNoCalls ==
  ASSUME NEW rows, NEW A, Calls(rows, A) = {}
  PROVE  CostOf(rows, A) = 0 /\ Cardinality(Calls(rows, A)) = 0
  BY CostIs, SumOfNone, FS_EmptySet

Added(rows, t, cost) == Append(rows, [at |-> t, cost |-> cost])

LEMMA RowIsAdded ==
  ASSUME NEW rows \in RowsType, NEW t \in Times, NEW cost \in Costs
  PROVE  /\ Added(rows, t, cost) \in RowsType
         /\ DOMAIN Added(rows, t, cost) = DOMAIN rows \union {Len(rows) + 1}
         /\ Len(rows) + 1 \notin DOMAIN rows
  <1>1. /\ Added(rows, t, cost) \in RowsType /\ Len(rows) \in Nat
        /\ Len(Added(rows, t, cost)) = Len(rows) + 1
    BY DEF RowsType, Added
  <1>2. DOMAIN Added(rows, t, cost) = 1 .. Len(rows) + 1 /\ DOMAIN rows = 1 .. Len(rows)
    BY <1>1 DEF RowsType
  <1> QED BY <1>1, <1>2

LEMMA OldRowsStay ==
  ASSUME NEW rows \in RowsType, NEW t \in Times, NEW cost \in Costs, NEW u \in DOMAIN rows
  PROVE  Added(rows, t, cost)[u] = rows[u]
  <1>1. u \in 1 .. Len(rows)
    BY DEF RowsType
  <1> QED BY <1>1 DEF RowsType, Added

LEMMA QuotaNewRow ==
  ASSUME NEW rows \in RowsType, NEW t \in Times, NEW cost \in Costs
  PROVE  Added(rows, t, cost)[Len(rows) + 1] = [at |-> t, cost |-> cost]
  BY DEF RowsType, Added

LEMMA CallCosts ==
  ASSUME NEW rows \in RowsType, NEW A, NEW t \in Times, NEW cost \in Costs
  PROVE  /\ CostOf(Added(rows, t, cost), A) = CostOf(rows, A) + IF t \in A THEN cost ELSE 0
         /\ Cardinality(Calls(Added(rows, t, cost), A)) = Cardinality(Calls(rows, A))
              + IF t \in A THEN 1 ELSE 0
  <1> DEFINE more == Added(rows, t, cost)
  <1> DEFINE n == Len(rows) + 1
  <1>1. /\ more \in RowsType /\ DOMAIN more = DOMAIN rows \union {n} /\ n \notin DOMAIN rows
        /\ \A u \in DOMAIN rows : more[u] = rows[u]
        /\ more[n].at = t /\ more[n].cost = cost
    <2>1. more[n] = [at |-> t, cost |-> cost]
      BY QuotaNewRow
    <2>2. ASSUME NEW u \in DOMAIN rows PROVE more[u] = rows[u]
      BY OldRowsStay
    <2>3. more \in RowsType /\ DOMAIN more = DOMAIN rows \union {n} /\ n \notin DOMAIN rows
      BY RowIsAdded
    <2> HIDE DEF more, n
    <2> QED BY <2>1, <2>2, <2>3
  <1> HIDE DEF n, more
  <1> DEFINE S == Calls(rows, A)
             f == [u \in S |-> rows[u].cost]
  <1>2. IsFiniteSet(S) /\ Cardinality(S) \in Nat /\ n \notin S /\ (\A u \in S : rows[u].cost \in Nat)
        /\ CostOf(rows, A) \in Nat /\ S \subseteq DOMAIN rows
    BY <1>1, CostIsNatural DEF Calls
  <1>3. CASE t \in A
    <2>1. Calls(more, A) = S \union {n}
      BY <1>1, <1>3 DEF Calls
    <2> DEFINE g == [u \in S \union {n} |-> more[u].cost]
    <2>2. CostOf(more, A) = SumFunctionOnSet(g, S \union {n})
      BY <2>1, CostIs
    <2>3. CostOf(rows, A) = SumFunctionOnSet(f, S)
      BY CostIs
    <2>4. (\A u \in S : g[u] = f[u]) /\ g[n] = cost /\ (\A u \in S : g[u] \in Int) /\ cost \in Int
      BY <1>1, <1>2, CostsAreBounded
    <2>5. Cardinality(S \union {n}) = Cardinality(S) + 1
      BY <1>2, FS_AddElement
    <2> HIDE DEF f, g, S
    <2>6. SumFunctionOnSet(g, S \union {n}) = SumFunctionOnSet(g, S) + g[n]
      BY <1>2, <2>4, SumWithElement
    <2>7. SumFunctionOnSet(g, S) = SumFunctionOnSet(f, S)
      BY <1>2, <2>4, SumOfSame
    <2>8. CostOf(more, A) = CostOf(rows, A) + cost
      BY <2>2, <2>3, <2>4, <2>6, <2>7
    <2> QED BY <1>1, <1>3, <2>1, <2>5, <2>8 DEF n, S, more
  <1>4. CASE t \notin A
    <2>1. Calls(more, A) = S
      BY <1>1, <1>4 DEF Calls
    <2>2. [u \in S |-> more[u].cost] = f
      BY <1>1, <1>2
    <2>3. CostOf(more, A) = CostOf(rows, A)
      BY <2>1, <2>2 DEF CostOf
    <2> QED BY <1>1, <1>2, <1>4, <2>1, <2>3 DEF n, more
  <1> QED BY <1>3, <1>4

\* The instants of a day, of a month and of a minute are apart from the others.
LEMMA SpansAreApart ==
  ASSUME NEW s \in Times, NEW t \in Times
  PROVE  /\ t \in DayOf(t) /\ t \in MonthOf(t)
         /\ s \in DayOf(t) => DayOf(s) = DayOf(t)
         /\ s \in MonthOf(t) => MonthOf(s) = MonthOf(t)
         /\ t \in DayOf(s) => DayOf(s) = DayOf(t)
         /\ t \in MonthOf(s) => MonthOf(s) = MonthOf(t)
  BY DEF DayOf, MonthOf

Bounded(rows) ==
  \A u \in DOMAIN rows :
     /\ CostOf(rows, DayOf(rows[u].at)) < DailyUsd + Quota!InFlight
     /\ CostOf(rows, MonthOf(rows[u].at)) < MonthlyUsd + Quota!InFlight
     /\ Cardinality(Calls(rows, {rows[u].at})) < PerMinute + Cardinality(Askers)

Room(rows, t, n) ==
  /\ CostOf(rows, DayOf(t)) + n * Max(Costs) < DailyUsd + Quota!InFlight
  /\ CostOf(rows, MonthOf(t)) + n * Max(Costs) < MonthlyUsd + Quota!InFlight
  /\ Cardinality(Calls(rows, {t})) + n < PerMinute + Cardinality(Askers)

Past(rows, t) == \A u \in DOMAIN rows : rows[u].at <= t

LEMMA QuotaProducts ==
  ASSUME NEW a \in Nat, NEW b \in Nat, a <= b
  PROVE  /\ a * Max(Costs) \in Nat /\ b * Max(Costs) \in Nat
         /\ a * Max(Costs) <= b * Max(Costs)
         /\ (a + 1) * Max(Costs) = a * Max(Costs) + Max(Costs)
  <1>1. Max(Costs) \in Nat
    BY CostsAreBounded
  <1>2. ASSUME NEW m \in Nat
        PROVE  a * m \in Nat /\ b * m \in Nat /\ a * m <= b * m /\ (a + 1) * m = a * m + m
    <2>1. PICK c \in Nat : b = a + c
      <3>1. b - a \in Nat /\ b = a + (b - a)
        OBVIOUS
      <3> QED BY <3>1
    <2>2. b * m = a * m + c * m /\ a * m \in Nat /\ c * m \in Nat
      BY <2>1
    <2> QED BY <2>2
  <1> QED BY <1>1, <1>2

LEMMA QuotaNumbers ==
  /\ Cardinality(Askers) \in Nat /\ Quota!InFlight \in Nat
  /\ DailyUsd \in Nat \ {0} /\ MonthlyUsd \in Nat \ {0} /\ PerMinute \in Nat \ {0}
  /\ \A n \in Nat : n <= Cardinality(Askers)
       => n * Max(Costs) \in Nat /\ n * Max(Costs) <= Quota!InFlight
  <1>1. Cardinality(Askers) \in Nat
    BY QuotaConstants, FS_CardinalityType
  <1> QED BY <1>1, QuotaConstants, QuotaProducts, QuotaInFlight

LEMMA RoomStays ==
  ASSUME NEW rows \in RowsType, NEW t \in Times, NEW n \in Nat, NEW m \in Nat, m <= n,
         Room(rows, t, n)
  PROVE  Room(rows, t, m)
  <1>1. m * Max(Costs) \in Nat /\ n * Max(Costs) \in Nat /\ m * Max(Costs) <= n * Max(Costs)
    BY QuotaProducts
  <1>2. /\ CostOf(rows, DayOf(t)) \in Nat /\ CostOf(rows, MonthOf(t)) \in Nat
        /\ Cardinality(Calls(rows, {t})) \in Nat
    BY CostIsNatural
  <1> QED BY <1>1, <1>2, QuotaNumbers DEF Room

\* A request that was allowed records its cost.
LEMMA RoomIsUsed ==
  ASSUME NEW rows \in RowsType, NEW t \in Times, NEW cost \in Costs, NEW n \in Nat,
         Room(rows, t, n + 1), Bounded(rows),
         NEW more, more = Added(rows, t, cost)
  PROVE  Room(more, t, n) /\ Bounded(more)
  <1>1. /\ n * Max(Costs) \in Nat /\ (n + 1) * Max(Costs) = n * Max(Costs) + Max(Costs)
        /\ Max(Costs) \in Nat /\ cost \in Nat /\ cost <= Max(Costs)
    <2>1. n + 1 \in Nat /\ n <= n + 1
      OBVIOUS
    <2> QED BY <2>1, QuotaProducts, CostsAreBounded
  <1>2. \A A : CostOf(rows, A) \in Nat /\ Cardinality(Calls(rows, A)) \in Nat
    BY CostIsNatural
  <1>3. /\ \A A : CostOf(more, A) = CostOf(rows, A) + IF t \in A THEN cost ELSE 0
        /\ \A A : Cardinality(Calls(more, A)) = Cardinality(Calls(rows, A)) + IF t \in A THEN 1 ELSE 0
        /\ \A u \in DOMAIN rows : more[u] = rows[u]
        /\ \A u \in DOMAIN more : u \in DOMAIN rows \/ more[u].at = t
        /\ \A u \in DOMAIN rows : rows[u].at \in Times
    <2>1. ASSUME NEW A
          PROVE  /\ CostOf(more, A) = CostOf(rows, A) + IF t \in A THEN cost ELSE 0
                 /\ Cardinality(Calls(more, A)) = Cardinality(Calls(rows, A)) + IF t \in A THEN 1 ELSE 0
      BY CallCosts
    <2>2. DOMAIN more = DOMAIN rows \union {Len(rows) + 1}
      BY RowIsAdded
    <2>3. more[Len(rows) + 1] = [at |-> t, cost |-> cost]
      BY QuotaNewRow
    <2>4. ASSUME NEW u \in DOMAIN rows PROVE more[u] = rows[u]
      BY OldRowsStay
    <2>5. \A u \in DOMAIN rows : rows[u].at \in Times
      BY QuotaRowsAreTyped
    <2> QED BY <2>1, <2>2, <2>3, <2>4, <2>5
  <1>4. t \in DayOf(t) /\ t \in MonthOf(t) /\ t \in {t}
    BY SpansAreApart
  <1>5. Room(more, t, n)
    <2>1. /\ CostOf(more, DayOf(t)) = CostOf(rows, DayOf(t)) + cost
          /\ CostOf(more, MonthOf(t)) = CostOf(rows, MonthOf(t)) + cost
          /\ Cardinality(Calls(more, {t})) = Cardinality(Calls(rows, {t})) + 1
      BY <1>3, <1>4
    <2>2. /\ CostOf(rows, DayOf(t)) \in Nat /\ CostOf(rows, MonthOf(t)) \in Nat
          /\ Cardinality(Calls(rows, {t})) \in Nat
      BY <1>2
    <2>3. /\ CostOf(rows, DayOf(t)) + (n + 1) * Max(Costs) < DailyUsd + Quota!InFlight
          /\ CostOf(rows, MonthOf(t)) + (n + 1) * Max(Costs) < MonthlyUsd + Quota!InFlight
          /\ Cardinality(Calls(rows, {t})) + (n + 1) < PerMinute + Cardinality(Askers)
      BY DEF Room
    <2>4. Quota!InFlight \in Nat /\ DailyUsd \in Nat /\ MonthlyUsd \in Nat /\ PerMinute \in Nat
          /\ Cardinality(Askers) \in Nat
      BY QuotaNumbers
    <2>5. /\ CostOf(more, DayOf(t)) + n * Max(Costs) < DailyUsd + Quota!InFlight
          /\ CostOf(more, MonthOf(t)) + n * Max(Costs) < MonthlyUsd + Quota!InFlight
      <3>1. PICK held \in Nat : held = n * Max(Costs) /\ (n + 1) * Max(Costs) = held + Max(Costs)
        BY <1>1
      <3> QED BY <1>1, <2>1, <2>2, <2>3, <2>4, <3>1, LimitHolds
    <2>6. Cardinality(Calls(more, {t})) + n < PerMinute + Cardinality(Askers)
      BY <2>1, <2>2, <2>3, <2>4
    <2> QED BY <2>5, <2>6 DEF Room
  <1>6. Bounded(more)
    <2>1. SUFFICES ASSUME NEW u \in DOMAIN more
                   PROVE  /\ CostOf(more, DayOf(more[u].at)) < DailyUsd + Quota!InFlight
                          /\ CostOf(more, MonthOf(more[u].at)) < MonthlyUsd + Quota!InFlight
                          /\ Cardinality(Calls(more, {more[u].at})) < PerMinute + Cardinality(Askers)
      BY DEF Bounded
    <2>2. PICK s \in Times : s = more[u].at
      BY <1>3, <2>1
    <2>3. s # t => u \in DOMAIN rows /\ s = rows[u].at
      BY <1>3, <2>2
    <2>4. /\ CostOf(more, DayOf(t)) < DailyUsd + Quota!InFlight
          /\ CostOf(more, MonthOf(t)) < MonthlyUsd + Quota!InFlight
          /\ Cardinality(Calls(more, {t})) < PerMinute + Cardinality(Askers)
      <3>1. /\ CostOf(more, DayOf(t)) \in Nat /\ CostOf(more, MonthOf(t)) \in Nat
            /\ Cardinality(Calls(more, {t})) \in Nat
        <4>1. more \in RowsType
          BY RowIsAdded
        <4> QED BY <4>1, CostIsNatural
      <3>2. /\ CostOf(more, DayOf(t)) + n * Max(Costs) < DailyUsd + Quota!InFlight
            /\ CostOf(more, MonthOf(t)) + n * Max(Costs) < MonthlyUsd + Quota!InFlight
            /\ Cardinality(Calls(more, {t})) + n < PerMinute + Cardinality(Askers)
        BY <1>5 DEF Room
      <3>3. Quota!InFlight \in Nat /\ DailyUsd \in Nat /\ MonthlyUsd \in Nat /\ PerMinute \in Nat
            /\ Cardinality(Askers) \in Nat
        BY QuotaNumbers
      <3>4. PICK held \in Nat : held = n * Max(Costs)
        BY <1>1
      <3> QED BY <3>1, <3>2, <3>3, <3>4
    <2>5. CostOf(more, DayOf(s)) < DailyUsd + Quota!InFlight
      <3>1. CASE t \in DayOf(s)
        BY <2>4, <3>1, SpansAreApart
      <3>2. CASE t \notin DayOf(s)
        <4>1. s # t /\ CostOf(more, DayOf(s)) = CostOf(rows, DayOf(s))
          <5>1. s # t
            BY <1>4, <3>2
          <5>2. CostOf(more, DayOf(s)) = CostOf(rows, DayOf(s)) + 0 /\ CostOf(rows, DayOf(s)) \in Nat
            BY <1>2, <1>3, <3>2
          <5> QED BY <5>1, <5>2
        <4> QED BY <2>3, <4>1 DEF Bounded
      <3> QED BY <3>1, <3>2
    <2>6. CostOf(more, MonthOf(s)) < MonthlyUsd + Quota!InFlight
      <3>1. CASE t \in MonthOf(s)
        BY <2>4, <3>1, SpansAreApart
      <3>2. CASE t \notin MonthOf(s)
        <4>1. s # t /\ CostOf(more, MonthOf(s)) = CostOf(rows, MonthOf(s))
          <5>1. s # t
            BY <1>4, <3>2
          <5>2. CostOf(more, MonthOf(s)) = CostOf(rows, MonthOf(s)) + 0
                /\ CostOf(rows, MonthOf(s)) \in Nat
            BY <1>2, <1>3, <3>2
          <5> QED BY <5>1, <5>2
        <4> QED BY <2>3, <4>1 DEF Bounded
      <3> QED BY <3>1, <3>2
    <2>7. Cardinality(Calls(more, {s})) < PerMinute + Cardinality(Askers)
      <3>1. CASE s = t
        BY <2>4, <3>1
      <3>2. CASE s # t
        <4>1. Cardinality(Calls(more, {s})) = Cardinality(Calls(rows, {s}))
          <5>1. /\ Cardinality(Calls(more, {s})) = Cardinality(Calls(rows, {s})) + 0
                /\ Cardinality(Calls(rows, {s})) \in Nat
            <6>1. t \notin {s}
              BY <3>2
            <6> QED BY <1>2, <1>3, <6>1
          <5> QED BY <5>1
        <4> QED BY <2>3, <3>2, <4>1 DEF Bounded
      <3> QED BY <3>1, <3>2
    <2> QED BY <2>2, <2>5, <2>6, <2>7
  <1> QED BY <1>5, <1>6

\* A day, a month or a minute that begins has room for the requests in flight.
LEMMA RoomComesBack ==
  ASSUME NEW rows \in RowsType, NEW t \in Times, NEW s \in Times, s > t,
         NEW n \in Nat, n <= Cardinality(Askers), Past(rows, t), Room(rows, t, n)
  PROVE  Room(rows, s, n)
  <1>1. n * Max(Costs) \in Nat /\ n * Max(Costs) <= Quota!InFlight
    BY QuotaNumbers
  <1>2. \A u \in DOMAIN rows : rows[u].at \in Times /\ rows[u].at <= t
    BY QuotaRowsAreTyped DEF Past
  <1>3. t \in Nat /\ s \in Nat /\ todayInBogota(s) \in Nat /\ todayInBogota(t) \in Nat
        /\ Month[todayInBogota(s)] \in Nat /\ Month[todayInBogota(t)] \in Nat
    BY DayOfInstant, MonthStartIs
  <1>4. CostOf(rows, DayOf(s)) + n * Max(Costs) < DailyUsd + Quota!InFlight
    <2>1. CASE DayOf(s) = DayOf(t)
      BY <2>1 DEF Room
    <2>2. CASE DayOf(s) # DayOf(t)
      <3>1. Calls(rows, DayOf(s)) = {}
        <4>1. SUFFICES ASSUME NEW u \in Calls(rows, DayOf(s)) PROVE FALSE
          OBVIOUS
        <4>2. PICK x \in Times : x = rows[u].at /\ x <= t /\ x \in DayOf(s)
          BY <1>2, <4>1 DEF Calls
        <4>3. todayInBogota(x) = todayInBogota(s) /\ todayInBogota(x) <= todayInBogota(t)
              /\ todayInBogota(t) <= todayInBogota(s)
          BY <1>3, <4>2, DaysGrow DEF DayOf
        <4>4. todayInBogota(t) = todayInBogota(s)
          BY <1>3, <4>3
        <4> QED BY <2>2, <4>4 DEF DayOf
      <3> QED BY <1>1, <3>1, CostOfNoCalls, QuotaNumbers
    <2> QED BY <2>1, <2>2
  <1>5. CostOf(rows, MonthOf(s)) + n * Max(Costs) < MonthlyUsd + Quota!InFlight
    <2>1. CASE MonthOf(s) = MonthOf(t)
      BY <2>1 DEF Room
    <2>2. CASE MonthOf(s) # MonthOf(t)
      <3>1. Calls(rows, MonthOf(s)) = {}
        <4>1. SUFFICES ASSUME NEW u \in Calls(rows, MonthOf(s)) PROVE FALSE
          OBVIOUS
        <4>2. PICK x \in Times : x = rows[u].at /\ x <= t /\ x \in MonthOf(s)
          BY <1>2, <4>1 DEF Calls
        <4>3. /\ Month[todayInBogota(x)] = Month[todayInBogota(s)]
              /\ Month[todayInBogota(x)] <= Month[todayInBogota(t)]
              /\ Month[todayInBogota(t)] <= Month[todayInBogota(s)]
          BY <1>3, <4>2, DaysGrow DEF MonthOf
        <4>4. Month[todayInBogota(t)] = Month[todayInBogota(s)]
          BY <1>3, <4>3
        <4> QED BY <2>2, <4>4 DEF MonthOf
      <3> QED BY <1>1, <3>1, CostOfNoCalls, QuotaNumbers
    <2> QED BY <2>1, <2>2
  <1>6. Cardinality(Calls(rows, {s})) + n < PerMinute + Cardinality(Askers)
    <2>1. Calls(rows, {s}) = {}
      BY <1>2, <1>3 DEF Calls
    <2> QED BY <2>1, CostOfNoCalls, QuotaNumbers
  <1> QED BY <1>4, <1>5, <1>6 DEF Room

LEMMA QuotaRowsOfSpans ==
  ASSUME NEW t \in Times, usage \in RowsType
  PROVE    /\ {v \in Quota!Recorded : todayInBogota(usage[v].at) = todayInBogota(t)}
                = Calls(usage, DayOf(t))
           /\ {v \in Quota!Recorded : Month[todayInBogota(usage[v].at)] = Month[todayInBogota(t)]}
                = Calls(usage, MonthOf(t))
           /\ {v \in Quota!Recorded : usage[v].at = t} = Calls(usage, {t})
  <1>1. \A v \in DOMAIN usage : usage[v].at \in Times
    BY QuotaRowsAreTyped
  <1> QED BY <1>1 DEF Quota!Recorded, Calls, DayOf, MonthOf

LEMMA QuotaSpentIs ==
  ASSUME NEW A
  PROVE  Quota!Spent(Calls(usage, A)) = CostOf(usage, A)
  BY QuotaSpent DEF CostOf

LEMMA QuotaRowsAreOfType == Quota!TypeOK => /\ usage \in RowsType
                                 /\ time \in Times
                                 /\ IsFiniteSet(asking) /\ Cardinality(asking) \in Nat
                                 /\ Cardinality(asking) <= Cardinality(Askers)
  BY QuotaConstants, FS_Subset, FS_CardinalityType DEF Quota!TypeOK, RowsType

LEMMA QuotaRoomIs == Quota!TypeOK => (Quota!RoomIsLeft <=> Room(usage, time, Cardinality(asking)))
  <1> SUFFICES ASSUME Quota!TypeOK PROVE Quota!RoomIsLeft <=> Room(usage, time, Cardinality(asking))
    OBVIOUS
  <1>1. usage \in RowsType /\ time \in Times
    BY QuotaRowsAreOfType
  <1>2. /\ Quota!Spent({v \in Quota!Recorded : todayInBogota(usage[v].at) = todayInBogota(time)})
             = CostOf(usage, DayOf(time))
        /\ Quota!Spent({v \in Quota!Recorded :
                          Month[todayInBogota(usage[v].at)] = Month[todayInBogota(time)]})
             = CostOf(usage, MonthOf(time))
        /\ {v \in Quota!Recorded : usage[v].at = time} = Calls(usage, {time})
    BY <1>1, QuotaRowsOfSpans, QuotaSpentIs
  <1>3. Quota!RoomIsLeft <=>
          /\ CostOf(usage, DayOf(time)) + Cardinality(asking) * Max(Costs) < DailyUsd + Quota!InFlight
          /\ CostOf(usage, MonthOf(time)) + Cardinality(asking) * Max(Costs)
                < MonthlyUsd + Quota!InFlight
          /\ Cardinality(Calls(usage, {time})) + Cardinality(asking)
                < PerMinute + Cardinality(Askers)
    BY <1>2, QuotaSpans, QuotaCardinality, QuotaMax DEF Quota!RoomIsLeft
  <1> QED BY <1>3 DEF Room

LEMMA QuotaBoundedIs ==
  Quota!TypeOK => (Quota!SpendingIsBounded /\ Quota!RateIsBounded <=> Bounded(usage))
  <1> SUFFICES ASSUME Quota!TypeOK PROVE Quota!SpendingIsBounded /\ Quota!RateIsBounded
                        <=> Bounded(usage)
    OBVIOUS
  <1>1. usage \in RowsType /\ \A u \in DOMAIN usage : usage[u].at \in Times
    BY QuotaRowsAreOfType, QuotaRowsAreTyped
  <1>2. ASSUME NEW u \in DOMAIN usage
        PROVE  /\ Quota!Spent({v \in Quota!Recorded :
                                 todayInBogota(usage[v].at) = todayInBogota(usage[u].at)})
                    = CostOf(usage, DayOf(usage[u].at))
               /\ Quota!Spent({v \in Quota!Recorded :
                           Month[todayInBogota(usage[v].at)] = Month[todayInBogota(usage[u].at)]})
                    = CostOf(usage, MonthOf(usage[u].at))
               /\ {v \in Quota!Recorded : usage[v].at = usage[u].at} = Calls(usage, {usage[u].at})
    BY <1>1, QuotaRowsOfSpans, QuotaSpentIs
  <1>3. Quota!SpendingIsBounded <=>
          \A u \in DOMAIN usage :
             /\ CostOf(usage, DayOf(usage[u].at)) < DailyUsd + Quota!InFlight
             /\ CostOf(usage, MonthOf(usage[u].at)) < MonthlyUsd + Quota!InFlight
    <2>1. Quota!Recorded = DOMAIN usage
      BY DEF Quota!Recorded
    <2>2. ASSUME NEW u \in DOMAIN usage
          PROVE  /\ Quota!Spent({v \in Quota!Recorded :
                       Quota!todayInBogota(usage[v].at) = Quota!todayInBogota(usage[u].at)})
                      = CostOf(usage, DayOf(usage[u].at))
                 /\ Quota!Spent({v \in Quota!Recorded :
                       Quota!Month[Quota!todayInBogota(usage[v].at)]
                         = Quota!Month[Quota!todayInBogota(usage[u].at)]})
                      = CostOf(usage, MonthOf(usage[u].at))
      BY <1>2, QuotaSpans
    <2> QED BY <2>1, <2>2 DEF Quota!SpendingIsBounded
  <1>4. Quota!RateIsBounded <=>
          \A u \in DOMAIN usage :
             Cardinality(Calls(usage, {usage[u].at})) < PerMinute + Cardinality(Askers)
    <2>1. Quota!Recorded = DOMAIN usage
      BY DEF Quota!Recorded
    <2> QED BY <1>2, <2>1, QuotaCardinality DEF Quota!RateIsBounded
  <1> QED BY <1>3, <1>4 DEF Bounded

LEMMA QuotaRoomIsNext ==
  (Quota!TypeOK => (Quota!RoomIsLeft <=> Room(usage, time, Cardinality(asking))))'
  BY QuotaRoomIs, PTL

LEMMA QuotaBoundedIsNext ==
  (Quota!TypeOK => (Quota!SpendingIsBounded /\ Quota!RateIsBounded <=> Bounded(usage)))'
  BY QuotaBoundedIs, PTL

LEMMA QuotaIInvIs ==
  ASSUME Quota!TypeOK
  PROVE  Quota!IInv <=> /\ Past(usage, time)
                  /\ Bounded(usage)
                  /\ Room(usage, time, Cardinality(asking))
  BY QuotaRoomIs, QuotaBoundedIs DEF Quota!IInv, Quota!RowsArePast, Past, Quota!Recorded

LEMMA QuotaIInvIsNext ==
  ASSUME Quota!TypeOK'
  PROVE  Quota!IInv' <=> /\ Past(usage', time')
                   /\ Bounded(usage')
                   /\ Room(usage', time', Cardinality(asking'))
  BY QuotaRoomIsNext, QuotaBoundedIsNext DEF Quota!IInv, Quota!RowsArePast, Past, Quota!Recorded

LEMMA QuotaInitKeepsRoom == Quota!Init => Quota!IInv
  <1> SUFFICES ASSUME Quota!Init PROVE Quota!IInv
    OBVIOUS
  <1>1. Quota!TypeOK
    BY QuotaConstants DEF Quota!Init, Quota!TypeOK
  <1>2. DOMAIN usage = {} /\ Cardinality(asking) = 0 /\ usage \in RowsType /\ time \in Times
    BY <1>1, QuotaRowsAreOfType, FS_EmptySet DEF Quota!Init
  <1>3. \A A : Calls(usage, A) = {}
    BY <1>2 DEF Calls
  <1>4. /\ CostOf(usage, DayOf(time)) = 0 /\ CostOf(usage, MonthOf(time)) = 0
        /\ Cardinality(Calls(usage, {time})) = 0 /\ 0 * Max(Costs) = 0
    BY <1>3, CostOfNoCalls, CostsAreBounded
  <1>5. Room(usage, time, 0)
    BY <1>4, QuotaNumbers DEF Room
  <1> QED BY <1>1, <1>2, <1>5, QuotaIInvIs DEF Bounded, Past

LEMMA QuotaAskKeeps ==
  ASSUME Quota!IInv, NEW r \in Askers, Quota!Ask(r)
  PROVE  Quota!IInv'
  <1>1. Quota!TypeOK'
    BY DEF Quota!IInv, Quota!TypeOK, Quota!Ask
  <1>2. Quota!TypeOK /\ Quota!RowsArePast /\ usage \in RowsType /\ time \in Times
    BY QuotaRowsAreOfType DEF Quota!IInv
  <1> DEFINE n == Cardinality(asking)
  <1>3. /\ Cardinality(asking') = n + 1 /\ n \in Nat /\ n + 1 <= Cardinality(Askers)
        /\ Cardinality(Askers) \in Nat
    <2>1. IsFiniteSet(asking) /\ asking' \subseteq Askers /\ n \in Nat
      BY <1>1, <1>2, QuotaRowsAreOfType DEF Quota!TypeOK
    <2>2. Cardinality(asking') = n + 1
      BY <2>1, FS_AddElement DEF Quota!Ask
    <2>3. Cardinality(asking') <= Cardinality(Askers)
      BY <2>1, QuotaConstants, FS_Subset
    <2> QED BY <2>1, <2>2, <2>3, QuotaNumbers
  <1>4. /\ CostOf(usage, DayOf(time)) < DailyUsd /\ CostOf(usage, MonthOf(time)) < MonthlyUsd
        /\ Cardinality(Calls(usage, {time})) < PerMinute
    <2>1. ASSUME NEW v \in DOMAIN usage
          PROVE  /\ usage[v].at >= startOfBogotaDay(time) <=> usage[v].at \in DayOf(time)
                 /\ usage[v].at >= startOfBogotaMonth(time) <=> usage[v].at \in MonthOf(time)
                 /\ usage[v].at >= time <=> usage[v].at \in {time}
      <3>1. PICK s \in Times : s = usage[v].at /\ s <= time
        BY <1>2, QuotaRowsAreTyped DEF Quota!RowsArePast, Quota!Recorded
      <3>2. /\ s >= startOfBogotaDay(time) <=> todayInBogota(s) >= todayInBogota(time)
            /\ s >= startOfBogotaMonth(time) <=> Month[todayInBogota(s)] >= Month[todayInBogota(time)]
            /\ todayInBogota(s) <= todayInBogota(time)
            /\ Month[todayInBogota(s)] <= Month[todayInBogota(time)]
        BY <1>2, <3>1, DaysGrow
      <3>3. /\ s \in Nat /\ time \in Nat
            /\ todayInBogota(s) \in Nat /\ todayInBogota(time) \in Nat
            /\ Month[todayInBogota(s)] \in Nat /\ Month[todayInBogota(time)] \in Nat
        BY <1>2, <3>1, DayOfInstant, MonthStartIs
      <3>4. s >= startOfBogotaDay(time) <=> s \in DayOf(time)
        BY <3>2, <3>3 DEF DayOf
      <3>5. s >= startOfBogotaMonth(time) <=> s \in MonthOf(time)
        BY <3>2, <3>3 DEF MonthOf
      <3> QED BY <3>1, <3>3, <3>4, <3>5
    <2>2. /\ Quota!Since(startOfBogotaDay(time)) = Calls(usage, DayOf(time))
          /\ Quota!Since(startOfBogotaMonth(time)) = Calls(usage, MonthOf(time))
          /\ Quota!Since(time) = Calls(usage, {time})
      BY <2>1 DEF Quota!Since, Quota!Recorded, Calls
    <2>3. /\ ~ (Quota!spentMonth(time) >= MonthlyUsd) /\ ~ (Quota!spentToday(time) >= DailyUsd)
          /\ ~ (Quota!requestsLastMinute(time) >= PerMinute)
      BY DEF Quota!Ask, Quota!getQuota
    <2>4. /\ ~ (CostOf(usage, MonthOf(time)) >= MonthlyUsd)
          /\ ~ (CostOf(usage, DayOf(time)) >= DailyUsd)
          /\ ~ (Cardinality(Calls(usage, {time})) >= PerMinute)
      BY <2>2, <2>3, QuotaSpentIs, QuotaReads
    <2>5. /\ CostOf(usage, MonthOf(time)) \in Nat /\ CostOf(usage, DayOf(time)) \in Nat
          /\ Cardinality(Calls(usage, {time})) \in Nat
      BY <1>2, CostIsNatural
    <2> QED BY <2>4, <2>5, QuotaNumbers
  <1>5. Room(usage, time, n + 1)
    <2>1. PICK held \in Nat : held = (n + 1) * Max(Costs) /\ held <= Quota!InFlight
      BY <1>3, QuotaNumbers
    <2>2. /\ CostOf(usage, MonthOf(time)) \in Nat /\ CostOf(usage, DayOf(time)) \in Nat
          /\ Cardinality(Calls(usage, {time})) \in Nat
      BY <1>2, CostIsNatural
    <2>3. Quota!InFlight \in Nat /\ DailyUsd \in Nat /\ MonthlyUsd \in Nat /\ PerMinute \in Nat
      BY QuotaNumbers
    <2>4. /\ CostOf(usage, DayOf(time)) + held < DailyUsd + Quota!InFlight
          /\ CostOf(usage, MonthOf(time)) + held < MonthlyUsd + Quota!InFlight
      BY <1>4, <2>1, <2>2, <2>3
    <2>5. Cardinality(Calls(usage, {time})) + (n + 1) < PerMinute + Cardinality(Askers)
      BY <1>3, <1>4, <2>2, <2>3
    <2> QED BY <2>1, <2>4, <2>5 DEF Room
  <1>6. usage' = usage /\ time' = time
    BY DEF Quota!Ask
  <1>7. Past(usage, time) /\ Bounded(usage)
    BY <1>2, QuotaIInvIs DEF Quota!IInv
  <1> QED BY <1>1, <1>3, <1>5, <1>6, <1>7, QuotaIInvIsNext

LEMMA QuotaOneLess ==
  ASSUME Quota!TypeOK, NEW r \in asking
  PROVE  \E n \in Nat : /\ Cardinality(asking) = n + 1 /\ Cardinality(asking \ {r}) = n
                        /\ n <= n + 1
  <1>1. IsFiniteSet(asking)
    BY QuotaRowsAreOfType
  <1>2. IsFiniteSet(asking \ {r}) /\ Cardinality(asking \ {r}) \in Nat
    BY <1>1, FS_RemoveElement, FS_CardinalityType
  <1>3. Cardinality((asking \ {r}) \union {r}) = Cardinality(asking \ {r}) + 1
    BY <1>2, FS_AddElement
  <1>4. (asking \ {r}) \union {r} = asking
    OBVIOUS
  <1> QED BY <1>2, <1>3, <1>4

LEMMA QuotaRecordKeeps ==
  ASSUME Quota!IInv, NEW r \in Askers, NEW cost \in Costs, Quota!record(r, cost)
  PROVE  Quota!IInv'
  <1>1. /\ Quota!TypeOK /\ usage \in RowsType /\ time \in Times /\ time \in Nat
        /\ Past(usage, time) /\ Bounded(usage) /\ Room(usage, time, Cardinality(asking))
    BY QuotaRowsAreOfType, QuotaIInvIs, DayOfInstant DEF Quota!IInv
  <1>2. /\ usage' = Added(usage, time, cost) /\ time' = time /\ asking' = asking \ {r}
        /\ r \in asking /\ Len(usage) < MaxUses
    BY DEF Quota!record, Added
  <1>3. PICK n \in Nat : Cardinality(asking) = n + 1 /\ Cardinality(asking') = n
    BY <1>1, <1>2, QuotaOneLess
  <1>4. Room(usage', time, n) /\ Bounded(usage')
    BY <1>1, <1>2, <1>3, RoomIsUsed
  <1>5. usage' \in RowsType /\ Len(usage') = Len(usage) + 1 /\ Len(usage) \in Nat
    BY <1>1, <1>2, RowIsAdded, QuotaRowsAreTyped DEF Added, RowsType
  <1>6. Quota!TypeOK'
    BY <1>1, <1>2, <1>5, QuotaConstants DEF Quota!TypeOK, RowsType
  <1>7. Past(usage', time')
    <2>1. DOMAIN usage' = DOMAIN usage \union {Len(usage) + 1}
      BY <1>1, <1>2, RowIsAdded
    <2>2. usage'[Len(usage) + 1] = [at |-> time, cost |-> cost]
      BY <1>1, <1>2, QuotaNewRow
    <2>3. ASSUME NEW u \in DOMAIN usage PROVE usage'[u] = usage[u]
      BY <1>1, <1>2, OldRowsStay
    <2> QED BY <1>1, <1>2, <2>1, <2>2, <2>3 DEF Past
  <1> QED BY <1>2, <1>3, <1>4, <1>6, <1>7, QuotaIInvIsNext

LEMMA QuotaGiveUpKeeps ==
  ASSUME Quota!IInv, NEW r \in Askers, Quota!GiveUp(r)
  PROVE  Quota!IInv'
  <1>1. /\ Quota!TypeOK /\ usage \in RowsType /\ time \in Times
        /\ Past(usage, time) /\ Bounded(usage) /\ Room(usage, time, Cardinality(asking))
    BY QuotaRowsAreOfType, QuotaIInvIs DEF Quota!IInv
  <1>2. usage' = usage /\ time' = time /\ asking' = asking \ {r} /\ r \in asking
    BY DEF Quota!GiveUp
  <1>3. PICK n \in Nat : /\ Cardinality(asking) = n + 1 /\ Cardinality(asking') = n /\ n <= n + 1
                         /\ n + 1 \in Nat
    BY <1>1, <1>2, QuotaOneLess
  <1>4. Room(usage, time, n)
    BY <1>1, <1>3, RoomStays
  <1>5. Quota!TypeOK'
    BY <1>1, <1>2 DEF Quota!TypeOK
  <1> QED BY <1>1, <1>2, <1>3, <1>4, <1>5, QuotaIInvIsNext

LEMMA QuotaWaitKeeps ==
  ASSUME Quota!IInv, NEW t \in Times, Quota!Wait(t)
  PROVE  Quota!IInv'
  <1>1. /\ Quota!TypeOK /\ usage \in RowsType /\ time \in Times
        /\ Past(usage, time) /\ Bounded(usage) /\ Room(usage, time, Cardinality(asking))
        /\ Cardinality(asking) \in Nat /\ Cardinality(asking) <= Cardinality(Askers)
    BY QuotaRowsAreOfType, QuotaIInvIs DEF Quota!IInv
  <1>2. usage' = usage /\ time' = t /\ asking' = asking /\ t > time /\ t \in Nat /\ time \in Nat
    BY <1>1, DayOfInstant DEF Quota!Wait
  <1>3. Room(usage, t, Cardinality(asking))
    BY <1>1, <1>2, RoomComesBack
  <1>4. Quota!TypeOK'
    BY <1>1, <1>2 DEF Quota!TypeOK
  <1>5. Past(usage, t)
    <2>1. \A u \in DOMAIN usage : usage[u].at \in Nat /\ usage[u].at <= time
      BY <1>1, QuotaRowsAreTyped, DayOfInstant DEF Past
    <2> QED BY <1>2, <2>1 DEF Past
  <1> QED BY <1>1, <1>2, <1>3, <1>4, <1>5, QuotaIInvIsNext

LEMMA QuotaStutterKeeps == Quota!IInv /\ UNCHANGED Quota!vars => Quota!IInv'
  <1> SUFFICES ASSUME Quota!IInv, UNCHANGED Quota!vars PROVE Quota!IInv'
    OBVIOUS
  <1>1. usage' = usage /\ time' = time /\ asking' = asking
    BY DEF Quota!vars
  <1>2. Quota!TypeOK' /\ Quota!TypeOK
    BY <1>1 DEF Quota!IInv, Quota!TypeOK
  <1> QED BY <1>1, <1>2, QuotaIInvIs, QuotaIInvIsNext

LEMMA QuotaNextKeeps == Quota!IInv /\ [Quota!Next]_Quota!vars => Quota!IInv'
  BY QuotaAskKeeps, QuotaRecordKeeps, QuotaGiveUpKeeps, QuotaWaitKeeps, QuotaStutterKeeps DEF Quota!Next

LEMMA QuotaLimitsDoEnd == Quota!IInv => Quota!LimitsEnd
  <1> SUFFICES ASSUME Quota!IInv PROVE Quota!LimitsEnd
    OBVIOUS
  <1> DEFINE tomorrow == Hours * (todayInBogota(time) + 1) + Offset
             nextMonth == Hours * MonthStart[Month[todayInBogota(time)] + 1] + Offset
  <1>1. /\ Quota!TypeOK /\ usage \in RowsType /\ time \in Times /\ Quota!RowsArePast
    BY QuotaRowsAreOfType DEF Quota!IInv
  <1>2. ASSUME NEW v \in DOMAIN usage
        PROVE  /\ ~ (usage[v].at >= startOfBogotaDay(tomorrow))
               /\ ~ (usage[v].at >= startOfBogotaDay(nextMonth))
               /\ ~ (usage[v].at >= startOfBogotaMonth(nextMonth))
               /\ ~ (usage[v].at >= nextMonth)
    BY <1>1, QuotaRowsAreTyped, LimitsEndInTheFuture DEF Quota!RowsArePast, Quota!Recorded
  <1> HIDE DEF tomorrow, nextMonth
  <1>3. /\ Quota!Since(startOfBogotaDay(tomorrow)) = Calls(usage, {})
        /\ Quota!Since(startOfBogotaDay(nextMonth)) = Calls(usage, {})
        /\ Quota!Since(startOfBogotaMonth(nextMonth)) = Calls(usage, {})
        /\ Quota!Since(nextMonth) = Calls(usage, {}) /\ Calls(usage, {}) = {}
    BY <1>2 DEF Quota!Since, Quota!Recorded, Calls
  <1>4. CostOf(usage, {}) = 0 /\ Cardinality(Calls(usage, {})) = 0
    BY <1>3, CostOfNoCalls
  <1>5. /\ Quota!spentToday(tomorrow) = 0 /\ Quota!spentToday(nextMonth) = 0
           /\ Quota!spentMonth(nextMonth) = 0
        /\ Quota!requestsLastMinute(nextMonth) = 0
    BY <1>3, <1>4, QuotaSpentIs, QuotaReads
  <1>6. Quota!getQuota(tomorrow) # "daily" /\ Quota!getQuota(nextMonth) = "none"
    BY <1>5, QuotaNumbers DEF Quota!getQuota
  <1> QED BY <1>6, QuotaLimitsEnd DEF tomorrow, nextMonth

\* ai-usage.service.ts:68: what was spent, and what the calls in flight may cost yet,
\* stay below the limits and InFlight, in the day, the month and the minute of now.
THEOREM QuotaInvariant == Quota!Spec => []Quota!IInv
  BY QuotaInitKeepsRoom, QuotaNextKeeps, PTL DEF Quota!Spec

(***************************************************************************)
(* The same of the specification that is run: a step of another part       *)
(* leaves the quota alone.                                                 *)
(***************************************************************************)
LEMMA DatesStepsAreQuotas ==
  /\ DatesInit => Quota!Init
  /\ [DatesNext]_<<part, vars, summed, asked>> => [Quota!Next]_Quota!vars
  <1>1. DatesInit => Quota!Init
    BY DEF DatesInit
  <1>2. UNCHANGED asked => UNCHANGED Quota!vars
    BY DEF asked, Quota!vars
  <1>3. DatesNext => Quota!Next \/ UNCHANGED asked
    BY DEF DatesNext
  <1>4. UNCHANGED <<part, vars, summed, asked>> => UNCHANGED asked
    OBVIOUS
  <1> QED BY <1>1, <1>2, <1>3, <1>4

LEMMA DatesQuota == DatesSpec => Quota!Spec
  BY DatesStepsAreQuotas, PTL DEF DatesSpec, Quota!Spec

\* ai-usage.service.ts:68: a day, a month and a minute cost less than the limit and what
\* was in flight when it was reached; and a limit ends with the day or the month.
THEOREM DatesQuotaHolds == DatesSpec => []QuotaHolds
  <1>1. Quota!IInv => QuotaHolds
    BY QuotaLimitsDoEnd DEF Quota!IInv, QuotaHolds
  <1> QED BY <1>1, DatesQuota, QuotaInvariant, PTL

-----------------------------------------------------------------------------
(* Summary *)

\* The operators of the instance are those of Calendar and of the library.
LEMMA SummaryCalendar ==
  /\ Summary!Months = Months
  /\ Summary!MonthDays = MonthDays
  /\ Summary!MonthStart = MonthStart
  /\ Summary!Days = Days
  /\ Summary!Month = Month
  /\ \A i : Summary!NumberOf(i) = NumberOf(i) /\ Summary!YearOf(i) = YearOf(i)
  <1>1. Summary!Months = Months
    BY DEF Months, Summary!Months
  <1>2. \A i : Summary!NumberOf(i) = NumberOf(i) /\ Summary!YearOf(i) = YearOf(i)
    BY DEF NumberOf, YearOf, Summary!NumberOf, Summary!YearOf
  <1>3. \A y : Summary!LeapYear(y) = LeapYear(y)
    BY DEF LeapYear, Summary!LeapYear
  <1>4. Summary!MonthDays = MonthDays
    BY DEF MonthDays, Summary!MonthDays, Months, Summary!Months, NumberOf, Summary!NumberOf,
           YearOf, Summary!YearOf, LeapYear, Summary!LeapYear
  <1>5. Summary!DaysBefore = DaysBefore
    BY DEF DaysBefore, Summary!DaysBefore
  <1>6. \A i : Summary!LeapDays(i) = LeapDays(i)
    BY DEF LeapDays, Summary!LeapDays, LeapYear, Summary!LeapYear, NumberOf, Summary!NumberOf,
           YearOf, Summary!YearOf, Summary!Cardinality, Cardinality
  <1>7. Summary!MonthStart = MonthStart
    BY <1>1, <1>2, <1>5, <1>6 DEF MonthStart, Summary!MonthStart
  <1>8. Summary!Days = Days
    BY <1>7 DEF Days, Summary!Days
  <1>9. ASSUME NEW d
        PROVE  (CHOOSE i \in d \div 31 .. d \div 28 :
                  /\ i \in Summary!Months
                  /\ d \in Summary!MonthStart[i] .. Summary!MonthStart[i] + Summary!MonthDays[i] - 1)
               = (CHOOSE i \in d \div 31 .. d \div 28 :
                    i \in Months /\ d \in MonthStart[i] .. MonthStart[i] + MonthDays[i] - 1)
    BY <1>1, <1>4, <1>7
  <1>10. Summary!Month = Month
    BY <1>1, <1>4, <1>7, <1>8 DEF Month, Summary!Month
  <1> QED BY <1>1, <1>2, <1>4, <1>7, <1>8, <1>10

LEMMA SummaryClock ==
  /\ Summary!Hours = Hours /\ Summary!Frequencies = Frequencies
  /\ \A t : Summary!todayInBogota(t) = todayInBogota(t)
  /\ \A t : Summary!currentMonthInBogota(t) = currentMonthInBogota(t)
  /\ \A t : Summary!startOfBogotaDay(t) = startOfBogotaDay(t)
  /\ \A t : Summary!startOfBogotaMonth(t) = startOfBogotaMonth(t)
  /\ \A y, m, k : Summary!shiftMonth(y, m, k) = shiftMonth(y, m, k)
  /\ \A m : Summary!monthStartISO(m) = monthStartISO(m)
  <1>1. Summary!Hours = Hours /\ Summary!Offset = Offset /\ Summary!Frequencies = Frequencies
    BY DEF Hours, Summary!Hours, Offset, Summary!Offset, Frequencies, Summary!Frequencies
  <1>2. \A t : Summary!todayInBogota(t) = todayInBogota(t)
    BY <1>1 DEF todayInBogota, Summary!todayInBogota
  <1>3. \A t : Summary!currentMonthInBogota(t) = currentMonthInBogota(t)
    BY <1>2, SummaryCalendar DEF currentMonthInBogota, Summary!currentMonthInBogota
  <1>4. /\ \A t : Summary!startOfBogotaDay(t) = startOfBogotaDay(t)
        /\ \A t : Summary!startOfBogotaMonth(t) = startOfBogotaMonth(t)
    BY <1>1, <1>2, SummaryCalendar
    DEF startOfBogotaDay, startOfBogotaMonth, Summary!startOfBogotaDay, Summary!startOfBogotaMonth
  <1>5. \A y, m, k : Summary!shiftMonth(y, m, k) = shiftMonth(y, m, k)
    BY DEF shiftMonth, Summary!shiftMonth
  <1>6. \A m : Summary!monthStartISO(m) = monthStartISO(m)
    BY SummaryCalendar DEF monthStartISO, Summary!monthStartISO
  <1> QED BY <1>1, <1>2, <1>3, <1>4, <1>5, <1>6

LEMMA SummaryDates ==
  /\ \A d : Summary!DayOfMonth(d) = DayOfMonth(d)
  /\ \A d, f, n, i : Summary!calcNextDueDate(d, f, n, i) = calcNextDueDate(d, f, n, i)
  <1>1. \A d : Summary!DayOfMonth(d) = DayOfMonth(d)
    BY SummaryCalendar DEF DayOfMonth, Summary!DayOfMonth
  <1>2. /\ \A d, n : Summary!SetDate(d, n) = SetDate(d, n)
        /\ \A d, i : Summary!SetMonth(d, i) = SetMonth(d, i)
    BY <1>1, SummaryCalendar DEF SetDate, Summary!SetDate, SetMonth, Summary!SetMonth
  <1>3. \A d, n : Summary!OnItsDay(d, n) = OnItsDay(d, n)
    BY <1>2, SummaryCalendar DEF OnItsDay, Summary!OnItsDay
  <1>4. \A i : Summary!CustomDays(i) = CustomDays(i)
    BY DEF CustomDays, Summary!CustomDays
  <1>5. \A d, f, n, i : Summary!calcNextDueDate(d, f, n, i) = calcNextDueDate(d, f, n, i)
    BY <1>1, <1>2, <1>3, <1>4, SummaryCalendar DEF calcNextDueDate, Summary!calcNextDueDate
  <1> QED BY <1>1, <1>5

LEMMA SummaryCounts ==
  /\ \A S : Summary!Cardinality(S) = Cardinality(S)
  /\ \A S : Summary!Min(S) = Min(S)
  /\ \A f, S : Summary!SumFunctionOnSet(f, S) = SumFunctionOnSet(f, S)
  /\ \A f : Summary!SumFunction(f) = SumFunction(f)
  <1>1. \A S : Summary!Cardinality(S) = Cardinality(S)
    BY DEF Summary!Cardinality, Cardinality
  <1>2. \A S : Summary!Min(S) = Min(S)
    BY DEF Summary!Min, Min
  <1>3. \A f, S : Summary!SumFunctionOnSet(f, S) = SumFunctionOnSet(f, S)
    BY DEF Summary!SumFunctionOnSet, SumFunctionOnSet,
           Summary!FoldFunctionOnSet, FoldFunctionOnSet, Summary!MapThenFoldSet, MapThenFoldSet
  <1>4. \A f : Summary!SumFunction(f) = SumFunction(f)
    BY <1>3 DEF Summary!SumFunction, SumFunction
  <1> QED BY <1>1, <1>2, <1>3, <1>4

\* What the definitions of Profile say with them.
\* What the properties say of the parts.
CurrentMonth == Month[todayInBogota(now)]

DueHolds(day, n, interval, frequency) ==
    LET next == calcNextDueDate(day, frequency, n, interval)
        k == IF frequency = "bimonthly" THEN 2 ELSE 1
        month == Month[day] + k
        skips == DayOfMonth(day) > MonthDays[month] IN
    /\ next > day
    /\ frequency \in {"monthly", "bimonthly"} =>
          /\ Month[next] = IF skips THEN month + 1 ELSE month
          /\ DayOfMonth(next) = Min({n, MonthDays[Month[next]]})

CountedOnce(series) ==
    LET first == CurrentMonth - SeriesLength + 1
        window == {t \in Summary!Rows : Month[transactions[t].date] \in first .. CurrentMonth} IN
    /\ \A k \in 1 .. SeriesLength : series[k].month = YearMonth(CurrentMonth - SeriesLength + k)
    /\ Cardinality(window) = SumFunction([k \in 1 .. SeriesLength |-> series[k].figures.count])
    /\ Summary!Sum(Summary!OfType(window, "egreso"))
          = SumFunction([k \in 1 .. SeriesLength |-> series[k].figures.expense])

TopsHold(top, expense) ==
    LET left == expense - SumFunction(top) IN
    /\ \A g \in DOMAIN top : Parent[g] = None \/ \E c \in Categories : Parent[c] = g
    /\ IF Cardinality(DOMAIN top) < TopLimit THEN left = 0
       ELSE /\ left >= 0
            /\ \A g \in DOMAIN top : Cardinality(Summary!Groups \ DOMAIN top) * top[g] >= left

BalancesHold(balance, income, expense, transfer) ==
    LET within == Summary!Sum({t \in Summary!OfType(Summary!Rows, "transferencia") :
                                transactions[t].toAccount # None})
        unlinked == {t \in Summary!Rows : transactions[t].account = None}
        entered == income - Summary!Sum(Summary!OfType(unlinked, "ingreso"))
        spent == expense + transfer - Summary!Sum(unlinked \ Summary!OfType(unlinked, "ingreso")) IN
    balance + Summary!BalanceOf(Credit)
        = SumFunctionOnSet(Balance, Summary!Accounts) + entered - spent + within

LEMMA SummarySumIs ==
  ASSUME NEW S
  PROVE  Summary!Sum(S) = SumFunctionOnSet(Amount, S)
  BY SummaryCalendar, SummaryClock, SummaryDates, SummaryCounts DEF Summary!Sum

LEMMA SummaryFiguresIs ==
  ASSUME NEW S
  PROVE  Summary!Figures(S) =
            [count |-> Cardinality(S), income |-> Summary!Sum(Summary!OfType(S, "ingreso")),
             expense |-> Summary!Sum(Summary!OfType(S, "egreso"))]
  BY SummaryCalendar, SummaryClock, SummaryDates, SummaryCounts DEF Summary!Figures

LEMMA SummaryInMonthIs ==
  ASSUME NEW S, NEW m
  PROVE  Summary!InMonth(S, m) =
        {t \in S : LET i == Month[transactions[t].date] IN
                   m = [year |-> YearOf(i), month |-> NumberOf(i)]}
  BY SummaryCalendar, SummaryClock, SummaryDates, SummaryCounts DEF Summary!InMonth

LEMMA SummaryShiftedIs ==
  ASSUME NEW m, NEW delta
  PROVE  Summary!Shifted(m, delta) = shiftMonth(m.year, m.month, delta)
  BY SummaryCalendar, SummaryClock, SummaryDates, SummaryCounts DEF Summary!Shifted

LEMMA SummaryTransactionStatsIs ==
  Summary!transactionStats =
        [figures |-> Summary!Figures(Summary!Rows),
         transfer |-> Summary!Sum(Summary!OfType(Summary!Rows, "transferencia")),
         activeMonths |-> Cardinality({Month[transactions[t].date] : t \in Summary!Rows})]
  BY SummaryCalendar, SummaryClock, SummaryDates, SummaryCounts DEF Summary!transactionStats

LEMMA SummaryCurrentMonthStatsIs ==
  Summary!currentMonthStats =
        LET m == currentMonthInBogota(now) IN
        [month |-> m,
         figures |-> Summary!Figures(Summary!Before(Summary!Since(Summary!Rows, monthStartISO(m)),
           monthStartISO(Summary!Shifted(m, 1))))]
  BY SummaryCalendar, SummaryClock, SummaryDates, SummaryCounts DEF Summary!currentMonthStats

LEMMA SummaryMonthlySeriesIs ==
  Summary!monthlySeries =
        LET m == currentMonthInBogota(now)
            rows == Summary!Since(Summary!Rows, monthStartISO(Summary!Shifted(m, 1 - SeriesLength))) IN
        [k \in 1 .. SeriesLength |->
            LET month == Summary!Shifted(m, k - SeriesLength) IN
            [month |-> month, figures |-> Summary!Figures(Summary!InMonth(rows, month))]]
  BY SummaryCalendar, SummaryClock, SummaryDates, SummaryCounts DEF Summary!monthlySeries

LEMMA SummaryTopsIs ==
  Summary!Tops =
        {top \in SUBSET Summary!Groups :
            /\ Cardinality(top) = Min({TopLimit, Cardinality(Summary!Groups)})
            /\ \A g \in top, h \in Summary!Groups \ top : Summary!Spent(g) >= Summary!Spent(h)}
  BY SummaryCalendar, SummaryClock, SummaryDates, SummaryCounts DEF Summary!Tops

LEMMA SummaryBalanceOfIs ==
  ASSUME NEW accounts
  PROVE  Summary!BalanceOf(accounts) = SumFunction([a \in accounts |-> Summary!currentBalanceOf(a)])
  BY SummaryCalendar, SummaryClock, SummaryDates, SummaryCounts DEF Summary!BalanceOf

LEMMA SummaryGroupsAddUpIs ==
  Summary!GroupsAddUp <=> (Summary!Fresh("totals") /\ Summary!Fresh("top") =>
      TopsHold(parts["top"], parts["totals"].figures.expense))
  BY SummaryCalendar, SummaryClock, SummaryDates, SummaryCounts DEF Summary!GroupsAddUp, TopsHold

LEMMA SummaryBalanceFollowsTheTotalsIs ==
  Summary!BalanceFollowsTheTotals <=> (Summary!Fresh("totals") /\ Summary!Fresh("balance") =>
      BalancesHold(parts["balance"], parts["totals"].figures.income,
                   parts["totals"].figures.expense, parts["totals"].transfer))
  BY SummaryCalendar, SummaryClock, SummaryDates, SummaryCounts
     DEF Summary!BalanceFollowsTheTotals, BalancesHold

LEMMA SummaryStartsAreColombiasIs ==
  Summary!StartsAreColombias <=>
        /\ startOfBogotaDay(now) <= now
        /\ todayInBogota(startOfBogotaDay(now)) = todayInBogota(now)
        /\ todayInBogota(startOfBogotaDay(now) - 1) = todayInBogota(now) - 1
        /\ startOfBogotaMonth(now) <= startOfBogotaDay(now)
        /\ currentMonthInBogota(startOfBogotaMonth(now)) = currentMonthInBogota(now)
        /\ currentMonthInBogota(startOfBogotaMonth(now) - 1)
             = Summary!Shifted(currentMonthInBogota(now), -1)
  BY SummaryCalendar, SummaryClock, SummaryDates, SummaryCounts DEF Summary!StartsAreColombias

LEMMA SummaryDueDatesIs ==
  Summary!DueDates <=>
    \A n \in DaysOfMonth, interval \in Intervals, frequency \in Frequencies :
      DueHolds(now \div Hours, n, interval, frequency)
  <1> DEFINE day == now \div Hours
             Due(n, interval, frequency) ==
               LET next == Summary!calcNextDueDate(now \div Summary!Hours, frequency, n, interval)
                   k == IF frequency = "bimonthly" THEN 2 ELSE 1
                   month == Summary!Month[now \div Summary!Hours] + k
                   skips == Summary!DayOfMonth(now \div Summary!Hours) > Summary!MonthDays[month] IN
               /\ next > now \div Summary!Hours
               /\ frequency \in {"monthly", "bimonthly"} =>
                     /\ Summary!Month[next] = IF skips THEN month + 1 ELSE month
                     /\ Summary!DayOfMonth(next)
                          = Summary!Min({n, Summary!MonthDays[Summary!Month[next]]})
  <1>1. ASSUME NEW n, NEW interval, NEW frequency
        PROVE  Due(n, interval, frequency) <=> DueHolds(day, n, interval, frequency)
    <2>1. Summary!Hours = Hours /\ Summary!Month = Month /\ Summary!MonthDays = MonthDays
      BY SummaryClock, SummaryCalendar
    <2>2. \A d : Summary!DayOfMonth(d) = DayOfMonth(d)
      BY SummaryDates
    <2>3. Summary!calcNextDueDate(day, frequency, n, interval)
            = calcNextDueDate(day, frequency, n, interval)
      BY SummaryDates
    <2>4. \A S : Summary!Min(S) = Min(S)
      BY SummaryCounts
    <2> QED BY <2>1, <2>2, <2>3, <2>4 DEF DueHolds
  <1>2. Summary!Frequencies = Frequencies
    BY SummaryClock
  <1>3. Summary!DueDates <=>
          \A n \in DaysOfMonth, interval \in Intervals, frequency \in Summary!Frequencies :
            Due(n, interval, frequency)
    BY DEF Summary!DueDates
  <1> HIDE DEF Due
  <1> QED BY <1>1, <1>2, <1>3

LEMMA SummarySeriesCountsIs ==
  Summary!SeriesCounts <=> (parts'["monthly"] # parts["monthly"] /\ Summary!Fresh("monthly")' =>
      CountedOnce(parts'["monthly"]))
  BY SummaryCalendar, SummaryClock, SummaryDates, SummaryCounts
     DEF Summary!SeriesCounts, CountedOnce, CurrentMonth, YearMonth

\* The months of the series, and the next one, are in the calendar.
LEMMA MonthOfInstant ==
  ASSUME NEW t \in Instants
  PROVE  /\ t \in Nat /\ todayInBogota(t) \in Days /\ Month[todayInBogota(t)] \in Nat
         /\ Month[todayInBogota(t)] \in Months /\ Month[todayInBogota(t)] + 1 \in Months
         /\ SeriesLength \in Nat \ {0} /\ SeriesLength <= Month[todayInBogota(t)]
         /\ Month[todayInBogota(t)] < 12 * Years - 4
         /\ todayInBogota(t) < MonthStart[12 * Years - 4]
  <1> DEFINE d == todayInBogota(t)
             last == 12 * Years - 4
  <1>1. last \in Months /\ SeriesLength \in Months /\ last \in Nat /\ SeriesLength \in Nat \ {0}
        /\ last < 12 * Years - 1 /\ 12 * Years - 1 \in Months
    BY SummaryConstants, CalendarConstants DEF Months
  <1>2. /\ t \in Nat /\ d \in MonthStart[SeriesLength] .. MonthStart[last] - 1
        /\ MonthStart[SeriesLength] \in Nat /\ MonthStart[last] \in Nat
        /\ MonthStart[12 * Years - 1] \in Nat /\ MonthDays[last] \in 28 .. 31
    <2>1. t \in Nat /\ d \in MonthStart[SeriesLength] .. MonthStart[last] - 1
      BY SummaryConstants
    <2> HIDE DEF d, last
    <2>2. /\ MonthStart[SeriesLength] \in Nat /\ MonthStart[last] \in Nat
          /\ MonthStart[12 * Years - 1] \in Nat /\ MonthDays[last] \in 28 .. 31
      BY <1>1, MonthStartIs, MonthDaysAre
    <2> QED BY <2>1, <2>2
  <1>3. MonthStart[last] + MonthDays[last] <= MonthStart[12 * Years - 1]
    BY <1>1, MonthsFollow
  <1>4. d \in Days
    BY <1>2, <1>3 DEF Days
  <1>5. Month[d] >= SeriesLength /\ ~ (Month[d] >= last) /\ Month[d] \in Nat /\ Month[d] \in Months
    <2> HIDE DEF d, last
    <2>1. (d >= MonthStart[SeriesLength] <=> Month[d] >= SeriesLength)
          /\ (d >= MonthStart[last] <=> Month[d] >= last)
      BY <1>1, <1>4, SinceMonthStarts
    <2>2. d >= MonthStart[SeriesLength] /\ ~ (d >= MonthStart[last])
      BY <1>2
    <2>3. Month[d] \in Nat /\ Month[d] \in Months
      BY <1>4, MonthHolds, MonthStartIs
    <2> QED BY <2>1, <2>2, <2>3
  <1>6. Month[d] + 1 \in Months
    BY <1>1, <1>5, CalendarConstants DEF Months
  <1> QED BY <1>1, <1>2, <1>4, <1>5, <1>6

LEMMA CurrentMonthIs ==
  ASSUME NEW t
  PROVE  currentMonthInBogota(t) = YearMonth(Month[todayInBogota(t)])
  BY DEF currentMonthInBogota, YearMonth

LEMMA ShiftedIs ==
  ASSUME NEW i \in Int, NEW k \in Int
  PROVE  Summary!Shifted(YearMonth(i), k) = YearMonth(i + k)
  BY ShiftedMonth, SummaryShiftedIs DEF YearMonth

LEMMA StartsHold == ASSUME now \in Instants PROVE Summary!StartsAreColombias
  <1> DEFINE i == Month[todayInBogota(now)]
  <1>1. now \in Int /\ todayInBogota(now) \in Days /\ i \in Nat /\ i # 0
    BY MonthOfInstant
  <1>2. /\ startOfBogotaDay(now) <= now
        /\ todayInBogota(startOfBogotaDay(now)) = todayInBogota(now)
        /\ todayInBogota(startOfBogotaDay(now) - 1) = todayInBogota(now) - 1
    BY <1>1, StartsOfDays
  <1>3. /\ startOfBogotaMonth(now) <= startOfBogotaDay(now)
        /\ Month[todayInBogota(startOfBogotaMonth(now))] = i
        /\ Month[todayInBogota(startOfBogotaMonth(now) - 1)] = i - 1
    BY <1>1, StartsOfMonths
  <1>4. /\ currentMonthInBogota(startOfBogotaMonth(now)) = YearMonth(i)
        /\ currentMonthInBogota(startOfBogotaMonth(now) - 1) = YearMonth(i - 1)
        /\ currentMonthInBogota(now) = YearMonth(i)
    BY <1>3, CurrentMonthIs
  <1>5. Summary!Shifted(YearMonth(i), -1) = YearMonth(i - 1)
    <2>1. i \in Int /\ -1 \in Int /\ i + (-1) = i - 1
      BY <1>1
    <2> HIDE DEF i
    <2>2. Summary!Shifted(YearMonth(i), -1) = YearMonth(i + (-1))
      BY <2>1, ShiftedIs
    <2> QED BY <2>1, <2>2
  <1> QED BY <1>2, <1>3, <1>4, <1>5, SummaryStartsAreColombiasIs

\* The server's own date is serverDay's or tomorrow's.
LEMMA ServersDate ==
  ASSUME NEW t \in Instants
  PROVE  /\ t \div Hours \in Days
         /\ Month[t \div Hours] + 3 \in Months
         /\ Month[t \div Hours] \in Nat
  <1> DEFINE d == todayInBogota(t)
             u == t \div Hours
             last == 12 * Years - 4
  <1>1. t \in Nat /\ d \in Nat /\ d < MonthStart[last]
    BY MonthOfInstant, MonthHolds
  <1>2. u \in Nat /\ u <= d + 1
    BY <1>1 DEF todayInBogota, Hours, Offset
  <1>3. last \in Months /\ MonthStart[last] \in Nat /\ 1 <= MonthDays[last]
    BY CalendarConstants, MonthStartIs, MonthDaysAre DEF Months
  <1>4. MonthStart[last] \in Days /\ Month[MonthStart[last]] = last
    <2>1. MonthStart[last] + 1 - 1 = MonthStart[last]
      BY <1>3
    <2> HIDE DEF last
    <2>2. MonthStart[last] + 1 - 1 \in Days /\ Month[MonthStart[last] + 1 - 1] = last
      BY <1>3, DayOfMonthIs
    <2> QED BY <2>1, <2>2
  <1>5. u <= MonthStart[last]
    <2> HIDE DEF u, d, last
    <2> QED BY <1>1, <1>2, <1>3
  <1>6. u \in Days
    <2> HIDE DEF u, d, last
    <2> QED BY <1>2, <1>3, <1>4, <1>5, LastMonth, MonthStartIs DEF Days
  <1>7. Month[u] <= last /\ Month[u] \in Nat
    <2> HIDE DEF u, d
    <2> QED BY <1>4, <1>5, <1>6, MonthGrows, MonthHolds, MonthStartIs
  <1>8. Month[u] + 3 \in Months
    <2> HIDE DEF u, d
    <2> QED BY <1>7, CalendarConstants DEF Months
  <1> QED BY <1>6, <1>7, <1>8

LEMMA DueDatesHold == ASSUME now \in Instants PROVE Summary!DueDates
  <1> DEFINE serverDay == now \div Hours
  <1>1. serverDay \in Days /\ Month[serverDay] + 3 \in Months /\ serverDay \in Nat
        /\ Month[serverDay] \in Nat
    BY ServersDate, MonthHolds
  <1> HIDE DEF serverDay
  <1>2. ASSUME NEW n \in DaysOfMonth, NEW interval \in Intervals, NEW frequency \in Frequencies
        PROVE  DueHolds(serverDay, n, interval, frequency)
    <2> DEFINE next == calcNextDueDate(serverDay, frequency, n, interval)
               k == IF frequency = "bimonthly" THEN 2 ELSE 1
    <2>1. n \in 1 .. 31 /\ interval \in Nat /\ k \in 1 .. 2
      BY SummaryConstants
    <2>2. CASE frequency = "custom"
      <3>1. next = serverDay + CustomDays(interval) /\ CustomDays(interval) \in Nat \ {0}
        BY <1>1, <2>1, <2>2, DaysGoOn DEF calcNextDueDate, CustomDays
      <3> QED BY <1>1, <2>2, <3>1 DEF DueHolds
    <2>3. CASE frequency = "weekly"
      <3>1. next = serverDay + 7
        BY <1>1, <2>3, DaysGoOn DEF calcNextDueDate
      <3> QED BY <1>1, <2>3, <3>1 DEF DueHolds
    <2>4. CASE frequency = "biweekly"
      <3>1. next = serverDay + 14
        BY <1>1, <2>4, DaysGoOn DEF calcNextDueDate
      <3> QED BY <1>1, <2>4, <3>1 DEF DueHolds
    <2>5. CASE frequency \in {"monthly", "bimonthly"}
      <3>1. next = OnItsDay(SetMonth(serverDay, Month[serverDay] + k), n)
        BY <2>5 DEF calcNextDueDate
      <3> HIDE DEF next, k
      <3>2. /\ next > serverDay
            /\ Month[next] = IF DayOfMonth(serverDay) > MonthDays[Month[serverDay] + k]
                               THEN Month[serverDay] + k + 1 ELSE Month[serverDay] + k
            /\ DayOfMonth(next) = Min({n, MonthDays[Month[next]]})
        BY <1>1, <2>1, <3>1, DueDateIs
      <3> QED BY <3>2 DEF next, k, DueHolds
    <2> QED BY <2>2, <2>3, <2>4, <2>5 DEF Frequencies
  <1> QED BY <1>2, SummaryDueDatesIs DEF serverDay

RowsTyped == transactions \in [Ids -> Samples \union {Summary!NoRow}]

LEMMA RowFacts ==
  ASSUME RowsTyped
  PROVE  /\ Summary!Rows \subseteq Ids /\ IsFiniteSet(Summary!Rows)
         /\ \A t \in Ids : Amount[t] \in Nat
         /\ \A t \in Summary!Rows : transactions[t] \in Samples
  BY SummaryConstants, FS_Subset DEF RowsTyped, Summary!Rows

LEMMA SampleFacts ==
  ASSUME NEW row \in Samples
  PROVE  /\ row.date \in Days /\ row.account \in Summary!Accounts \union {None}
         /\ row.type \in {"ingreso", "egreso", "transferencia"}
         /\ row.toAccount \in Summary!Accounts \union {None}
         /\ row.type = "egreso" => row.category \in Categories
  <1>1. row \in Summary!Row
    BY SummaryConstants
  <1>2. row.date \in Dates /\ row.account \in Summary!Accounts \union {None}
        /\ row.toAccount \in Summary!Accounts \union {None}
        /\ row.type \in {"ingreso", "egreso", "transferencia"}
    BY <1>1 DEF Summary!Row
  <1>3. row.date \in Days
    BY <1>2, SummaryConstants
  <1>4. row.type = "egreso" => row.category \in Categories
    BY SummaryConstants
  <1> QED BY <1>2, <1>3, <1>4

LEMMA AmountsAdd ==
  ASSUME NEW S, S \subseteq Ids
  PROVE  /\ IsFiniteSet(S) /\ Cardinality(S) \in Nat
         /\ Summary!Sum(S) = SumFunctionOnSet(Amount, S)
         /\ Summary!Sum(S) \in Nat
         /\ \A t \in S : Amount[t] \in Int
  <1>1. IsFiniteSet(S) /\ Cardinality(S) \in Nat /\ \A t \in S : Amount[t] \in Nat
    BY SummaryConstants, FS_Subset, FS_CardinalityType
  <1>2. SumFunctionOnSet(Amount, S) \in Int /\ SumFunctionOnSet(Amount, S) >= 0
    BY <1>1, SumIsNatural
  <1> QED BY <1>1, <1>2, SummarySumIs

LEMMA FiguresAreFigures ==
  ASSUME NEW S, S \subseteq Ids
  PROVE  Summary!Figures(S) \in Summary!Figure
  <1>1. Summary!OfType(S, "ingreso") \subseteq Ids /\ Summary!OfType(S, "egreso") \subseteq Ids
    BY DEF Summary!OfType
  <1>2. Cardinality(S) \in Nat /\ Summary!Sum(Summary!OfType(S, "ingreso")) \in Nat
        /\ Summary!Sum(Summary!OfType(S, "egreso")) \in Nat
    BY <1>1, AmountsAdd
  <1> QED BY <1>2, SummaryFiguresIs DEF Summary!Figure

-----------------------------------------------------------------------------
(* The months *)

RowsOf(i) == {t \in Summary!Rows : Month[transactions[t].date] = i}

LEMMA DatesAreDays ==
  ASSUME RowsTyped, NEW t \in Summary!Rows
  PROVE  /\ transactions[t].date \in Days /\ Month[transactions[t].date] \in Nat
         /\ Month[transactions[t].date] \in Months
  <1>1. transactions[t] \in Samples
    BY RowFacts
  <1>2. transactions[t].date \in Days
    BY <1>1, SampleFacts
  <1> QED BY <1>2, MonthHolds, MonthStartIs

LEMMA RowsInMonth ==
  ASSUME RowsTyped, NEW i \in Nat, NEW S, S \subseteq Summary!Rows
  PROVE  Summary!InMonth(S, YearMonth(i)) = S \intersect RowsOf(i)
  <1>1. ASSUME NEW t \in S
        PROVE  YearMonth(i) = [year |-> YearOf(Month[transactions[t].date]),
                               month |-> NumberOf(Month[transactions[t].date])]
                  <=> Month[transactions[t].date] = i
    <2>1. Month[transactions[t].date] \in Int /\ i \in Int
      BY DatesAreDays
    <2>2. YearMonth(i) = YearMonth(Month[transactions[t].date]) <=> i = Month[transactions[t].date]
      BY <2>1, YearMonthIsOne
    <2> QED BY <2>2 DEF YearMonth
  <1> QED BY <1>1, SummaryInMonthIs DEF RowsOf

LEMMA RowsSinceMonth ==
  ASSUME RowsTyped, NEW i \in Months
  PROVE  Summary!Since(Summary!Rows, MonthStart[i])
           = {t \in Summary!Rows : Month[transactions[t].date] >= i}
  <1>1. ASSUME NEW t \in Summary!Rows
        PROVE  transactions[t].date >= MonthStart[i] <=> Month[transactions[t].date] >= i
    BY DatesAreDays, SinceMonthStarts
  <1> QED BY <1>1 DEF Summary!Since

\* The months of the series: the rows of each.
LEMMA SeriesIs ==
  ASSUME RowsTyped, now \in Instants
  PROVE  Summary!monthlySeries = [k \in 1 .. SeriesLength |->
            [month |-> YearMonth(CurrentMonth - SeriesLength + k),
             figures |-> Summary!Figures(RowsOf(CurrentMonth - SeriesLength + k))]]
  <1> DEFINE i == CurrentMonth
             first == i + (1 - SeriesLength)
             m == currentMonthInBogota(now)
             rows == Summary!Since(Summary!Rows, monthStartISO(Summary!Shifted(m, 1 - SeriesLength)))
  <1>1. i \in Nat /\ i \in Months /\ SeriesLength \in Nat \ {0} /\ SeriesLength <= i
    BY MonthOfInstant DEF CurrentMonth
  <1>2. m = YearMonth(i)
    BY CurrentMonthIs DEF CurrentMonth
  <1>3. first \in Nat /\ first \in Months /\ first <= i
    BY <1>1, CalendarConstants DEF Months
  <1>4. rows = {t \in Summary!Rows : Month[transactions[t].date] >= first}
    <2>1. i \in Int /\ 1 - SeriesLength \in Int
      BY <1>1
    <2>2. Summary!Shifted(m, 1 - SeriesLength) = YearMonth(first)
      <3> HIDE DEF i, m
      <3> QED BY <1>2, <2>1, ShiftedIs
    <2>3. monthStartISO(YearMonth(first)) = MonthStart[first]
      <3>1. first \in Int
        BY <1>3
      <3> HIDE DEF first
      <3> QED BY <3>1, WrittenMonthStarts
    <2>4. rows = Summary!Since(Summary!Rows, MonthStart[first])
      BY <2>2, <2>3
    <2> HIDE DEF first, rows
    <2> QED BY <1>3, <2>4, RowsSinceMonth
  <1>5. ASSUME NEW k \in 1 .. SeriesLength
        PROVE  /\ Summary!Shifted(m, k - SeriesLength) = YearMonth(i - SeriesLength + k)
               /\ Summary!InMonth(rows, YearMonth(i - SeriesLength + k)) = RowsOf(i - SeriesLength + k)
    <2> DEFINE j == i - SeriesLength + k
    <2>1. j \in Nat /\ j >= first /\ j = i + (k - SeriesLength) /\ i \in Int /\ k - SeriesLength \in Int
      BY <1>1
    <2>2. Summary!Shifted(m, k - SeriesLength) = YearMonth(j)
      <3> HIDE DEF i, m, j
      <3> QED BY <1>2, <2>1, ShiftedIs
    <2>3. Summary!InMonth(rows, YearMonth(j)) = rows \intersect RowsOf(j)
      <3>1. rows \subseteq Summary!Rows
        BY <1>4
      <3> HIDE DEF rows, j
      <3> QED BY <2>1, <3>1, RowsInMonth
    <2>4. RowsOf(j) \subseteq rows
      <3> HIDE DEF rows, j, first
      <3> QED BY <1>4, <2>1 DEF RowsOf
    <2>5. rows \intersect RowsOf(j) = RowsOf(j)
      BY <2>4
    <2> QED BY <2>2, <2>3, <2>5
  <1>6. Summary!monthlySeries = [k \in 1 .. SeriesLength |->
          [month |-> Summary!Shifted(m, k - SeriesLength),
           figures |-> Summary!Figures(Summary!InMonth(rows, Summary!Shifted(m, k - SeriesLength)))]]
    BY SummaryMonthlySeriesIs
  <1> HIDE DEF rows, m
  <1> QED BY <1>5, <1>6

LEMMA CurrentMonthStatsAre ==
  ASSUME RowsTyped, now \in Instants
  PROVE  Summary!currentMonthStats
           = [month |-> YearMonth(CurrentMonth), figures |-> Summary!Figures(RowsOf(CurrentMonth))]
  <1> DEFINE i == CurrentMonth
             m == currentMonthInBogota(now)
  <1>1. i \in Nat /\ i \in Months /\ i + 1 \in Months
    BY MonthOfInstant DEF CurrentMonth
  <1>2. m = YearMonth(i)
    BY CurrentMonthIs DEF CurrentMonth
  <1>3. monthStartISO(m) = MonthStart[i] /\ monthStartISO(Summary!Shifted(m, 1)) = MonthStart[i + 1]
    <2> HIDE DEF i, m
    <2>1. Summary!Shifted(m, 1) = YearMonth(i + 1)
      BY <1>1, <1>2, ShiftedIs
    <2> QED BY <1>1, <1>2, <2>1, WrittenMonthStarts
  <1>4. Summary!Before(Summary!Since(Summary!Rows, MonthStart[i]), MonthStart[i + 1]) = RowsOf(i)
    <2>1. ASSUME NEW t \in Summary!Rows
          PROVE  transactions[t].date >= MonthStart[i] /\ transactions[t].date < MonthStart[i + 1]
                    <=> Month[transactions[t].date] = i
      BY <1>1, DatesAreDays, DaysOfOneMonth
    <2> HIDE DEF i
    <2> QED BY <2>1 DEF Summary!Before, Summary!Since, RowsOf
  <1>5. Summary!currentMonthStats = [month |-> m,
          figures |-> Summary!Figures(Summary!Before(Summary!Since(Summary!Rows, monthStartISO(m)),
            monthStartISO(Summary!Shifted(m, 1))))]
    BY SummaryCurrentMonthStatsIs
  <1> HIDE DEF m
  <1> QED BY <1>2, <1>3, <1>4, <1>5

LEMMA SeriesEndsWithThisMonth ==
  ASSUME RowsTyped, now \in Instants
  PROVE  Summary!currentMonthStats = Summary!monthlySeries[SeriesLength]
  <1>1. CurrentMonth \in Nat /\ SeriesLength \in Nat \ {0}
    BY MonthOfInstant DEF CurrentMonth
  <1>2. SeriesLength \in 1 .. SeriesLength /\ CurrentMonth - SeriesLength + SeriesLength = CurrentMonth
    BY <1>1
  <1> QED BY <1>2, SeriesIs, CurrentMonthStatsAre

LEMMA SeriesAddsUp ==
  ASSUME RowsTyped, now \in Instants
  PROVE  CountedOnce(Summary!monthlySeries)
  <1> DEFINE i == CurrentMonth
             K == 1 .. SeriesLength
             window == {t \in Summary!Rows : Month[transactions[t].date] \in i - SeriesLength + 1 .. i}
             h == [t \in Summary!Rows |-> Month[transactions[t].date] - i + SeriesLength]
             p == [k \in K |-> Summary!monthlySeries[k].figures.count]
             q == [k \in K |-> Summary!monthlySeries[k].figures.expense]
  <1>1. i \in Nat /\ SeriesLength \in Nat \ {0} /\ SeriesLength <= i
    BY MonthOfInstant DEF CurrentMonth
  <1>2. IsFiniteSet(K) /\ IsFiniteSet(Summary!Rows) /\ Summary!Rows \subseteq Ids
    <2>1. SeriesLength \in Int /\ 1 \in Int
      BY <1>1
    <2> QED BY <2>1, FS_Interval, RowFacts
  <1>3. ASSUME NEW k \in K
        PROVE  /\ Summary!monthlySeries[k].month = YearMonth(i - SeriesLength + k)
               /\ p[k] = Cardinality(RowsOf(i - SeriesLength + k))
               /\ q[k] = Summary!Sum(Summary!OfType(RowsOf(i - SeriesLength + k), "egreso"))
    BY SeriesIs, SummaryFiguresIs
  <1>4. ASSUME NEW k \in K
        PROVE  /\ RowsOf(i - SeriesLength + k) = Part(Summary!Rows, h, k)
               /\ Summary!OfType(RowsOf(i - SeriesLength + k), "egreso")
                    = Part(Summary!OfType(Summary!Rows, "egreso"), h, k)
    <2>1. k \in Nat
      BY <1>1
    <2>2. ASSUME NEW t \in Summary!Rows
          PROVE  Month[transactions[t].date] = i - SeriesLength + k <=> h[t] = k
      <3>1. Month[transactions[t].date] \in Nat
        BY DatesAreDays
      <3> HIDE DEF i
      <3> QED BY <1>1, <2>1, <3>1
    <2> HIDE DEF h, i
    <2> QED BY <2>2 DEF RowsOf, Part, Summary!OfType
  <1>5. window = InParts(Summary!Rows, h, K)
        /\ Summary!OfType(window, "egreso") = InParts(Summary!OfType(Summary!Rows, "egreso"), h, K)
    <2>1. ASSUME NEW t \in Summary!Rows
          PROVE  Month[transactions[t].date] \in i - SeriesLength + 1 .. i <=> h[t] \in K
      <3>1. Month[transactions[t].date] \in Nat
        BY DatesAreDays
      <3> HIDE DEF i
      <3> QED BY <1>1, <3>1
    <2> HIDE DEF h, i, K
    <2> QED BY <2>1 DEF InParts, Summary!OfType
  <1> HIDE DEF h
  <1>6. Cardinality(window) = SumFunctionOnSet(p, K)
    <2>1. \A k \in K : p[k] = Cardinality(Part(Summary!Rows, h, k))
      BY <1>3, <1>4
    <2> HIDE DEF p, K, window
    <2> QED BY <1>2, <1>5, <2>1, CountOfParts
  <1>7. Summary!Sum(Summary!OfType(window, "egreso")) = SumFunctionOnSet(q, K)
    <2> DEFINE S == Summary!OfType(Summary!Rows, "egreso")
    <2>1. S \subseteq Ids /\ IsFiniteSet(S) /\ \A x \in S : Amount[x] \in Int
      <3>1. S \subseteq Ids
        BY <1>2 DEF Summary!OfType
      <3> HIDE DEF S
      <3> QED BY <3>1, AmountsAdd
    <2>2. \A k \in K : q[k] = SumFunctionOnSet(Amount, Part(S, h, k))
      BY <1>3, <1>4, SummarySumIs
    <2>3. Summary!Sum(Summary!OfType(window, "egreso")) = SumFunctionOnSet(Amount, InParts(S, h, K))
      BY <1>5, SummarySumIs
    <2> HIDE DEF q, K, window, S
    <2> QED BY <1>2, <2>1, <2>2, <2>3, SumOfParts
  <1>8. SumFunction(p) = SumFunctionOnSet(p, K) /\ SumFunction(q) = SumFunctionOnSet(q, K)
    BY DEF SumFunction
  <1> QED BY <1>3, <1>6, <1>7, <1>8 DEF CountedOnce

-----------------------------------------------------------------------------
(* The groups of expenses *)

LEMMA GroupsAre ==
  ASSUME RowsTyped
  PROVE  /\ IsFiniteSet(Summary!Groups) /\ Cardinality(Summary!Groups) \in Nat
         /\ \A t \in Summary!Expenses : Summary!Group(t) \in Summary!Groups
         /\ \A g \in Summary!Groups : Parent[g] = None \/ \E c \in Categories : Parent[c] = g
         /\ Summary!Expenses \subseteq Ids
  <1>1. IsFiniteSet(Summary!Rows) /\ Summary!Rows \subseteq Ids
    BY RowFacts
  <1>2. Summary!Expenses \subseteq Summary!Rows
    BY DEF Summary!Expenses, Summary!OfType
  <1>3. IsFiniteSet(Summary!Expenses)
    BY <1>1, <1>2, FS_Subset
  <1>4. IsFiniteSet(Summary!Groups)
    <2> DEFINE h == [t \in Summary!Expenses |-> Summary!Group(t)]
    <2>1. h \in Surjection(Summary!Expenses, Summary!Groups)
      BY DEF Summary!Groups, Surjection
    <2> QED BY <1>3, <2>1, FS_Surjection
  <1>5. ASSUME NEW t \in Summary!Expenses
        PROVE  \/ Parent[Summary!Group(t)] = None
               \/ \E c \in Categories : Parent[c] = Summary!Group(t)
    <2>1. transactions[t] \in Samples /\ transactions[t].type = "egreso"
      BY <1>2, RowFacts DEF Summary!Expenses, Summary!OfType
    <2>2. transactions[t].category \in Categories
      BY <2>1, SampleFacts
    <2> QED BY <2>2 DEF Summary!Group
  <1> QED BY <1>1, <1>2, <1>4, <1>5, FS_CardinalityType DEF Summary!Groups

SpentOn == [g \in Summary!Groups |-> Summary!Spent(g)]

LEMMA SpentOnGroups ==
  ASSUME RowsTyped
  PROVE  /\ Summary!Sum(Summary!Expenses) = SumFunctionOnSet(SpentOn, Summary!Groups)
         /\ \A g \in Summary!Groups : SpentOn[g] \in Nat /\ SpentOn[g] = Summary!Spent(g)
  <1> DEFINE h == [t \in Summary!Expenses |-> Summary!Group(t)]
  <1>1. IsFiniteSet(Summary!Groups) /\ Summary!Expenses \subseteq Ids /\ IsFiniteSet(Summary!Expenses)
        /\ \A x \in Summary!Expenses : Amount[x] \in Int
    BY GroupsAre, AmountsAdd
  <1>2. ASSUME NEW g \in Summary!Groups
        PROVE  SpentOn[g] = SumFunctionOnSet(Amount, Part(Summary!Expenses, h, g)) /\ SpentOn[g] \in Nat
               /\ SpentOn[g] = Summary!Spent(g)
    <2>1. {t \in Summary!Expenses : Summary!Group(t) = g} = Part(Summary!Expenses, h, g)
      BY DEF Part
    <2>2. {t \in Summary!Expenses : Summary!Group(t) = g} \subseteq Ids
      BY <1>1
    <2>3. SpentOn[g] = Summary!Sum({t \in Summary!Expenses : Summary!Group(t) = g})
          /\ SpentOn[g] = Summary!Spent(g)
      BY DEF SpentOn, Summary!Spent
    <2>4. Summary!Sum(Part(Summary!Expenses, h, g)) \in Nat
          /\ Summary!Sum(Part(Summary!Expenses, h, g))
               = SumFunctionOnSet(Amount, Part(Summary!Expenses, h, g))
      BY <2>1, <2>2, AmountsAdd
    <2> QED BY <2>1, <2>3, <2>4
  <1>3. InParts(Summary!Expenses, h, Summary!Groups) = Summary!Expenses
    BY GroupsAre DEF InParts
  <1> HIDE DEF h
  <1>4. SumFunctionOnSet(SpentOn, Summary!Groups)
          = SumFunctionOnSet(Amount, InParts(Summary!Expenses, h, Summary!Groups))
    BY <1>1, <1>2, SumOfParts
  <1> QED BY <1>2, <1>3, <1>4, SummarySumIs

LEMMA GroupsHold ==
  ASSUME RowsTyped, NEW tp \in Summary!Tops, NEW top, top = [g \in tp |-> Summary!Spent(g)]
  PROVE  TopsHold(top, Summary!Sum(Summary!Expenses))
  <1> DEFINE rest == Summary!Groups \ tp
             left == SumFunctionOnSet(SpentOn, rest)
  <1>1. /\ tp \subseteq Summary!Groups /\ DOMAIN top = tp
        /\ Cardinality(tp) = Min({TopLimit, Cardinality(Summary!Groups)})
        /\ \A g \in tp, x \in rest : Summary!Spent(g) >= Summary!Spent(x)
        /\ \A g \in tp : top[g] = Summary!Spent(g)
    BY SummaryTopsIs
  <1>2. /\ IsFiniteSet(Summary!Groups) /\ Cardinality(Summary!Groups) \in Nat /\ TopLimit \in Nat \ {0}
        /\ IsFiniteSet(tp) /\ IsFiniteSet(rest) /\ Cardinality(tp) \in Nat
        /\ \A g \in Summary!Groups : Parent[g] = None \/ \E c \in Categories : Parent[c] = g
    BY <1>1, GroupsAre, SummaryConstants, FS_Subset, FS_CardinalityType
  <1>3. \A g \in Summary!Groups : SpentOn[g] \in Nat /\ SpentOn[g] = Summary!Spent(g)
    BY SpentOnGroups
  <1>4. Summary!Sum(Summary!Expenses) - SumFunction(top) = left /\ left \in Int
    <2>1. SumFunction(top) = SumFunctionOnSet(top, tp)
      BY <1>1 DEF SumFunction
    <2>2. SumFunctionOnSet(top, tp) = SumFunctionOnSet(SpentOn, tp)
      <3>1. \A g \in tp : top[g] = SpentOn[g]
        BY <1>1, <1>3
      <3> QED BY <1>2, <3>1, SumOfSame
    <2>3. tp \union rest = Summary!Groups /\ tp \intersect rest = {}
          /\ \A g \in tp \union rest : SpentOn[g] \in Int
      BY <1>1, <1>3
    <2>4. SumFunctionOnSet(SpentOn, tp \union rest) = SumFunctionOnSet(SpentOn, tp) + left
      <3> HIDE DEF rest
      <3> QED BY <1>2, <2>3, SumSplits
    <2>5. SumFunctionOnSet(SpentOn, tp) \in Int /\ SumFunctionOnSet(SpentOn, rest) \in Int
      <3> HIDE DEF rest
      <3>1. (\A g \in tp : SpentOn[g] \in Int) /\ (\A g \in rest : SpentOn[g] \in Int)
        BY <2>3
      <3> QED BY <1>2, <3>1, SumIsInteger
    <2>6. Summary!Sum(Summary!Expenses) = SumFunctionOnSet(SpentOn, tp \union rest)
      BY <2>3, SpentOnGroups
    <2> HIDE DEF rest
    <2> QED BY <2>1, <2>2, <2>4, <2>5, <2>6
  <1>5. CASE Cardinality(tp) < TopLimit
    <2>1. Cardinality(tp) = Cardinality(Summary!Groups)
      <3>1. Min({TopLimit, Cardinality(Summary!Groups)})
              = IF TopLimit < Cardinality(Summary!Groups) THEN TopLimit
                                                  ELSE Cardinality(Summary!Groups)
        BY <1>2, MinimumIs
      <3> QED BY <1>1, <1>2, <1>5, <3>1
    <2>2. rest = {}
      BY <1>1, <1>2, <2>1, FS_Subset
    <2>3. left = 0
      BY <2>2, SumOfNone
    <2> HIDE DEF left
    <2> QED BY <1>1, <1>2, <1>4, <1>5, <2>3 DEF TopsHold
  <1>6. CASE ~ (Cardinality(tp) < TopLimit)
    <2>1. left >= 0
      <3> HIDE DEF rest
      <3>1. \A g \in rest : SpentOn[g] \in Nat
        BY <1>3 DEF rest
      <3> QED BY <1>2, <3>1, SumIsNatural
    <2>2. ASSUME NEW g \in tp PROVE Cardinality(rest) * top[g] >= left
      <3> DEFINE m == Summary!Spent(g)
      <3>1. m \in Nat /\ top[g] = m
        BY <1>1, <1>3
      <3>2. \A x \in rest : SpentOn[x] \in Nat /\ SpentOn[x] <= m
        BY <1>1, <1>3, <3>1
      <3> HIDE DEF m, rest
      <3>3. SumFunctionOnSet(SpentOn, rest) <= Cardinality(rest) * m
            /\ SumFunctionOnSet(SpentOn, rest) \in Nat
        BY <1>2, <3>1, <3>2, SumIsAtMost
      <3>4. Cardinality(rest) * m \in Nat
        <4>1. Cardinality(rest) \in Nat
          BY <1>2, FS_CardinalityType
        <4>2. ASSUME NEW a \in Nat, NEW b \in Nat PROVE a * b \in Nat
          OBVIOUS
        <4> QED BY <3>1, <4>1, <4>2
      <3> QED BY <3>1, <3>3, <3>4
    <2> HIDE DEF left, rest
    <2> QED BY <1>1, <1>2, <1>4, <1>6, <2>1, <2>2 DEF rest, TopsHold
  <1> QED BY <1>5, <1>6

-----------------------------------------------------------------------------
(* The balance *)

Incomes == Summary!OfType(Summary!Rows, "ingreso")
Leaving == Summary!Rows \ Incomes
Transfers == Summary!OfType(Summary!Rows, "transferencia")

LEMMA MovementsAre ==
  ASSUME RowsTyped, NEW a \in Summary!Accounts
  PROVE  LET by == [t \in Summary!Rows |-> transactions[t].account]
             to == [t \in Summary!Rows |-> transactions[t].toAccount]
         IN  /\ Summary!Movements(a)
                   = Summary!Sum(Part(Incomes, by, a)) - Summary!Sum(Part(Leaving, by, a))
                                  + Summary!Sum(Part(Transfers, to, a))
             /\ Summary!Sum(Part(Incomes, by, a)) \in Nat
             /\ Summary!Sum(Part(Leaving, by, a)) \in Nat
             /\ Summary!Sum(Part(Transfers, to, a)) \in Nat
  <1> DEFINE by == [t \in Summary!Rows |-> transactions[t].account]
             to == [t \in Summary!Rows |-> transactions[t].toAccount]
             own == {t \in Summary!Rows : transactions[t].account = a}
  <1>1. Part(Incomes, by, a) = Summary!OfType(own, "ingreso")
    BY DEF Part, Incomes, Summary!OfType
  <1>2. Part(Leaving, by, a) = own \ Summary!OfType(own, "ingreso")
    BY DEF Part, Leaving, Incomes, Summary!OfType
  <1>3. Part(Transfers, to, a)
          = Summary!OfType({t \in Summary!Rows : transactions[t].toAccount = a}, "transferencia")
    BY DEF Part, Transfers, Summary!OfType
  <1>4. /\ Part(Incomes, by, a) \subseteq Ids
        /\ Part(Leaving, by, a) \subseteq Ids
        /\ Part(Transfers, to, a) \subseteq Ids
    BY RowFacts DEF Part, Incomes, Leaving, Transfers, Summary!OfType
  <1>5. /\ Summary!Sum(Part(Incomes, by, a)) \in Nat
        /\ Summary!Sum(Part(Leaving, by, a)) \in Nat
        /\ Summary!Sum(Part(Transfers, to, a)) \in Nat
    <2> HIDE DEF by, to
    <2> QED BY <1>4, AmountsAdd
  <1>6. Summary!Movements(a) = Summary!Sum(Part(Incomes, by, a))
          - Summary!Sum(Part(Leaving, by, a)) + Summary!Sum(Part(Transfers, to, a))
    BY <1>1, <1>2, <1>3 DEF Summary!Movements
  <1> QED BY <1>5, <1>6

LEMMA BalancesAdd ==
  ASSUME RowsTyped
  PROVE  /\ Summary!BalanceOf(Debit) + Summary!BalanceOf(Credit)
              = SumFunctionOnSet([a \in Summary!Accounts |-> Summary!currentBalanceOf(a)],
                Summary!Accounts)
         /\ Summary!BalanceOf(Debit) \in Int /\ Summary!BalanceOf(Credit) \in Int
         /\ \A a \in Summary!Accounts : Summary!currentBalanceOf(a) \in Int
  <1> DEFINE cur == [a \in Summary!Accounts |-> Summary!currentBalanceOf(a)]
  <1>1. ASSUME NEW a \in Summary!Accounts PROVE Summary!currentBalanceOf(a) \in Int
    <2>1. Balance[a] \in Int
      BY SummaryConstants DEF Summary!Accounts
    <2>2. \E x, y, z \in Nat : Summary!Movements(a) = x - y + z
      BY MovementsAre
    <2>3. Summary!Movements(a) \in Int
      BY <2>2
    <2> QED BY <2>1, <2>3 DEF Summary!currentBalanceOf
  <1>2. /\ IsFiniteSet(Debit) /\ IsFiniteSet(Credit) /\ Debit \intersect Credit = {}
        /\ Debit \union Credit = Summary!Accounts
    BY SummaryConstants DEF Summary!Accounts
  <1>3. \A a \in Summary!Accounts : cur[a] \in Int
    BY <1>1
  <1>4. ASSUME NEW S, S \subseteq Summary!Accounts, IsFiniteSet(S)
        PROVE  Summary!BalanceOf(S) = SumFunctionOnSet(cur, S) /\ Summary!BalanceOf(S) \in Int
    <2> DEFINE f == [a \in S |-> Summary!currentBalanceOf(a)]
    <2>1. Summary!BalanceOf(S) = SumFunctionOnSet(f, S)
      BY SummaryBalanceOfIs DEF SumFunction
    <2>2. \A a \in S : f[a] = cur[a] /\ f[a] \in Int
      BY <1>1, <1>4
    <2> HIDE DEF f, cur
    <2>3. SumFunctionOnSet(f, S) = SumFunctionOnSet(cur, S)
      BY <1>4, <2>2, SumOfSame
    <2>4. SumFunctionOnSet(f, S) \in Int
      BY <1>4, <2>2, SumIsInteger
    <2> QED BY <2>1, <2>3, <2>4
  <1> HIDE DEF cur
  <1>5. SumFunctionOnSet(cur, Debit \union Credit) = SumFunctionOnSet(cur, Debit)
          + SumFunctionOnSet(cur, Credit)
    BY <1>2, <1>3, SumSplits
  <1> QED BY <1>1, <1>2, <1>4, <1>5 DEF cur

\* The sums of a function of the rows of each account.
LEMMA SumsOfAccounts ==
  ASSUME RowsTyped, NEW S, S \subseteq Summary!Rows, NEW h, NEW p,
         \A a \in Summary!Accounts : p[a] = Summary!Sum(Part(S, h, a))
  PROVE  SumFunctionOnSet(p, Summary!Accounts) = Summary!Sum(InParts(S, h, Summary!Accounts))
  <1>1. IsFiniteSet(Summary!Accounts)
    BY SummaryConstants, FS_Union DEF Summary!Accounts
  <1>2. IsFiniteSet(S) /\ \A x \in S : Amount[x] \in Int
    BY RowFacts, AmountsAdd
  <1>3. \A a \in Summary!Accounts : p[a] = SumFunctionOnSet(Amount, Part(S, h, a))
    BY SummarySumIs
  <1>4. SumFunctionOnSet(p, Summary!Accounts)
          = SumFunctionOnSet(Amount, InParts(S, h, Summary!Accounts))
    BY <1>1, <1>2, <1>3, SumOfParts
  <1> QED BY <1>4, SummarySumIs

LEMMA BalanceHolds ==
  ASSUME RowsTyped
  PROVE  BalancesHold(Summary!BalanceOf(Debit), Summary!Sum(Incomes),
           Summary!Sum(Summary!Expenses), Summary!Sum(Transfers))
  <1> DEFINE by == [t \in Summary!Rows |-> transactions[t].account]
             to == [t \in Summary!Rows |-> transactions[t].toAccount]
             in == [a \in Summary!Accounts |-> Summary!Sum(Part(Incomes, by, a))]
             out == [a \in Summary!Accounts |-> Summary!Sum(Part(Leaving, by, a))]
             moved == [a \in Summary!Accounts |-> Summary!Sum(Part(Transfers, to, a))]
             cur == [a \in Summary!Accounts |-> Summary!currentBalanceOf(a)]
             within == {t \in Transfers : transactions[t].toAccount # None}
             unlinked == {t \in Summary!Rows : transactions[t].account = None}
             unlinkedIn == Summary!OfType(unlinked, "ingreso")
             unlinkedOut == unlinked \ unlinkedIn
             linkedIn == Incomes \ unlinked
             linkedOut == Leaving \ unlinked
             one == [a \in Summary!Accounts |-> Balance[a] + in[a]]
             two == [a \in Summary!Accounts |-> one[a] + moved[a]]
  <1>1. IsFiniteSet(Summary!Accounts)
    BY SummaryConstants, FS_Union DEF Summary!Accounts
  <1>2. ASSUME NEW a \in Summary!Accounts
        PROVE  /\ Balance[a] \in Int /\ in[a] \in Int /\ out[a] \in Int /\ moved[a] \in Int
               /\ one[a] \in Int /\ two[a] \in Int /\ cur[a] \in Int
               /\ one[a] = Balance[a] + in[a]
               /\ two[a] = one[a] + moved[a]
               /\ two[a] = cur[a] + out[a]
    <2>1. /\ in[a] \in Int /\ out[a] \in Int /\ moved[a] \in Int
          /\ Summary!Movements(a) = in[a] - out[a] + moved[a]
      BY MovementsAre
    <2>2. Balance[a] \in Int
      BY SummaryConstants DEF Summary!Accounts
    <2>3. cur[a] = Balance[a] + Summary!Movements(a) /\ one[a] = Balance[a] + in[a]
          /\ two[a] = one[a] + moved[a]
      BY DEF Summary!currentBalanceOf
    <2> HIDE DEF in, out, moved, cur, one, two
    <2> QED BY <2>1, <2>2, <2>3
  <1>3. \A t \in Summary!Rows :
          /\ by[t] \in Summary!Accounts <=> transactions[t].account # None
          /\ to[t] \in Summary!Accounts <=> transactions[t].toAccount # None
          /\ transactions[t].type \in {"ingreso", "egreso", "transferencia"}
    <2>1. None \notin Summary!Accounts
      BY SummaryConstants DEF Summary!Accounts
    <2> QED BY <2>1, RowFacts, SampleFacts
  <1>4. /\ InParts(Incomes, by, Summary!Accounts) = linkedIn
        /\ InParts(Leaving, by, Summary!Accounts) = linkedOut
        /\ InParts(Transfers, to, Summary!Accounts) = within
    <2> HIDE DEF by, to
    <2> QED BY <1>3 DEF InParts, Incomes, Leaving, Transfers, Summary!OfType
  <1>5. /\ Incomes \subseteq Summary!Rows /\ Leaving \subseteq Summary!Rows
           /\ Transfers \subseteq Summary!Rows
        /\ Summary!Expenses \subseteq Summary!Rows /\ within \subseteq Summary!Rows
           /\ Summary!Rows \subseteq Ids
        /\ Leaving = Summary!Expenses \union Transfers /\ Summary!Expenses \intersect Transfers = {}
    BY <1>3, RowFacts DEF Incomes, Leaving, Transfers, Summary!Expenses, Summary!OfType
  <1>6. Summary!Sum(Leaving) = Summary!Sum(Summary!Expenses) + Summary!Sum(Transfers)
    <2>1. /\ IsFiniteSet(Summary!Expenses) /\ IsFiniteSet(Transfers)
          /\ \A x \in Summary!Expenses \union Transfers : Amount[x] \in Int
      BY <1>5, AmountsAdd
    <2>2. SumFunctionOnSet(Amount, Summary!Expenses \union Transfers)
            = SumFunctionOnSet(Amount, Summary!Expenses) + SumFunctionOnSet(Amount, Transfers)
      BY <1>5, <2>1, SumSplits
    <2> QED BY <1>5, <2>2, SummarySumIs
  <1>7. /\ Summary!Sum(Incomes) \in Nat /\ Summary!Sum(Summary!Expenses) \in Nat
           /\ Summary!Sum(Transfers) \in Nat
        /\ Summary!Sum(within) \in Nat /\ Summary!Sum(Leaving) \in Nat
        /\ Summary!Sum(linkedIn) \in Nat /\ Summary!Sum(linkedOut) \in Nat
        /\ Summary!Sum(unlinkedIn) \in Nat /\ Summary!Sum(unlinkedOut) \in Nat
    <2>1. linkedIn \subseteq Ids /\ linkedOut \subseteq Ids
          /\ unlinkedIn \subseteq Ids /\ unlinkedOut \subseteq Ids
      BY <1>5 DEF Summary!OfType
    <2> HIDE DEF within, unlinkedIn, unlinkedOut, linkedIn, linkedOut
    <2> QED BY <1>5, <2>1, AmountsAdd
  <1>8. /\ Summary!Sum(Incomes) = Summary!Sum(linkedIn) + Summary!Sum(unlinkedIn)
         /\ Summary!Sum(Leaving) = Summary!Sum(linkedOut) + Summary!Sum(unlinkedOut)
    <2>1. /\ Incomes = linkedIn \union unlinkedIn /\ linkedIn \intersect unlinkedIn = {}
          /\ Leaving = linkedOut \union unlinkedOut /\ linkedOut \intersect unlinkedOut = {}
      BY DEF Incomes, Leaving, Summary!OfType
    <2>2. Incomes \subseteq Ids /\ Leaving \subseteq Ids
      BY <1>5
    <2> HIDE DEF unlinkedIn, unlinkedOut, linkedIn, linkedOut
    <2>3. ASSUME NEW S, NEW T, S \union T \subseteq Ids, S \intersect T = {}
          PROVE  Summary!Sum(S \union T) = Summary!Sum(S) + Summary!Sum(T)
      <3>1. IsFiniteSet(S) /\ IsFiniteSet(T) /\ \A x \in S \union T : Amount[x] \in Int
        BY <2>3, AmountsAdd
      <3>2. SumFunctionOnSet(Amount, S \union T)
              = SumFunctionOnSet(Amount, S) + SumFunctionOnSet(Amount, T)
        BY <2>3, <3>1, SumSplits
      <3> QED BY <3>2, SummarySumIs
    <2> QED BY <2>1, <2>2, <2>3
  <1>9. /\ SumFunctionOnSet(in, Summary!Accounts) = Summary!Sum(linkedIn)
        /\ SumFunctionOnSet(out, Summary!Accounts) = Summary!Sum(linkedOut)
        /\ SumFunctionOnSet(moved, Summary!Accounts) = Summary!Sum(within)
    <2>1. /\ \A a \in Summary!Accounts : in[a] = Summary!Sum(Part(Incomes, by, a))
          /\ \A a \in Summary!Accounts : out[a] = Summary!Sum(Part(Leaving, by, a))
          /\ \A a \in Summary!Accounts : moved[a] = Summary!Sum(Part(Transfers, to, a))
      OBVIOUS
    <2> HIDE DEF by, to, in, out, moved, within, linkedIn, linkedOut
    <2> QED BY <1>4, <1>5, <2>1, SumsOfAccounts
  <1>10. Summary!BalanceOf(Debit) + Summary!BalanceOf(Credit) = SumFunctionOnSet(cur, Summary!Accounts)
    BY BalancesAdd
  <1> HIDE DEF by, to, in, out, moved, cur, one, two, within, unlinkedIn, unlinkedOut, linkedIn, linkedOut
  <1>11. SumFunctionOnSet(one, Summary!Accounts) = SumFunctionOnSet(Balance, Summary!Accounts)
           + SumFunctionOnSet(in, Summary!Accounts)
    BY <1>1, <1>2, SumAdds
  <1>12. SumFunctionOnSet(two, Summary!Accounts) = SumFunctionOnSet(one, Summary!Accounts)
           + SumFunctionOnSet(moved, Summary!Accounts)
    BY <1>1, <1>2, SumAdds
  <1>13. SumFunctionOnSet(two, Summary!Accounts) = SumFunctionOnSet(cur, Summary!Accounts)
           + SumFunctionOnSet(out, Summary!Accounts)
    BY <1>1, <1>2, SumAdds
  <1>14. SumFunctionOnSet(Balance, Summary!Accounts) \in Int
         /\ SumFunctionOnSet(cur, Summary!Accounts) \in Int
    <2>1. (\A a \in Summary!Accounts : Balance[a] \in Int)
          /\ (\A a \in Summary!Accounts : cur[a] \in Int)
      BY <1>2
    <2> QED BY <1>1, <2>1, SumIsInteger
  <1>15. SumFunctionOnSet(two, Summary!Accounts) = SumFunctionOnSet(Balance, Summary!Accounts)
           + Summary!Sum(linkedIn) + Summary!Sum(within)
    BY <1>7, <1>9, <1>11, <1>12, <1>14
  <1>16. SumFunctionOnSet(two, Summary!Accounts)
           = SumFunctionOnSet(cur, Summary!Accounts) + Summary!Sum(linkedOut)
    BY <1>7, <1>9, <1>13, <1>14
  <1>17. SumFunctionOnSet(cur, Summary!Accounts)
           = SumFunctionOnSet(Balance, Summary!Accounts)
             + (Summary!Sum(Incomes) - Summary!Sum(unlinkedIn))
             - (Summary!Sum(Summary!Expenses) + Summary!Sum(Transfers) - Summary!Sum(unlinkedOut))
             + Summary!Sum(within)
    <2>1. PICK b \in Int, c \in Int, i \in Nat, w \in Nat, e \in Nat, t \in Nat,
               l \in Nat, m \in Nat, u \in Nat, v \in Nat :
             /\ b = SumFunctionOnSet(Balance, Summary!Accounts)
                /\ c = SumFunctionOnSet(cur, Summary!Accounts)
             /\ i = Summary!Sum(Incomes) /\ w = Summary!Sum(within)
                /\ e = Summary!Sum(Summary!Expenses) /\ t = Summary!Sum(Transfers)
             /\ l = Summary!Sum(linkedIn) /\ m = Summary!Sum(linkedOut)
                /\ u = Summary!Sum(unlinkedIn) /\ v = Summary!Sum(unlinkedOut)
      BY <1>7, <1>14
    <2>2. b + l + w = c + m /\ i = l + u /\ e + t = m + v
      BY <1>6, <1>15, <1>16, <1>8, <2>1
    <2>3. c = b + (i - u) - (e + t - v) + w
      BY <2>2
    <2> QED BY <2>1, <2>3
  <1> QED BY <1>10, <1>17 DEF within, unlinked, unlinkedIn, unlinkedOut, Transfers, BalancesHold

-----------------------------------------------------------------------------
(* What the properties say of fresh parts *)

LEMMA SummaryTotalsAre ==
  ASSUME RowsTyped
  PROVE  /\ Summary!transactionStats.figures \in Summary!Figure
         /\ Summary!transactionStats.figures.income = Summary!Sum(Incomes)
         /\ Summary!transactionStats.figures.expense = Summary!Sum(Summary!Expenses)
         /\ Summary!transactionStats.transfer = Summary!Sum(Transfers)
  <1>1. Summary!transactionStats.figures = Summary!Figures(Summary!Rows)
        /\ Summary!transactionStats.transfer = Summary!Sum(Transfers)
    BY SummaryTransactionStatsIs DEF Transfers
  <1>2. Summary!Figures(Summary!Rows).income = Summary!Sum(Incomes)
        /\ Summary!Figures(Summary!Rows).expense = Summary!Sum(Summary!Expenses)
    BY SummaryFiguresIs DEF Incomes, Summary!Expenses
  <1> QED BY <1>1, <1>2, RowFacts, FiguresAreFigures

LEMMA SummaryIInvHolds ==
  ASSUME Summary!IInv
  PROVE  Summary!TypeOK /\ Summary!CurrentMonthEndsTheSeries /\ Summary!GroupsAddUp
         /\ Summary!BalanceFollowsTheTotals
  <1>1. RowsTyped /\ now \in Instants /\ Summary!PartsAreAnswers /\ DOMAIN parts = Summary!Queries
    BY DEF Summary!IInv, RowsTyped
  <1>2. Summary!TypeOK
    <2>1. Summary!Fresh("totals") => parts["totals"].figures \in Summary!Figure
      BY <1>1, SummaryTotalsAre DEF Summary!PartsAreAnswers
    <2>2. transactions \in [Ids -> Summary!Row \union {Summary!NoRow}]
      BY <1>1, SummaryConstants DEF RowsTyped
    <2> QED BY <1>1, <2>1, <2>2 DEF Summary!TypeOK
  <1>3. Summary!CurrentMonthEndsTheSeries
    BY <1>1, SeriesEndsWithThisMonth DEF Summary!PartsAreAnswers, Summary!CurrentMonthEndsTheSeries
  <1>4. Summary!GroupsAddUp
    <2>1. ASSUME Summary!Fresh("totals"), Summary!Fresh("top")
          PROVE  TopsHold(parts["top"], parts["totals"].figures.expense)
      <3>1. PICK tp \in Summary!Tops : parts["top"] = [g \in tp |-> Summary!Spent(g)]
        BY <1>1, <2>1 DEF Summary!PartsAreAnswers
      <3>2. parts["totals"].figures.expense = Summary!Sum(Summary!Expenses)
        BY <1>1, <2>1, SummaryTotalsAre DEF Summary!PartsAreAnswers
      <3> QED BY <1>1, <3>1, <3>2, GroupsHold
    <2> QED BY <2>1, SummaryGroupsAddUpIs
  <1>5. Summary!BalanceFollowsTheTotals
    <2>1. ASSUME Summary!Fresh("totals"), Summary!Fresh("balance")
          PROVE  BalancesHold(parts["balance"], parts["totals"].figures.income,
                              parts["totals"].figures.expense, parts["totals"].transfer)
      <3>1. /\ parts["totals"].figures.income = Summary!Sum(Incomes)
            /\ parts["totals"].figures.expense = Summary!Sum(Summary!Expenses)
            /\ parts["totals"].transfer = Summary!Sum(Transfers)
        BY <1>1, <2>1, SummaryTotalsAre DEF Summary!PartsAreAnswers
      <3>2. parts["balance"] = Summary!BalanceOf(Debit)
        BY <1>1, <2>1 DEF Summary!PartsAreAnswers, Summary!TotalBalance
      <3> QED BY <1>1, <3>1, <3>2, BalanceHolds
    <2> QED BY <2>1, SummaryBalanceFollowsTheTotalsIs
  <1> QED BY <1>2, <1>3, <1>4, <1>5

-----------------------------------------------------------------------------

(* Each action keeps the fresh parts what the queries would answer now. *)

LEMMA SummaryInitAnswers == Summary!Init => Summary!IInv
  <1> SUFFICES ASSUME Summary!Init PROVE Summary!IInv
    OBVIOUS
  <1>1. \A q \in Summary!Queries : ~ Summary!Fresh(q)
    BY DEF Summary!Init, Summary!Fresh
  <1>2. Summary!PartsAreAnswers
    BY <1>1 DEF Summary!PartsAreAnswers, Summary!Queries
  <1> QED BY <1>2 DEF Summary!Init, Summary!IInv

\* The answers depend on the clock by its month only.
LEMMA AnswersStay ==
  ASSUME UNCHANGED transactions, Summary!currentMonthInBogota(now)' = Summary!currentMonthInBogota(now)
  PROVE  /\ Summary!transactionStats' = Summary!transactionStats
         /\ Summary!currentMonthStats' = Summary!currentMonthStats
         /\ Summary!monthlySeries' = Summary!monthlySeries
         /\ Summary!Tops' = Summary!Tops
         /\ \A g : Summary!Spent(g)' = Summary!Spent(g)
         /\ Summary!TotalBalance' = Summary!TotalBalance
  <1>1. Summary!Rows' = Summary!Rows
    BY DEF Summary!Rows
  <1>2. ASSUME NEW S
        PROVE  Summary!Figures(S)' = Summary!Figures(S)
               /\ \A type : Summary!OfType(S, type)' = Summary!OfType(S, type)
    BY DEF Summary!Figures, Summary!OfType
  <1>3. ASSUME NEW S, NEW d
        PROVE  Summary!Since(S, d)' = Summary!Since(S, d)
               /\ Summary!Before(S, d)' = Summary!Before(S, d)
               /\ Summary!InMonth(S, d)' = Summary!InMonth(S, d)
    BY DEF Summary!Since, Summary!Before, Summary!InMonth
  <1>4. Summary!transactionStats' = Summary!transactionStats
    BY <1>1, <1>2 DEF Summary!transactionStats
  <1>5. Summary!currentMonthStats' = Summary!currentMonthStats
    BY <1>1, <1>2, <1>3 DEF Summary!currentMonthStats
  <1>6. Summary!monthlySeries' = Summary!monthlySeries
    BY <1>1, <1>2, <1>3 DEF Summary!monthlySeries
  <1>7. /\ Summary!Expenses' = Summary!Expenses /\ \A t : Summary!Group(t)' = Summary!Group(t)
        /\ Summary!Groups' = Summary!Groups /\ \A g : Summary!Spent(g)' = Summary!Spent(g)
    BY <1>1 DEF Summary!Expenses, Summary!OfType, Summary!Group, Summary!Groups, Summary!Spent
  <1>8. Summary!Tops' = Summary!Tops
    BY <1>7 DEF Summary!Tops
  <1>9. Summary!TotalBalance' = Summary!TotalBalance
    <2>1. \A a : Summary!Movements(a)' = Summary!Movements(a)
      BY <1>1 DEF Summary!Movements, Summary!OfType
    <2> QED BY <2>1 DEF Summary!TotalBalance, Summary!BalanceOf, Summary!currentBalanceOf
  <1> QED BY <1>4, <1>5, <1>6, <1>7, <1>8, <1>9

LEMMA FreshStays ==
  ASSUME Summary!IInv, UNCHANGED transactions,
         Summary!currentMonthInBogota(now)' = Summary!currentMonthInBogota(now),
         UNCHANGED parts
  PROVE  Summary!PartsAreAnswers'
  <1>1. \A q : Summary!Fresh(q)' <=> Summary!Fresh(q)
    BY DEF Summary!Fresh
  <1>2. Summary!PartsAreAnswers
    BY DEF Summary!IInv
  <1> QED BY <1>1, <1>2, AnswersStay DEF Summary!PartsAreAnswers

\* Once a table or the month has changed, what was read is history.
LEMMA NothingIsFresh ==
  ASSUME \A q \in Summary!Queries : parts'[q] \in {Unread, Old}
  PROVE  Summary!PartsAreAnswers'
  BY DEF Summary!PartsAreAnswers, Summary!Fresh, Summary!Queries

LEMMA HistoryKeeps ==
  ASSUME Summary!IInv, Summary!Ages, now' \in Instants,
         transactions' \in [Ids -> Samples \union {Summary!NoRow}]
  PROVE  Summary!IInv'
  <1>1. DOMAIN parts' = Summary!Queries /\ \A q \in Summary!Queries : parts'[q] \in {Unread, Old}
    BY DEF Summary!Ages
  <1> QED BY <1>1, NothingIsFresh DEF Summary!IInv

\* A query that stores its answer.
LEMMA SummaryReadKeeps ==
  ASSUME Summary!IInv, NEW q \in Summary!Queries, NEW answer, Summary!Read(q, answer),
         \/ q = "totals" /\ answer = Summary!transactionStats
         \/ q = "currentMonth" /\ answer = Summary!currentMonthStats
         \/ q = "monthly" /\ answer = Summary!monthlySeries
         \/ q = "top" /\ \E top \in Summary!Tops : answer = [g \in top |-> Summary!Spent(g)]
         \/ q = "balance" /\ answer = Summary!TotalBalance
  PROVE  Summary!IInv'
  <1>1. /\ UNCHANGED <<now, transactions>> /\ parts' = [parts EXCEPT ![q] = answer]
        /\ DOMAIN parts = Summary!Queries /\ Summary!PartsAreAnswers
    BY DEF Summary!Read, Summary!IInv
  <1>2. Summary!currentMonthInBogota(now)' = Summary!currentMonthInBogota(now)
    BY <1>1
  <1>3. parts'[q] = answer /\ \A p \in Summary!Queries \ {q} : parts'[p] = parts[p]
        /\ (Summary!Fresh(p)' <=> Summary!Fresh(p))
    BY <1>1 DEF Summary!Fresh
  <1>4. Summary!PartsAreAnswers'
    BY <1>1, <1>2, <1>3, AnswersStay DEF Summary!PartsAreAnswers, Summary!Queries
  <1> QED BY <1>1, <1>4 DEF Summary!IInv

LEMMA SummaryAnswerKeeps == Summary!IInv /\ Summary!Answer => Summary!IInv'
  <1> SUFFICES ASSUME Summary!IInv, Summary!Answer PROVE Summary!IInv'
    OBVIOUS
  <1>1. \A q \in Summary!Queries : parts'[q] \in {Unread, Old}
    BY DEF Summary!Answer
  <1> QED BY <1>1, NothingIsFresh DEF Summary!Answer, Summary!IInv

LEMMA RegisterKeeps == ASSUME Summary!IInv, NEW t \in Ids, Summary!Register(t) PROVE Summary!IInv'
  <1>1. PICK row \in Samples : transactions' = [transactions EXCEPT ![t] = row]
    BY DEF Summary!Register
  <1>2. transactions' \in [Ids -> Samples \union {Summary!NoRow}]
    BY <1>1 DEF Summary!IInv
  <1> QED BY <1>2, HistoryKeeps DEF Summary!Register, Summary!IInv

LEMMA RemoveKeeps == ASSUME Summary!IInv, NEW t \in Ids, Summary!Remove(t) PROVE Summary!IInv'
  <1>1. transactions' \in [Ids -> Samples \union {Summary!NoRow}]
    BY DEF Summary!Remove, Summary!IInv
  <1> QED BY <1>1, HistoryKeeps DEF Summary!Remove, Summary!IInv

LEMMA SummaryWaitKeeps == Summary!IInv /\ Summary!Wait => Summary!IInv'
  <1> SUFFICES ASSUME Summary!IInv, Summary!Wait PROVE Summary!IInv'
    OBVIOUS
  <1>1. now' \in Instants /\ UNCHANGED transactions
    BY DEF Summary!Wait
  <1>2. CASE Summary!currentMonthInBogota(now') = Summary!currentMonthInBogota(now)
    <2>1. UNCHANGED parts /\ Summary!currentMonthInBogota(now)' = Summary!currentMonthInBogota(now)
      BY <1>2 DEF Summary!Wait
    <2> QED BY <1>1, <2>1, FreshStays DEF Summary!IInv
  <1>3. CASE Summary!currentMonthInBogota(now') # Summary!currentMonthInBogota(now)
    <2>1. Summary!Ages
      BY <1>3 DEF Summary!Wait
    <2> QED BY <1>1, <2>1, HistoryKeeps DEF Summary!IInv
  <1> QED BY <1>2, <1>3

LEMMA SummaryNextAnswers == Summary!IInv /\ [Summary!Next]_Summary!vars => Summary!IInv'
  <1> SUFFICES ASSUME Summary!IInv, [Summary!Next]_Summary!vars PROVE Summary!IInv'
    OBVIOUS
  <1>1. CASE Summary!ReadTotals
    BY <1>1, SummaryReadKeeps DEF Summary!ReadTotals, Summary!Queries
  <1>2. CASE Summary!ReadCurrentMonth
    BY <1>2, SummaryReadKeeps DEF Summary!ReadCurrentMonth, Summary!Queries
  <1>3. CASE Summary!ReadMonthly
    BY <1>3, SummaryReadKeeps DEF Summary!ReadMonthly, Summary!Queries
  <1>4. CASE Summary!ReadTop
    BY <1>4, SummaryReadKeeps DEF Summary!ReadTop, Summary!Queries
  <1>5. CASE Summary!ReadBalance
    BY <1>5, SummaryReadKeeps DEF Summary!ReadBalance, Summary!Queries
  <1>6. CASE Summary!Answer
    BY <1>6, SummaryAnswerKeeps
  <1>7. CASE \E t \in Ids : Summary!Register(t) \/ Summary!Remove(t)
    BY <1>7, RegisterKeeps, RemoveKeeps
  <1>8. CASE Summary!Wait
    BY <1>8, SummaryWaitKeeps
  <1>9. CASE UNCHANGED Summary!vars
    <2>1. UNCHANGED transactions /\ UNCHANGED parts /\ UNCHANGED now
      BY <1>9 DEF Summary!vars
    <2>2. Summary!currentMonthInBogota(now)' = Summary!currentMonthInBogota(now)
      BY <2>1
    <2> QED BY <2>1, <2>2, FreshStays DEF Summary!IInv
  <1> QED BY <1>1, <1>2, <1>3, <1>4, <1>5, <1>6, <1>7, <1>8, <1>9 DEF Summary!Next

-----------------------------------------------------------------------------
\* Only its query makes the series fresh.
LEMMA MonthlyIsRead ==
  ASSUME Summary!IInv, [Summary!Next]_Summary!vars, parts'["monthly"] # parts["monthly"],
         Summary!Fresh("monthly")'
  PROVE  parts'["monthly"] = Summary!monthlySeries
  <1>1. DOMAIN parts = Summary!Queries /\ "monthly" \in Summary!Queries
    BY DEF Summary!IInv, Summary!Queries
  <1>2. ASSUME NEW q \in Summary!Queries, NEW answer, Summary!Read(q, answer)
        PROVE  q = "monthly" /\ parts'["monthly"] = answer
    BY <1>1, <1>2 DEF Summary!Read
  <1>3. ~ (parts'["monthly"] \in {Unread, Old})
    BY DEF Summary!Fresh
  <1>4. ~ Summary!Ages /\ ~ Summary!Answer /\ ~ UNCHANGED parts
    BY <1>1, <1>3 DEF Summary!Ages, Summary!Answer
  <1>5. ~ Summary!Wait /\ ~ (\E t \in Ids : Summary!Register(t) \/ Summary!Remove(t))
        /\ ~ UNCHANGED Summary!vars
    BY <1>4 DEF Summary!Wait, Summary!Register, Summary!Remove, Summary!vars
  <1>6. CASE Summary!ReadTotals
    BY <1>2, <1>6 DEF Summary!ReadTotals, Summary!Queries
  <1>7. CASE Summary!ReadCurrentMonth
    BY <1>2, <1>7 DEF Summary!ReadCurrentMonth, Summary!Queries
  <1>8. CASE Summary!ReadMonthly
    BY <1>2, <1>8 DEF Summary!ReadMonthly, Summary!Queries
  <1>9. CASE Summary!ReadTop
    BY <1>2, <1>9 DEF Summary!ReadTop, Summary!Queries
  <1>10. CASE Summary!ReadBalance
    BY <1>2, <1>10 DEF Summary!ReadBalance, Summary!Queries
  <1> QED BY <1>4, <1>5, <1>6, <1>7, <1>8, <1>9, <1>10 DEF Summary!Next

LEMMA SeriesCountsOnce == Summary!IInv /\ [Summary!Next]_Summary!vars => Summary!SeriesCounts
  <1> SUFFICES ASSUME Summary!IInv, [Summary!Next]_Summary!vars,
                      parts'["monthly"] # parts["monthly"], Summary!Fresh("monthly")'
               PROVE  Summary!SeriesCounts
    BY SummarySeriesCountsIs
  <1>1. parts'["monthly"] = Summary!monthlySeries
    BY MonthlyIsRead
  <1>2. RowsTyped /\ now \in Instants
    BY DEF Summary!IInv, RowsTyped
  <1> QED BY <1>1, <1>2, SeriesAddsUp, SummarySeriesCountsIs

\* profile.service.ts: a part that nothing has changed since it was read is what its query
\* would answer now.
THEOREM SummaryInvariant == Summary!Spec => []Summary!IInv
  BY SummaryInitAnswers, SummaryNextAnswers, PTL DEF Summary!Spec

\* profile.service.ts:288: whenever the series is read, its months follow one another up to
\* Colombia's, and each transaction dated in them counts once.
THEOREM SummarySeries == Summary!Spec => Summary!SeriesCountsEachOnce
  <1>1. Summary!IInv /\ [Summary!Next]_Summary!vars => [Summary!SeriesCounts]_Summary!vars
    BY SeriesCountsOnce
  <1> QED BY <1>1, SummaryInvariant, PTL DEF Summary!Spec, Summary!SeriesCountsEachOnce

(***************************************************************************)
(* The same of the specification that is run.                              *)
(***************************************************************************)
LEMMA DatesStepsAreSummarys ==
  /\ DatesInit => Summary!Init
  /\ [DatesNext]_<<part, vars, summed, asked>> => [Summary!Next]_Summary!vars
  <1>1. DatesInit => Summary!Init
    BY DEF DatesInit
  <1>2. UNCHANGED summed => UNCHANGED Summary!vars
    BY DEF summed, Summary!vars
  <1>3. DatesNext => Summary!Next \/ UNCHANGED summed
    BY DEF DatesNext
  <1>4. UNCHANGED <<part, vars, summed, asked>> => UNCHANGED summed
    OBVIOUS
  <1> QED BY <1>1, <1>2, <1>3, <1>4

LEMMA DatesSummary == DatesSpec => Summary!Spec
  BY DatesStepsAreSummarys, PTL DEF DatesSpec, Summary!Spec

\* profile.service.ts: the current month closes the series, the largest groups are shown
\* with their subcategories, and the balances follow from the totals and the rows that
\* have no account, for any such rows, accounts and trees of categories.
THEOREM DatesPartsAgree == DatesSpec => []PartsAgree
  <1>1. Summary!IInv => PartsAgree
    BY SummaryIInvHolds DEF PartsAgree
  <1> QED BY <1>1, DatesSummary, SummaryInvariant, PTL

\* bogota-time.ts:32 and transfer-schedule.util.ts:5, at any instant of the calendar.
THEOREM DatesAreOfColombia == DatesSpec => []DatesAreColombias
  <1>1. Summary!IInv => DatesAreColombias
    BY StartsHold, DueDatesHold DEF Summary!IInv, DatesAreColombias
  <1> QED BY <1>1, DatesSummary, SummaryInvariant, PTL

\* profile.service.ts:288: the months of the series follow one another, and each
\* transaction dated in them counts once.
THEOREM DatesSeries == DatesSpec => SeriesCountsEachOnce
  BY DatesSummary, SummarySeries DEF SeriesCountsEachOnce

=============================================================================
