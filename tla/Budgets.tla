------------------------------- MODULE Budgets -------------------------------
(***************************************************************************)
(* Monthly budgets and their details: BudgetsService over the tables       *)
(* budgets and budget_details.  The amount of an automatic budget is the   *)
(* sum of its details: every request that changes something writes first,  *)
(* then reads the budget with its details, and then writes the sum.        *)
(*                                                                         *)
(* All requests are of one user; the budgets of another one are there to   *)
(* see that they stay.  A request may stop after any statement.            *)
(***************************************************************************)
EXTENDS Naturals, FiniteSets, FiniteSetsExt

CONSTANTS
    Ids,          \* budgets of the user
    OtherIds,     \* budgets of another user
    Own, Other,   \* categories of the user and of the other one
    Months,       \* periods: monthly, a year and a month
    DetailIds,    \* ids of details
    Requests,     \* requests in flight at the same time
    MaxAmount,    \* bound: an amount, and an estimated amount
    MaxFields,    \* bound: columns that an update gives
    None          \* null, and what a patch does not give

VARIABLES
    categories,  \* categories of the user that exist
    budgets,     \* budgets[b]: the row of b
    details,     \* details[d]: the row of d; null estimates are 0
    act,         \* act[r]: what request r holds between two statements
    late,        \* history: requests whose reads another one has made old
    excused      \* history: budgets whose amount is wrong for a reason that is known

tables == <<categories, budgets, details>>
vars == <<tables, act, late, excused>>

AllIds == Ids \union OtherIds
Categories == Own \union Other
Amounts == 0 .. MaxAmount
Sums == 0 .. MaxAmount * Cardinality(DetailIds)

Budget == [category : Categories, month : Months, amount : Sums, auto : BOOLEAN]
NoBudget == [category |-> None, month |-> None, amount |-> 0, auto |-> FALSE]
Detail == [budget : AllIds, amount : Amounts]
NoDetail == [budget |-> None, amount |-> 0]

\* The columns that an update of a budget gives.
Patch == [category : Categories \union {None}, month : Months \union {None},
          amount : (1 .. MaxAmount) \union {None}, auto : BOOLEAN \union {None}]
NoPatch == [category |-> None, month |-> None, amount |-> None, auto |-> None]

\* The statement that a request does next.  Creation looks for an "existing"
\* budget of the month, and does its "save" or its "insert"; an update looks at
\* the new "category" and does its "patch"; a removal does its "delete"; a detail
\* is put in with "add", read with "find" and saved with "change", or goes with
\* "drop".  "sync" is the read of the budget with its details, and "sum" the
\* write of their sum.
Holding ==
    [at : {"idle", "existing", "save", "insert", "category", "patch", "delete",
           "add", "find", "change", "drop", "sync", "sum"},
     budget : AllIds \union {None},
     entity : Budget \union {NoBudget},
     patch : Patch,
     auto : BOOLEAN,                     \* update: the amount comes from the details
     detail : DetailIds \union {None},
     amount : Sums]                      \* the estimate, or the sum

Idle == [at |-> "idle", budget |-> None, entity |-> NoBudget, patch |-> NoPatch,
         auto |-> FALSE, detail |-> None, amount |-> 0]

Init ==
    /\ categories = Own
    /\ \E rows \in [OtherIds -> Budget] :
          /\ \A b \in OtherIds :
                /\ rows[b].category = CHOOSE c \in Other : TRUE
                /\ rows[b].amount = MaxAmount
                /\ ~ rows[b].auto
          /\ \A b, c \in OtherIds : rows[b].month = rows[c].month => b = c
          /\ budgets = [b \in AllIds |-> IF b \in OtherIds THEN rows[b] ELSE NoBudget]
    /\ details = [d \in DetailIds |-> NoDetail]
    /\ act = [r \in Requests |-> Idle]
    /\ late = {}
    /\ excused = {}

-----------------------------------------------------------------------------
(* Operators *)

Exists(b) == budgets[b] # NoBudget
DetailsOf(b) == {d \in DetailIds : details[d].budget = b}
Sum(b) == SumFunction([d \in DetailsOf(b) |-> details[d].amount])

\* findOne: the budget is there, and its category is the user's.
Found(b) == Exists(b) /\ budgets[b].category \in Own

\* Mutant: no unique index.
AcceptedMutant(b, row) == row.category \in categories \union Other

\* The foreign key of the category, and one budget for a category and a month.
Accepted(b, row) ==
    /\ row.category \in categories \union Other
    /\ ~ \E c \in AllIds \ {b} : /\ Exists(c)
                                 /\ budgets[c].category = row.category
                                 /\ budgets[c].month = row.month

\* Mutant: an amount that the patch does not give is written as null.
PatchedMutant(row, patch) ==
    [f \in DOMAIN row |-> IF f # "amount" /\ patch[f] = None THEN row[f] ELSE patch[f]]

\* The row after an update: what the patch gives, and the rest.
Patched(row, patch) ==
    [f \in DOMAIN row |-> IF patch[f] = None THEN row[f] ELSE patch[f]]

\* What follows the write of a request: the sum, or nothing.
Synced(b) == [Idle EXCEPT !.at = "sync", !.budget = b]

Go(r, holding) == act' = [act EXCEPT ![r] = holding]
Continue(r, holding) == Go(r, holding) /\ UNCHANGED tables

WriteBudget(b, row) ==
    /\ budgets' = [budgets EXCEPT ![b] = row]
    /\ UNCHANGED <<categories, details>>
WriteDetail(d, row) ==
    /\ details' = [details EXCEPT ![d] = row]
    /\ UNCHANGED <<categories, budgets>>

-----------------------------------------------------------------------------
(* create *)

\* Without automatic amount, an amount over zero; with it, the row begins at 0.
Create(r) ==
    /\ act[r].at = "idle"
    /\ \E c \in categories, month \in Months, auto \in BOOLEAN, amount \in Amounts :
          /\ auto <=> amount = 0
          /\ Continue(r, [Idle EXCEPT !.at = "existing",
                            !.entity = [category |-> c, month |-> month,
                                        amount |-> amount, auto |-> auto]])

\* A budget of that month is overwritten; its amount stays if it is automatic.
FindExisting(r) ==
    LET a == act[r]
        same == {b \in AllIds : /\ budgets[b].category = a.entity.category
                                /\ budgets[b].month = a.entity.month} IN
    /\ a.at = "existing"
    /\ IF same = {} THEN Continue(r, [a EXCEPT !.at = "insert"])
       ELSE \E b \in same :
               Continue(r, [a EXCEPT !.at = "save", !.budget = b,
                              !.entity.amount = IF a.entity.auto THEN budgets[b].amount ELSE @])

AfterSave(b, auto) == IF auto THEN Synced(b) ELSE Idle

\* save(existing) inserts the row again when it is gone.
SaveExisting(r) ==
    LET a == act[r] IN
    /\ a.at = "save"
    /\ IF Accepted(a.budget, a.entity)
       THEN WriteBudget(a.budget, a.entity) /\ Go(r, AfterSave(a.budget, a.entity.auto))
       ELSE Continue(r, Idle)

Insert(r, b) ==
    LET a == act[r] IN
    /\ a.at = "insert"
    /\ ~ Exists(b)
    /\ \A q \in Requests : act[q].budget # b
    /\ IF Accepted(b, a.entity)
       THEN WriteBudget(b, a.entity) /\ Go(r, AfterSave(b, a.entity.auto))
       ELSE Continue(r, Idle)

-----------------------------------------------------------------------------
(* update and remove *)

\* The amount of the request is left out of an automatic budget.
AfterCategory(a) ==
    IF a.patch # NoPatch THEN [a EXCEPT !.at = "patch"] ELSE AfterSave(a.budget, a.auto)

Update(r, b) ==
    /\ act[r].at = "idle"
    /\ Found(b)
    /\ \E patch \in Patch :
       /\ Cardinality({f \in DOMAIN patch : patch[f] # None}) <= MaxFields
       /\ LET auto == IF patch.auto = None THEN budgets[b].auto ELSE patch.auto
              a == [Idle EXCEPT !.budget = b, !.auto = auto,
                                !.patch = IF auto THEN [patch EXCEPT !.amount = None] ELSE patch] IN
          Continue(r, IF patch.category \in {None, budgets[b].category} THEN AfterCategory(a)
                      ELSE [a EXCEPT !.at = "category"])

\* Mutant: any category that exists will do.
CheckCategoryMutant(r) ==
    LET a == act[r] IN
    /\ a.at = "category"
    /\ Continue(r, IF a.patch.category \in categories \union Other THEN AfterCategory(a) ELSE Idle)

CheckCategory(r) ==
    LET a == act[r] IN
    /\ a.at = "category"
    /\ Continue(r, IF a.patch.category \in categories THEN AfterCategory(a) ELSE Idle)

\* The unique index answers 409; the update of a row that is gone does nothing.
WritePatch(r) ==
    LET a == act[r]
        row == Patched(budgets[a.budget], a.patch) IN
    /\ a.at = "patch"
    /\ IF ~ Exists(a.budget) THEN Continue(r, AfterSave(a.budget, a.auto))
       ELSE IF Accepted(a.budget, row)
       THEN WriteBudget(a.budget, row) /\ Go(r, AfterSave(a.budget, a.auto))
       ELSE Continue(r, Idle)

Remove(r, b) ==
    /\ act[r].at = "idle"
    /\ Found(b)
    /\ Continue(r, [Idle EXCEPT !.at = "delete", !.budget = b])

\* The details of the budgets go with them.
DeleteAll(gone) ==
    /\ budgets' = [b \in AllIds |-> IF b \in gone THEN NoBudget ELSE budgets[b]]
    /\ details' = [d \in DetailIds |-> IF details[d].budget \in gone THEN NoDetail ELSE details[d]]

Delete(r) ==
    /\ act[r].at = "delete"
    /\ DeleteAll({act[r].budget})
    /\ Go(r, Idle)
    /\ UNCHANGED categories

-----------------------------------------------------------------------------
(* addDetail, updateDetail and removeDetail *)

AddDetail(r, b) ==
    /\ act[r].at = "idle"
    /\ Found(b)
    /\ \E amount \in Amounts :
          Continue(r, [Idle EXCEPT !.at = "add", !.budget = b, !.amount = amount])

\* The budget is a foreign key of its details.
SaveDetail(r, d) ==
    LET a == act[r] IN
    /\ \/ a.at = "add" /\ details[d] = NoDetail /\ \A q \in Requests : act[q].detail # d
       \/ a.at = "change" /\ a.detail = d
    /\ IF Exists(a.budget)
       THEN WriteDetail(d, [budget |-> a.budget, amount |-> a.amount]) /\ Go(r, Synced(a.budget))
       ELSE Continue(r, Idle)

UpdateDetail(r, b) ==
    /\ act[r].at = "idle"
    /\ Found(b)
    /\ \E d \in DetailIds : Continue(r, [Idle EXCEPT !.at = "find", !.budget = b, !.detail = d])

\* What the request does not give stays as it is read here.
FindDetail(r) ==
    LET a == act[r] IN
    /\ a.at = "find"
    /\ IF details[a.detail].budget # a.budget THEN Continue(r, Idle)
       ELSE \E amount \in Amounts : Continue(r, [a EXCEPT !.at = "change", !.amount = amount])

RemoveDetail(r, b) ==
    /\ act[r].at = "idle"
    /\ Found(b)
    /\ \E d \in DetailIds : Continue(r, [Idle EXCEPT !.at = "drop", !.budget = b, !.detail = d])

\* Mutant: the sum is not written after a removal.
DropDetailMutant(r) ==
    LET a == act[r] IN
    /\ a.at = "drop"
    /\ IF details[a.detail].budget # a.budget THEN Continue(r, Idle)
       ELSE WriteDetail(a.detail, NoDetail) /\ Go(r, Idle)

DropDetail(r) ==
    LET a == act[r] IN
    /\ a.at = "drop"
    /\ IF details[a.detail].budget # a.budget THEN Continue(r, Idle)
       ELSE WriteDetail(a.detail, NoDetail) /\ Go(r, Synced(a.budget))

-----------------------------------------------------------------------------
(* syncAmountFromDetailsIfNeeded *)

ReadDetails(r) ==
    LET b == act[r].budget IN
    /\ act[r].at = "sync"
    /\ Continue(r, IF budgets[b].auto THEN [Synced(b) EXCEPT !.at = "sum", !.amount = Sum(b)]
                   ELSE Idle)

WriteSum(r) ==
    LET a == act[r] IN
    /\ a.at = "sum"
    /\ IF Exists(a.budget) THEN WriteBudget(a.budget, [budgets[a.budget] EXCEPT !.amount = a.amount])
       ELSE UNCHANGED tables
    /\ Go(r, Idle)

-----------------------------------------------------------------------------
\* The database or the process fails between two statements.
Stop(r) ==
    /\ act[r].at # "idle"
    /\ Continue(r, Idle)

\* The removal of a category takes its budgets with it.
RemoveCategory(c) ==
    /\ c \in categories
    /\ categories' = categories \ {c}
    /\ DeleteAll({b \in AllIds : budgets[b].category = c})
    /\ UNCHANGED act

Step ==
    \/ \E r \in Requests :
          \/ Create(r)
          \/ FindExisting(r)
          \/ SaveExisting(r)
          \/ CheckCategory(r)
          \/ WritePatch(r)
          \/ Delete(r)
          \/ FindDetail(r)
          \/ DropDetail(r)
          \/ ReadDetails(r)
          \/ WriteSum(r)
          \/ \E b \in Ids : Insert(r, b)
          \/ \E b \in AllIds : \/ Update(r, b)
                               \/ Remove(r, b)
                               \/ AddDetail(r, b)
                               \/ UpdateDetail(r, b)
                               \/ RemoveDetail(r, b)
          \/ \E d \in DetailIds : SaveDetail(r, d)
    \/ \E c \in Own : RemoveCategory(c)

Wrong(b) == budgets[b].auto /\ budgets[b].amount # Sum(b)

\* A request is late when the budget that it works on, or its details, changed
\* after it looked at them; the read of the details looks at all of it again.
\* A wrong amount is excused when a late request wrote it, or when the request
\* that had to write the sum stopped.
Observe(stopped) ==
    LET moved == {r \in Requests : act'[r] # act[r]}
        changed == {b \in AllIds : \/ budgets'[b] # budgets[b]
                                   \/ \E d \in DetailIds : /\ details'[d] # details[d]
                                                           /\ b \in {details[d].budget, details'[d].budget}} IN
    /\ late' = {r \in Requests : /\ act'[r].at # "idle"
                                 /\ r \in moved => act[r].at # "sync"
                                 /\ r \in late \/ (r \notin moved /\ act[r].budget \in changed)}
    /\ excused' = {b \in AllIds :
                    /\ Wrong(b)'
                    /\ \/ b \in excused
                       \/ \E r \in moved : /\ act[r].budget = b
                                           /\ \/ r \in late
                                              \/ r \in stopped /\ act[r].at \in {"sync", "sum"}}

Next ==
    \/ Step /\ Observe({})
    \/ \E r \in Requests : Stop(r) /\ Observe({r})

Spec == Init /\ [][Next]_vars

-----------------------------------------------------------------------------
(* Properties *)

\* Every variable has its type.
TypeOK ==
    /\ categories \subseteq Own
    /\ budgets \in [AllIds -> Budget \union {NoBudget}]
    /\ details \in [DetailIds -> Detail \union {NoDetail}]
    /\ act \in [Requests -> Holding]
    /\ late \subseteq Requests
    /\ excused \subseteq AllIds

\* "el monto se recalcula como la suma de estimatedAmount de las partidas": the
\* amount of an automatic budget is the sum of its details as soon as nobody has
\* a sum to write for it, unless a request wrote what was already old or stopped
\* before the sum.
AmountIsTheSum ==
    \A b \in AllIds :
        Wrong(b) => \/ b \in excused
                    \/ \E r \in Requests : act[r].at \in {"sync", "sum"} /\ act[r].budget = b

\* A category has one budget for a month, also when two requests create it at
\* once, or one is created while another is moved there.
OneBudgetForAMonth ==
    \A b, c \in AllIds :
        Exists(b) /\ budgets[c].category = budgets[b].category /\ budgets[c].month = budgets[b].month
            => b = c

\* A budget stays with its user: those of the other one and their details do not
\* change, and none of the user's goes to a category of the other one.
BudgetsStayWithTheirUser ==
    [][/\ \A b \in OtherIds : budgets'[b] = budgets[b] /\ {d \in DetailIds : details'[d].budget = b} = {}
       /\ \A b \in Ids : budgets'[b].category \notin Other]_vars

-----------------------------------------------------------------------------
(* The inductive invariant *)

\* What a request holds between two statements.
HoldOK(a) ==
    /\ a.at \in {"save", "category", "patch", "delete", "add", "find", "change", "drop",
                 "sync", "sum"} => a.budget \in Ids
    /\ a.at \in {"existing", "save", "insert"} => a.entity \in Budget /\ a.entity.category \in Own
    /\ a.at \in {"find", "change", "drop"} => a.detail \in DetailIds
    /\ a.at \in {"add", "change"} => a.amount \in Amounts
    /\ a.at = "category" => a.patch.category # None
    /\ a.at = "patch" => a.patch.category \in Own \union {None}

\* The budgets of each user are in categories of that user.
OfTheUser ==
    /\ \A b \in Ids : budgets[b] \in Budget => budgets[b].category \in Own
    /\ \A b \in OtherIds : budgets[b] \in Budget /\ budgets[b].category \in Other
    /\ \A d \in DetailIds : details[d].budget \notin OtherIds

\* A detail that is to be saved is in the budget of the request, or gone.
Saving ==
    \A r \in Requests : act[r].at = "change" =>
        /\ details[act[r].detail].budget \in {act[r].budget, None}
        /\ \A q \in Requests : act[q].at = "change" /\ act[q].detail = act[r].detail
                                  => act[q].budget = act[r].budget

\* What a request knows of its budget is still so.
Fresh(r) ==
    /\ act[r].at = "sum" => act[r].amount = Sum(act[r].budget)
    /\ act[r].at \in {"category", "patch"} =>
          act[r].auto = IF act[r].patch.auto = None THEN budgets[act[r].budget].auto
                        ELSE act[r].patch.auto

IInv ==
    /\ TypeOK
    /\ \A r \in Requests : HoldOK(act[r])
    /\ OfTheUser
    /\ Saving
    /\ \A r \in Requests \ late : Fresh(r)
    /\ OneBudgetForAMonth
    /\ AmountIsTheSum

=============================================================================
