# Savvi backend: TLA+ specifications

Savvi is a personal-finance API: NestJS 11, TypeORM 0.3, PostgreSQL, S3 for attachments, one external
email provider. This directory holds the models of its core logic, the TLC instances that check them, and
the theorems TLAPS proves about them.

Paths below are relative to the backend's `src/` directory; line numbers are in `PROJECT.json` (`map`).

## 1. The system

### How it runs

There is one Node process. Every HTTP request is an `async` handler; every `await` on a repository is one
autocommitted SQL statement, and other requests run between any two of them. Only three places hold
several statements together in a database transaction: `registerPayment` (with a row lock),
`resetPassword`, and the writes of a category. There are no queues and no caches: the shared state is the
database, the bucket, and what each request has read and still holds. The one thing that lives in the
memory of the process is a job of the AI register.

Two properties of TypeORM matter everywhere and are easy to forget:

* `repository.save(entity)` **reads the row again**, compares it with the entity, and writes the columns
  in which they differ. An entity that was read before somebody else's change differs from the row in
  exactly that change, so `save` writes the *old* value back.
* When the row is gone, `save` of an entity that has an id **inserts it again**.

`repository.update(criteria, patch)` is one conditional `UPDATE`; its `affected` count is how the careful
parts of the code decide races.

### Inventory

| Component | State | Operations that change it | What is hard | What makes it correct |
|---|---|---|---|---|
| Payment planner (`payment-planner/`) | `debts`, `debt_payments` | create, update, remove, registerPayment | edits of stale entities against payments under a row lock; deletion meanwhile | no payment lost or counted twice; status follows the balance |
| Password reset (`auth/password-reset.service.ts`) | `password_resets`, `users.password`, `users.tokenVersion` | requestReset, verifyCode, resetPassword | parallel guesses; two resets at once; the email that fails | bounded guesses; one use; closed stays closed |
| Two-step verification, email change (`auth/two-factor.service.ts`) | `two_factor_challenges`, `users.twoFactorEnabled`, `users.email` | start, resend, consume, confirm, disable | no transaction at all: every step may interleave | bounded guesses and sends; one use; the email is a confirmed one |
| Sessions (`auth/auth.service.ts`, `auth/strategies/`, `profile/`) | `users.tokenVersion`, JWTs in the hands of clients | login, refresh, rotate, changePassword, updateProfile | a session signed with a version read before or after somebody's rotation | a rotation ends earlier sessions for good |
| Registration, lock after failed logins (`auth/auth.service.ts`) | `users`, `failedLoginAttempts`, `lockedUntil` | register, validateUser, resetPassword | the counter is read before bcrypt and written after it; two ways out of a lock | one user for an email; the guesses before a lock are bounded; a lock lasts, and a reset ends it |
| Transactions (`transactions/`) | `transactions`, automatic `categories` | create, createBulk, update, remove | an update completes the change with its copy and writes some columns | only transfers have a destination; the category fits the type; an edit keeps the rest |
| Accounts (`accounts/`) | `accounts`; the balance is computed | create, update, remove | remove counts what depends on the account and then deletes it | no transaction on a deleted account, and no debt unless both were written at once |
| Documents (`transactions/`, `s3/`) | `documents`, objects in the bucket | upload, confirm, remove | two stores without a common transaction; objects shared by documents | a listed document has its object; an object does not outlive its last document |
| Categories (`categories/`) | `categories`: a tree of two levels | create, update, remove, updateBudget, find-or-create | every check is a statement before the write | two levels, one type per group, unique names |
| Budgets (`budgets/`) | `budgets`, `budget_details` | create, update, remove, details | a detail, the sum and the amount are three statements | automatic amount = sum of the details; one budget for a category and month |
| Recurring payments (`transfer-templates/`) | `transfer_templates`, `reminders` | create, update, toggle, remove, execute, dismiss, daily job | job and user at once; payment and next date in two statements; a failure ends the loop | one payment per due date |
| AI register (`ai-register/`) | `ai_register_jobs` | createJob, processJob (in memory) | the process stops while a job runs | every job ends |
| AI usage (`ai-usage/`) | `ai_usage` | record | quota asked before the call, cost recorded after it | bounded overshoot; limits end with the day or the month |
| Bogotá time, schedule (`common/bogota-time.ts`, `transfer-schedule.util.ts`) | none (pure functions) | | five hours between the clocks; ends of months | days and months begin when they do in Colombia |
| Profile summary (`profile/profile.service.ts`) | none | | five queries at once, each with its own snapshot | the parts agree when nothing changed in between |
| Migrations (`migrations/`) | the schema, `migrations` | run, revert | forty scripts, up and down, by several versions | run succeeds; the tables fit the entities |
| Email, waiting list, HTTP shell, seeds | | see *not modelled* | | |

### How they interact

* `PaymentPlanner.registerPayment` calls `TransactionsService.create` inside its own database
  transaction; `TransactionsService.remove` can later delete that transaction without the planner.
* `AuthService.login` starts a challenge of `TwoFactorService`; `verifyTwoFactorLogin` turns a consumed
  challenge into a session.
* `ProfileController` and `TwoFactorController` make a change and then call `AuthService.rotateSession`;
  `PasswordResetService` raises `tokenVersion` inside its own transaction.
* `RemindersCronJob` calls `TransferTemplatesService.executeTransfer`, which calls
  `TransactionsService.findOrCreateCategory` and `create`, as `AiRegisterService` does.
* `AccountsService.assertOwnedByUser` and `CategoriesService.findOne` are read before the writes of
  templates, debts and budgets; foreign keys back some of these checks (transactions, templates, budgets)
  and not others (`debts.accountId`).
* `TransactionsService.remove` and `update` delete files of S3 before rows of `documents`.

## 2. The modules

| Module | Models |
|---|---|
| `DebtLedger` | abstract: what the planner promises about one debt |
| `PaymentPlanner` | `PaymentPlannerService`; implements `DebtLedger` |
| `OneTimeCode` | abstract: what a code sent by email promises |
| `PasswordReset` | `PasswordResetService`; implements `OneTimeCode` |
| `TwoFactor` | `TwoFactorService`; implements `OneTimeCode` |
| `Sessions` | `AuthService`, `JwtStrategy`, and every handler that changes the password or `tokenVersion` |
| `Login` | `AuthService.register`, `validateUser`, `registerFailedLogin`; `resetPassword` as one step |
| `Transactions` | the rows of `TransactionsService`, `AccountsService`, `assertOwnedByUser` |
| `DocumentValues`, `Documents` | the files of `TransactionsService`, `S3Service`, `s3-keys.ts`; the first has the constants and what they must satisfy |
| `Categories` | `CategoriesService`, `TransactionsService.findOrCreateCategory` |
| `Budgets` | `BudgetsService` |
| `TransferTemplates` | `TransferTemplatesService`, `RemindersService`, `RemindersCronJob` |
| `AiRegister` | `AiRegisterService` |
| `Calendar` | `bogota-time.ts`, `transfer-schedule.util.ts` |
| `AiUsage` | `AiUsageService`; extends `Calendar` |
| `Profile` | `ProfileService.getSummary`, `account-balances.ts`; extends `Calendar` |
| `Schema`, `Migrations` | the scripts of `migrations/`, and the commands that run and revert them |
| `MC...` | instances for TLC: scopes, symmetry, sample data; the constants are in the `.cfg` files |
| `Sums` | facts about sums, factorials and binomials that the proofs use |
| `ProgressProofs` | theorems about `PaymentPlanner` and `AiRegister` |
| `AccessProofs` | theorems about `PasswordReset`, `Budgets` and `Login` |
| `TwoFactorProofs` | theorems about `TwoFactor` |
| `UserProofs` | theorems about `Sessions`, `Transactions`, and `Documents` in the run |
| `DatesProofs` | theorems about `TransferTemplates`, `Calendar`, `AiUsage` and `Profile` |
| `DocumentsProofs`, `CategoriesProofs` | theorems about `Documents` and `Categories` |

All follow one pattern. The tables are functions from the identity of a row to the row. `req[r]` or `act[r]`
is what HTTP request `r` holds between two statements: `at` names the statement that comes next, the other
fields are the copies it read. One action is one statement (or one database transaction, whose effects
become visible together) with the checks on the copy around it. Consecutive statements that only read,
before a handler's first write, are one step where the value read first is not used after it (for instance
the user and the cooldown in `startEnable`). `Stop(r)` or `Fail(r)` lets a request end between two
statements: the process stops, or a later check fails.

Variables marked *history* are written and never read by the actions; they are there for the properties.
Where the code checks first and writes later without a constraint behind it, two requests at once can break
a rule, and everybody who reads the code sees that they can. The properties then say the stronger thing
that is not so easy to see: the history notes exactly which race happened, and **without that race** the
rule holds, whatever else was going on. These variables are `raced` and `stale` (`Transactions`), `linked`
and `excused` (`Documents`), `late` and `excused` (`Categories`, `Budgets`), `shared` (`Login`),
`touched` (`TransferTemplates`), `trouble` and `stopped` (`AiRegister`).

### PaymentPlanner and DebtLedger

State: `debts`, `payments` (per debt), `transactions` (ids of those a payment created), `lock` (row
locks), `req`. `UpdateRead` is `findOne` and the checks; `SaveLoad`, `SaveLoadMissing`, `SaveRejected`
are the three outcomes of the read inside `save`; `SaveUpdate` and `SaveInsert` its writes. `findOne`
loads the relation `payments`, so `save` also reconciles it: a payment that the entity does not list would
get a NULL `debtId`, which the column refuses, and the whole save is rolled back. That is the reason why a
stale edit cannot undo a payment, and it is not written anywhere in the code. `PayLock`, `PayCommit`,
`PayRollback` are `registerPayment`. Amounts are whole cents; the rounding of `registerPayment` keeps them
so and is left out.

`DebtLedger` has three steps: open, pay, close. The refinement maps the balance and the payments of a live
debt; edits, and whatever happens to removed debts, are stutters.

### PasswordReset

Rows are numbered in order of insertion. `cooledUpTo` and `expiredUpTo` say how far time has passed. `RequestRead`,
`Invalidate`, `Insert`, `Sent` / `SendFails`, `Delete` are `requestReset`; `VerifyRead`, `Counted` /
`CountRefused`, `Exhaust`, `Grant` are `verifyCode`; `ResetRead` and `ChangePassword` / `ChangeRefused`
are `resetPassword`, whose transaction is one step. Whether a guess is right is an input. The cooldown
counts unused rows only (l. 53): after a code was spent by wrong guesses the next one may be asked for at
once, so that the guesses per code are bounded and not those per hour.

### TwoFactor

The same shape for the three purposes, without any transaction: after `Consume` the user is written in a
further step (`ConfirmEnable`, `ConfirmEmailChange`), and `Disable` and `CloseAll` are two statements.
The codes of a challenge are numbered by its `send_count`, so the model can say which code let a request
through. A `confirmEnable` that consumed its code before a `disable` ran turns 2FA on after it; the code
nowhere says that it does not.

### OneTimeCode

What both services promise about one code, without a word about requests: it is sent (again, while it is
open and below the limit), a guess is compared with it (at most `MaxAttempts` for each time it was sent,
also after it was closed, because a guess may be on its way), one request is let through while it is open
and after a guess, and it is closed, alone or with others. Nothing opens, sends or uses a closed one.
The mapping is `CodeState` (a row without `used_at` is open, one that was deleted is closed), the number of
emails (`CodesSent`; `emailed`), of comparisons (`compared`) and of requests let through (`changes`;
`consumed`). The same promises are kept by two designs: `resetPassword` uses the code and closes the
others in one transaction, `consumeCode` does it by conditional `UPDATE`s alone.

### Sessions and Login

A session is a JWT that was handed out; it works while its version is the user's (`Valid`). Passwords are
numbered in the order they were chosen. `basis` is a ghost: the password whose knowledge a session goes
back to. `direct` marks a login without second step, for which the password and `tokenVersion` are read by
one `SELECT`. `TwoFactor` and `PasswordReset` appear as the one step that matters here. The expiry of a
JWT only takes sessions away. Two gaps are modelled and not stated as properties, because nothing promises
otherwise: `changePassword` saves the password and raises the version in two statements, so a stop in
between leaves the old sessions alive; and a refresh that passed the guard before a reset commits reads the
new version after it, and so survives the reset.

`Login` has one email. `CheckEmail` and `InsertUser` are `register`, and the unique index is what makes the
second of two registrations fail. `ReadUser` reads the row; after bcrypt, `Reject` writes the counter or the
lock *from the copy*, and `Accept` clears both if the copy had any. `wrong` counts the wrong passwords since
the last lock or right password, `shared` says that requests overlapped since then. `ResetPassword` is the
transaction of `resetPassword` as the row of the user sees it: a new password, and the counter and the lock
as they were. `LocksLast` says what may end a lock before its time: a right password that was read before
it, or a reset, and no wrong password written from an old copy. A locked user is told that a reset helps
(`auth.service.ts:163`); that is `ResetEndsLock`, and it does not hold (section 3).

### Transactions

State: `transactions`, `accounts` (an account is `none`, `live` or `removed`; a save of a copy may bring it
back), `dependents` (debts and recurring payments on an account), `act`. A row has its type, its category (which stands for its type), its account and
its destination: the four columns that rules relate. `CheckRows` / `InsertRows` are `create` and
`createBulk`; `ReadForUpdate`, `CheckAccounts`, `UpdateRow` are `update`: `Edited` is the row as the service
sees it after the change, and `Written` what the `UPDATE` puts on a row that may have changed since.
`FindAccount`, `CountUsage`, `DeleteAccount` are the removal of an account; `InUse` is what the service
counts and `Restricted` what the foreign keys refuse: the difference is `debts.accountId`, which has none.
`CheckOwned` / `Attach` are how debts and templates come to refer to an account. Two updates of one row may
write a category and a type that do not fit, each sound on its copy: `stale` and `raced` note exactly that.

### Documents

State: `objects` (the bucket), `documents` (rows), `urls` (keys with a signed upload), `used` (keys given
out so far), `transactions`. `SignUrl` and `Put` are the upload by the client; `Edit`, `Upload`,
`CheckAlreadyLinked`, `HeadObject`, `PutObject`, `SaveDocuments` the two ways to add documents; `Remove`,
`FindDocuments`, `CountReferences`, `DeleteObjects`, `RemoveRows`, `RemoveTransaction` the removal, in the
order of the code: count the rows of each key, delete the objects of those with at most one, then delete
the rows. `DeleteObjects` may leave some of the objects (S3 answers which; nobody reads the answer), and the
rows go all the same. Keys under another user's
prefix may be in rows from before keys were checked (`OtherKeys`); their objects are never listed nor deleted.
`linked` remembers which keys ever had a row, so that an upload that nobody confirmed is not taken for
an object left behind; `excused` has the keys and transactions about which two requests raced, and the keys that
S3 kept, that came back through their URL, or whose removal failed between S3 and the rows.

### Categories and Budgets

`Categories`: `Create`, `CheckParent`, `CheckName`, `Insert`; `Update`, `CountChildren` and the same checks,
`Save`; `Remove`, `CountTransactions`, `CountReleased`, `Delete`; `FindOrCreate`, which `Insert` follows
without any check; `UpdateBudget` and `SaveBudget`, the save of an entity read earlier. `Saved` is what `save`
writes, `WithType` the update of the type of the children in the same transaction. `LooksAt(a, c, row)` says
whether a change of row `c` concerns what request `a` has read; then the request is `late`, and what a late
request breaks is `excused`. Removing a category of which `CountTransactions` found none is still refused by
its foreign key when there are some by then, so both answers are possible.

`Budgets`: `Create` either inserts or, when there is one for the month, overwrites it (`FindExisting`,
`SaveExisting`); `Update`, `CheckCategory`, `WritePatch`; `Remove`, `Delete`; three operations on details,
each of which ends with `ReadDetails` and `WriteSum`, the two statements of `syncAmountFromDetailsIfNeeded`.
The unique index on category and month is in `Accepted`. A request that stops before its sum, or one
that reads while another writes, leaves a wrong amount: `excused` names the budgets with such a reason.

### TransferTemplates

The actors are HTTP requests and the daily job; `act[p]` is what `p` holds between two statements. `job`
is the run of the job: its day, the list `findDueToday` returned (`all`, with the entities in `listed`),
what it has not come to (`todo`), and how it ended. `JobSkip`, `JobRemind`, `JobExecute`, `JobRefused`
and `JobDone` are the branches of the loop in `sendDailyReminders`; nothing catches an exception there,
so `JobRefused` and `Fails` end the run. `RemindCheck` and `RemindInsert` are the two statements of
`generateForTemplate`. `ExecuteRead`, `Pay`, `SaveLoad` / `SaveWrite` / `SaveInsert`, `MarkNone` /
`MarkFind` and `ReminderSave` are `executeTransfer`, for a user or for the job; `Update`, `ToggleActive`
and `DismissRead` lead to the same `save`.

Days are counted in Bogotá. The server runs in UTC, so from 19:00 on (`evening`) `calcNextDueDate` starts
from the next day; at 8:00 UTC, when the job runs, both agree. What the frequencies make of the length of
months is in `Calendar`: here a template is due again `Interval` days later. The transaction itself, with
its category, is one step that may fail. `paid` and `touched` are history.

A run that an exception ends leaves the rest of its list out, and `findDueToday` asks for `= today`, so
nobody looks at those templates again. The model has this behaviour; `JobDealsWithAll` says what holds of
the runs that end otherwise. The job and a user may execute the same template for the same date (l. 244):
`JobPaysOnce` is about the job alone, because a user may pay as often as they like.

### AiRegister and AiUsage

`AiRegister`: `worker[j]` is the statement that comes next of `processJob`, in the memory of the process;
`End` stops all of them, and the row keeps `queued` or `processing`. `Guarded` are the steps inside the
`try`; a failure of one goes to `Catch`, of any other ends the job without a word. The account of the
extracted data is a name that `create` compares with a `uuid` column, so `CreateTransaction` of a job always
ends in the `catch`, and `completed` is never reached.

`AiUsage`: the server of the front asks for the quota (`Ask`), calls the model, and records the cost
(`record`) or gives up. The starts of the day and the month are `Calendar`'s.

### Calendar and Profile

An instant is a number of hours UTC, a day a number of days; `Month`, `MonthStart` and `DayOfMonth` are
the calendar, with leap years. `todayInBogota` and the starts of day and month subtract five hours;
`calcNextDueDate` uses the server's date, and `SetMonth` overflows as JavaScript's does: 31 January plus a
month is 3 March, so that a payment on the 31st skips February. `DueDates` states what remains true.

`Profile`: `parts[q]` is the answer of query `q` of `getSummary`, `Unread` before it runs, and `Old` once
something it read has changed. The properties speak of the parts that are neither. A row may have no account:
migration 1776200000000 leaves `account_id` empty where the old text named none or several.
The totals count such a row and the balances do not (`account-balances.ts:19`), and `BalanceFollowsTheTotals`
says that this is all the difference between the two queries. A group may be in a group, as the races of
`Categories` leave it: `GroupsAddUp` holds of the groups one level up, whatever is above them.

### Schema and Migrations

A schema is a set of facts: tables, columns with what a row must hold, foreign keys, unique and check
constraints. A script is a sequence of statements, each with the mode in which it is written (plain, `IF
EXISTS`, or after a query of `information_schema`); `Fails` says when Postgres refuses it, and `After` what
it leaves. `Deploy`, `Run`, `Revert` are a deployment and the two commands. Reverting works back to the
16th migration (`FirstReversible`); the `down` of an older one drops or keeps more than its `up` made. `EntitiesFit`
leaves out `waiting_list.email`: the entity declares it unique, no migration does, so the 409 of that
service never happens.

## 3. The checks

Each mutant listed in `PROJECT.json` changes one definition the way a plausible bug would (a dropped
condition of an `UPDATE`, a missing lock, a lost column of a `SELECT`) and breaks the property it is
listed for.

### Runs that pass

Small components share a run. The module of such a run extends one component and instantiates the others
beside it; `Init` chooses which one a behaviour is about (`part`) and only that one takes steps. The parts
share no variable and no action, so the states of the run are the sum of theirs and not the product. A
property of an instantiated component is a definition of the `MC` module: the conjunction of the named
properties in the component's module.

| Run | Bounds | Question |
|---|---|---|
| `progress` | planner: 1 debt, 2 requests, amounts 1..2, 2 payments, fairness. AI register: 2 jobs, fairness | can edits and payments of one debt lose, double or misjudge a payment, or wait for each other for ever? does a job end unless the process does? |
| `access` | reset: 2 requests, 2 rows, 2 attempts. Login: 3 requests, 3 failures, a lock of 2 minutes, 4 minutes, 1 reset. Budgets: 2 requests, 2 budgets and 1 of another user, 2 details, amounts 0..1 | can parallel guesses, resets and new codes exceed the limits or break the promise of `OneTimeCode`? what do parallel wrong passwords gain? does the automatic amount follow the details? |
| `two_factor` | either 3 requests on one challenge, 2 attempts, 2 sends; or 2 requests, 2 challenges of any purpose, 2 addresses, 1 attempt, 1 send | limits, one use of a code, the promise of `OneTimeCode`, the email a confirmed one, nothing open after turning 2FA off? |
| `sessions` | sessions: 2 requests, 2 sessions, 2 passwords, 2 rotations. Transactions: 1 row, 2 accounts, 2 requests, 1 related column at a time, 1 dependent. Migrations: all 40. Documents: 2 transactions, 1 own key, 1 key of another user, 2 requests, 2 documents, 1 file | does a rotation end what came before? do checks and constraints keep the rules of rows and accounts? do the migrations run after any reverts? do bucket and rows agree unless two requests raced on a key? |
| `templates` | templates: 1 template, 1 request and the job, 2 days, 2 reminders. Profile: 2 transactions, with and without an account, 4 instants, 3 accounts, 3 categories one above the other. AI usage: 5 uses, 2 askers, limits 2, 5 and 1. Calendar: 2 years, one of them a leap year | is a due date paid by the job or reminded twice? do the parts of a summary agree? are dates Colombia's? how far over a limit? |
| `categories` | 2 requests, 3 categories, 2 names, 2 types, 2 fields | can requests one after the other break groups or names? |

Why the bounds are enough: the hazards are races of a request that holds a copy with one that changes the
row. Two requests are the two sides of such a race, the third is a bystander that acts twice. Two rows
are the row and its successor; two attempts or sends are the first and the last allowed; three categories
are the smallest tree with a third level. In `templates` the job is one side of the race and the request the
other; the rows of different templates have nothing in common but the job's list, and the second day is the
one on which an unpaid or unmoved due date could come back. The instants of `Profile` and `AiUsage` lie
around the turns of a day, a month and a year, on both sides of the five hours. The proofs cover all other
values of the modules they are about.

Three runs look at a part of the states on purpose, and say so in their `MC` module: `two_factor` (its two
scopes), the documents of `sessions` (while there is a row of another user's key, one request at a time) and the
budgets of `access` (one budget with two details or two with none). The proofs of `Documents`, `TwoFactor` and `Budgets` are
about the specification without the scope.

`TypeOK` is a conjunct of a property in the components that share a run; in the others it is a theorem, and
the first conjunct of the inductive invariant everywhere.

`CHECK_DEADLOCK FALSE` is set everywhere: the models stop when the bounds on rows, payments or sessions
are used up and nothing is in flight.

### Runs that show a disagreement

Each finds a short behaviour in which the code does not do what a comment, a message or the API documentation
of the repository says.

| Run | Statement | What happens |
|---|---|---|
| `planner_removed_returns` | `DELETE`: "Deuda eliminada" | an edit in flight saves the deleted debt: it is inserted again |
| `two_factor_old_code` | "el anterior deja de servir" | a guess compared with the copy read before a resend is let through |
| `sessions_password_back` | "Actualiza el `name`" | a change of name saves the password it read before a reset |
| `sessions_two_factor` | "cambio de contraseña, recuperación, 2FA o email suben tokenVersion" | turning 2FA on does not |
| `ai_register` | `ai-register.service.ts:103-107` set `completed` and the transaction | no job gets there: the name of an account is looked up as an id |
| `login_lock_outlives_reset` | "Intenta de nuevo en ... minutos o restablece tu contraseña", "Ya puedes iniciar sesión" | a reset leaves `lockedUntil` alone: the new password is refused until the lock is over |

One more is shown by a run that passes. `src/FRONT.md:114` says "El token sigue siendo válido tras cambiar
email o contraseña: no hace falta re-loguear", and `src/README.md:243` the contrary ("cerrar sesiones al cambiar
contraseña o email"). The code does the second: `SessionsDieOnRotation` holds of every session issued before
the rotation, that of the caller too, who has to go on with the token in the answer.

### Liveness and fairness

Two components have something that must end.

* The planner makes requests wait for each other: `RequestsEnd`. `Fairness` gives weak fairness to the
  steps of Postgres and of the process (a statement in progress ends, a transaction commits or rolls back)
  and strong fairness to a save that waits for a row lock, because Postgres grants row locks in order of
  arrival.
* A job of the AI register runs by itself: `JobsEnd`, under weak fairness of each job's next step
  (`Step(j)`): the event loop goes on with every promise. The end of the process is not fair and may always
  happen; a job it cuts off is excepted, because nothing in the code takes it up again.

Nothing is assumed of clients: no request has to be sent, no code entered. The other modules have no
waiting, every statement is always possible, and whether a user ever finishes is not up to the code.

## 4. The proofs

TLAPS checks, for any set of requests, rows and values and any limits:

| Module | About | Theorems |
|---|---|---|
| `ProgressProofs` | `PaymentPlanner` | `PlannerInvariant`, `PlannerTypeOK`, `PlannerStatusMatchesBalance`, `PlannerLockedRowIsCurrent`, `PlannerEntityIsCurrentOrRefused`, `PlannerBalanceMatchesPayments`, `PlannerImplementsLedger`, `PlannerRemovedStaysRemoved` |
| | `AiRegister` | `JobsOnlyStopsLeaveJobs` |
| `AccessProofs` | `PasswordReset` | `ResetInvariant`, `ResetTypeOK`, `ResetComparisonsBounded`, `ResetChangesPasswordOnce`, `ResetChangeClosesEarlierResets`, `ResetClosedStaysClosed`, `ResetImplementsCode` |
| | `Budgets` | `BudgetsInvariant`, `BudgetsStay`, `BudgetsAloneAddUp`; of the run: `AccessBudgetsAddUp`, `AccessBudgetsStay` |
| | `Login` | `LoginInvariant`, `LoginPasswordsBounded`, `LoginLocksLast`, `LoginAloneCounts`; of the run: `AccessLoginInv`, `AccessLocksLast` |
| `TwoFactorProofs` | `TwoFactor` | `TwoFactorInvariant`, `TwoFactorTypeOK`, `TwoFactorComparisonsBounded`, `TwoFactorSendsBounded`, `TwoFactorConsumedOnce`, `TwoFactorEmailIsConfirmed`, `TwoFactorDisableClosesChallenges`, `TwoFactorClosedStaysClosed`, `TwoFactorImplementsCode`, `TwoFactorOldCodeIsDead` |
| `UserProofs` | `Sessions` | `SessionsInvariant`, `SessionsDieForGood`, `SessionsLoginsFollowPassword`, `SessionsPasswordStaysChanged`, `SessionsTwoFactorChangeClosesSessions` |
| | `Transactions` | `TransactionsInvariant`, `TransactionsRowsAreSound`, `TransactionsAccountsStay`, `TransactionsEditsKeepTheRest`, `TransactionsAloneAgree`; of the run: `FilesRowsAreSound`, `FilesAccountsStay`, `FilesEditsKeepTheRest` |
| | `Documents` of the run | `FilesStoresAgree`, `FilesLinksAreSound`, `FilesOtherUsersFilesStay` |
| `DatesProofs` | `TransferTemplates` | `TemplatesInvariant`, `TemplatesOneScheduledReminder`, `TemplatesJobPaysOnce`, `TemplatesJobDealsWithAll` |
| | `AiUsage` | `QuotaInvariant`; of the run: `DatesQuotaHolds` |
| | `Profile`, `Calendar` | `SummaryInvariant`, `SummarySeries`; of the run: `DatesPartsAgree`, `DatesAreOfColombia`, `DatesSeries` |
| `DocumentsProofs` | `Documents` | `DocumentsInvariant`, `DocumentsStoresAgree`, `DocumentsLinksAreSound`, `DocumentsOtherUsersFilesStay`, `DocumentsAloneAreSound`, `DocumentsAloneAgree` |
| `CategoriesProofs` | `Categories` | `CategoriesInvariant`, `CategoriesGroupsAreSound`, `CategoriesNamesAreUnique`, `CategoriesAloneAreSound`, `CategoriesAloneAreUnique` |

*Of the run* are the theorems about the specification of the `MC` module that is checked, in which the
component is one of several parts. A step of another part leaves the variables of the component alone, so a
behaviour of the run is a behaviour of the component (`AccessPlans`, `AccessLogins`, `FilesMoves`, `FilesAreDocuments`,
`DatesQuota`, `DatesSummary`), and the theorem about the component carries over. `DatesProofs` shows in the same place that the
calendar inside `AiUsage` and `Profile` is the one the lemmas are about.

### Assumptions

Only those on the constants. Most are in the module of the component (`PlannerConstants`,
`ResetConstants`, `TwoFactorConstants`, `SessionConstants`, `TemplateConstants`, `DocumentConstants`,
`CategoryConstants`, `CalendarConstants`); those of components that a run instantiates are in its `MC`
module (`LoginConstants`, `BudgetConstants`, `QuotaConstants`, `SummaryConstants`). `Transactions` and
`AiRegister` need none. They say that limits are natural numbers, positive where the code's are, that what
is counted or added up is finite, that the values that stand for "none" are not real ones, and that keys or
budgets of different users are different. `QuotaConstants` and `SummaryConstants` also keep the clock inside the
calendar of the model, whose first year and length are any. For the summary that leaves room for the months
of the series before it and for the next payment after it. Of the rows `SummaryConstants`
says only that an expense has a category, a column that is NOT NULL: they may have no account, and groups
may be of any depth.

### The argument

`IInv` holds initially, each action keeps it, and it implies the property. What has to be added to the
property is what the requests in flight hold:

* *PaymentPlanner*: an entity that lists every payment of its debt has the current balance
  (`EntityIsCurrentOrRefused`), ids grow (`IdsAreUsedInOrder`), a held lock belongs to a payment in
  progress (`LockHolderIsPaying`). Without the second, a new payment could look like one already listed.
  `BalanceMatchesPayments` then needs no more: a save that is not refused writes the balance the row has, and a
  payment adds to the sum what it takes off the balance.
* *AiRegister*: `OnlyStopsLeaveJobs` with the types is inductive as it stands.
* *PasswordReset*: a held row exists (`HeldRowsExist`), the counter of the row is the number of guesses
  compared (`CountersAgree`), an open row has changed nothing (`OpenRowsUnused`).
* *Login*: while nobody overlaps, the counter is the number of wrong passwords (`CountsEachFailure`). With
  parallel requests a rejection written from an old copy sets the counter *back* for everybody, so no
  counter grows with the guesses. `GuessesCounted` finds what does: every wrong password uses up one of the
  multisets of counters that the requests in flight may still hold. Setting the counter back
  makes room below and takes away more above, by Pascal's rule (`LoginOldCopyWeighsMore`). The sum of the
  binomials is the bound that `WrongPasswordsBounded` states.
* *Budgets*: the sum that a request which is not `late` is about to write is still the sum of the details,
  and the mode (`auto`) it decided by is still that of the row (`Fresh`); a detail that is to be saved
  is in the budget of the request or gone (`Saving`); the budgets of each user are in categories of that
  user (`OfTheUser`). Each write then has to be compared with what all the other requests hold.
* *TwoFactor*: `RowOK` (the attempts left and the sends bound the guesses: every resend buys
  `MaxAttempts` more) and `HoldingOK` (a request about to write the email was let through by the challenge
  it holds).
* *Sessions*: no session and no request carries a version that is not reached yet; a login about to sign
  holds a password in force or a version that is over.
* *Transactions*: the rows a request is about to insert are sound; the copy an update holds is the row, or
  the update is in `stale` (`CopiesFit`); whoever holds an account holds one that is live or in `raced`
  (`HoldingOK`), and every write that could disagree is known as a race before it happens (`RacesAreKnown`).
* *TransferTemplates*: what the job has still to do, and the template it is about to pay, was not paid for
  this day, and a reminder it is about to insert is not there (`JobOK`); no payment is ahead of the job's
  day; rows from `nextReminder` on are unused, and a reminder held by a request was inserted
  (`ReminderOK`). Without the first a run could pay again what it has paid. `JobDealsWithAll` takes a second
  invariant, `JobKeepsUp`: a listed template that nobody touched has been dealt with, is in the list still,
  or is the one in the hands of the job, at the statement where it stands.
* *AiUsage*: what was spent in a day, together with what the calls in flight may still cost, stays
  below the limit and what may be in flight (`RoomIsLeft`); the same for a month, and for the calls of a
  minute. `LimitsEnd` is about the calendar alone.
* *Profile*: a part that is neither `Unread` nor `Old` is what its query would answer now (`PartsAreAnswers`).
  What is left is about sums. The months of the series part the rows of the window (`SeriesAddsUp`); the
  groups part the expenses (`SpentOnGroups`, `GroupsHold`); what a transfer takes from one account it
  gives to another (`BalancesAdd`).
* *Calendar*: months follow one another without a gap and hold 28 to 31 days (`MonthFollows`,
  `MonthsAreShort`), each day is in one (`MonthHolds`), and a month can be told from its name in writing
  (`YearMonthIsOne`); on these rest the starts of days and months (`StartsOfDays`, `StartsOfMonths`) and the
  due dates (`DueDateIs`).
* *Documents*: what a request counted, looked up or uploaded is still so, unless another request is at work
  on the same key, and then the key is in `excused` from that moment on; a request that deleted an object
  still has the rows in its hands. So the moment in which bucket and rows disagree always belongs to one
  request, which is on its way to the rows.
* *Categories*: whatever a request that is not `late` has read about names, groups and types is still true
  when it writes. The write itself then cannot break a rule, and the foreign key covers what the reads do not.

Sums, factorials and leap years are recursive functions of the community modules or of the model, and the
provers have no induction over an operator. `Sums` does without it: among the subsets of a finite set
for which a fact fails there would be a least one (`MinimalSubset`), and among the numbers too
(`LeastNumber`); the fact for the next smaller one contradicts that. It gives that a sum does not depend on
the order, that adding or changing one element adds its difference, that parts add up to the
whole, and that binomials are whole numbers with Pascal's rule.

#### Refinements

`PlannerImplementsLedger`, `ResetImplementsCode` and `TwoFactorImplementsCode` map the initial states and
then every action to one step of the abstract specification or to none. What a step does to all the other
codes has to be shown too, so each needs a second invariant about the mapping. *PasswordReset*: a row that
has a token was guessed at (`TokensAreEarned`), or a reset would be a use without a guess. *TwoFactor*: the
counter of the row is the number of emails (`SendsAgree`), and a request that is about to mark a challenge
used has compared a guess (`MarksAreEarned`). Both say that nobody gets past `Guess`: the conditional
`UPDATE` that counts the attempt comes before the comparison.

#### The causes of the disagreements

The counterexample of a run shows one behaviour. Four theorems say that it is the only kind there is: in
every behaviour without the race, or without the omission, the statement of section 3 holds.

| Theorem | Hypothesis |
|---|---|
| `PlannerRemovedStaysRemoved` | no deletion while an edit that has read the debt is under way (`RemovalsWait`) |
| `TwoFactorOldCodeIsDead` | no resend between the read and the last `UPDATE` of a verification (`ResendsWait`) |
| `SessionsPasswordStaysChanged` | nobody else writes the password while a request holds the user it read (`WritersTakeTurns`) |
| `SessionsTwoFactorChangeClosesSessions` | 2FA is only turned off, and no stop before the rotation (`EveryChangeRotates`) |

The hypotheses say which steps do not happen and nothing about the state. They are no assumption about the
code, which does not ensure them: they name what a repair has to ensure, and that it would be enough.

#### One request at a time

The properties with a history leave out what it excuses. That would be hollow if the history excused too
much, for instance a fault of one request alone. These theorems exclude it: when no request takes a step
while another is under way, the rules hold with nothing excused, through any sequence of requests and with
stops at any statement. `CategoriesAloneAreSound` (two levels, one type for each group),
`CategoriesAloneAreUnique` (names; a removal that releases subcategories to the main level checks no name,
also alone, hence its hypothesis `NothingReleased`), `BudgetsAloneAddUp` (no stop between a detail and its
sum, `PlansNoneStops`), `LoginAloneCounts` (each wrong password is counted, and the last one locks),
`TransactionsAloneAgree` (types of categories, accounts of debts), `DocumentsAloneAreSound` (a file is once
in a transaction that exists) and `DocumentsAloneAgree` (bucket and rows; S3 deletes what it is told to, no
request stops between the two, and no old URL is used again: `DeletionsComplete`). The counterparts of
these hypotheses in the code are the hazards listed in `PROJECT.json`: nothing but its timing makes requests
wait for each other.

### Only model-checked

* `RequestsEnd`, `JobsEnd`: liveness under fairness, out of the prover's reach.
* `MigrationsRun`, `EntitiesFit`: statements about forty given scripts; TLC goes through every deployment and
  every sequence of reverts and runs there is. A script is a fold of its statements, and the forty are given:
  a proof could only go through the same cases.
* The six disagreements of section 3 that a run finds, which are behaviours.

## 5. Not modelled, and why

* Email: templates and a call that may fail; the failure is in `PasswordReset` and `TwoFactor`.
* Waiting list: one `INSERT`. What its table lacks is said under *Schema and Migrations*.
* HTTP shell, throttling per address, Swagger, configuration, DTO validation: framework, no state of the
  program. The inputs the models enumerate are those the DTOs let through.
* Seeds, the old database, tests: development data, most of the lines of the repository.
* In `Migrations`: the rows that scripts copy, and data that would make an `ALTER` fail.
* In `Documents`: sizes, types, the expiry of URLs. In `Sessions`: the expiry of a JWT.
* Hashes, random codes and tokens: a guess is right or not; tokens name their row.
* Reads that change nothing (`findAll`, lists, the counts of single tables in the summary).

## 6. What could come next

1. A composition of `Transactions` with `PaymentPlanner`: the deletion of the transaction of a payment, which
   is one step of the planner's model now.
2. A composition of `TransferTemplates` with `Categories`: the automatic category of a scheduled payment.
3. An abstract schedule that pays each due date at most once, with the users' own payments told apart.
4. `Migrations`: the rows beside the schema, for the scripts that copy data (`LinkTransactionsToAccounts`).
5. A lock or a version column for each of the four causes above, and a reset that clears the lock of the login,
   as a change to the model, with the theorem of its hypothesis in its place.
