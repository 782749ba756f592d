----------------------------- MODULE Transactions -----------------------------
(***************************************************************************)
(* Transactions and the accounts they move: TransactionsService (create,   *)
(* createBulk, update, remove), AccountsService, and the constraints the   *)
(* migrations put on both tables.                                          *)
(*                                                                         *)
(* Each query is a statement of its own; what a request checked may have   *)
(* changed when it writes, and then only the constraints are left.  Dates, *)
(* amounts and texts are columns that no rule relates to the others.  A    *)
(* category stands for its type; Categories models the rest of it, and     *)
(* Documents the files.                                                    *)
(***************************************************************************)
EXTENDS Naturals, FiniteSets

CONSTANTS
    Ids,        \* ids of transactions
    Accounts,   \* ids of the user's accounts
    NoAccount,  \* null in account_id and to_account_id
    Requests,   \* HTTP requests that may be in flight at the same time
    MaxRows,    \* bound: rows of one createBulk
    MaxFields,  \* bound: related columns that one update gives
    MaxDependents  \* bound: debts and recurring payments there are at a time

VARIABLES
    transactions,  \* transactions[x]: the row of x
    accounts,      \* accounts[a]: the life of account a
    dependents,    \* <<kind, account>>: debts and recurring payments on an account
    act,           \* act[r]: what request r holds between two statements
    stale,         \* history: updates whose transaction changed since they read it
    raced          \* history: transactions that such an update wrote, and accounts
                   \* that were being removed while something was put on them

tables == <<transactions, accounts, dependents>>
vars == <<tables, act, stale, raced>>

Types == {"ingreso", "egreso", "transferencia"}
Categories == {"ingreso", "egreso"}
Destination == Accounts \union {NoAccount}

Row == [type : Types, category : Categories, account : Destination, toAccount : Destination]
Columns == {"type", "category", "account", "toAccount"}

\* An id with no row.
NoRow == [type |-> "none", category |-> "none", account |-> NoAccount, toAccount |-> NoAccount]

\* A row of which a request may hold some columns only.
Held == [type : Types \union {"none"}, category : Categories \union {"none"},
         account : Destination, toAccount : Destination]

\* The statement that a request does next: "accounts" counts the accounts it
\* names, "insert" and "update" write transactions; "usage" counts what depends
\* on an account and "delete" deletes it; "save" is AccountsService.update's
\* save; "attach" inserts a debt or a recurring payment.
Holding ==
    [at : {"idle", "accounts", "insert", "update", "usage", "delete", "save", "attach"},
     ids : SUBSET Ids,
     rows : [Ids -> Held],                 \* the rows to insert, or what update writes
     fields : SUBSET Columns,              \* the columns that update was given
     account : Destination,
     kind : {"debt", "template"}]

Idle == [at |-> "idle", ids |-> {}, rows |-> [x \in Ids |-> NoRow], fields |-> {},
         account |-> NoAccount, kind |-> "debt"]

\* An expense from before transactions had an account_id.
OldRow == [type |-> "egreso", category |-> "egreso", account |-> NoAccount, toAccount |-> NoAccount]

InitWith(rows) ==
    /\ transactions = rows
    /\ accounts = [a \in Accounts |-> "none"]
    /\ dependents = {}
    /\ act = [r \in Requests |-> Idle]
    /\ stale = {}
    /\ raced = {}

Init == \E rows \in [Ids -> {NoRow, OldRow}] : InitWith(rows)

-----------------------------------------------------------------------------
(* Operators *)

Exists(x) == transactions[x] # NoRow

\* findUserCategories and assertCategoryMatchesType.
CategoryMatchesType(row) == row.type = "transferencia" \/ row.category = row.type

\* assertTransferAccounts.
TransferAccounts(row) ==
    row.toAccount # NoAccount =>
        row.type = "transferencia" /\ row.toAccount # row.account

\* accountIdsOf and assertUserAccounts: all of them are rows of the user.
AccountIds(row) == {row.account, row.toAccount} \ {NoAccount}
UserAccounts(ids) == \A a \in ids : accounts[a] = "live"

\* Mutant: the constraint that is missing.
ToAccountCheckMutant(row) == TRUE

\* CHK_finance_transactions_to_account.
ToAccountCheck(row) ==
    \/ row.toAccount = NoAccount
    \/ row.type = "transferencia" /\ row.toAccount # row.account

\* The foreign keys of account_id and to_account_id, for an INSERT or an UPDATE.
AccountKeys(row) == UserAccounts(AccountIds(row))

\* Mutant: ON DELETE NO ACTION on columns without foreign keys.
RestrictedMutant(a) == FALSE

\* Rows that ON DELETE RESTRICT keeps the account for: debts.accountId has no
\* foreign key.
Restricted(a) ==
    \/ \E x \in Ids : a \in AccountIds(transactions[x])
    \/ <<"template", a>> \in dependents

\* Mutant: the debts are not counted.
InUseMutant(a) == Restricted(a)

\* What AccountsService.remove counts.
InUse(a) == Restricted(a) \/ <<"debt", a>> \in dependents

Overlay(row, fields, given) ==
    [c \in Columns |-> IF c \in fields THEN given[c] ELSE row[c]]

\* Mutant: the destination goes whenever it was not given.
EditedMutant(current, fields, given) ==
    LET next == Overlay(current, fields, given) IN
    [next EXCEPT !.toAccount = IF "toAccount" \in fields THEN @ ELSE NoAccount]

\* The row that update means to leave, from its copy of the current one: the
\* destination goes when it is no longer a transfer.
Edited(current, fields, given) ==
    LET next == Overlay(current, fields, given) IN
    [next EXCEPT !.toAccount = IF next.type = "transferencia" THEN @ ELSE NoAccount]

\* Mutant: only a new category is compared with the type.
EditAcceptedMutant(current, fields, given) ==
    LET next == Edited(current, fields, given) IN
    /\ "category" \in fields => CategoryMatchesType(next)
    /\ TransferAccounts(next)
    /\ ("toAccount" \in fields) => TransferAccounts([next EXCEPT !.toAccount = given.toAccount])

\* The checks of update that need no query: a destination given to what is no
\* transfer is refused, not dropped.
EditAccepted(current, fields, given) ==
    LET next == Edited(current, fields, given) IN
    /\ (fields \intersect {"type", "category"} # {}) => CategoryMatchesType(next)
    /\ TransferAccounts(next)
    /\ ("toAccount" \in fields) => TransferAccounts([next EXCEPT !.toAccount = given.toAccount])

\* update queries the accounts when it was given one.
AsksForAccounts(fields, given) ==
    \/ "account" \in fields
    \/ "toAccount" \in fields /\ given.toAccount # NoAccount

\* What update still uses of the row it means to leave.
Kept(next, fields, asks) ==
    [type |-> IF "type" \in fields THEN next.type ELSE "none",
     category |-> IF "category" \in fields THEN next.category ELSE "none",
     account |-> IF "account" \in fields \/ asks THEN next.account ELSE NoAccount,
     toAccount |-> next.toAccount]

\* Mutant: a category that was not given is written as well.
WrittenMutant(row, fields, next) == Overlay(row, fields \union {"category", "toAccount"}, next)

\* The columns that its UPDATE sets: toAccount always, from the same copy.
Written(row, fields, next) == Overlay(row, fields \union {"toAccount"}, next)

-----------------------------------------------------------------------------
(* TransactionsService *)

\* create and createBulk, up to the query on the accounts.  A transfer without
\* a category gets "Transferencias", an expense category.
CheckRows(r) ==
    /\ act[r].at = "idle"
    /\ \E ids \in SUBSET {x \in Ids : ~ Exists(x)} :
          /\ ids # {}
          /\ Cardinality(ids) <= MaxRows
          /\ \E rows \in [ids -> {row \in Row : row.account # NoAccount}] :
                /\ \A x \in ids : CategoryMatchesType(rows[x]) /\ TransferAccounts(rows[x])
                /\ UserAccounts(UNION {AccountIds(rows[x]) : x \in ids})
                /\ act' = [act EXCEPT ![r] =
                     [Idle EXCEPT !.at = "insert", !.ids = ids,
                                  !.rows = [x \in Ids |-> IF x \in ids THEN rows[x] ELSE NoRow]]]
    /\ UNCHANGED tables

\* save with a list: every row or none.
InsertRows(r) ==
    LET a == act[r] IN
    /\ a.at = "insert"
    /\ transactions' =
         IF \A x \in a.ids : ~ Exists(x) /\ AccountKeys(a.rows[x]) /\ ToAccountCheck(a.rows[x])
         THEN [x \in Ids |-> IF x \in a.ids THEN a.rows[x] ELSE transactions[x]]
         ELSE transactions
    /\ act' = [act EXCEPT ![r] = Idle]
    /\ UNCHANGED <<accounts, dependents>>

\* update, up to the query on the accounts: it goes on with the row it read.  What
\* it was not given is as in that row.
ReadForUpdate(r, x) ==
    /\ act[r].at = "idle"
    /\ Exists(x)
    /\ \E fields \in SUBSET Columns, given \in Row :
          /\ Cardinality(fields) <= MaxFields
          /\ given = Overlay(transactions[x], fields, given)
          /\ "account" \in fields => given.account # NoAccount
          /\ EditAccepted(transactions[x], fields, given)
          /\ act' = [act EXCEPT ![r] =
               [Idle EXCEPT
                  !.ids = {x}, !.fields = fields,
                  !.rows[x] = Kept(Edited(transactions[x], fields, given), fields,
                                   AsksForAccounts(fields, given)),
                  !.at = IF AsksForAccounts(fields, given) THEN "accounts" ELSE "update"]]
    /\ UNCHANGED tables

CheckAccounts(r) ==
    LET a == act[r] IN
    /\ a.at = "accounts"
    /\ act' = [act EXCEPT ![r] =
         IF \A x \in a.ids : UserAccounts(AccountIds(a.rows[x]))
         THEN [a EXCEPT !.at = "update"] ELSE Idle]
    /\ UNCHANGED tables

\* The UPDATE of the columns given and of toAccount; it touches no row if the
\* transaction is gone, and a constraint may refuse it.
UpdateRow(r, x) ==
    LET a == act[r]
        row == Written(transactions[x], a.fields, a.rows[x])
        accepted == Exists(x) /\ AccountKeys(row) /\ ToAccountCheck(row) IN
    /\ a.at = "update"
    /\ a.ids = {x}
    /\ transactions' = IF accepted THEN [transactions EXCEPT ![x] = row] ELSE transactions
    /\ act' = [act EXCEPT ![r] = Idle]
    /\ UNCHANGED <<accounts, dependents>>

RemoveTransaction(x) ==
    /\ Exists(x)
    /\ transactions' = [transactions EXCEPT ![x] = NoRow]
    /\ UNCHANGED <<accounts, dependents, act>>

-----------------------------------------------------------------------------
(* AccountsService *)

CreateAccount(a) ==
    /\ accounts[a] = "none"
    /\ accounts' = [accounts EXCEPT ![a] = "live"]
    /\ UNCHANGED <<transactions, dependents, act>>

\* update reads the account and saves it; a row that was deleted meanwhile is
\* inserted again.
ReadAccount(r, a) ==
    /\ act[r].at = "idle"
    /\ accounts[a] = "live"
    /\ act' = [act EXCEPT ![r] = [Idle EXCEPT !.at = "save", !.account = a]]
    /\ UNCHANGED tables

SaveAccount(r) ==
    /\ act[r].at = "save"
    /\ accounts' = [accounts EXCEPT ![act[r].account] = "live"]
    /\ act' = [act EXCEPT ![r] = Idle]
    /\ UNCHANGED <<transactions, dependents>>

FindAccount(r, a) ==
    /\ act[r].at = "idle"
    /\ accounts[a] = "live"
    /\ act' = [act EXCEPT ![r] = [Idle EXCEPT !.at = "usage", !.account = a]]
    /\ UNCHANGED tables

\* One SELECT counts transactions, debts and recurring payments.
CountUsage(r) ==
    /\ act[r].at = "usage"
    /\ act' = [act EXCEPT ![r] = IF InUse(act[r].account) THEN Idle
                                 ELSE [act[r] EXCEPT !.at = "delete"]]
    /\ UNCHANGED tables

DeleteAccount(r) ==
    LET a == act[r].account IN
    /\ act[r].at = "delete"
    /\ accounts' = IF Restricted(a) THEN accounts ELSE [accounts EXCEPT ![a] = "removed"]
    /\ act' = [act EXCEPT ![r] = Idle]
    /\ UNCHANGED <<transactions, dependents>>

\* A debt or a recurring payment: assertOwnedByUser, then the INSERT.
CheckOwned(r, kind, a) ==
    /\ act[r].at = "idle"
    /\ accounts[a] = "live"
    /\ Cardinality(dependents) < MaxDependents
    /\ act' = [act EXCEPT ![r] = [Idle EXCEPT !.at = "attach", !.account = a, !.kind = kind]]
    /\ UNCHANGED tables

Attach(r) ==
    LET a == act[r].account IN
    /\ act[r].at = "attach"
    /\ dependents' = IF act[r].kind = "debt" \/ accounts[a] = "live"
                     THEN dependents \union {<<act[r].kind, a>>} ELSE dependents
    /\ act' = [act EXCEPT ![r] = Idle]
    /\ UNCHANGED <<transactions, accounts>>

Detach(d) ==
    /\ d \in dependents
    /\ dependents' = dependents \ {d}
    /\ UNCHANGED <<transactions, accounts, act>>

-----------------------------------------------------------------------------
\* Accounts that one request removes while another puts a debt on them, and
\* transactions written from an outdated copy.
RacedAccounts ==
    {a \in Accounts : \E r, q \in Requests :
        /\ act[r].account = a /\ act[r].at \in {"usage", "delete"}
        /\ act[q].account = a /\ act[q].at = "attach"}

Editing(r, x) == act[r].at \in {"accounts", "update"} /\ act[r].ids = {x}

RacedWrites ==
    {x \in Ids : \E r \in stale : Editing(r, x) /\ act'[r].at = "idle"}

\* The accounts with a debt, or about to have one.
Indebted ==
    {a \in Accounts : \/ <<"debt", a>> \in dependents
                      \/ \E r \in Requests : act[r].at = "attach" /\ act[r].account = a}

Changed(x) == transactions'[x] # transactions[x]

Observe ==
    /\ stale' = {r \in Requests :
                   /\ act'[r].at \in {"accounts", "update"}
                   /\ r \in stale \/ \E x \in Ids : Editing(r, x) /\ Changed(x)}
    /\ raced' = {y \in raced \union RacedWrites \union RacedAccounts' :
                   (y \in Ids /\ transactions'[y] # NoRow) \/ y \in Indebted'}

Step ==
    \/ \E r \in Requests :
          \/ CheckRows(r)
          \/ InsertRows(r)
          \/ \E x \in Ids : ReadForUpdate(r, x) \/ UpdateRow(r, x)
          \/ CheckAccounts(r)
          \/ SaveAccount(r)
          \/ CountUsage(r)
          \/ DeleteAccount(r)
          \/ Attach(r)
          \/ \E a \in Accounts :
                \/ ReadAccount(r, a)
                \/ FindAccount(r, a)
                \/ \E kind \in {"debt", "template"} : CheckOwned(r, kind, a)
    \/ \E x \in Ids : RemoveTransaction(x)
    \/ \E a \in Accounts : CreateAccount(a)
    \/ \E d \in dependents : Detach(d)

Next == Step /\ Observe

Spec == Init /\ [][Next]_vars

-----------------------------------------------------------------------------
(* Properties *)

\* Every variable has its type.
TypeOK ==
    /\ transactions \in [Ids -> Row \union {NoRow}]
    /\ accounts \in [Accounts -> {"none", "live", "removed"}]
    /\ dependents \subseteq {"debt", "template"} \X Accounts
    /\ act \in [Requests -> Holding]
    /\ stale \subseteq Requests
    /\ raced \subseteq Ids \union Accounts

\* The accounts of every transaction exist, however its checks and the removal
\* of an account interleave: what both services check is stale when they write.
AccountsExist == \A x \in Ids : UserAccounts(AccountIds(transactions[x]))

\* "La cuenta destino solo existe en transferencias", and is another account,
\* also when two updates each saw half of the row.
DestinationsAreOfTransfers == \A x \in Ids : TransferAccounts(transactions[x])

\* "La categoría debe ser del mismo tipo que la transacción", whatever sequence
\* of updates gives only the type or only the category; two updates that read
\* the same row may break it.
TypesMatchCategories ==
    \A x \in Ids : Exists(x) => CategoryMatchesType(transactions[x]) \/ x \in raced

\* What each row says agrees with the rest of the row.
RowsAreSound == TypeOK /\ DestinationsAreOfTransfers /\ TypesMatchCategories

\* An update leaves what it was not given as it was, except for the destination
\* of what stops being a transfer; one with an outdated copy may put an old
\* destination back.
EditsKeepTheRest ==
    [][\A r \in Requests, x \in Ids :
         act[r].at = "update" /\ act[r].ids = {x} /\ act'[r].at = "idle" =>
            \A c \in Columns \ act[r].fields :
                \/ transactions'[x][c] = transactions[x][c]
                \/ c = "toAccount" /\ transactions'[x].type # "transferencia"
                \/ r \in stale]_vars

\* remove, "si nada depende de ella": a debt names an account that exists, unless
\* it was being created while the account was being removed.
DebtsHaveAccount ==
    \A a \in Accounts :
        <<"debt", a>> \in dependents => accounts[a] = "live" \/ a \in raced

\* Whatever names an account finds it.
AccountsStay == AccountsExist /\ DebtsHaveAccount

=============================================================================
