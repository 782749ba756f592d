--------------------------- MODULE PaymentPlanner ---------------------------
(***************************************************************************)
(* PaymentPlannerService (src/src/payment-planner/payment-planner.service  *)
(* .ts): debts, their payments (abonos) and the transactions those create. *)
(*                                                                         *)
(* A request is a sequence of database statements; others run between any  *)
(* two of them.  registerPayment holds the debt's row lock from its SELECT *)
(* ... FOR UPDATE to its COMMIT.  update works on an entity read without a *)
(* lock and hands it to TypeORM's save, which reads the row again, writes  *)
(* the columns in which the entity differs from it, inserts the row when   *)
(* it is gone, and sets debtId to NULL on the payments the entity does not *)
(* list, which the NOT NULL column refuses.  Amounts are whole cents.      *)
(***************************************************************************)
EXTENDS Naturals, FiniteSetsExt

CONSTANTS
    Debts,       \* identities of debts (UUIDs: never reused by create)
    NoDebt,      \* the target of an idle request
    Requests,    \* requests that may be in flight at the same time
    NoRequest,   \* the holder of a free row lock
    MaxTotal,    \* bound: the largest amount of a debt
    MaxPayments  \* bound: payments committed in a behaviour

ASSUME PlannerConstants ==
    /\ NoDebt \notin Debts
    /\ NoRequest \notin Requests
    /\ MaxTotal \in Nat \ {0}
    /\ MaxPayments \in Nat

VARIABLES
    debts,         \* debts[d]: the row of table debts, or NoRow
    payments,      \* payments[d]: rows of debt_payments whose debtId is d
    transactions,  \* ids of the transactions that payments created
    nextId,        \* the id of the next payment, and of its transaction
    lock,          \* lock[d]: the request whose transaction locks row d
    req,           \* req[r]: what request r holds in memory
    life,          \* history: life[d] is "new", "live" or "removed"
    opened         \* history: opened[d] is the total d was created with

vars == <<debts, payments, transactions, nextId, lock, req, life, opened>>

Amount == 1 .. MaxTotal
PaymentId == 1 .. MaxPayments
Payment == [id : PaymentId, amount : Amount]

\* The columns of a debt that the properties tell apart.  totalAmount can be
\* edited; remainingAmount and status only follow payments.
Column == {"total", "remaining", "status"}
Status == {"pending", "paid"}
Row == [total : 0 .. MaxTotal, remaining : 0 .. MaxTotal,
        status : Status \union {"absent"}]
NoRow == [total |-> 0, remaining |-> 0, status |-> "absent"]

Exists(d) == debts[d].status # "absent"

\* Nobody's open transaction holds the row lock of d.
RowFreeMutant(d) == TRUE
RowFree(d) == lock[d] = NoRequest

\* The lock table once the transaction of r is over.
Released(r) == [d \in Debts |-> IF lock[d] = r THEN NoRequest ELSE lock[d]]

\* What a request keeps between two of its statements: "saving" holds an edited
\* entity, "loaded" also knows what save found, "paying" holds the row lock.
Request ==
    [at : {"idle", "saving", "loaded", "paying"},
     debt : Debts \union {NoDebt},
     entity : Row,
     seen : SUBSET Payment,
     dirty : SUBSET Column,
     insert : BOOLEAN,
     amount : 0 .. MaxTotal]

Holding(at, d, entity, seen, amount) ==
    [at |-> at, debt |-> d, entity |-> entity, seen |-> seen,
     dirty |-> {}, insert |-> FALSE, amount |-> amount]

Idle == Holding("idle", NoDebt, NoRow, {}, 0)

Init ==
    /\ debts = [d \in Debts |-> NoRow]
    /\ payments = [d \in Debts |-> {}]
    /\ transactions = {}
    /\ nextId = 1
    /\ lock = [d \in Debts |-> NoRequest]
    /\ req = [r \in Requests |-> Idle]
    /\ life = [d \in Debts |-> "new"]
    /\ opened = [d \in Debts |-> 0]

-----------------------------------------------------------------------------
(***************************************************************************)
(* create and remove: one statement each changes the tables.               *)
(***************************************************************************)

Create(d, total) ==
    /\ life[d] = "new"
    /\ debts' = [debts EXCEPT ![d] = [total |-> total, remaining |-> total,
                                      status |-> "pending"]]
    /\ life' = [life EXCEPT ![d] = "live"]
    /\ opened' = [opened EXCEPT ![d] = total]
    /\ UNCHANGED <<payments, transactions, nextId, lock, req>>

\* DELETE waits for the row lock; ON DELETE CASCADE takes the payments along,
\* their transactions stay.
Remove(d) ==
    /\ Exists(d)
    /\ RowFree(d)
    /\ debts' = [debts EXCEPT ![d] = NoRow]
    /\ payments' = [payments EXCEPT ![d] = {}]
    /\ life' = [life EXCEPT ![d] = "removed"]
    /\ UNCHANGED <<transactions, nextId, lock, req, opened>>

-----------------------------------------------------------------------------
(***************************************************************************)
(* update: findOne, the checks on what it returned, then save.             *)
(***************************************************************************)

\* An edit either keeps the total or sets one that covers what was pending.
EditedTotalsMutant(row) == Amount
EditedTotals(row) == {row.total} \union {t \in Amount : t >= row.remaining}

UpdateRead(r, d) ==
    /\ req[r].at = "idle"
    /\ Exists(d)
    /\ debts[d].status # "paid"
    /\ \E total \in EditedTotals(debts[d]) :
          req' = [req EXCEPT ![r] =
                    Holding("saving", d, [debts[d] EXCEPT !.total = total],
                            payments[d], 0)]
    /\ UNCHANGED <<debts, payments, transactions, nextId, lock, life, opened>>

\* The columns in which the entity differs from the row that save reads.
Difference(entity, row) == {c \in Column : entity[c] # row[c]}

\* The entity lists every payment of its debt, because findOne loads the
\* relation 'payments' (l.77).
KnowsPaymentsMutant(r) == TRUE
KnowsPayments(r) == payments[req[r].debt] \subseteq req[r].seen

\* save reads the row and its payments.  No row: it will insert the entity.
SaveLoadMissing(r) ==
    /\ req[r].at = "saving"
    /\ ~ Exists(req[r].debt)
    /\ req' = [req EXCEPT ![r].at = "loaded", ![r].insert = TRUE]
    /\ UNCHANGED <<debts, payments, transactions, nextId, lock, life, opened>>

\* All the row's payments are known to the entity: the changed columns are
\* what it will write.
SaveLoad(r) ==
    LET d == req[r].debt IN
    /\ req[r].at = "saving"
    /\ Exists(d)
    /\ KnowsPayments(r)
    /\ req' = [req EXCEPT ![r].at = "loaded", ![r].insert = FALSE,
                          ![r].dirty = Difference(req[r].entity, debts[d])]
    /\ UNCHANGED <<debts, payments, transactions, nextId, lock, life, opened>>

\* A payment the entity does not list: the save's own transaction fails on
\* debt_payments."debtId" NOT NULL and nothing is written.
SaveRejected(r) ==
    /\ req[r].at = "saving"
    /\ Exists(req[r].debt)
    /\ ~ KnowsPayments(r)
    /\ req' = [req EXCEPT ![r] = Idle]
    /\ UNCHANGED <<debts, payments, transactions, nextId, lock, life, opened>>

Merge(entity, row, dirty) ==
    [c \in Column |-> IF c \in dirty THEN entity[c] ELSE row[c]]

\* UPDATE debts: waits for the row lock; touches no row if it is gone by now.
SaveUpdate(r) ==
    LET d == req[r].debt IN
    /\ req[r].at = "loaded"
    /\ ~ req[r].insert
    /\ RowFree(d)
    /\ debts' = IF Exists(d)
                THEN [debts EXCEPT ![d] =
                        Merge(req[r].entity, debts[d], req[r].dirty)]
                ELSE debts
    /\ req' = [req EXCEPT ![r] = Idle]
    /\ UNCHANGED <<payments, transactions, nextId, lock, life, opened>>

\* INSERT debts with the entity's id: a row that came back meanwhile makes it
\* fail on the primary key.
SaveInsert(r) ==
    LET d == req[r].debt IN
    /\ req[r].at = "loaded"
    /\ req[r].insert
    /\ debts' = IF Exists(d) THEN debts
                ELSE [debts EXCEPT ![d] = req[r].entity]
    /\ req' = [req EXCEPT ![r] = Idle]
    /\ UNCHANGED <<payments, transactions, nextId, lock, life, opened>>

\* The account check fails, or the process stops before save writes.
UpdateAbandoned(r) ==
    /\ req[r].at \in {"saving", "loaded"}
    /\ req' = [req EXCEPT ![r] = Idle]
    /\ UNCHANGED <<debts, payments, transactions, nextId, lock, life, opened>>

-----------------------------------------------------------------------------
(***************************************************************************)
(* registerPayment: one database transaction around the row lock.          *)
(***************************************************************************)

\* The checks on the locked row.
Payable(row, amount) == row.status # "paid" /\ amount <= row.remaining

\* SELECT ... FOR UPDATE waits for the row lock.
PayLock(r, d, amount) ==
    /\ req[r].at = "idle"
    /\ Exists(d)
    /\ RowFree(d)
    /\ Payable(debts[d], amount)
    /\ lock' = [lock EXCEPT ![d] = r]
    /\ req' = [req EXCEPT ![r] = Holding("paying", d, debts[d], {}, amount)]
    /\ UNCHANGED <<debts, payments, transactions, nextId, life, opened>>

\* The new balance comes from the row read under the lock.
NewRow(row, balance) ==
    [total |-> row.total, remaining |-> balance,
     status |-> IF balance = 0 THEN "paid" ELSE "pending"]

\* The transaction, the payment and the new balance become visible at COMMIT.
PayCommit(r) ==
    LET d == req[r].debt
        balance == req[r].entity.remaining - req[r].amount
    IN
    /\ req[r].at = "paying"
    /\ nextId \in PaymentId
    /\ transactions' = transactions \union {nextId}
    /\ payments' = [payments EXCEPT ![d] =
                      @ \union {[id |-> nextId, amount |-> req[r].amount]}]
    /\ debts' = [debts EXCEPT ![d] = NewRow(@, balance)]
    /\ nextId' = nextId + 1
    /\ lock' = Released(r)
    /\ req' = [req EXCEPT ![r] = Idle]
    /\ UNCHANGED <<life, opened>>

\* A later check or statement fails (a category or account that is not there),
\* or the process stops: the database rolls back and frees the lock.
PayRollbackMutant(r) ==
    /\ req[r].at = "paying"
    /\ req' = [req EXCEPT ![r] = Idle]
    /\ UNCHANGED <<debts, payments, transactions, nextId, lock, life, opened>>
PayRollback(r) ==
    /\ req[r].at = "paying"
    /\ lock' = Released(r)
    /\ req' = [req EXCEPT ![r] = Idle]
    /\ UNCHANGED <<debts, payments, transactions, nextId, life, opened>>

-----------------------------------------------------------------------------

\* TransactionsService.remove deletes any transaction of the user, also one
\* that a payment created.
RemoveTransaction(t) ==
    /\ t \in transactions
    /\ transactions' = transactions \ {t}
    /\ UNCHANGED <<debts, payments, nextId, lock, req, life, opened>>

Next ==
    \/ \E d \in Debts : \E total \in Amount : Create(d, total)
    \/ \E d \in Debts : Remove(d)
    \/ \E r \in Requests : \E d \in Debts : UpdateRead(r, d)
    \/ \E r \in Requests : SaveLoadMissing(r)
    \/ \E r \in Requests : SaveLoad(r)
    \/ \E r \in Requests : SaveRejected(r)
    \/ \E r \in Requests : SaveUpdate(r)
    \/ \E r \in Requests : SaveInsert(r)
    \/ \E r \in Requests : \E d \in Debts : \E a \in Amount : PayLock(r, d, a)
    \/ \E r \in Requests : PayCommit(r)
    \/ \E r \in Requests : PayRollback(r)
    \/ \E r \in Requests : UpdateAbandoned(r)
    \/ \E t \in PaymentId : RemoveTransaction(t)

Spec == Init /\ [][Next]_vars

\* Every statement ends: the client drives none of these steps, Postgres and
\* the process do.  Row locks are granted in order of arrival, so a save that
\* waits for one is not overtaken for ever (SF).
Fairness ==
    \A r \in Requests :
        /\ WF_vars(PayCommit(r) \/ PayRollback(r))
        /\ WF_vars(SaveLoadMissing(r) \/ SaveLoad(r) \/ SaveRejected(r))
        /\ SF_vars(SaveUpdate(r) \/ SaveInsert(r))

-----------------------------------------------------------------------------
(***************************************************************************)
(* Properties.  "Live" means created and never removed: what update does   *)
(* to a debt removed under it is the subject of RemovedStaysRemoved.       *)
(***************************************************************************)

Live(d) == life[d] = "live"

\* getTotalPaid, for one debt.
TotalPaid(d) == SumFunction([p \in payments[d] |-> p.amount])

TypeOK ==
    /\ debts \in [Debts -> Row]
    /\ payments \in [Debts -> SUBSET Payment]
    /\ transactions \in SUBSET PaymentId
    /\ nextId \in 1 .. MaxPayments + 1
    /\ lock \in [Debts -> Requests \union {NoRequest}]
    /\ req \in [Requests -> Request]
    /\ life \in [Debts -> {"new", "live", "removed"}]
    /\ opened \in [Debts -> 0 .. MaxTotal]

\* No abono is lost and none is counted twice: whatever edits and abonos are in
\* flight, a debt's balance plus its payments is what the debt was opened with.
\* registerPayment l.154-208 (row lock) and update l.90-128 (save of an entity
\* read without it).
BalanceMatchesPayments ==
    \A d \in Debts :
        Live(d) => debts[d].remaining + TotalPaid(d) = opened[d]

\* A live debt is there, owes no more than its (edited) total, and is "paid"
\* exactly when nothing is left to pay: update l.103 checks a total against a
\* balance read earlier and registerPayment l.206 alone sets the status.
StatusMatchesBalance ==
    \A d \in Debts :
        Live(d) =>
            /\ debts[d].status \in Status
            /\ debts[d].status = "paid" <=> debts[d].remaining = 0
            /\ debts[d].remaining <= debts[d].total

\* A request that holds the row lock works on the row as it is: nobody changes
\* the balance between its SELECT ... FOR UPDATE and its COMMIT, and no two
\* requests hold the same row (the comment at l.137-142).
LockedRowIsCurrent ==
    \A r \in Requests :
        req[r].at = "paying" =>
            /\ req[r].debt \in Debts
            /\ lock[req[r].debt] = r
            /\ debts[req[r].debt] = req[r].entity
            /\ req[r].entity.status = "pending"
            /\ req[r].amount \in 1 .. req[r].entity.remaining

\* A lock is held only by the request that is paying that debt.
LockHolderIsPaying ==
    \A d \in Debts :
        lock[d] # NoRequest =>
            /\ req[lock[d]].at = "paying"
            /\ req[lock[d]].debt = d

\* Payment ids below nextId are the ones used so far.
IdsAreUsedInOrder ==
    /\ \A d \in Debts : \A p \in payments[d] : p.id < nextId
    /\ \A r \in Requests : \A p \in req[r].seen : p.id < nextId

\* Why an edit cannot lose an abono: an entity that still lists every payment
\* of its debt has the current balance and status (otherwise save is refused),
\* and one that save has compared with the row only writes the total.  Its total
\* covers the balance, which can only have gone down since.
EntityIsCurrentOrRefused ==
    \A r \in Requests :
        LET d == req[r].debt
            entity == req[r].entity
        IN  req[r].at \in {"saving", "loaded"} =>
                /\ d \in Debts
                /\ life[d] # "new"
                /\ entity.status = "pending"
                /\ Live(d) => entity.total >= debts[d].remaining
                /\ Live(d) /\ req[r].at = "saving"
                       /\ KnowsPayments(r) =>
                          /\ entity.remaining = debts[d].remaining
                          /\ entity.status = debts[d].status
                /\ Live(d) /\ req[r].at = "loaded" =>
                          /\ ~ req[r].insert
                          /\ req[r].dirty \subseteq {"total"}

\* A debt that was never created has no row, no payments and no lock.
NewIsAbsent ==
    \A d \in Debts : life[d] = "new" => debts[d] = NoRow /\ payments[d] = {}

\* The inductive invariant behind the theorems of ProgressProofs.
IInv ==
    /\ TypeOK
    /\ StatusMatchesBalance
    /\ LockedRowIsCurrent
    /\ LockHolderIsPaying
    /\ IdsAreUsedInOrder
    /\ EntityIsCurrentOrRefused
    /\ NewIsAbsent

\* The planner keeps the ledger's promise: seen from outside, every step of a
\* live debt opens it, pays part of what is owed, closes it or changes nothing.
Ledger == INSTANCE DebtLedger WITH
    state  <- life,
    owed   <- [d \in Debts |-> IF Live(d) THEN debts[d].remaining ELSE 0],
    abonos <- [d \in Debts |-> IF Live(d) THEN payments[d] ELSE {}]

ImplementsLedger == Ledger!Spec

\* Under Fairness every request comes to an end: nobody waits for ever for a
\* row lock, because whoever holds it commits or rolls back.
RequestsEnd ==
    \A r \in Requests : req[r].at # "idle" ~> req[r].at = "idle"

\* payment-planner.controller.ts:133: after DELETE, "Deuda eliminada".
RemovedStaysRemoved ==
    \A d \in Debts : life[d] = "removed" => ~ Exists(d)
=============================================================================
