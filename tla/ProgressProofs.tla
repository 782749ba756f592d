---------------------------- MODULE ProgressProofs ---------------------------
(***************************************************************************)
(* Proofs about PaymentPlanner, for any sets of debts and requests and any *)
(* bounds, and about AiRegister, for any set of jobs, as the instance      *)
(* Registers of MCProgress.                                                *)
(***************************************************************************)
EXTENDS MCProgress, Sums, TLAPS

LEMMA InitIInv == Init => IInv
  BY PlannerConstants
  DEF Init, IInv, TypeOK, Row, NoRow, Status, Request, Idle, PaymentId,
      Holding, StatusMatchesBalance, LockedRowIsCurrent, LockHolderIsPaying,
      IdsAreUsedInOrder, EntityIsCurrentOrRefused, NewIsAbsent, Live,
      KnowsPayments

\* One lemma per action: a step of it keeps the inductive invariant.
LEMMA CreateKeeps ==
  ASSUME IInv, NEW d \in Debts, NEW total \in Amount, Create(d, total)
  PROVE  IInv'
  <1> USE PlannerConstants DEF IInv, Create
  <1>1. TypeOK'
    BY DEF TypeOK, Row, NoRow, Status, Amount
  <1>2. StatusMatchesBalance'
    BY DEF TypeOK, StatusMatchesBalance, Live, Row, NoRow, Status, Amount
  <1>3. LockedRowIsCurrent'
    BY DEF TypeOK, LockedRowIsCurrent, NewIsAbsent, NoRow
  <1>4. LockHolderIsPaying' /\ IdsAreUsedInOrder'
    BY DEF TypeOK, LockHolderIsPaying, IdsAreUsedInOrder
  <1>5. EntityIsCurrentOrRefused'
    BY DEF TypeOK, EntityIsCurrentOrRefused, Live, KnowsPayments
  <1>6. NewIsAbsent'
    BY DEF TypeOK, NewIsAbsent
  <1> QED BY <1>1, <1>2, <1>3, <1>4, <1>5, <1>6

LEMMA RemoveKeeps ==
  ASSUME IInv, NEW d \in Debts, Remove(d)
  PROVE  IInv'
  <1> USE PlannerConstants DEF IInv, Remove
  <1>1. TypeOK'
    BY DEF TypeOK, Row, NoRow, Status
  <1>2. StatusMatchesBalance'
    BY DEF TypeOK, StatusMatchesBalance, Live
  <1>3. LockedRowIsCurrent'
    BY DEF TypeOK, LockedRowIsCurrent, RowFree
  <1>4. LockHolderIsPaying' /\ IdsAreUsedInOrder'
    BY DEF TypeOK, LockHolderIsPaying, IdsAreUsedInOrder
  <1>5. EntityIsCurrentOrRefused'
    BY DEF TypeOK, EntityIsCurrentOrRefused, Live, KnowsPayments
  <1>6. NewIsAbsent'
    BY DEF TypeOK, NewIsAbsent
  <1> QED BY <1>1, <1>2, <1>3, <1>4, <1>5, <1>6

LEMMA UpdateReadKeeps ==
  ASSUME IInv, NEW r \in Requests, NEW d \in Debts, UpdateRead(r, d)
  PROVE  IInv'
  <1> USE PlannerConstants DEF IInv, UpdateRead
  <1>1. PICK total \in EditedTotals(debts[d]) :
           req' = [req EXCEPT ![r] =
                     Holding("saving", d, [debts[d] EXCEPT !.total = total],
                             payments[d], 0)]
    OBVIOUS
  <1> DEFINE entity == [debts[d] EXCEPT !.total = total]
  <1>2. /\ total \in 0 .. MaxTotal
        /\ total = debts[d].total \/ total >= debts[d].remaining
    BY DEF EditedTotals, TypeOK, Row, Amount
  <1>3. /\ entity \in Row
        /\ entity.total = total
        /\ entity.remaining = debts[d].remaining
        /\ entity.status = debts[d].status
    BY <1>2 DEF TypeOK, Row
  <1> HIDE DEF entity
  <1>4. req' = [req EXCEPT ![r] = Holding("saving", d, entity, payments[d], 0)]
    BY <1>1 DEF entity
  <1>5. Holding("saving", d, entity, payments[d], 0) \in Request
    BY <1>3 DEF TypeOK, Request, Holding
  <1>6. TypeOK'
    BY <1>4, <1>5 DEF TypeOK
  <1>7. StatusMatchesBalance'
    BY DEF StatusMatchesBalance, Live
  <1>8. LockedRowIsCurrent' /\ LockHolderIsPaying'
    BY <1>4 DEF TypeOK, LockedRowIsCurrent, LockHolderIsPaying, Holding
  <1>9. IdsAreUsedInOrder'
    BY <1>4 DEF TypeOK, IdsAreUsedInOrder, Holding
  <1>10. life[d] # "new" /\ debts[d].status = "pending"
    BY DEF NewIsAbsent, NoRow, Exists, TypeOK, Row, Status
  <1>11. Live(d) => total >= debts[d].remaining
    BY <1>2 DEF StatusMatchesBalance, TypeOK, Row
  <1>12. EntityIsCurrentOrRefused'
    BY <1>3, <1>4, <1>10, <1>11
    DEF TypeOK, EntityIsCurrentOrRefused, Live, KnowsPayments, Holding
  <1>13. NewIsAbsent'
    BY DEF NewIsAbsent
  <1> QED BY <1>6, <1>7, <1>8, <1>9, <1>12, <1>13

\* What the steps of update that only change the request's own memory keep: the
\* tables, the locks and the history stay, and nobody starts to pay.
LEMMA IdleIsRequest == Idle \in Request /\ Idle.at = "idle" /\ Idle.seen = {}
  BY PlannerConstants DEF Idle, Holding, Request, Row, NoRow, Status

LEMMA UpdateEndsKeeps ==
  ASSUME IInv, NEW r \in Requests, req[r].at \in {"saving", "loaded"},
         req' = [req EXCEPT ![r] = Idle],
         UNCHANGED <<debts, payments, transactions, nextId, lock, life, opened>>
  PROVE  IInv'
  <1> USE PlannerConstants, IdleIsRequest DEF IInv
  <1>1. TypeOK'
    BY DEF TypeOK
  <1>2. StatusMatchesBalance' /\ NewIsAbsent'
    BY DEF StatusMatchesBalance, Live, NewIsAbsent
  <1>3. LockedRowIsCurrent' /\ LockHolderIsPaying'
    BY DEF TypeOK, LockedRowIsCurrent, LockHolderIsPaying
  <1>4. IdsAreUsedInOrder'
    BY DEF TypeOK, IdsAreUsedInOrder
  <1>5. EntityIsCurrentOrRefused'
    BY DEF TypeOK, EntityIsCurrentOrRefused, Live, KnowsPayments
  <1> QED BY <1>1, <1>2, <1>3, <1>4, <1>5

LEMMA SaveLoadMissingKeeps ==
  ASSUME IInv, NEW r \in Requests, SaveLoadMissing(r)
  PROVE  IInv'
  <1> USE PlannerConstants DEF IInv, SaveLoadMissing
  <1> DEFINE loaded == [req[r] EXCEPT !.at = "loaded", !.insert = TRUE]
  <1>1. /\ loaded \in Request
        /\ loaded.at = "loaded"
        /\ loaded.debt = req[r].debt
        /\ loaded.entity = req[r].entity
        /\ loaded.seen = req[r].seen
    BY DEF TypeOK, Request
  <1>2. req' = [req EXCEPT ![r] = loaded]
    BY DEF TypeOK
  <1> HIDE DEF loaded
  <1>3. TypeOK'
    BY <1>1, <1>2 DEF TypeOK
  <1>4. StatusMatchesBalance' /\ NewIsAbsent'
    BY DEF StatusMatchesBalance, Live, NewIsAbsent
  <1>5. LockedRowIsCurrent' /\ LockHolderIsPaying'
    BY <1>1, <1>2 DEF TypeOK, LockedRowIsCurrent, LockHolderIsPaying
  <1>6. IdsAreUsedInOrder'
    BY <1>1, <1>2 DEF TypeOK, IdsAreUsedInOrder
  <1>7. ~ Live(req[r].debt)
    BY DEF EntityIsCurrentOrRefused, StatusMatchesBalance, Exists, Live, Status
  <1>8. EntityIsCurrentOrRefused'
    BY <1>1, <1>2, <1>7
    DEF TypeOK, EntityIsCurrentOrRefused, Live, KnowsPayments
  <1> QED BY <1>3, <1>4, <1>5, <1>6, <1>8

LEMMA SaveLoadKeeps ==
  ASSUME IInv, NEW r \in Requests, SaveLoad(r)
  PROVE  IInv'
  <1> USE PlannerConstants DEF IInv
  <1> DEFINE d == req[r].debt
             dirty == Difference(req[r].entity, debts[d])
             loaded == [req[r] EXCEPT !.at = "loaded", !.insert = FALSE,
                                      !.dirty = dirty]
  <1>0. /\ req[r].at = "saving"
        /\ KnowsPayments(r)
        /\ UNCHANGED <<debts, payments, transactions, nextId, lock, life,
                       opened>>
    BY DEF SaveLoad
  <1>1. dirty \in SUBSET Column
    BY DEF Difference
  <1>2. /\ loaded \in Request
        /\ loaded.at = "loaded"
        /\ loaded.debt = req[r].debt
        /\ loaded.entity = req[r].entity
        /\ loaded.seen = req[r].seen
        /\ loaded.dirty = dirty
        /\ loaded.insert = FALSE
    BY <1>1 DEF TypeOK, Request
  <1>3. req' = [req EXCEPT ![r] = loaded]
    BY DEF TypeOK, SaveLoad
  <1>4. Live(d) => dirty \subseteq {"total"}
    BY <1>0 DEF EntityIsCurrentOrRefused, Difference, Column
  <1> HIDE DEF loaded, dirty
  <1>5. TypeOK'
    BY <1>0, <1>2, <1>3 DEF TypeOK
  <1>6. StatusMatchesBalance' /\ NewIsAbsent'
    BY <1>0 DEF StatusMatchesBalance, Live, NewIsAbsent
  <1>7. LockedRowIsCurrent' /\ LockHolderIsPaying'
    BY <1>0, <1>2, <1>3 DEF TypeOK, LockedRowIsCurrent, LockHolderIsPaying
  <1>8. IdsAreUsedInOrder'
    BY <1>0, <1>2, <1>3 DEF TypeOK, IdsAreUsedInOrder
  <1>9. EntityIsCurrentOrRefused'
    BY <1>0, <1>2, <1>3, <1>4
    DEF TypeOK, EntityIsCurrentOrRefused, Live, KnowsPayments
  <1> QED BY <1>5, <1>6, <1>7, <1>8, <1>9

\* A save that writes a live debt writes at most its total, which covers the
\* balance; the balance and the status stay as they are.
LEMMA SaveUpdateWrites ==
  ASSUME IInv, NEW r \in Requests, SaveUpdate(r)
  PROVE  LET d == req[r].debt IN
         /\ d \in Debts
         /\ \A e \in Debts \ {d} : debts'[e] = debts[e]
         /\ debts'[d] \in Row
         /\ Live(d) => /\ debts'[d].remaining = debts[d].remaining
                       /\ debts'[d].status = debts[d].status
                       /\ debts'[d].total >= debts[d].remaining
         /\ ~ Exists(d) => debts'[d] = debts[d]
  <1> DEFINE d == req[r].debt
             merged == Merge(req[r].entity, debts[d], req[r].dirty)
  <1>1. d \in Debts /\ life[d] # "new"
    BY DEF IInv, EntityIsCurrentOrRefused, SaveUpdate
  <1>2. /\ debts[d] \in Row
        /\ req[r].entity \in Row
        /\ debts \in [Debts -> Row]
    BY <1>1 DEF IInv, TypeOK, Request
  <1>3. /\ merged.total \in {req[r].entity.total, debts[d].total}
        /\ merged.remaining \in {req[r].entity.remaining, debts[d].remaining}
        /\ merged.status \in {req[r].entity.status, debts[d].status}
        /\ merged = [total |-> merged.total, remaining |-> merged.remaining,
                     status |-> merged.status]
    BY DEF Merge, Column
  <1>4. merged \in Row
    BY <1>2, <1>3 DEF Row
  <1>5. Live(d) => /\ merged.remaining = debts[d].remaining
                   /\ merged.status = debts[d].status
                   /\ merged.total >= debts[d].remaining
    BY <1>1, <1>2, <1>3
    DEF IInv, EntityIsCurrentOrRefused, StatusMatchesBalance, SaveUpdate,
        Merge, Column, Row
  <1> HIDE DEF merged
  <1>6. debts' = IF Exists(d) THEN [debts EXCEPT ![d] = merged] ELSE debts
    BY DEF SaveUpdate, merged
  <1>7. Live(d) => Exists(d)
    BY <1>1 DEF IInv, StatusMatchesBalance, Exists, Status
  <1> QED BY <1>1, <1>2, <1>4, <1>5, <1>6, <1>7

LEMMA SaveUpdateKeeps ==
  ASSUME IInv, NEW r \in Requests, SaveUpdate(r)
  PROVE  IInv'
  <1> USE PlannerConstants, IdleIsRequest DEF IInv
  <1> DEFINE d == req[r].debt
  <1>1. /\ req' = [req EXCEPT ![r] = Idle]
        /\ RowFree(d)
        /\ req[r].at = "loaded"
        /\ UNCHANGED <<payments, transactions, nextId, lock, life, opened>>
    BY DEF SaveUpdate
  <1>2. /\ d \in Debts
        /\ \A e \in Debts \ {d} : debts'[e] = debts[e]
        /\ debts'[d] \in Row
        /\ Live(d) => /\ debts'[d].remaining = debts[d].remaining
                      /\ debts'[d].status = debts[d].status
                      /\ debts'[d].total >= debts[d].remaining
        /\ ~ Exists(d) => debts'[d] = debts[d]
    BY SaveUpdateWrites
  <1>3. life[d] # "new"
    BY <1>1 DEF EntityIsCurrentOrRefused
  <1>4. debts' \in [Debts -> Row]
    BY <1>2 DEF SaveUpdate, TypeOK
  <1>5. TypeOK'
    BY <1>1, <1>4 DEF TypeOK
  <1>6. StatusMatchesBalance'
    BY <1>1, <1>2 DEF StatusMatchesBalance, Live, TypeOK, Row
  <1>7. NewIsAbsent'
    BY <1>1, <1>2, <1>3 DEF NewIsAbsent
  <1>8. LockedRowIsCurrent' /\ LockHolderIsPaying'
    BY <1>1, <1>2 DEF TypeOK, LockedRowIsCurrent, LockHolderIsPaying, RowFree
  <1>9. IdsAreUsedInOrder'
    BY <1>1 DEF TypeOK, IdsAreUsedInOrder
  <1>10. EntityIsCurrentOrRefused'
    BY <1>1, <1>2 DEF TypeOK, EntityIsCurrentOrRefused, Live, KnowsPayments
  <1> QED BY <1>5, <1>6, <1>7, <1>8, <1>9, <1>10

LEMMA SaveInsertKeeps ==
  ASSUME IInv, NEW r \in Requests, SaveInsert(r)
  PROVE  IInv'
  <1> USE PlannerConstants, IdleIsRequest DEF IInv
  <1> DEFINE d == req[r].debt
  <1>1. /\ req' = [req EXCEPT ![r] = Idle]
        /\ req[r].at = "loaded"
        /\ debts' = IF Exists(d) THEN debts
                    ELSE [debts EXCEPT ![d] = req[r].entity]
        /\ UNCHANGED <<payments, transactions, nextId, lock, life, opened>>
    BY DEF SaveInsert
  <1>2. d \in Debts /\ life[d] # "new" /\ ~ Live(d)
    BY DEF SaveInsert, EntityIsCurrentOrRefused
  <1>3. req[r].entity \in Row
    BY DEF TypeOK, Request
  <1>4. ~ Exists(d) => RowFree(d)
    BY <1>2, PlannerConstants
    DEF LockHolderIsPaying, LockedRowIsCurrent, RowFree, Exists, TypeOK
  <1>5. TypeOK'
    BY <1>1, <1>3 DEF TypeOK
  <1>6. StatusMatchesBalance' /\ NewIsAbsent'
    BY <1>1, <1>2 DEF StatusMatchesBalance, Live, NewIsAbsent, TypeOK
  <1>7. LockedRowIsCurrent' /\ LockHolderIsPaying'
    BY <1>1, <1>2, <1>4
    DEF TypeOK, LockedRowIsCurrent, LockHolderIsPaying, RowFree
  <1>8. IdsAreUsedInOrder'
    BY <1>1 DEF TypeOK, IdsAreUsedInOrder
  <1>9. EntityIsCurrentOrRefused'
    BY <1>1, <1>2 DEF TypeOK, EntityIsCurrentOrRefused, Live, KnowsPayments
  <1> QED BY <1>5, <1>6, <1>7, <1>8, <1>9

LEMMA PayLockKeeps ==
  ASSUME IInv, NEW r \in Requests, NEW d \in Debts, NEW money \in Amount,
         PayLock(r, d, money)
  PROVE  IInv'
  <1> USE PlannerConstants DEF IInv
  <1> DEFINE paying == Holding("paying", d, debts[d], {}, money)
  <1>1. /\ req[r].at = "idle"
        /\ Exists(d)
        /\ RowFree(d)
        /\ debts[d].status # "paid"
        /\ money \in 1 .. debts[d].remaining
        /\ lock' = [lock EXCEPT ![d] = r]
        /\ req' = [req EXCEPT ![r] = paying]
        /\ UNCHANGED <<debts, payments, transactions, nextId, life, opened>>
    BY DEF PayLock, Payable, Amount, TypeOK, Row
  <1>2. debts[d] \in Row /\ debts[d].status = "pending"
    BY <1>1 DEF TypeOK, Row, Status, Exists
  <1>3. /\ paying \in Request
        /\ paying.at = "paying"
        /\ paying.debt = d
        /\ paying.entity = debts[d]
        /\ paying.seen = {}
        /\ paying.amount = money
    BY <1>2 DEF Request, Holding, Amount
  <1> HIDE DEF paying
  <1>4. TypeOK'
    BY <1>1, <1>3 DEF TypeOK
  <1>5. StatusMatchesBalance' /\ NewIsAbsent'
    BY <1>1 DEF StatusMatchesBalance, Live, NewIsAbsent
  <1>6. LockedRowIsCurrent'
    BY <1>1, <1>2, <1>3 DEF TypeOK, LockedRowIsCurrent, RowFree
  <1>7. LockHolderIsPaying'
    BY <1>1, <1>3 DEF TypeOK, LockHolderIsPaying
  <1>8. IdsAreUsedInOrder'
    BY <1>1, <1>3 DEF TypeOK, IdsAreUsedInOrder
  <1>9. EntityIsCurrentOrRefused'
    BY <1>1, <1>3 DEF TypeOK, EntityIsCurrentOrRefused, Live, KnowsPayments
  <1> QED BY <1>4, <1>5, <1>6, <1>7, <1>8, <1>9

LEMMA PayRollbackKeeps ==
  ASSUME IInv, NEW r \in Requests, PayRollback(r)
  PROVE  IInv'
  <1> USE PlannerConstants, IdleIsRequest DEF IInv, PayRollback
  <1>1. TypeOK'
    BY DEF TypeOK, Released
  <1>2. StatusMatchesBalance' /\ NewIsAbsent'
    BY DEF StatusMatchesBalance, Live, NewIsAbsent
  <1>3. LockedRowIsCurrent' /\ LockHolderIsPaying'
    BY DEF TypeOK, LockedRowIsCurrent, LockHolderIsPaying, Released
  <1>4. IdsAreUsedInOrder'
    BY DEF TypeOK, IdsAreUsedInOrder
  <1>5. EntityIsCurrentOrRefused'
    BY DEF TypeOK, EntityIsCurrentOrRefused, Live, KnowsPayments
  <1> QED BY <1>1, <1>2, <1>3, <1>4, <1>5

\* What a COMMIT writes: the debt's row, read under the lock, loses the amount;
\* the payment is new to the debt and to every entity in memory.
LEMMA PayCommitWrites ==
  ASSUME IInv, NEW r \in Requests, PayCommit(r)
  PROVE  LET d == req[r].debt
             p == [id |-> nextId, amount |-> req[r].amount]
         IN  /\ d \in Debts
             /\ Exists(d)
             /\ lock[d] = r
             /\ req[r].at = "paying"
             /\ p \in Payment
             /\ p.amount \in 1 .. debts[d].remaining
             /\ p \notin payments[d]
             /\ \A q \in payments[d] : q.id # p.id
             /\ \A s \in Requests : p \notin req[s].seen
             /\ debts'[d] \in Row
             /\ debts' = [debts EXCEPT ![d] = debts'[d]]
             /\ debts'[d].total = debts[d].total
             /\ debts'[d].remaining = debts[d].remaining - p.amount
             /\ debts'[d].status \in Status
             /\ debts'[d].status = "paid" <=> debts'[d].remaining = 0
             /\ payments' = [payments EXCEPT ![d] = payments[d] \union {p}]
             /\ req' = [req EXCEPT ![r] = Idle]
             /\ lock' = Released(r)
             /\ nextId' = nextId + 1
             /\ transactions' = transactions \union {nextId}
             /\ UNCHANGED <<life, opened>>
  <1> USE PlannerConstants DEF IInv
  <1> DEFINE d == req[r].debt
             p == [id |-> nextId, amount |-> req[r].amount]
             balance == req[r].entity.remaining - req[r].amount
             row == NewRow(debts[d], balance)
  <1>1. /\ d \in Debts
        /\ lock[d] = r
        /\ debts[d] = req[r].entity
        /\ debts[d].status = "pending"
        /\ req[r].amount \in 1 .. debts[d].remaining
        /\ req[r].at = "paying"
    BY DEF PayCommit, LockedRowIsCurrent
  <1>2. debts[d] \in Row /\ debts \in [Debts -> Row] /\ debts[d].remaining \in 0 .. MaxTotal
    BY <1>1 DEF TypeOK, Row
  <1>3. /\ row \in Row
        /\ row.total = debts[d].total
        /\ row.remaining = debts[d].remaining - req[r].amount
        /\ row.status \in Status
        /\ row.status = "paid" <=> row.remaining = 0
    <2>1. balance \in 0 .. MaxTotal /\ balance = debts[d].remaining - req[r].amount
      BY <1>1, <1>2
    <2>2. row = [total |-> debts[d].total, remaining |-> balance,
                 status |-> IF balance = 0 THEN "paid" ELSE "pending"]
      BY DEF NewRow
    <2>3. /\ row.total = debts[d].total
          /\ row.remaining = balance
          /\ row.status = IF balance = 0 THEN "paid" ELSE "pending"
      BY <2>2
    <2> QED BY <1>2, <2>1, <2>2, <2>3 DEF Row, Status
  <1>4. /\ p \in Payment
        /\ p.id = nextId
        /\ p.amount = req[r].amount
    BY <1>1, <1>2 DEF PayCommit, Payment, Amount
  <1>5. /\ \A q \in payments[d] : q.id # p.id
        /\ \A s \in Requests : p \notin req[s].seen
    BY <1>1, <1>4 DEF IdsAreUsedInOrder, TypeOK
  <1> HIDE DEF row, p
  <1>6. debts' = [debts EXCEPT ![d] = row]
    BY <1>2 DEF PayCommit, row
  <1>7. payments' = [payments EXCEPT ![d] = payments[d] \union {p}]
    BY <1>1 DEF PayCommit, p, TypeOK
  <1>8. debts'[d] = row /\ debts' = [debts EXCEPT ![d] = debts'[d]]
    BY <1>1, <1>2, <1>6
  <1>9. Exists(d)
    BY <1>1 DEF Exists
  <1>10. /\ req' = [req EXCEPT ![r] = Idle]
         /\ lock' = Released(r)
         /\ nextId' = nextId + 1
         /\ transactions' = transactions \union {nextId}
         /\ UNCHANGED <<life, opened>>
    BY DEF PayCommit
  <1>11. p \notin payments[d]
    BY <1>5
  <1> QED BY <1>1, <1>3, <1>4, <1>5, <1>7, <1>8, <1>9, <1>10, <1>11 DEF p

LEMMA PayCommitKeeps ==
  ASSUME IInv, NEW r \in Requests, PayCommit(r)
  PROVE  IInv'
  <1> USE PlannerConstants, IdleIsRequest DEF IInv
  <1> DEFINE d == req[r].debt
             p == [id |-> nextId, amount |-> req[r].amount]
  <1>1. /\ d \in Debts
        /\ Exists(d)
        /\ lock[d] = r
        /\ req[r].at = "paying"
        /\ p \in Payment
        /\ p.amount \in 1 .. debts[d].remaining
        /\ \A s \in Requests : p \notin req[s].seen
        /\ debts'[d] \in Row
        /\ debts' = [debts EXCEPT ![d] = debts'[d]]
        /\ debts'[d].total = debts[d].total
        /\ debts'[d].remaining = debts[d].remaining - p.amount
        /\ debts'[d].status \in Status
        /\ debts'[d].status = "paid" <=> debts'[d].remaining = 0
        /\ payments' = [payments EXCEPT ![d] = payments[d] \union {p}]
        /\ req' = [req EXCEPT ![r] = Idle]
        /\ lock' = Released(r)
        /\ nextId' = nextId + 1
        /\ transactions' = transactions \union {nextId}
        /\ UNCHANGED <<life, opened>>
    BY PayCommitWrites
  <1>2. nextId \in PaymentId /\ p.id = nextId
    BY DEF PayCommit
  <1> HIDE DEF p
  <1>3. TypeOK'
    <2>1. /\ debts' \in [Debts -> Row]
          /\ payments' \in [Debts -> SUBSET Payment]
      BY <1>1 DEF TypeOK
    <2>2. /\ transactions' \in SUBSET PaymentId
          /\ nextId' \in 1 .. MaxPayments + 1
      BY <1>1, <1>2 DEF TypeOK, PaymentId
    <2>3. /\ lock' \in [Debts -> Requests \union {NoRequest}]
          /\ req' \in [Requests -> Request]
      BY <1>1 DEF TypeOK, Released
    <2> QED BY <1>1, <2>1, <2>2, <2>3 DEF TypeOK
  <1>4. debts[d].remaining \in Nat /\ p.amount \in Nat /\ debts[d].total \in Nat
    BY <1>1 DEF TypeOK, Row
  <1>5. StatusMatchesBalance'
    BY <1>1, <1>4 DEF StatusMatchesBalance, Live, TypeOK
  <1>6. NewIsAbsent'
    BY <1>1 DEF NewIsAbsent, NoRow, Exists, TypeOK
  <1>7. LockedRowIsCurrent' /\ LockHolderIsPaying'
    BY <1>1 DEF TypeOK, LockedRowIsCurrent, LockHolderIsPaying, Released
  <1>8. IdsAreUsedInOrder'
    <2>1. ASSUME NEW e \in Debts, NEW q \in payments'[e] PROVE q.id < nextId'
      BY <1>1, <1>2, <2>1 DEF IdsAreUsedInOrder, TypeOK, PaymentId, Payment
    <2>2. ASSUME NEW s \in Requests, NEW q \in req'[s].seen PROVE q.id < nextId'
      <3>1. q \in req[s].seen
        BY <1>1, <2>2 DEF TypeOK
      <3> QED BY <1>1, <1>2, <3>1 DEF IdsAreUsedInOrder, TypeOK, PaymentId,
                 Payment, Request
    <2> QED BY <2>1, <2>2 DEF IdsAreUsedInOrder
  <1>9. EntityIsCurrentOrRefused'
    <2> SUFFICES ASSUME NEW s \in Requests, s # r,
                        req[s].at \in {"saving", "loaded"}
                 PROVE  LET e == req[s].debt
                            entity == req[s].entity
                        IN  /\ e \in Debts
                            /\ life[e] # "new"
                            /\ entity.status = "pending"
                            /\ Live(e) => entity.total >= debts'[e].remaining
                            /\ Live(e) /\ req[s].at = "saving"
                                 /\ payments'[e] \subseteq req[s].seen =>
                                    /\ entity.remaining = debts'[e].remaining
                                    /\ entity.status = debts'[e].status
                            /\ Live(e) /\ req[s].at = "loaded" =>
                                    /\ ~ req[s].insert
                                    /\ req[s].dirty \subseteq {"total"}
      BY <1>1 DEF EntityIsCurrentOrRefused, TypeOK, Live, KnowsPayments
    <2>1. CASE req[s].debt = d
      <3>1. p \in payments'[d]
        BY <1>1 DEF TypeOK
      <3>2. req[s].entity.total \in Nat
        BY DEF TypeOK, Request, Row
      <3> QED BY <1>1, <1>4, <2>1, <3>1, <3>2
          DEF EntityIsCurrentOrRefused, Live, TypeOK
    <2>2. CASE req[s].debt # d
      BY <1>1, <2>2 DEF EntityIsCurrentOrRefused, Live, KnowsPayments, TypeOK
    <2> QED BY <2>1, <2>2
  <1> QED BY <1>3, <1>5, <1>6, <1>7, <1>8, <1>9

LEMMA RemoveTransactionKeeps ==
  ASSUME IInv, NEW t \in PaymentId, RemoveTransaction(t)
  PROVE  IInv'
  BY DEF IInv, RemoveTransaction, TypeOK, StatusMatchesBalance, Live,
         LockedRowIsCurrent, LockHolderIsPaying, IdsAreUsedInOrder,
         EntityIsCurrentOrRefused, KnowsPayments, NewIsAbsent

LEMMA StutterKeeps ==
  ASSUME IInv, UNCHANGED vars
  PROVE  IInv'
  BY DEF IInv, vars, TypeOK, StatusMatchesBalance, Live,
         LockedRowIsCurrent, LockHolderIsPaying, IdsAreUsedInOrder,
         EntityIsCurrentOrRefused, KnowsPayments, NewIsAbsent

LEMMA NextKeeps == IInv /\ [Next]_vars => IInv'
  <1> SUFFICES ASSUME IInv, [Next]_vars PROVE IInv'
    OBVIOUS
  <1>1. CASE \E d \in Debts : \E total \in Amount : Create(d, total)
    BY <1>1, CreateKeeps
  <1>2. CASE \E d \in Debts : Remove(d)
    BY <1>2, RemoveKeeps
  <1>3. CASE \E r \in Requests : \E d \in Debts : UpdateRead(r, d)
    BY <1>3, UpdateReadKeeps
  <1>4. CASE \E r \in Requests : SaveLoadMissing(r)
    BY <1>4, SaveLoadMissingKeeps
  <1>5. CASE \E r \in Requests : SaveLoad(r)
    BY <1>5, SaveLoadKeeps
  <1>6. CASE \E r \in Requests : SaveRejected(r)
    BY <1>6, UpdateEndsKeeps DEF SaveRejected
  <1>7. CASE \E r \in Requests : SaveUpdate(r)
    BY <1>7, SaveUpdateKeeps
  <1>8. CASE \E r \in Requests : SaveInsert(r)
    BY <1>8, SaveInsertKeeps
  <1>9. CASE \E r \in Requests : \E d \in Debts : \E a \in Amount : PayLock(r, d, a)
    BY <1>9, PayLockKeeps
  <1>10. CASE \E r \in Requests : PayCommit(r)
    BY <1>10, PayCommitKeeps
  <1>11. CASE \E r \in Requests : PayRollback(r)
    BY <1>11, PayRollbackKeeps
  <1>12. CASE \E r \in Requests : UpdateAbandoned(r)
    BY <1>12, UpdateEndsKeeps DEF UpdateAbandoned
  <1>13. CASE \E t \in PaymentId : RemoveTransaction(t)
    BY <1>13, RemoveTransactionKeeps
  <1>14. CASE UNCHANGED vars
    BY <1>14, StutterKeeps
  <1> QED BY <1>1, <1>2, <1>3, <1>4, <1>5, <1>6, <1>7, <1>8, <1>9, <1>10,
             <1>11, <1>12, <1>13, <1>14 DEF Next

\* The inductive invariant holds in every reachable state.
THEOREM PlannerInvariant == Spec => []IInv
  BY InitIInv, NextKeeps, PTL DEF Spec

\* Type correctness.
THEOREM PlannerTypeOK == Spec => []TypeOK
  BY PlannerInvariant, PTL DEF IInv

\* A live debt owes no more than its total and is "paid" exactly when nothing
\* is left to pay, whatever edits and abonos are in flight.
THEOREM PlannerStatusMatchesBalance == Spec => []StatusMatchesBalance
  BY PlannerInvariant, PTL DEF IInv

\* Between its SELECT ... FOR UPDATE and its COMMIT a payment works on the row as
\* it is.
THEOREM PlannerLockedRowIsCurrent == Spec => []LockedRowIsCurrent
  BY PlannerInvariant, PTL DEF IInv

\* An edit in flight either has the current balance, or will be refused, or
\* writes only the total.
THEOREM PlannerEntityIsCurrentOrRefused == Spec => []EntityIsCurrentOrRefused
  BY PlannerInvariant, PTL DEF IInv

-----------------------------------------------------------------------------
(***************************************************************************)
(* PaymentPlanner implements DebtLedger.                                   *)
(***************************************************************************)

\* The ledger's view of the planner's state.
Owed == [d \in Debts |-> IF Live(d) THEN debts[d].remaining ELSE 0]
Abonos == [d \in Debts |-> IF Live(d) THEN payments[d] ELSE {}]

LEMMA InitRefines == Init => Ledger!Init
  BY DEF Init, Ledger!Init, Live

LEMMA CreateRefines ==
  ASSUME IInv, NEW d \in Debts, NEW total \in Amount, Create(d, total)
  PROVE  Ledger!Next
  <1>1. /\ life' = [life EXCEPT ![d] = "live"]
        /\ Owed' = [Owed EXCEPT ![d] = total]
        /\ Abonos' = Abonos
    BY DEF Create, Owed, Abonos, Live, IInv, TypeOK, NewIsAbsent
  <1>2. Ledger!Open(d, total)
    BY <1>1 DEF Ledger!Open, Owed, Abonos, Create
  <1> QED BY <1>2 DEF Ledger!Next, Ledger!Amount, Amount

LEMMA RemoveRefines ==
  ASSUME IInv, NEW d \in Debts, Remove(d)
  PROVE  [Ledger!Next]_Ledger!ledger
  <1>1. Live(d) \/ life[d] = "removed"
    BY DEF Remove, Live, IInv, TypeOK, NewIsAbsent, NoRow, Exists
  <1>2. CASE Live(d)
    <2>1. /\ life' = [life EXCEPT ![d] = "removed"]
          /\ Owed' = [Owed EXCEPT ![d] = 0]
          /\ Abonos' = [Abonos EXCEPT ![d] = {}]
      BY DEF Remove, Owed, Abonos, Live, IInv, TypeOK
    <2>2. Ledger!Close(d)
      BY <1>2, <2>1 DEF Ledger!Close, Owed, Abonos, Live
    <2> QED BY <2>2 DEF Ledger!Next
  <1>3. CASE life[d] = "removed"
    <2>1. life' = life /\ Owed' = Owed /\ Abonos' = Abonos
      BY <1>3 DEF Remove, Owed, Abonos, Live, IInv, TypeOK
    <2> QED BY <2>1 DEF Ledger!ledger, Owed, Abonos
  <1> QED BY <1>1, <1>2, <1>3

LEMMA PayCommitRefines ==
  ASSUME IInv, NEW r \in Requests, PayCommit(r)
  PROVE  [Ledger!Next]_Ledger!ledger
  <1> DEFINE e == req[r].debt
             new == [id |-> nextId, amount |-> req[r].amount]
  <1>0. /\ e \in Debts
        /\ new \in Payment
        /\ new.amount \in 1 .. debts[e].remaining
        /\ \A q \in payments[e] : q.id # new.id
        /\ debts' = [debts EXCEPT ![e] = debts'[e]]
        /\ debts'[e].remaining = debts[e].remaining - new.amount
        /\ payments' = [payments EXCEPT ![e] = payments[e] \union {new}]
        /\ life' = life
    BY PayCommitWrites
  <1> HIDE DEF e, new
  <1>1. PICK d \in Debts, p \in Payment :
           /\ p.amount \in 1 .. debts[d].remaining
           /\ \A q \in payments[d] : q.id # p.id
           /\ debts' = [debts EXCEPT ![d] = debts'[d]]
           /\ debts'[d].remaining = debts[d].remaining - p.amount
           /\ payments' = [payments EXCEPT ![d] = payments[d] \union {p}]
           /\ life' = life
    BY <1>0
  <1>2. CASE Live(d)
    <2>1. /\ Owed' = [Owed EXCEPT ![d] = @ - p.amount]
          /\ Abonos' = [Abonos EXCEPT ![d] = @ \union {p}]
      BY <1>1, <1>2 DEF Owed, Abonos, Live, IInv, TypeOK
    <2>2. p.amount <= Owed[d] /\ \A q \in Abonos[d] : q.id # p.id
      BY <1>1, <1>2 DEF Owed, Abonos, IInv, TypeOK, Row
    <2>3. Ledger!Pay(d, p)
      BY <1>1, <1>2, <2>1, <2>2 DEF Ledger!Pay, Owed, Abonos, Live
    <2>4. p \in Ledger!Abono
      BY <1>1 DEF Ledger!Abono, Ledger!Amount, Payment, PaymentId, Amount
    <2> QED BY <2>3, <2>4 DEF Ledger!Next
  <1>3. CASE ~ Live(d)
    <2>1. Owed' = Owed /\ Abonos' = Abonos
      BY <1>1, <1>3 DEF Owed, Abonos, Live, IInv, TypeOK
    <2> QED BY <1>1, <2>1 DEF Ledger!ledger, Owed, Abonos
  <1> QED BY <1>2, <1>3

LEMMA SaveRefines ==
  ASSUME IInv, NEW r \in Requests, SaveUpdate(r) \/ SaveInsert(r)
  PROVE  UNCHANGED Ledger!ledger
  <1> DEFINE d == req[r].debt
  <1>1. /\ \A e \in Debts \ {d} : debts'[e] = debts[e]
        /\ Live(d) => debts'[d].remaining = debts[d].remaining
    <2>1. CASE SaveUpdate(r)
      BY <2>1, SaveUpdateWrites
    <2>2. CASE SaveInsert(r)
      BY <2>2 DEF SaveInsert, IInv, EntityIsCurrentOrRefused, TypeOK
    <2> QED BY <2>1, <2>2
  <1>2. life' = life /\ payments' = payments
    BY DEF SaveUpdate, SaveInsert
  <1>3. Owed' = Owed /\ Abonos' = Abonos
    BY <1>1, <1>2 DEF Owed, Abonos, Live
  <1> QED BY <1>2, <1>3 DEF Ledger!ledger, Owed, Abonos

LEMMA NextRefines == IInv /\ [Next]_vars => [Ledger!Next]_Ledger!ledger
  <1> SUFFICES ASSUME IInv, [Next]_vars PROVE [Ledger!Next]_Ledger!ledger
    OBVIOUS
  <1>1. CASE \E d \in Debts : \E total \in Amount : Create(d, total)
    BY <1>1, CreateRefines
  <1>2. CASE \E d \in Debts : Remove(d)
    BY <1>2, RemoveRefines
  <1>3. CASE \E r \in Requests : PayCommit(r)
    BY <1>3, PayCommitRefines
  <1>4. CASE \E r \in Requests : SaveUpdate(r) \/ SaveInsert(r)
    BY <1>4, SaveRefines
  <1>5. CASE UNCHANGED <<debts, payments, life>>
    BY <1>5 DEF Ledger!ledger, Live
  <1>6. CASE \E r \in Requests : \E d \in Debts :
                \/ UpdateRead(r, d)
                \/ \E a \in Amount : PayLock(r, d, a)
    BY <1>5, <1>6 DEF UpdateRead, PayLock
  <1>7. CASE \E r \in Requests :
                \/ SaveLoadMissing(r)
                \/ SaveLoad(r)
                \/ SaveRejected(r)
                \/ UpdateAbandoned(r)
                \/ PayRollback(r)
    BY <1>5, <1>7
    DEF SaveLoadMissing, SaveLoad, SaveRejected, UpdateAbandoned, PayRollback
  <1>8. CASE \E t \in PaymentId : RemoveTransaction(t)
    BY <1>5, <1>8 DEF RemoveTransaction
  <1>9. CASE UNCHANGED vars
    BY <1>5, <1>9 DEF vars
  <1>10. CASE Next
    <2>1. CASE \E r \in Requests : \E d \in Debts : UpdateRead(r, d)
      BY <1>6, <2>1
    <2>2. CASE \E r \in Requests : \E d \in Debts : \E a \in Amount :
                  PayLock(r, d, a)
      BY <1>6, <2>2
    <2> QED BY <1>10, <1>1, <1>2, <1>3, <1>4, <1>7, <1>8, <2>1, <2>2 DEF Next
  <1> QED BY <1>9, <1>10

\* The planner keeps the ledger's promise: seen from outside, every step of a
\* live debt opens it, pays part of what is owed, closes it or changes nothing.
THEOREM PlannerImplementsLedger == Spec => ImplementsLedger
  BY PlannerInvariant, InitRefines, NextRefines, PTL
  DEF Spec, ImplementsLedger, Ledger!Spec

\* What a debt has been paid so far, when one more payment is made.
LEMMA TotalPaidGrows ==
  ASSUME NEW S, IsFiniteSet(S), \A p \in S : p.amount \in Nat,
         NEW e, e \notin S, e.amount \in Nat
  PROVE  /\ IsFiniteSet(S \union {e})
         /\ SumFunction([p \in S \union {e} |-> p.amount])
              = SumFunction([p \in S |-> p.amount]) + e.amount
  <1> DEFINE f == [p \in S \union {e} |-> p.amount]
             g == [p \in S |-> p.amount]
  <1>1. IsFiniteSet(S \union {e})
    BY FS_AddElement
  <1>2. SumFunctionOnSet(f, S \union {e}) = SumFunctionOnSet(f, S) + f[e]
    <2>1. f[e] \in Int /\ \A x \in S : f[x] \in Int
      OBVIOUS
    <2> HIDE DEF f
    <2> QED BY <2>1, SumWithElement
  <1>3. SumFunctionOnSet(f, S) = SumFunctionOnSet(g, S)
    <2>1. \A x \in S : f[x] = g[x]
      OBVIOUS
    <2> HIDE DEF f, g
    <2> QED BY <2>1, SumOfSame
  <1>4. DOMAIN f = S \union {e} /\ DOMAIN g = S /\ f[e] = e.amount
    OBVIOUS
  <1>5. SumFunction(f) = SumFunction(g) + e.amount
    <2> HIDE DEF f, g
    <2> QED BY <1>2, <1>3, <1>4 DEF SumFunction
  <1> QED BY <1>1, <1>5

LEMMA TotalPaidIsNatural ==
  ASSUME NEW S, IsFiniteSet(S), \A p \in S : p.amount \in Nat
  PROVE  SumFunction([p \in S |-> p.amount]) \in Int
  <1> DEFINE g == [p \in S |-> p.amount]
  <1>1. DOMAIN g = S /\ \A x \in S : g[x] \in Int
    OBVIOUS
  <1> HIDE DEF g
  <1>2. SumFunctionOnSet(g, S) \in Int
    BY <1>1, SumIsInteger
  <1>3. SumFunction(g) \in Int
    BY <1>1, <1>2 DEF SumFunction
  <1> QED BY <1>3 DEF g

LEMMA TotalPaidOfNone == SumFunction([p \in {} |-> p.amount]) = 0
  BY SumOfNone DEF SumFunction

PaymentsAreFinite == \A d \in Debts : IsFiniteSet(payments[d])

LEMMA BalanceStays ==
  ASSUME BalanceMatchesPayments, PaymentsAreFinite,
         UNCHANGED <<debts, payments, life, opened>>
  PROVE  BalanceMatchesPayments' /\ PaymentsAreFinite'
  BY DEF BalanceMatchesPayments, PaymentsAreFinite, Live, TotalPaid

\* An edit that is written leaves the balance as it is.
LEMMA SaveKeepsBalance ==
  ASSUME IInv, BalanceMatchesPayments, PaymentsAreFinite, NEW r \in Requests,
         SaveUpdate(r) \/ SaveInsert(r)
  PROVE  BalanceMatchesPayments' /\ PaymentsAreFinite'
  <1> USE PlannerConstants DEF IInv
  <1> DEFINE e == req[r].debt
  <1>1. /\ payments' = payments /\ life' = life /\ opened' = opened
        /\ req[r].at = "loaded"
    BY DEF SaveUpdate, SaveInsert
  <1>2. \A d \in Debts : Live(d) => debts'[d].remaining = debts[d].remaining
    <2>1. TAKE d \in Debts
    <2>2. HAVE Live(d)
    <2>3. CASE d # e
      BY <2>3 DEF SaveUpdate, SaveInsert, TypeOK
    <2>4. CASE d = e
      <3>1. ~ req[r].insert /\ req[r].dirty \subseteq {"total"}
        BY <2>2, <2>4, <1>1 DEF EntityIsCurrentOrRefused
      <3>2. SaveUpdate(r)
        BY <3>1 DEF SaveInsert
      <3>3. "remaining" \in Column /\ "remaining" \notin req[r].dirty
        BY <3>1 DEF Column
      <3>4. Merge(req[r].entity, debts[d], req[r].dirty).remaining = debts[d].remaining
        BY <3>3 DEF Merge
      <3> QED BY <2>4, <3>2, <3>4 DEF SaveUpdate, TypeOK
    <2> QED BY <2>3, <2>4
  <1> QED BY <1>1, <1>2 DEF BalanceMatchesPayments, PaymentsAreFinite, Live, TotalPaid

\* A payment takes from the balance what it adds to the payments.
LEMMA PayCommitKeepsBalance ==
  ASSUME IInv, BalanceMatchesPayments, PaymentsAreFinite, NEW r \in Requests, PayCommit(r)
  PROVE  BalanceMatchesPayments' /\ PaymentsAreFinite'
  <1> USE PlannerConstants DEF IInv, PayCommit
  <1>0. PICK d \in Debts, money \in Int : d = req[r].debt /\ money = req[r].amount
    BY DEF LockedRowIsCurrent, TypeOK, Request
  <1> DEFINE paid == [id |-> nextId, amount |-> money]
  <1>1. /\ d \in Debts
        /\ debts[d] = req[r].entity
        /\ money \in 1 .. debts[d].remaining
    BY <1>0 DEF LockedRowIsCurrent
  <1>2. debts[d].remaining \in Nat /\ money \in Nat /\ payments[d] \subseteq Payment
    BY <1>1 DEF TypeOK, Row
  <1>3. payments' = [payments EXCEPT ![d] = @ \union {paid}]
        /\ life' = life /\ opened' = opened
    BY <1>0
  <1>4. debts'[d].remaining = debts[d].remaining - money
    BY <1>0, <1>1 DEF TypeOK, NewRow
  <1>5. paid \notin payments[d]
    BY <1>1 DEF IdsAreUsedInOrder, TypeOK
  <1>6. \A p \in payments[d] : p.amount \in Nat
    BY <1>2 DEF Payment, Amount
  <1>7. IsFiniteSet(payments[d])
    BY <1>1 DEF PaymentsAreFinite
  <1>8. paid.amount = money
    OBVIOUS
  <1> HIDE DEF paid
  <1>9. /\ IsFiniteSet(payments[d] \union {paid})
        /\ SumFunction([p \in payments[d] \union {paid} |-> p.amount])
              = TotalPaid(d) + money
    BY <1>2, <1>5, <1>6, <1>7, <1>8, TotalPaidGrows DEF TotalPaid
  <1>10. payments'[d] = payments[d] \union {paid}
    BY <1>1, <1>3 DEF TypeOK
  <1>11. TotalPaid(d)' = TotalPaid(d) + money
    BY <1>9, <1>10 DEF TotalPaid
  <1>12. TotalPaid(d) \in Int
    BY <1>6, <1>7, TotalPaidIsNatural DEF TotalPaid
  <1>13. ASSUME NEW c \in Debts, c # d
         PROVE  debts'[c] = debts[c] /\ payments'[c] = payments[c]
    BY <1>13, <1>0, <1>3 DEF TypeOK
  <1>14. PaymentsAreFinite'
    BY <1>9, <1>10, <1>13 DEF PaymentsAreFinite
  <1>15. ASSUME NEW c \in Debts, Live(c)'
         PROVE  debts'[c].remaining + TotalPaid(c)' = opened'[c]
    <2>1. Live(c)
      BY <1>15, <1>3 DEF Live
    <2>2. debts[c].remaining + TotalPaid(c) = opened[c]
      BY <2>1 DEF BalanceMatchesPayments
    <2>3. CASE c = d
      BY <2>2, <2>3, <1>2, <1>3, <1>4, <1>11, <1>12
    <2>4. CASE c # d
      BY <2>2, <2>4, <1>3, <1>13 DEF TotalPaid
    <2> QED BY <2>3, <2>4
  <1> QED BY <1>14, <1>15 DEF BalanceMatchesPayments

LEMMA CreateRemoveKeepBalance ==
  ASSUME IInv, BalanceMatchesPayments, PaymentsAreFinite, NEW d \in Debts,
         (\E total \in Amount : Create(d, total)) \/ Remove(d)
  PROVE  BalanceMatchesPayments' /\ PaymentsAreFinite'
  <1> USE PlannerConstants DEF IInv
  <1>1. ASSUME NEW total \in Amount, Create(d, total)
        PROVE  BalanceMatchesPayments' /\ PaymentsAreFinite'
    <2> USE <1>1 DEF Create
    <2>1. payments[d] = {}
      BY DEF NewIsAbsent
    <2>2. TotalPaid(d)' = 0
      BY <2>1, TotalPaidOfNone DEF TotalPaid
    <2>3. debts'[d].remaining = total /\ opened'[d] = total
      BY DEF TypeOK
    <2>4. ASSUME NEW c \in Debts, Live(c)'
          PROVE  debts'[c].remaining + TotalPaid(c)' = opened'[c]
      <3>1. CASE c = d
        BY <3>1, <2>2, <2>3 DEF Amount
      <3>2. CASE c # d
        BY <3>2, <2>4 DEF TypeOK, BalanceMatchesPayments, Live, TotalPaid
      <3> QED BY <3>1, <3>2
    <2> QED BY <2>4 DEF BalanceMatchesPayments, PaymentsAreFinite
  <1>2. ASSUME Remove(d)
        PROVE  BalanceMatchesPayments' /\ PaymentsAreFinite'
    <2> USE <1>2 DEF Remove
    <2>1. PaymentsAreFinite'
      BY FS_EmptySet DEF TypeOK, PaymentsAreFinite
    <2>2. ASSUME NEW c \in Debts, Live(c)'
          PROVE  debts'[c].remaining + TotalPaid(c)' = opened'[c]
      <3>1. c # d
        BY <2>2 DEF Live, TypeOK
      <3> QED BY <3>1, <2>2 DEF TypeOK, BalanceMatchesPayments, Live, TotalPaid
    <2> QED BY <2>1, <2>2 DEF BalanceMatchesPayments
  <1> QED BY <1>1, <1>2

\* No payment is lost and none is counted twice: the balance and the payments of a debt add
\* up to what it was opened with (payment-planner.service.ts:154-208 and 90-128).
THEOREM PlannerBalanceMatchesPayments == Spec => []BalanceMatchesPayments
  <1>1. Init => BalanceMatchesPayments /\ PaymentsAreFinite
    BY FS_EmptySet DEF Init, BalanceMatchesPayments, PaymentsAreFinite, Live
  <1>2. IInv /\ BalanceMatchesPayments /\ PaymentsAreFinite /\ [Next]_vars
          => BalanceMatchesPayments' /\ PaymentsAreFinite'
    <2> SUFFICES ASSUME IInv, BalanceMatchesPayments, PaymentsAreFinite, [Next]_vars
                 PROVE  BalanceMatchesPayments' /\ PaymentsAreFinite'
      OBVIOUS
    <2>1. CASE \E d \in Debts : (\E total \in Amount : Create(d, total)) \/ Remove(d)
      BY <2>1, CreateRemoveKeepBalance
    <2>2. CASE \E r \in Requests : SaveUpdate(r) \/ SaveInsert(r)
      BY <2>2, SaveKeepsBalance
    <2>3. CASE \E r \in Requests : PayCommit(r)
      BY <2>3, PayCommitKeepsBalance
    <2>4. CASE UNCHANGED <<debts, payments, life, opened>>
      BY <2>4, BalanceStays
    <2> QED BY <2>1, <2>2, <2>3, <2>4
        DEF Next, vars, UpdateRead, SaveLoadMissing, SaveLoad, SaveRejected, PayLock,
            PayRollback, UpdateAbandoned, RemoveTransaction
  <1> QED BY <1>1, <1>2, PlannerInvariant, PTL DEF Spec

-----------------------------------------------------------------------------
(* Why a removed debt returns (RemovedStaysRemoved is violated): a deletion while an  *)
(* edit of the debt is in flight, and nothing else.                                   *)

Editing(d) == \E r \in Requests : req[r].at \in {"saving", "loaded"} /\ req[r].debt = d

RemovalsWait == [][\A d \in Debts : Editing(d) => ~ Remove(d)]_vars

\* The invariant behind: nobody edits a removed debt.
RemovedIsOver == \A d \in Debts : life[d] = "removed" => ~ Exists(d) /\ ~ Editing(d)

LEMMA RemovedIsOverStays ==
  ASSUME IInv, RemovedIsOver, [Next]_vars,
         [\A d \in Debts : Editing(d) => ~ Remove(d)]_vars
  PROVE  RemovedIsOver'
  <1> SUFFICES ASSUME NEW d \in Debts, life'[d] = "removed"
               PROVE  ~ Exists(d)' /\ ~ Editing(d)'
    BY DEF RemovedIsOver
  <1> DEFINE Over == ~ Exists(d)' /\ ~ Editing(d)'
  <1>1. /\ debts \in [Debts -> Row] /\ life \in [Debts -> {"new", "live", "removed"}]
        /\ req \in [Requests -> Request]
        /\ life[d] = "removed" => ~ Exists(d) /\ ~ Editing(d)
    BY DEF IInv, TypeOK, RemovedIsOver
  <1>2. CASE UNCHANGED vars
    BY <1>1, <1>2 DEF vars, Exists, Editing
  <1>3. ASSUME NEW e \in Debts, NEW total \in Amount, Create(e, total)
        PROVE  Over
    BY <1>1, <1>3 DEF Create, Exists, Editing
  <1>4. ASSUME NEW e \in Debts, Remove(e)
        PROVE  Over
    <2>1. /\ debts' = [debts EXCEPT ![e] = NoRow] /\ UNCHANGED req
          /\ life' = [life EXCEPT ![e] = "removed"]
      BY <1>4 DEF Remove
    <2>2. ~ Editing(e)
      <3>1. life[e] # "removed" /\ life'[e] = "removed"
        BY <1>1, <1>4, <2>1 DEF Remove, RemovedIsOver
      <3> QED BY <1>4, <3>1 DEF vars
    <2> QED BY <1>1, <2>1, <2>2 DEF Exists, Editing, NoRow
  <1>5. ASSUME NEW r \in Requests, NEW e \in Debts, UpdateRead(r, e)
        PROVE  Over
    <2>1. PICK h : h.debt = e /\ req' = [req EXCEPT ![r] = h]
      BY <1>5 DEF UpdateRead, Holding
    <2>2. Exists(e) /\ UNCHANGED <<debts, life>>
      BY <1>5 DEF UpdateRead
    <2> QED BY <1>1, <2>1, <2>2 DEF Exists, Editing
  <1>6. ASSUME NEW r \in Requests,
               \/ SaveLoadMissing(r) \/ SaveLoad(r) \/ SaveRejected(r)
               \/ UpdateAbandoned(r) \/ PayRollback(r)
               \/ \E e \in Debts : \E a \in Amount : PayLock(r, e, a)
        PROVE  Over
    <2>1. UNCHANGED <<debts, life>>
      BY <1>6
      DEF SaveLoadMissing, SaveLoad, SaveRejected, UpdateAbandoned, PayRollback, PayLock
    <2>2. ASSUME NEW q \in Requests, req'[q].at \in {"saving", "loaded"}
          PROVE  req[q].at \in {"saving", "loaded"} /\ req'[q].debt = req[q].debt
      <3>1. CASE SaveLoadMissing(r) \/ SaveLoad(r)
        BY <1>1, <2>2, <3>1 DEF SaveLoadMissing, SaveLoad, Request
      <3>2. CASE SaveRejected(r) \/ UpdateAbandoned(r) \/ PayRollback(r)
        BY <1>1, <2>2, <3>2
        DEF SaveRejected, UpdateAbandoned, PayRollback, Idle, Holding
      <3>3. CASE \E e \in Debts : \E a \in Amount : PayLock(r, e, a)
        BY <1>1, <2>2, <3>3 DEF PayLock, Holding
      <3> QED BY <1>6, <3>1, <3>2, <3>3
    <2> QED BY <1>1, <2>1, <2>2 DEF Exists, Editing
  <1>7. ASSUME NEW r \in Requests, SaveUpdate(r) \/ SaveInsert(r)
        PROVE  Over
    <2>1. life' = life /\ req' = [req EXCEPT ![r] = Idle] /\ req[r].at = "loaded"
      BY <1>7 DEF SaveUpdate, SaveInsert
    <2>2. req[r].debt # d
      BY <1>1, <2>1 DEF Editing
    <2>3. debts'[d] = debts[d]
      BY <1>1, <1>7, <2>2 DEF SaveUpdate, SaveInsert
    <2>4. ~ Editing(d)'
      BY <1>1, <2>1 DEF Editing, Idle, Holding
    <2> QED BY <1>1, <2>1, <2>3, <2>4 DEF Exists
  <1>8. ASSUME NEW r \in Requests, PayCommit(r)
        PROVE  Over
    <2>1. life' = life /\ req' = [req EXCEPT ![r] = Idle]
      BY <1>8 DEF PayCommit
    <2>2. Exists(req[r].debt)
      BY <1>8 DEF PayCommit, IInv, LockedRowIsCurrent, Exists
    <2>3. debts'[d] = debts[d]
      BY <1>1, <1>8, <2>1, <2>2 DEF PayCommit
    <2>4. ~ Editing(d)'
      BY <1>1, <2>1 DEF Editing, Idle, Holding
    <2> QED BY <1>1, <2>1, <2>3, <2>4 DEF Exists
  <1>9. ASSUME NEW t \in PaymentId, RemoveTransaction(t)
        PROVE  Over
    BY <1>1, <1>9 DEF RemoveTransaction, Exists, Editing
  <1> QED
    BY <1>2, <1>3, <1>4, <1>5, <1>6, <1>7, <1>8, <1>9 DEF Next

\* A deleted debt stays deleted in every behaviour in which no deletion overtakes an
\* edit of the same debt that has read it: the counterexample of RemovedStaysRemoved
\* is the only kind there is.
THEOREM PlannerRemovedStaysRemoved == Spec /\ RemovalsWait => []RemovedStaysRemoved
  <1>1. Init => RemovedIsOver
    BY DEF Init, RemovedIsOver
  <1>2. RemovedIsOver => RemovedStaysRemoved
    BY DEF RemovedIsOver, RemovedStaysRemoved
  <1> QED
    BY <1>1, <1>2, RemovedIsOverStays, PlannerInvariant, PTL DEF Spec, RemovalsWait

-----------------------------------------------------------------------------
(***************************************************************************)
(* The jobs of AiRegister.                                                 *)
(***************************************************************************)
\* Only the end of the process leaves a job queued or processing with nobody to do it.
LEMMA JobsInit == Registers!Init => OnlyStopsLeaveJobs
  BY DEF OnlyStopsLeaveJobs, Registers!Init, Registers!TypeOK, Registers!OnlyStopsLeaveJobs,
         Registers!Status, Registers!Guarded

LEMMA JobStepKeeps ==
  ASSUME OnlyStopsLeaveJobs, NEW j \in Jobs, Registers!Step(j) \/ Registers!StatementFails(j)
  PROVE  OnlyStopsLeaveJobs'
  <1> USE DEF OnlyStopsLeaveJobs, Registers!TypeOK, Registers!OnlyStopsLeaveJobs, Registers!Status,
              Registers!Guarded, Registers!Goes
  <1>1. CASE Registers!Find(j) \/ Registers!findOrCreateCategory(j) \/ Registers!CreateTransaction(j)
    BY <1>1 DEF Registers!Find, Registers!findOrCreateCategory, Registers!CreateTransaction
  <1>2. CASE Registers!Start(j)
    BY <1>2 DEF Registers!Start, Registers!extractTransactionData
  <1>3. CASE Registers!Catch(j)
    BY <1>3 DEF Registers!Catch
  <1>4. CASE Registers!StatementFails(j)
    BY <1>4 DEF Registers!StatementFails
  <1> QED BY <1>1, <1>2, <1>3, <1>4 DEF Registers!Step

LEMMA JobsNextKeeps == OnlyStopsLeaveJobs /\ [Registers!Next]_jobs => OnlyStopsLeaveJobs'
  <1> SUFFICES ASSUME OnlyStopsLeaveJobs, [Registers!Next]_jobs
               PROVE  OnlyStopsLeaveJobs'
    OBVIOUS
  <1> USE DEF OnlyStopsLeaveJobs, Registers!TypeOK, Registers!OnlyStopsLeaveJobs, Registers!Status,
              Registers!Guarded
  <1>1. ASSUME NEW j \in Jobs, NEW found \in BOOLEAN, Registers!createJob(j, found)
        PROVE  OnlyStopsLeaveJobs'
    BY <1>1 DEF Registers!createJob
  <1>2. ASSUME Registers!End, trouble' \subseteq Jobs
        PROVE  OnlyStopsLeaveJobs'
    BY <1>2 DEF Registers!End
  <1>3. ASSUME NEW j \in Jobs, Registers!Rejected(j)
        PROVE  OnlyStopsLeaveJobs'
    BY <1>2, <1>3 DEF Registers!Rejected
  <1>4. CASE Registers!Stop
    BY <1>2, <1>4 DEF Registers!Stop
  <1>5. CASE UNCHANGED jobs
    BY <1>5 DEF jobs
  <1> QED BY <1>1, <1>3, <1>4, <1>5, JobStepKeeps DEF Registers!Next

\* A job is left queued or processing with nobody to do it only by the end of the process:
\* every failure of processJob on its way is written down (ai-register.service.ts:67, 131-137).
THEOREM JobsOnlyStopsLeaveJobs == ProgressSpec => []OnlyStopsLeaveJobs
  <1>1. ProgressInit => OnlyStopsLeaveJobs
    BY JobsInit DEF ProgressInit
  <1>2. OnlyStopsLeaveJobs /\ [ProgressNext]_ProgressVars => OnlyStopsLeaveJobs'
    BY JobsNextKeeps DEF ProgressNext, ProgressVars
  <1> QED BY <1>1, <1>2, PTL DEF ProgressSpec
=============================================================================
