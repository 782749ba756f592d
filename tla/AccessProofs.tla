---------------------------- MODULE AccessProofs ----------------------------
(***************************************************************************)
(* Proofs about PasswordReset, for any set of requests, any number of      *)
(* attempts and any number of rows; and about Budgets, for any budgets,    *)
(* categories, months and details of the two users, and Login, for any     *)
(* requests, as the instances Plans and Login of MCAccess.                 *)
(***************************************************************************)
EXTENDS MCAccess, Sums, TLAPS

\* A row of the table, and what a request holds, are records of their type.
LEMMA IdleIsRequest == Idle \in Request
  BY ResetConstants DEF Idle, Holding, Request, Step

LEMMA NoRowIsRow == NoRow \in Row
  BY ResetConstants DEF NoRow, Row

LEMMA InitIInv == Init => IInv
  <1> SUFFICES ASSUME Init PROVE IInv
    OBVIOUS
  <1>1. TypeOK
    BY IdleIsRequest, NoRowIsRow, ResetConstants DEF Init, TypeOK, ResetId
  <1>2. /\ closedBelow <= nextReset
        /\ UntouchedUntilInserted
        /\ HeldRowsExist
        /\ CountersAgree
        /\ OpenRowsUnused
    BY ResetConstants
    DEF Init, Idle, Holding, NoRow, ResetId, UntouchedUntilInserted,
        HeldRowsExist, CountersAgree, OpenRowsUnused
  <1>3. ComparisonsBounded /\ ChangesPasswordOnce /\ ChangeClosesEarlierResets
    BY ResetConstants
    DEF Init, NoRow, ResetId, ComparisonsBounded, ChangesPasswordOnce,
        ChangeClosesEarlierResets, Open
  <1> QED BY <1>1, <1>2, <1>3 DEF IInv

-----------------------------------------------------------------------------
(* The two ways of writing used_at keep every other column. *)

LEMMA AllUsedRows ==
  ASSUME TypeOK
  PROVE  /\ AllUsed \in [ResetId -> Row]
         /\ \A i \in ResetId :
               /\ AllUsed[i].attempts = resets[i].attempts
               /\ AllUsed[i].state =
                     IF Open(i) THEN "used" ELSE resets[i].state
               /\ ~ Open(i) => AllUsed[i] = resets[i]
  BY DEF TypeOK, AllUsed, Row, Open

LEMMA MarkUsedRows ==
  ASSUME TypeOK, NEW i \in ResetId
  PROVE  /\ MarkUsed(i) \in [ResetId -> Row]
         /\ \A j \in ResetId :
               /\ MarkUsed(i)[j].attempts = resets[j].attempts
               /\ j # i => MarkUsed(i)[j] = resets[j]
         /\ MarkUsed(i)[i].state =
               IF resets[i].state = "deleted" THEN "deleted" ELSE "used"
  BY DEF TypeOK, MarkUsed, Row

-----------------------------------------------------------------------------
(* One lemma per family of actions: its steps keep the invariant. *)

\* The row of a request that is past reading exists.
LEMMA HeldRowExists ==
  ASSUME IInv, NEW r \in Requests,
         req[r].at \notin {"idle", "invalidate", "insert"}
  PROVE  req[r].id \in ResetId /\ req[r].id < nextReset
  BY ResetConstants DEF IInv, TypeOK, HeldRowsExist, ResetId, Request

\* A step that changes neither the rows nor the histories, and gives a request
\* nothing, or a row that exists.
LEMMA LocalStepKeeps ==
  ASSUME IInv, NEW r \in Requests, NEW h \in Request,
         req' = [req EXCEPT ![r] = h],
         h.at \notin {"idle", "invalidate", "insert"}
            => h.id \in 1 .. nextReset - 1,
         UNCHANGED <<resets, nextReset, rowTimers, histories>>
  PROVE  IInv'
  <1>1. TypeOK'
    BY DEF IInv, TypeOK, rowTimers, histories
  <1>2. HeldRowsExist'
    BY DEF IInv, TypeOK, HeldRowsExist
  <1>3. /\ (closedBelow <= nextReset)'
        /\ UntouchedUntilInserted'
        /\ CountersAgree'
        /\ OpenRowsUnused'
    BY DEF IInv, histories, UntouchedUntilInserted, CountersAgree,
           OpenRowsUnused
  <1>4. ComparisonsBounded' /\ ChangesPasswordOnce' /\ ChangeClosesEarlierResets'
    BY DEF IInv, histories, ComparisonsBounded, ChangesPasswordOnce,
           ChangeClosesEarlierResets, Open
  <1> QED BY <1>1, <1>2, <1>3, <1>4 DEF IInv

LEMMA LocalStepsKeep ==
  ASSUME IInv, NEW r \in Requests,
         \/ RequestRead(r)
         \/ Sent(r)
         \/ SendFails(r)
         \/ CountRefused(r)
         \/ ChangeRefused(r)
         \/ Stop(r)
  PROVE  IInv'
  <1>1. req[r] \in Request
    BY DEF IInv, TypeOK
  <1>2. CASE RequestRead(r)
    <2> DEFINE h == Holding("invalidate", 0)
    <2>1. h \in Request /\ h.at = "invalidate"
      BY ResetConstants DEF Holding, Request, Step
    <2> QED BY <1>2, <2>1, LocalStepKeeps DEF RequestRead
  <1>3. CASE Sent(r) \/ ChangeRefused(r) \/ Stop(r)
    BY <1>3, IdleIsRequest, LocalStepKeeps
    DEF Sent, ChangeRefused, Stop, Idle, Holding
  <1>4. CASE SendFails(r)
    <2> DEFINE h == [req[r] EXCEPT !.at = "delete"]
    <2>1. h \in Request /\ h.id = req[r].id
      BY <1>1 DEF Request, Step
    <2>2. req[r].id \in 1 .. nextReset - 1
      BY <1>4 DEF SendFails, IInv, HeldRowsExist
    <2> QED BY <1>4, <2>1, <2>2, LocalStepKeeps DEF SendFails
  <1>5. CASE CountRefused(r)
    <2> DEFINE h == [req[r] EXCEPT !.at = "exhaust"]
    <2>1. h \in Request /\ h.id = req[r].id
      BY <1>1 DEF Request, Step
    <2>2. req[r].id \in 1 .. nextReset - 1
      BY <1>5 DEF CountRefused, IInv, HeldRowsExist
    <2> QED BY <1>5, <2>1, <2>2, LocalStepKeeps DEF CountRefused
  <1> QED BY <1>2, <1>3, <1>4, <1>5

\* Reading a row: the copy is of a row that exists.
LEMMA ReadsKeep ==
  ASSUME IInv, NEW r \in Requests,
         ResetRead(r) \/ \E right \in BOOLEAN : VerifyRead(r, right)
  PROVE  IInv'
  <1>1. ASSUME NEW i \in ResetId, Open(i)
        PROVE  i \in 1 .. nextReset - 1
    BY <1>1, ResetConstants
    DEF IInv, TypeOK, UntouchedUntilInserted, ResetId, Open, NoRow
  <1>2. CASE ResetRead(r)
    <2>1. PICK i \in ResetId :
             Open(i) /\ req' = [req EXCEPT ![r] =
                                  Holding("change", i)]
      BY <1>2 DEF ResetRead
    <2> DEFINE h == Holding("change", i)
    <2>2. h \in Request /\ h.id = i
      BY ResetConstants DEF Holding, Request, Step, ResetId
    <2> QED BY <1>1, <1>2, <2>1, <2>2, LocalStepKeeps DEF ResetRead
  <1>3. CASE \E right \in BOOLEAN : VerifyRead(r, right)
    <2>1. PICK right \in BOOLEAN : VerifyRead(r, right)
      BY <1>3
    <2>2. PICK i \in ResetId :
             IsLatest(i) /\ req' = [req EXCEPT ![r] =
                                      [at |-> "count", id |-> i, right |-> right,
                                       attempts |-> resets[i].attempts]]
      BY <2>1 DEF VerifyRead
    <2> DEFINE h == [at |-> "count", id |-> i, right |-> right,
                     attempts |-> resets[i].attempts]
    <2>3. resets[i].attempts \in 0 .. MaxAttempts
      BY DEF IInv, TypeOK, Row
    <2>4. h \in Request /\ h.id = i
      BY <2>3, ResetConstants DEF Request, Step, ResetId
    <2> QED BY <1>1, <2>1, <2>2, <2>4, LocalStepKeeps DEF VerifyRead, IsLatest
  <1> QED BY <1>2, <1>3

\* A step that rewrites rows that exist, without opening one or touching a
\* counter, keeps the invariant.
LEMMA RewriteKeeps ==
  ASSUME IInv,
         \/ req' = req
         \/ \E r \in Requests :
               \/ req' = [req EXCEPT ![r] = Idle]
               \/ req' = [req EXCEPT ![r] = Holding("insert", 0)],
         resets' \in [ResetId -> Row],
         \A i \in ResetId : i >= nextReset => resets'[i] = resets[i],
         \A i \in ResetId :
            /\ resets'[i].state # "deleted" =>
                  /\ resets[i].state # "deleted"
                  /\ resets'[i].attempts = resets[i].attempts
            /\ resets'[i].state \in {"none", "open"} =>
                  resets'[i].state = resets[i].state,
         UNCHANGED <<nextReset, rowTimers, histories>>
  PROVE  IInv'
  <1>1. TypeOK' /\ HeldRowsExist'
    <2>1. Idle \in Request /\ Holding("insert", 0) \in Request
      BY IdleIsRequest, ResetConstants DEF Holding, Request, Step
    <2>2. Idle.at = "idle" /\ Holding("insert", 0).at = "insert"
      BY DEF Idle, Holding
    <2> QED BY <2>1, <2>2 DEF IInv, TypeOK, HeldRowsExist, rowTimers, histories
  <1>2. (closedBelow <= nextReset)' /\ UntouchedUntilInserted'
    BY DEF IInv, histories, UntouchedUntilInserted
  <1>3. CountersAgree' /\ OpenRowsUnused'
    BY DEF IInv, histories, CountersAgree, OpenRowsUnused
  <1>4. ComparisonsBounded' /\ ChangesPasswordOnce' /\ ChangeClosesEarlierResets'
    BY DEF IInv, histories, ComparisonsBounded, ChangesPasswordOnce,
           ChangeClosesEarlierResets, Open
  <1> QED BY <1>1, <1>2, <1>3, <1>4 DEF IInv

LEMMA InvalidateKeeps ==
  ASSUME IInv, NEW r \in Requests, Invalidate(r)
  PROVE  IInv'
  <1>1. TypeOK
    BY DEF IInv
  <1>2. \A i \in ResetId : i >= nextReset => resets[i].state = "none"
    BY DEF IInv, UntouchedUntilInserted, NoRow
  <1> QED
    BY <1>1, <1>2, AllUsedRows, RewriteKeeps DEF Invalidate, Open

LEMMA ExhaustKeeps ==
  ASSUME IInv, NEW r \in Requests, Exhaust(r)
  PROVE  IInv'
  <1>1. TypeOK
    BY DEF IInv
  <1>2. req[r].id \in ResetId /\ req[r].id < nextReset
    BY HeldRowExists DEF Exhaust
  <1>3. \A i \in ResetId : i >= nextReset => i # req[r].id
    BY <1>1, <1>2 DEF TypeOK, ResetId
  <1> QED
    BY <1>1, <1>2, <1>3, MarkUsedRows, RewriteKeeps DEF Exhaust

\* Actions that change columns of one row that exists, other than used_at.
LEMMA OneRowKeeps ==
  ASSUME IInv, NEW r \in Requests, Delete(r) \/ Grant(r)
  PROVE  IInv'
  <1>1. TypeOK
    BY DEF IInv
  <1>2. req[r].id \in ResetId /\ req[r].id < nextReset
    BY HeldRowExists DEF Delete, Grant
  <1>3. \A i \in ResetId : i >= nextReset => i # req[r].id
    BY <1>1, <1>2 DEF TypeOK, ResetId
  <1>4. CASE Delete(r)
    <2>1. [NoRow EXCEPT !.state = "deleted"] \in Row
      BY NoRowIsRow DEF NoRow, Row
    <2>2. [NoRow EXCEPT !.state = "deleted"].state = "deleted"
      BY DEF NoRow
    <2>3. resets' \in [ResetId -> Row]
      BY <1>1, <1>4, <2>1 DEF Delete, TypeOK
    <2> QED
      BY <1>1, <1>2, <1>3, <1>4, <2>2, <2>3, RewriteKeeps DEF Delete, TypeOK
  <1>5. CASE Grant(r)
    <2> DEFINE granted == [resets[req[r].id] EXCEPT !.token = "good"]
    <2>1. /\ granted \in Row
          /\ granted.state = resets[req[r].id].state
          /\ granted.attempts = resets[req[r].id].attempts
      BY <1>1, <1>2 DEF TypeOK, Row
    <2>2. resets' = resets \/ resets' = [resets EXCEPT ![req[r].id] = granted]
      BY <1>5 DEF Grant
    <2>3. resets' \in [ResetId -> Row]
      BY <1>1, <2>1, <2>2 DEF TypeOK
    <2> HIDE DEF granted
    <2> QED
      BY <1>1, <1>2, <1>3, <1>5, <2>1, <2>2, <2>3, RewriteKeeps
      DEF Grant, TypeOK
  <1> QED BY <1>4, <1>5

LEMMA TokenExpiresKeeps ==
  ASSUME IInv, NEW i \in ResetId, TokenExpires(i)
  PROVE  IInv'
  <1> DEFINE expired == [resets[i] EXCEPT !.token = "expired"]
  <1>1. TypeOK
    BY DEF IInv
  <1>2. /\ expired \in Row
        /\ expired.state = resets[i].state
        /\ expired.attempts = resets[i].attempts
    BY <1>1 DEF TypeOK, Row
  <1>3. resets' = [resets EXCEPT ![i] = expired]
    BY DEF TokenExpires
  <1>4. resets' \in [ResetId -> Row]
    BY <1>1, <1>2, <1>3 DEF TypeOK
  <1>5. ~ (i >= nextReset)
    BY DEF IInv, UntouchedUntilInserted, TokenExpires, NoRow
  <1> HIDE DEF expired
  <1> QED
    BY <1>1, <1>2, <1>3, <1>4, <1>5, RewriteKeeps DEF TokenExpires, TypeOK

LEMMA TimeKeeps ==
  ASSUME IInv, CooldownPasses \/ CodeExpires
  PROVE  IInv'
  <1>1. UNCHANGED <<resets, nextReset, req, compared, changes, closedBelow>>
    BY DEF CooldownPasses, CodeExpires, histories
  <1>2. cooledUpTo' \in Nat /\ expiredUpTo' \in Nat
    BY DEF IInv, TypeOK, CooldownPasses, CodeExpires
  <1> QED
    BY <1>1, <1>2
    DEF IInv, TypeOK, UntouchedUntilInserted, HeldRowsExist, CountersAgree,
        OpenRowsUnused, ComparisonsBounded, ChangesPasswordOnce,
        ChangeClosesEarlierResets, Open

LEMMA InsertKeeps ==
  ASSUME IInv, NEW r \in Requests, Insert(r)
  PROVE  IInv'
  <1> DEFINE new == [NoRow EXCEPT !.state = "open"]
             h == Holding("send", nextReset)
  <1>1. new \in Row /\ new.state = "open" /\ new.attempts = 0
    BY NoRowIsRow DEF NoRow, Row
  <1>2. h \in Request /\ h.id = nextReset
    BY ResetConstants DEF Insert, Holding, Request, Step, ResetId
  <1>3. /\ nextReset \in ResetId
        /\ resets' = [resets EXCEPT ![nextReset] = new]
        /\ nextReset' = nextReset + 1
        /\ req' = [req EXCEPT ![r] = h]
        /\ UNCHANGED <<rowTimers, histories>>
    BY DEF Insert
  <1> HIDE DEF new, h
  <1>4. TypeOK'
    BY <1>1, <1>2, <1>3, ResetConstants
    DEF IInv, TypeOK, rowTimers, histories, ResetId
  <1>5. HeldRowsExist'
    BY <1>2, <1>3, ResetConstants DEF IInv, TypeOK, HeldRowsExist, ResetId
  <1>6. /\ (closedBelow <= nextReset)'
        /\ UntouchedUntilInserted'
        /\ CountersAgree'
    BY <1>1, <1>3, ResetConstants
    DEF IInv, TypeOK, histories, UntouchedUntilInserted, CountersAgree, ResetId
  <1>7. OpenRowsUnused'
    <2>1. resets[nextReset].state = "none"
      BY <1>3 DEF IInv, TypeOK, UntouchedUntilInserted, NoRow, ResetId
    <2> QED
      BY <1>1, <1>3, <2>1 DEF IInv, TypeOK, histories, OpenRowsUnused
  <1>8. ComparisonsBounded' /\ ChangesPasswordOnce'
    BY <1>3 DEF IInv, histories, ComparisonsBounded, ChangesPasswordOnce
  <1>9. ChangeClosesEarlierResets'
    BY <1>3, ResetConstants
    DEF IInv, TypeOK, histories, ChangeClosesEarlierResets, Open, ResetId
  <1> QED BY <1>4, <1>5, <1>6, <1>7, <1>8, <1>9 DEF IInv

LEMMA CountedKeeps ==
  ASSUME IInv, NEW r \in Requests, Counted(r)
  PROVE  IInv'
  <1> DEFINE i == req[r].id
             row == [resets[i] EXCEPT !.attempts = @ + 1]
             h == IF req[r].right THEN [req[r] EXCEPT !.at = "grant"]
                  ELSE IF req[r].attempts + 1 >= MaxAttempts
                       THEN [req[r] EXCEPT !.at = "exhaust"]
                  ELSE Idle
  <1>1. i \in ResetId /\ i < nextReset
    BY HeldRowExists DEF Counted
  <1>2. /\ resets[i] \in Row
        /\ resets[i].state # "deleted"
        /\ resets[i].attempts < MaxAttempts
    BY <1>1 DEF IInv, TypeOK, Counted, MayCount
  <1>3. /\ row \in Row
        /\ row.state = resets[i].state
        /\ row.attempts = resets[i].attempts + 1
    BY <1>2, ResetConstants DEF Row
  <1>4. h \in Request /\ (h = Idle \/ h.id = i)
    <2>1. req[r] \in Request
      BY DEF IInv, TypeOK
    <2>2. /\ [req[r] EXCEPT !.at = "grant"] \in Request
          /\ [req[r] EXCEPT !.at = "grant"].id = i
      BY <2>1 DEF Request, Step
    <2>3. /\ [req[r] EXCEPT !.at = "exhaust"] \in Request
          /\ [req[r] EXCEPT !.at = "exhaust"].id = i
      BY <2>1 DEF Request, Step
    <2> QED BY <2>2, <2>3, IdleIsRequest
  <1>5. /\ resets' = [resets EXCEPT ![i] = row]
        /\ compared' = [compared EXCEPT ![i] = @ + 1]
        /\ req' = [req EXCEPT ![r] = h]
        /\ UNCHANGED <<nextReset, rowTimers, changes, closedBelow>>
    BY DEF Counted
  <1> HIDE DEF i, row, h
  <1>6. TypeOK'
    BY <1>1, <1>3, <1>4, <1>5 DEF IInv, TypeOK, rowTimers
  <1>7. HeldRowsExist'
    BY <1>1, <1>4, <1>5 DEF IInv, TypeOK, HeldRowsExist, Idle, Holding, ResetId
  <1>8. (closedBelow <= nextReset)' /\ UntouchedUntilInserted'
    BY <1>1, <1>5 DEF IInv, TypeOK, UntouchedUntilInserted, ResetId
  <1>9. CountersAgree' /\ ComparisonsBounded'
    BY <1>1, <1>2, <1>3, <1>5, ResetConstants
    DEF IInv, TypeOK, CountersAgree, ComparisonsBounded, Row
  <1>10. OpenRowsUnused' /\ ChangesPasswordOnce' /\ ChangeClosesEarlierResets'
    BY <1>1, <1>3, <1>5
    DEF IInv, TypeOK, OpenRowsUnused, ChangesPasswordOnce,
        ChangeClosesEarlierResets, Open
  <1> QED BY <1>6, <1>7, <1>8, <1>9, <1>10 DEF IInv

LEMMA ChangePasswordKeeps ==
  ASSUME IInv, NEW r \in Requests, ChangePassword(r)
  PROVE  IInv'
  <1> DEFINE i == req[r].id
  <1>1. TypeOK
    BY DEF IInv
  <1>2. i \in ResetId /\ i < nextReset /\ changes[i] = 0
    BY HeldRowExists
    DEF ChangePassword, StillUnused, Open, IInv, OpenRowsUnused
  <1>3. /\ resets' = AllUsed
        /\ changes' = [changes EXCEPT ![i] = @ + 1]
        /\ closedBelow' = nextReset
        /\ req' = [req EXCEPT ![r] = Idle]
        /\ UNCHANGED <<nextReset, rowTimers, compared>>
        /\ Open(i)
    BY DEF ChangePassword, Closed, StillUnused
  <1> HIDE DEF i
  <1>4. \A j \in ResetId : ~ Open(j)'
    BY <1>1, <1>3, AllUsedRows DEF Open
  <1>5. TypeOK' /\ HeldRowsExist'
    BY <1>1, <1>2, <1>3, AllUsedRows, IdleIsRequest
    DEF IInv, TypeOK, HeldRowsExist, Idle, Holding, rowTimers
  <1>6. (closedBelow <= nextReset)' /\ UntouchedUntilInserted'
    BY <1>1, <1>3, AllUsedRows
    DEF IInv, TypeOK, UntouchedUntilInserted, Open, NoRow
  <1>7. CountersAgree' /\ ComparisonsBounded'
    BY <1>1, <1>3, AllUsedRows DEF IInv, CountersAgree, ComparisonsBounded, Open
  <1>8. OpenRowsUnused'
    BY <1>1, <1>2, <1>3, AllUsedRows DEF IInv, TypeOK, OpenRowsUnused, Open
  <1>9. ChangesPasswordOnce'
    BY <1>1, <1>2, <1>3 DEF IInv, TypeOK, ChangesPasswordOnce
  <1>10. ChangeClosesEarlierResets'
    BY <1>4 DEF ChangeClosesEarlierResets
  <1> QED BY <1>5, <1>6, <1>7, <1>8, <1>9, <1>10 DEF IInv

LEMMA NextKeeps == IInv /\ [Next]_vars => IInv'
  <1> SUFFICES ASSUME IInv, [Next]_vars PROVE IInv'
    OBVIOUS
  <1>1. CASE UNCHANGED vars
    BY <1>1
    DEF vars, IInv, TypeOK, UntouchedUntilInserted, HeldRowsExist,
        CountersAgree, OpenRowsUnused, ComparisonsBounded, ChangesPasswordOnce,
        ChangeClosesEarlierResets, Open
  <1>2. CASE Next
    BY <1>2, LocalStepsKeep, ReadsKeep, InvalidateKeeps, ExhaustKeeps,
       OneRowKeeps, TokenExpiresKeeps, TimeKeeps, InsertKeeps, CountedKeeps,
       ChangePasswordKeeps
    DEF Next
  <1> QED BY <1>1, <1>2

\* The invariant holds in every state of every behaviour.
THEOREM ResetInvariant == Spec => []IInv
  BY InitIInv, NextKeeps, PTL DEF Spec

\* Type correctness, with the attempts column within its limit.
THEOREM ResetTypeOK == Spec => []TypeOK
  BY ResetInvariant, PTL DEF IInv

\* The atomic counter bounds the comparisons of a code by MAX_CODE_ATTEMPTS,
\* whatever number of requests verify at once.
THEOREM ResetComparisonsBounded == Spec => []ComparisonsBounded
  BY ResetInvariant, PTL DEF IInv

\* A row changes the password at most once.
THEOREM ResetChangesPasswordOnce == Spec => []ChangesPasswordOnce
  BY ResetInvariant, PTL DEF IInv

\* A password change leaves no earlier code or token alive.
THEOREM ResetChangeClosesEarlierResets == Spec => []ChangeClosesEarlierResets
  BY ResetInvariant, PTL DEF IInv

-----------------------------------------------------------------------------
(* What no step may do: reopen a closed row, or change the password by it. *)

LEMMA NextClosed ==
  ASSUME IInv, [Next]_vars, NEW i \in ResetId,
         resets[i].state \in {"used", "deleted"}
  PROVE  resets'[i].state \in {"used", "deleted"} /\ changes'[i] = changes[i]
  <1>1. TypeOK /\ i # nextReset /\ ~ Open(i)
    BY ResetConstants
    DEF IInv, TypeOK, UntouchedUntilInserted, NoRow, Open, ResetId
  <1>2. CASE \/ UNCHANGED vars
             \/ UNCHANGED <<resets, changes>>
    BY <1>2 DEF vars
  <1>3. ASSUME NEW r \in Requests,
               \/ RequestRead(r)
               \/ Sent(r)
               \/ SendFails(r)
               \/ CountRefused(r)
               \/ ResetRead(r)
               \/ ChangeRefused(r)
               \/ Stop(r)
               \/ \E right \in BOOLEAN : VerifyRead(r, right)
        PROVE  UNCHANGED <<resets, changes>>
    BY <1>3
    DEF RequestRead, Sent, SendFails, CountRefused, ResetRead, ChangeRefused,
        Stop, VerifyRead, histories
  <1>4. ASSUME CooldownPasses \/ CodeExpires
        PROVE  UNCHANGED <<resets, changes>>
    BY <1>4 DEF CooldownPasses, CodeExpires, histories
  <1>5. ASSUME NEW r \in Requests, Invalidate(r) \/ ChangePassword(r)
        PROVE  resets'[i] = resets[i] /\ changes'[i] = changes[i]
    <2>1. CASE Invalidate(r)
      BY <1>1, <2>1, AllUsedRows DEF Invalidate, histories
    <2>2. CASE ChangePassword(r)
      BY <1>1, <2>2, AllUsedRows
      DEF ChangePassword, Closed, StillUnused, TypeOK
    <2> QED BY <1>5, <2>1, <2>2
  <1>6. ASSUME NEW r \in Requests,
               Insert(r) \/ Delete(r) \/ Counted(r) \/ Exhaust(r) \/ Grant(r)
        PROVE  /\ resets'[i].state \in {"used", "deleted"}
               /\ changes'[i] = changes[i]
    <2>1. CASE Insert(r)
      BY <1>1, <2>1 DEF Insert, TypeOK, histories
    <2>2. CASE Delete(r)
      BY <1>1, <2>2 DEF Delete, TypeOK, NoRow, histories
    <2>3. CASE Counted(r)
      BY <1>1, <2>3 DEF Counted, TypeOK, Row
    <2>4. CASE Exhaust(r)
      BY <1>1, <2>4, MarkUsedRows, HeldRowExists DEF Exhaust, histories
    <2>5. CASE Grant(r)
      BY <1>1, <2>5 DEF Grant, TypeOK, Row, histories
    <2> QED BY <1>6, <2>1, <2>2, <2>3, <2>4, <2>5
  <1>7. ASSUME NEW j \in ResetId, TokenExpires(j)
        PROVE  /\ resets'[i].state \in {"used", "deleted"}
               /\ changes'[i] = changes[i]
    BY <1>1, <1>7 DEF TokenExpires, TypeOK, Row, histories
  <1> QED BY <1>2, <1>3, <1>4, <1>5, <1>6, <1>7 DEF Next

\* A used, replaced or withdrawn row never comes back and never changes the
\* password, whatever a request that read it earlier still does.
THEOREM ResetClosedStaysClosed == Spec => ClosedStaysClosed
  <1>1. IInv /\ [Next]_vars =>
          [\A i \in ResetId :
              resets[i].state \in {"used", "deleted"}
                  => /\ resets'[i].state \in {"used", "deleted"}
                     /\ changes'[i] = changes[i]]_vars
    BY NextClosed
  <1> QED BY <1>1, ResetInvariant, PTL DEF Spec, ClosedStaysClosed

-----------------------------------------------------------------------------
(* PasswordReset implements OneTimeCode.                                   *)

\* The invariant of the refinement: IInv, that an inserted row stays one, and that
\* tokens are earned by a guess.
RefInv == IInv /\ InsertedStaySo /\ TokensAreEarned

LEMMA InitRefInv == Init => RefInv
  <1> SUFFICES ASSUME Init PROVE InsertedStaySo /\ TokensAreEarned
    BY InitIInv DEF RefInv
  <1>1. InsertedStaySo
    BY DEF Init, InsertedStaySo, ResetId
  <1>2. TokensAreEarned
    BY DEF Init, TokensAreEarned, NoRow, Idle, Holding
  <1> QED BY <1>1, <1>2

\* A row a request holds was inserted.
LEMMA HeldRowInserted ==
  ASSUME RefInv, NEW r \in Requests,
         req[r].at \notin {"idle", "invalidate", "insert"}
  PROVE  /\ req[r].id \in ResetId /\ req[r].id < nextReset
         /\ resets[req[r].id].state # "none"
  BY HeldRowExists DEF RefInv, InsertedStaySo

LEMMA NextInserted == RefInv /\ [Next]_vars => InsertedStaySo'
  <1> SUFFICES ASSUME RefInv, [Next]_vars,
                      NEW i \in ResetId, i < nextReset'
               PROVE  resets'[i].state # "none"
    BY DEF InsertedStaySo
  <1>1. TypeOK /\ nextReset \in Nat
    BY ResetConstants DEF RefInv, IInv, TypeOK
  <1>2. CASE nextReset' = nextReset /\ resets[i].state # "open"
    <2>1. resets[i].state \in {"used", "deleted"}
      BY <1>1, <1>2 DEF RefInv, InsertedStaySo, TypeOK, Row
    <2> QED BY <2>1, NextClosed DEF RefInv
  <1>3. ASSUME NEW r \in Requests, Insert(r)
        PROVE  resets'[i].state # "none"
    <2>1. /\ nextReset \in ResetId /\ nextReset' = nextReset + 1
          /\ resets' = [resets EXCEPT ![nextReset] = [NoRow EXCEPT !.state = "open"]]
      BY <1>3 DEF Insert
    <2>2. CASE i = nextReset
      BY <1>1, <2>1, <2>2 DEF TypeOK, NoRow
    <2>3. CASE i # nextReset
      BY <1>1, <2>1, <2>3 DEF RefInv, InsertedStaySo, TypeOK, ResetId
    <2> QED BY <2>2, <2>3
  <1>4. CASE Open(i) /\ ~ \E r \in Requests : Insert(r)
    <2>1. ASSUME NEW r \in Requests, Invalidate(r) \/ ChangePassword(r)
          PROVE  resets'[i].state # "none"
      BY <1>1, <1>4, <2>1, AllUsedRows DEF Invalidate, ChangePassword, Closed
    <2>2. ASSUME NEW r \in Requests, Delete(r) \/ Counted(r) \/ Grant(r)
          PROVE  resets'[i].state # "none"
      <3>1. CASE Delete(r)
        BY <1>1, <1>4, <3>1 DEF Delete, TypeOK, Open, NoRow
      <3>2. CASE Counted(r)
        BY <1>1, <1>4, <3>2 DEF Counted, TypeOK, Row, Open
      <3>3. CASE Grant(r)
        BY <1>1, <1>4, <3>3 DEF Grant, TypeOK, Row, Open
      <3> QED BY <2>2, <3>1, <3>2, <3>3
    <2>3. ASSUME NEW r \in Requests, Exhaust(r)
          PROVE  resets'[i].state # "none"
      BY <1>1, <1>4, <2>3, MarkUsedRows, HeldRowInserted DEF Exhaust, Open
    <2>4. ASSUME NEW j \in ResetId, TokenExpires(j)
          PROVE  resets'[i].state # "none"
      BY <1>1, <1>4, <2>4 DEF TokenExpires, TypeOK, Row, Open
    <2>5. CASE resets' = resets
      BY <1>4, <2>5 DEF Open
    <2> QED
      BY <1>4, <2>1, <2>2, <2>3, <2>4, <2>5
      DEF Next, vars, RequestRead, Sent, SendFails, VerifyRead, CountRefused,
          ResetRead, ChangeRefused, Stop, CooldownPasses, CodeExpires
  <1>5. (~ \E r \in Requests : Insert(r)) => nextReset' = nextReset
    BY DEF Next, vars, RequestRead, Invalidate, Sent, SendFails, Delete, VerifyRead,
           CountRefused, Counted, Exhaust, Grant, ResetRead, ChangePassword,
           ChangeRefused, Stop, CooldownPasses, CodeExpires, TokenExpires
  <1> QED BY <1>2, <1>3, <1>4, <1>5 DEF Open

\* Comparisons are only added, and a row gets a token by a request that guessed.
LEMMA NextEarned == RefInv /\ [Next]_vars => TokensAreEarned'
  <1> SUFFICES ASSUME RefInv, [Next]_vars
               PROVE  TokensAreEarned'
    OBVIOUS
  <1>1. /\ resets \in [ResetId -> Row]
        /\ req \in [Requests -> Request]
        /\ compared \in [ResetId -> Nat]
        /\ \A i \in ResetId : resets[i].token # "none" => compared[i] > 0
        /\ \A r \in Requests : req[r].at \in {"grant", "change"} => compared[req[r].id] > 0
    BY DEF RefInv, IInv, TypeOK, TokensAreEarned
  <1>2. CASE UNCHANGED <<resets, req, compared>>
    BY <1>1, <1>2 DEF TokensAreEarned
  <1>3. ASSUME NEW r \in Requests,
               RequestRead(r) \/ Sent(r) \/ SendFails(r) \/ CountRefused(r)
               \/ ChangeRefused(r) \/ Stop(r)
               \/ \E right \in BOOLEAN : VerifyRead(r, right)
        PROVE  TokensAreEarned'
    BY <1>1, <1>3
    DEF TokensAreEarned, RequestRead, Sent, SendFails, CountRefused, ChangeRefused,
        Stop, VerifyRead, histories, Idle, Holding, Request
  <1>4. ASSUME NEW r \in Requests, ResetRead(r)
        PROVE  TokensAreEarned'
    BY <1>1, <1>4 DEF TokensAreEarned, ResetRead, histories, Holding
  <1>5. ASSUME NEW r \in Requests, Invalidate(r) \/ ChangePassword(r)
        PROVE  TokensAreEarned'
    <2>1. \A i \in ResetId : AllUsed[i].token = resets[i].token
      BY <1>1 DEF AllUsed, Row
    <2> QED
      BY <1>1, <1>5, <2>1
      DEF TokensAreEarned, Invalidate, ChangePassword, Closed, histories, Idle, Holding
  <1>6. ASSUME NEW r \in Requests, Insert(r) \/ Delete(r)
        PROVE  TokensAreEarned'
    BY <1>1, <1>6
    DEF TokensAreEarned, Insert, Delete, histories, NoRow, Idle, Holding, Request
  <1>7. ASSUME NEW r \in Requests, Counted(r)
        PROVE  TokensAreEarned'
    <2>1. req[r].id \in ResetId
      BY <1>7, HeldRowInserted DEF Counted
    <2>2. \A i \in ResetId : /\ resets'[i].token = resets[i].token
                             /\ compared'[i] >= compared[i]
      BY <1>1, <1>7, <2>1 DEF Counted, Row
    <2>3. compared'[req[r].id] > 0
      BY <1>1, <1>7, <2>1 DEF Counted
    <2>4. \A q \in Requests \ {r} : req'[q] = req[q]
      BY <1>1, <1>7 DEF Counted
    <2>5. req'[r].id = req[r].id \/ req'[r].at = "idle"
      BY <1>1, <1>7 DEF Counted, Idle, Holding, Request
    <2>6. \A q \in Requests : req[q].at \in {"grant", "change"} => req[q].id \in ResetId
      BY HeldRowInserted
    <2>7. \A i \in ResetId : compared[i] \in Nat /\ compared'[i] \in Nat
      BY <1>1, <1>7, <2>1 DEF Counted
    <2>8. (\A i \in ResetId : resets[i].token # "none" => compared[i] > 0)'
      BY <1>1, <2>2, <2>7
    <2>9. ASSUME NEW q \in Requests, req'[q].at \in {"grant", "change"}
          PROVE  compared'[req'[q].id] > 0
      <3>1. CASE q = r
        BY <2>3, <2>5, <2>9, <3>1
      <3>2. CASE q # r
        BY <1>1, <2>2, <2>4, <2>6, <2>7, <2>9, <3>2
      <3> QED BY <3>1, <3>2
    <2> QED BY <2>8, <2>9 DEF TokensAreEarned
  <1>8. ASSUME NEW r \in Requests, Exhaust(r)
        PROVE  TokensAreEarned'
    <2>1. \A i \in ResetId : MarkUsed(req[r].id)[i].token = resets[i].token
      BY <1>1 DEF MarkUsed, Row
    <2> QED
      BY <1>1, <1>8, <2>1 DEF TokensAreEarned, Exhaust, histories, Idle, Holding
  <1>9. ASSUME NEW r \in Requests, Grant(r)
        PROVE  TokensAreEarned'
    BY <1>1, <1>9, HeldRowInserted
    DEF TokensAreEarned, Grant, histories, Idle, Holding, Row
  <1>10. ASSUME NEW i \in ResetId, TokenExpires(i)
         PROVE  TokensAreEarned'
    BY <1>1, <1>10 DEF TokensAreEarned, TokenExpires, histories, Row
  <1>11. CASE CooldownPasses \/ CodeExpires
    BY <1>2, <1>11 DEF CooldownPasses, CodeExpires, histories
  <1> QED
    BY <1>2, <1>3, <1>4, <1>5, <1>6, <1>7, <1>8, <1>9, <1>10, <1>11 DEF Next, vars

LEMMA RefInvariant == Spec => []RefInv
  <1>1. RefInv /\ [Next]_vars => RefInv'
    BY NextKeeps, NextInserted, NextEarned DEF RefInv
  <1> QED BY <1>1, InitRefInv, PTL DEF Spec

\* A step that closes the rows of S, and at most marks or withdraws other closed ones.
LEMMA ClosingMaps ==
  ASSUME TypeOK, NEW S \in SUBSET ResetId,
         \A i \in S : Open(i) /\ resets'[i].state \in {"used", "deleted"},
         \A i \in ResetId \ S :
            \/ resets'[i].state = resets[i].state
            \/ {resets[i].state, resets'[i].state} \subseteq {"used", "deleted"}
  PROVE  /\ \A i \in S : CodeState[i] = "open"
         /\ CodeState' = Code!Closing(S)
         /\ UNCHANGED CodesSent
  BY DEF TypeOK, Row, Open, CodeState, CodesSent, Code!Closing

LEMMA InitRefines == Init => Code!Init
  BY DEF Init, Code!Init, CodeState, CodesSent, NoRow

LEMMA ClosesRefines ==
  ASSUME RefInv, NEW r \in Requests, Invalidate(r) \/ Exhaust(r) \/ Delete(r)
  PROVE  \E S \in SUBSET ResetId : Code!Close(S)
  <1>1. TypeOK /\ UNCHANGED <<compared, changes>>
    BY DEF RefInv, IInv, Invalidate, Exhaust, Delete, histories
  <1>2. CASE Invalidate(r)
    <2> DEFINE S == {i \in ResetId : Open(i)}
    <2>1. /\ S \in SUBSET ResetId
          /\ \A i \in S : Open(i) /\ resets'[i].state \in {"used", "deleted"}
          /\ \A i \in ResetId \ S : resets'[i].state = resets[i].state
      BY <1>1, <1>2, AllUsedRows DEF Invalidate
    <2> HIDE DEF S
    <2>2. /\ \A i \in S : CodeState[i] = "open"
          /\ CodeState' = Code!Closing(S)
          /\ UNCHANGED CodesSent
      BY <1>1, <2>1, ClosingMaps
    <2> QED BY <1>1, <2>1, <2>2 DEF Code!Close
  <1>3. CASE Exhaust(r) \/ Delete(r)
    <2> DEFINE S == {i \in {req[r].id} : Open(i)}
    <2>1. req[r].id \in ResetId /\ resets[req[r].id].state # "none"
      BY <1>3, HeldRowInserted DEF Exhaust, Delete
    <2>2. /\ resets'[req[r].id].state \in {"used", "deleted"}
          /\ \A i \in ResetId \ {req[r].id} : resets'[i].state = resets[i].state
      BY <1>1, <1>3, <2>1, MarkUsedRows DEF Exhaust, Delete, TypeOK, NoRow
    <2>3. /\ S \in SUBSET ResetId
          /\ \A i \in S : Open(i) /\ resets'[i].state \in {"used", "deleted"}
          /\ \A i \in ResetId \ S :
                \/ resets'[i].state = resets[i].state
                \/ {resets[i].state, resets'[i].state} \subseteq {"used", "deleted"}
      BY <1>1, <2>1, <2>2 DEF TypeOK, Row, Open
    <2> HIDE DEF S
    <2>4. /\ \A i \in S : CodeState[i] = "open"
          /\ CodeState' = Code!Closing(S)
          /\ UNCHANGED CodesSent
      BY <1>1, <2>3, ClosingMaps
    <2> QED BY <1>1, <2>3, <2>4 DEF Code!Close
  <1> QED BY <1>2, <1>3

LEMMA InsertRefines ==
  ASSUME RefInv, NEW r \in Requests, Insert(r)
  PROVE  \E i \in ResetId : Code!Send(i)
  <1>1. /\ TypeOK /\ nextReset \in ResetId
        /\ resets[nextReset].state = "none"
        /\ resets' = [resets EXCEPT ![nextReset] = [NoRow EXCEPT !.state = "open"]]
        /\ UNCHANGED <<compared, changes>>
    BY ResetConstants
    DEF RefInv, IInv, TypeOK, UntouchedUntilInserted, Insert, histories, NoRow, ResetId
  <1>2. /\ CodeState[nextReset] = "new"
        /\ CodeState' = [CodeState EXCEPT ![nextReset] = "open"]
        /\ CodesSent' = [CodesSent EXCEPT ![nextReset] = @ + 1]
    <2>1. /\ resets'[nextReset].state = "open"
          /\ \A i \in ResetId \ {nextReset} : resets'[i] = resets[i]
      BY <1>1 DEF TypeOK, NoRow
    <2>2. CodeState[nextReset] = "new" /\ CodesSent[nextReset] = 0
      BY <1>1 DEF CodeState, CodesSent
    <2>3. /\ CodeState' = [CodeState EXCEPT ![nextReset] = "open"]
          /\ CodesSent' = [CodesSent EXCEPT ![nextReset] = 1]
      BY <1>1, <2>1 DEF CodeState, CodesSent
    <2> QED BY <2>2, <2>3
  <1> QED BY <1>1, <1>2 DEF Code!Send

LEMMA CountedRefines ==
  ASSUME RefInv, NEW r \in Requests, Counted(r)
  PROVE  \E i \in ResetId : Code!Guess(i)
  <1> DEFINE i == req[r].id
  <1>1. /\ TypeOK
        /\ i \in ResetId /\ resets[i].state # "none"
        /\ resets[i].state # "deleted" /\ resets[i].attempts < MaxAttempts
    BY HeldRowInserted DEF Counted, MayCount, RefInv, IInv
  <1>2. compared[i] < MaxAttempts * CodesSent[i] /\ CodeState[i] # "new"
    BY <1>1, ResetConstants
    DEF RefInv, IInv, CountersAgree, TypeOK, Row, CodesSent, CodeState
  <1>3. \A j \in ResetId : resets'[j].state = resets[j].state
    BY <1>1 DEF Counted, TypeOK, Row
  <1>4. UNCHANGED <<CodeState, CodesSent>>
    BY <1>3 DEF CodeState, CodesSent
  <1>5. compared' = [compared EXCEPT ![i] = @ + 1] /\ UNCHANGED changes
    BY DEF Counted
  <1> QED BY <1>1, <1>2, <1>4, <1>5 DEF Code!Guess

LEMMA ChangeRefines ==
  ASSUME RefInv, NEW r \in Requests, ChangePassword(r)
  PROVE  \E S \in SUBSET ResetId : \E i \in S : Code!Use(i, S)
  <1> DEFINE S == {i \in ResetId : Open(i)}
             i == req[r].id
  <1>1. TypeOK /\ i \in S /\ compared[i] > 0
    BY HeldRowInserted
    DEF ChangePassword, StillUnused, RefInv, IInv, TokensAreEarned
  <1>2. /\ S \in SUBSET ResetId
        /\ \A j \in S : Open(j) /\ resets'[j].state \in {"used", "deleted"}
        /\ \A j \in ResetId \ S : resets'[j].state = resets[j].state
    BY <1>1, AllUsedRows DEF ChangePassword, Closed
  <1> HIDE DEF S
  <1>3. /\ \A j \in S : CodeState[j] = "open"
        /\ CodeState' = Code!Closing(S)
        /\ UNCHANGED CodesSent
    BY <1>1, <1>2, ClosingMaps
  <1>4. changes' = [changes EXCEPT ![i] = @ + 1] /\ UNCHANGED compared
    BY DEF ChangePassword
  <1>5. Code!Use(i, S)
    BY <1>1, <1>3, <1>4 DEF Code!Use
  <1> QED BY <1>1, <1>2, <1>5

LEMMA QuietRefines ==
  ASSUME RefInv,
         \/ UNCHANGED <<resets, compared, changes>>
         \/ \E r \in Requests : Grant(r)
         \/ \E i \in ResetId : TokenExpires(i)
  PROVE  UNCHANGED Code!code
  <1>1. TypeOK
    BY DEF RefInv, IInv
  <1>2. UNCHANGED <<compared, changes>>
    BY DEF Grant, TokenExpires, histories
  <1>3. \A j \in ResetId : resets'[j].state = resets[j].state
    <2>1. ASSUME NEW r \in Requests, Grant(r)
          PROVE  \A j \in ResetId : resets'[j].state = resets[j].state
      BY <1>1, <2>1 DEF Grant, TypeOK, Row
    <2>2. ASSUME NEW i \in ResetId, TokenExpires(i)
          PROVE  \A j \in ResetId : resets'[j].state = resets[j].state
      BY <1>1, <2>2 DEF TokenExpires, TypeOK, Row
    <2> QED BY <2>1, <2>2
  <1>4. UNCHANGED <<CodeState, CodesSent>>
    BY <1>3 DEF CodeState, CodesSent
  <1> QED BY <1>2, <1>4 DEF Code!code

LEMMA NextRefines == RefInv /\ [Next]_vars => [Code!Next]_Code!code
  <1> SUFFICES ASSUME RefInv, [Next]_vars PROVE [Code!Next]_Code!code
    OBVIOUS
  <1>1. CASE UNCHANGED <<resets, compared, changes>>
    BY <1>1, QuietRefines
  <1>2. ASSUME NEW r \in Requests,
               Invalidate(r) \/ Exhaust(r) \/ Delete(r) \/ Insert(r) \/ Counted(r)
               \/ ChangePassword(r)
        PROVE  Code!Next
    BY <1>2, ClosesRefines, InsertRefines, CountedRefines, ChangeRefines DEF Code!Next
  <1>3. CASE \/ \E r \in Requests : Grant(r)
             \/ \E i \in ResetId : TokenExpires(i)
    BY <1>3, QuietRefines
  <1> QED
    BY <1>1, <1>2, <1>3
    DEF Next, vars, histories, RequestRead, Sent, SendFails, VerifyRead, CountRefused,
        ResetRead, ChangeRefused, Stop, CooldownPasses, CodeExpires

\* The code of a reset and its token keep the promise of OneTimeCode: only a row that
\* is open, and only after a guess that was counted, changes the password, and every
\* guess is one of the MAX_CODE_ATTEMPTS, for any requests in flight.
THEOREM ResetImplementsCode == Spec => ImplementsCode
  BY InitRefines, NextRefines, RefInvariant, PTL
  DEF Spec, ImplementsCode, Code!Spec

-----------------------------------------------------------------------------
(* Budgets. *)

\* The budgets of the two users, and null, are apart.
LEMMA PlansConstants ==
  /\ IsFiniteSet(DetailIds) /\ DetailIds # {}
  /\ Ids \intersect OtherIds = {} /\ Own \intersect Other = {} /\ Other # {}
  /\ None \notin Plans!AllIds \union Plans!Categories
  /\ MaxAmount \in Nat
  BY BudgetConstants DEF Plans!AllIds, Plans!Categories

\* The operators of the instance are those of the library.
LEMMA PlansCardinality == ASSUME NEW S PROVE Plans!Cardinality(S) = Cardinality(S)
  BY DEF Plans!Cardinality, Cardinality

LEMMA PlansSumFunction ==
  ASSUME NEW f
  PROVE  Plans!SumFunction(f) = SumFunctionOnSet(f, DOMAIN f)
  BY DEF Plans!SumFunction, Plans!SumFunctionOnSet, SumFunctionOnSet,
         Plans!FoldFunctionOnSet, FoldFunctionOnSet, Plans!MapThenFoldSet, MapThenFoldSet

LEMMA PlansSumsReach == Plans!Sums = 0 .. MaxAmount * Cardinality(DetailIds)
  BY PlansCardinality DEF Plans!Sums

LEMMA PlansSumOverDetails ==
  ASSUME NEW b
  PROVE  Plans!Sum(b) = SumFunctionOnSet([d \in Plans!DetailsOf(b) |-> details[d].amount],
                                         Plans!DetailsOf(b))
  BY PlansSumFunction DEF Plans!Sum

\* The reach of the sums.
LEMMA PlansAmountsAreSums == Plans!Amounts \subseteq Plans!Sums
  <1>1. Cardinality(DetailIds) \in Nat /\ Cardinality(DetailIds) # 0
    BY PlansConstants, FS_CardinalityType, FS_EmptySet
  <1> DEFINE n == Cardinality(DetailIds)
  <1>2. \E k \in Nat : n = k + 1
    <2> HIDE DEF n
    <2>1. n - 1 \in Nat /\ n = (n - 1) + 1
      BY <1>1 DEF n
    <2> QED BY <2>1
  <1>3. PICK k \in Nat : n = k + 1
    BY <1>2
  <1> HIDE DEF n
  <1>4. MaxAmount * (k + 1) = MaxAmount * k + MaxAmount /\ MaxAmount * k \in Nat
    BY PlansConstants
  <1>5. MaxAmount * n >= MaxAmount /\ MaxAmount * n \in Nat
    BY <1>3, <1>4, PlansConstants
  <1> QED BY <1>5, PlansSumsReach, PlansConstants DEF Plans!Amounts, n

\* A sum of amounts that details have stays in the reach of the sums.
LEMMA PlansSumIsSum ==
  ASSUME Plans!TypeOK, NEW b \in Plans!AllIds
  PROVE  Plans!Sum(b) \in Plans!Sums
  <1> DEFINE S == Plans!DetailsOf(b)
             f == [d \in S |-> details[d].amount]
             k == Cardinality(S)
             n == Cardinality(DetailIds)
  <1>1. IsFiniteSet(S) /\ k \in Nat /\ n \in Nat /\ k <= n
    <2>1. S \subseteq DetailIds
      BY DEF Plans!DetailsOf
    <2> QED BY <2>1, PlansConstants, FS_Subset, FS_CardinalityType
  <1>2. \A d \in S : f[d] \in 0 .. MaxAmount
    BY PlansConstants DEF Plans!DetailsOf, Plans!TypeOK, Plans!Detail, Plans!NoDetail, Plans!Amounts
  <1>3. Plans!Sum(b) = SumFunctionOnSet(f, S)
    BY PlansSumOverDetails
  <1> HIDE DEF f, S
  <1>4. Plans!Sum(b) \in 0 .. MaxAmount * k
    BY <1>1, <1>2, <1>3, SumIsBounded, PlansConstants
  <1> HIDE DEF k, n
  <1>5. MaxAmount * k \in Nat /\ MaxAmount * n \in Nat /\ MaxAmount * k <= MaxAmount * n
    BY <1>1, PlansConstants
  <1>6. Plans!Sum(b) \in 0 .. MaxAmount * n
    BY <1>4, <1>5
  <1> QED BY <1>6, PlansSumsReach DEF n

\* The sum of a budget depends on nothing but its details.
LEMMA PlansSumStays ==
  ASSUME NEW b \in Plans!AllIds,
         \A d \in DetailIds :
            details'[d] # details[d] => b \notin {details[d].budget, details'[d].budget}
  PROVE  Plans!Sum(b)' = Plans!Sum(b)
  <1>1. Plans!DetailsOf(b)' = Plans!DetailsOf(b)
    BY DEF Plans!DetailsOf
  <1>2. \A d \in Plans!DetailsOf(b) : details'[d].amount = details[d].amount
    BY DEF Plans!DetailsOf
  <1>3. [d \in Plans!DetailsOf(b)' |-> details'[d].amount]
          = [d \in Plans!DetailsOf(b) |-> details[d].amount]
    BY <1>1, <1>2
  <1> QED BY <1>3 DEF Plans!Sum

\* What a request holds is of its type.
LEMMA PlansIdleIsHolding == Plans!Idle \in Plans!Holding /\ Plans!HoldOK(Plans!Idle)
  <1>1. 0 \in Plans!Sums
    BY PlansAmountsAreSums, PlansConstants DEF Plans!Amounts
  <1> QED BY <1>1
      DEF Plans!Idle, Plans!Holding, Plans!HoldOK, Plans!NoBudget, Plans!NoPatch, Plans!Patch

LEMMA PlansSyncedIsHolding == 
  ASSUME NEW b \in Ids
  PROVE /\ Plans!Synced(b) \in Plans!Holding /\ Plans!HoldOK(Plans!Synced(b))
        /\ Plans!Synced(b).at = "sync" /\ Plans!Synced(b).budget = b
  BY PlansIdleIsHolding DEF Plans!Idle, Plans!Holding, Plans!HoldOK, Plans!Synced, Plans!AllIds

LEMMA PlansAfterSaveIsHolding == 
  ASSUME NEW b \in Ids, NEW auto \in BOOLEAN
  PROVE /\ Plans!AfterSave(b, auto) \in Plans!Holding /\ Plans!HoldOK(Plans!AfterSave(b, auto))
        /\ Plans!AfterSave(b, auto).at = IF auto THEN "sync" ELSE "idle"
        /\ auto => Plans!AfterSave(b, auto).budget = b
  BY PlansIdleIsHolding, PlansSyncedIsHolding DEF Plans!AfterSave, Plans!Idle

-----------------------------------------------------------------------------
\* A request that is not late found its budget, and its details, as they still are.
LEMMA PlansLateIsTold ==
  ASSUME NEW S, Plans!Observe(S), NEW q \in Requests \ late', budgeting'[q].at # "idle"
  PROVE  /\ budgeting'[q] # budgeting[q] => q \notin late \/ budgeting[q].at = "sync"
         /\ budgeting'[q] = budgeting[q] /\ budgeting[q].budget \in Plans!AllIds =>
              /\ q \notin late \/ budgeting[q].at = "sync"
              /\ budgets'[budgeting[q].budget] = budgets[budgeting[q].budget]
              /\ \A d \in DetailIds : details'[d] # details[d] =>
                    budgeting[q].budget \notin {details[d].budget, details'[d].budget}
  BY DEF Plans!Observe

\* Whoever knew the budget still does, or is late.
LEMMA PlansFreshStays ==
  ASSUME Plans!TypeOK, \A q \in Requests : Plans!HoldOK(budgeting[q]),
         \A q \in Requests \ late : Plans!Fresh(q),
         NEW S, Plans!Observe(S),
         \A q \in Requests : \/ budgeting'[q] = budgeting[q]
                             \/ budgeting'[q].at \notin {"sum", "category", "patch"}
                             \/ q \in late /\ budgeting[q].at # "sync"
                             \/ Plans!Fresh(q)'
  PROVE  \A q \in Requests \ late' : Plans!Fresh(q)'
  <1> SUFFICES ASSUME NEW q \in Requests \ late', budgeting'[q].at \in {"sum", "category", "patch"}
               PROVE  Plans!Fresh(q)'
    BY DEF Plans!Fresh
  <1>1. CASE budgeting'[q] = budgeting[q]
    <2>1. budgeting[q].budget \in Plans!AllIds
      BY <1>1 DEF Plans!HoldOK, Plans!AllIds
    <2>2. PICK b \in Plans!AllIds : b = budgeting[q].budget
      BY <2>1
    <2>3. /\ q \notin late /\ budgets'[b] = budgets[b]
          /\ \A d \in DetailIds :
                details'[d] # details[d] => b \notin {details[d].budget, details'[d].budget}
      BY <1>1, <2>2, PlansLateIsTold
    <2>4. Plans!Sum(b)' = Plans!Sum(b)
      BY <2>3, PlansSumStays
    <2>5. budgeting'[q].at = "sum" => budgeting'[q].amount = Plans!Sum(b)'
      BY <1>1, <2>2, <2>3, <2>4 DEF Plans!Fresh
    <2>6. budgeting'[q].at \in {"category", "patch"} =>
            budgeting'[q].auto = IF budgeting'[q].patch.auto
              = None THEN budgets'[b].auto ELSE budgeting'[q].patch.auto
      BY <1>1, <2>2, <2>3 DEF Plans!Fresh
    <2>7. budgeting'[q].budget = b
      BY <1>1, <2>2
    <2> QED BY <2>5, <2>6, <2>7 DEF Plans!Fresh
  <1>2. CASE budgeting'[q] # budgeting[q]
    BY <1>2, PlansLateIsTold
  <1> QED BY <1>1, <1>2

\* A step may make an amount wrong when the sum is still to come, or when a late
\* request or one that stops is to blame.
LEMMA PlansAmountIsTold ==
  ASSUME Plans!AmountIsTheSum, NEW S, Plans!Observe(S), S \subseteq Requests,
         \A b \in Plans!AllIds : Plans!Wrong(b)' =>
            \/ \E q \in Requests : budgeting'[q].at \in {"sync", "sum"} /\ budgeting'[q].budget = b
            \/ \E q \in Requests :
                  budgeting'[q] # budgeting[q] /\ budgeting[q].budget = b /\ q \in late
            \/ /\ Plans!Wrong(b)
               /\ \A q \in Requests : budgeting[q].at \in {"sync", "sum"} /\ budgeting[q].budget = b
                                        => budgeting'[q] = budgeting[q]
                                          \/ (q \in S /\ budgeting'[q] # budgeting[q])
  PROVE  Plans!AmountIsTheSum'
  <1> SUFFICES ASSUME NEW b \in Plans!AllIds, Plans!Wrong(b)',
                      ~ \E q \in Requests : budgeting'[q].at \in {"sync", "sum"}
                      /\ budgeting'[q].budget = b
               PROVE  b \in excused'
    BY DEF Plans!AmountIsTheSum
  <1>1. CASE \E q \in Requests :
                budgeting'[q] # budgeting[q] /\ budgeting[q].budget = b /\ q \in late
    BY <1>1 DEF Plans!Observe
  <1>2. CASE /\ Plans!Wrong(b)
             /\ \A q \in Requests : budgeting[q].at \in {"sync", "sum"} /\ budgeting[q].budget = b
                                      => budgeting'[q] = budgeting[q]
                                        \/ (q \in S /\ budgeting'[q] # budgeting[q])
    <2>1. CASE b \in excused
      BY <2>1 DEF Plans!Observe
    <2>2. CASE \E q \in Requests : budgeting[q].at \in {"sync", "sum"} /\ budgeting[q].budget = b
      BY <1>2, <2>2 DEF Plans!Observe
    <2> QED BY <1>2, <2>1, <2>2 DEF Plans!AmountIsTheSum
  <1> QED BY <1>1, <1>2

\* The histories keep their type.
LEMMA PlansHistoryIsTyped ==
  ASSUME NEW S, Plans!Observe(S) PROVE late' \subseteq Requests /\ excused' \subseteq Plans!AllIds
  BY DEF Plans!Observe

\* A detail that is to be saved goes to no other budget meanwhile.
LEMMA PlansSavingStays ==
  ASSUME Plans!Saving,
         \A q \in Requests : budgeting'[q].at = "change" =>
            /\ details'[budgeting'[q].detail].budget \in {budgeting'[q].budget, None}
            /\ budgeting'[q].budget # None
            /\ \/ budgeting'[q] = budgeting[q]
               \/ /\ details'[budgeting'[q].detail].budget = budgeting'[q].budget
                  /\ \A p \in Requests \ {q} : budgeting'[p] = budgeting[p]
  PROVE  Plans!Saving'
  BY DEF Plans!Saving

-----------------------------------------------------------------------------
\* A request goes on with its next statement; the others stay.
LEMMA PlansGoes ==
  ASSUME budgeting \in [Requests -> Plans!Holding], \A q \in Requests : Plans!HoldOK(budgeting[q]),
         NEW r \in Requests, NEW h \in Plans!Holding, Plans!HoldOK(h), Plans!Go(r, h)
  PROVE  /\ budgeting' \in [Requests -> Plans!Holding]
         /\ \A q \in Requests : Plans!HoldOK(budgeting'[q])
         /\ budgeting'[r] = h
         /\ \A q \in Requests \ {r} : budgeting'[q] = budgeting[q]
  BY DEF Plans!Go

\* A statement that only reads.
LEMMA PlansContinues ==
  ASSUME Plans!IInv, NEW r \in Requests, NEW h \in Plans!Holding, Plans!HoldOK(h),
         Plans!Continue(r, h),
         NEW S \in SUBSET Requests, Plans!Observe(S),
         h.at = "change" => details[h.detail].budget = h.budget,
         \/ r \in late /\ budgeting[r].at # "sync"
         \/ /\ h.at = "sum" => \E b \in Plans!AllIds : h.budget = b /\ h.amount = Plans!Sum(b)
            /\ h.at \in {"category", "patch"} =>
                  h.auto = IF h.patch.auto = None THEN budgets[h.budget].auto ELSE h.patch.auto,
         budgeting[r].at \in {"sync", "sum"} =>
            \/ h.at \in {"sync", "sum"} /\ h.budget = budgeting[r].budget
            \/ r \in S /\ h # budgeting[r]
            \/ \A b \in Plans!AllIds : b = budgeting[r].budget => ~ Plans!Wrong(b)
  PROVE  Plans!IInv' /\ budgets' = budgets
  <1>1. /\ Plans!TypeOK /\ Plans!OfTheUser /\ Plans!Saving /\ Plans!OneBudgetForAMonth
        /\ Plans!AmountIsTheSum
        /\ \A q \in Requests : Plans!HoldOK(budgeting[q])
        /\ \A q \in Requests \ late : Plans!Fresh(q)
    BY DEF Plans!IInv
  <1>2. /\ budgeting' \in [Requests -> Plans!Holding]
        /\ \A q \in Requests : Plans!HoldOK(budgeting'[q])
        /\ budgeting'[r] = h
        /\ \A q \in Requests \ {r} : budgeting'[q] = budgeting[q]
    BY <1>1, PlansGoes DEF Plans!Continue, Plans!TypeOK
  <1>3. UNCHANGED <<categories, budgets, details>>
    BY DEF Plans!Continue, Plans!tables
  <1>4. \A b \in Plans!AllIds : Plans!Sum(b)' = Plans!Sum(b)
    BY <1>3, PlansSumStays
  <1>5. Plans!TypeOK'
    BY <1>1, <1>2, <1>3, PlansHistoryIsTyped DEF Plans!TypeOK
  <1>6. (\A q \in Requests : Plans!HoldOK(budgeting[q]))'
    BY <1>2 DEF Plans!HoldOK
  <1>7. Plans!OfTheUser' /\ Plans!OneBudgetForAMonth'
    BY <1>1, <1>3 DEF Plans!OfTheUser, Plans!OneBudgetForAMonth, Plans!Exists
  <1>8. Plans!Saving'
    <2>1. ASSUME NEW q \in Requests, budgeting'[q].at = "change"
          PROVE  budgeting'[q].budget \in Ids
      BY <1>2, <2>1 DEF Plans!HoldOK
    <2>2. \A q \in Requests : budgeting'[q].at = "change" => budgeting'[q].budget # None
      BY <2>1, PlansConstants DEF Plans!AllIds
    <2> QED BY <1>1, <1>2, <1>3, <2>2, PlansSavingStays DEF Plans!Saving
  <1>9. (\A q \in Requests \ late : Plans!Fresh(q))'
    <2>1. \/ r \in late /\ budgeting[r].at # "sync"
          \/ Plans!Fresh(r)'
      BY <1>2, <1>3, <1>4 DEF Plans!Fresh
    <2> QED BY <1>1, <1>2, <2>1, PlansFreshStays
  <1>10. Plans!AmountIsTheSum'
    <2>1. \A b \in Plans!AllIds : Plans!Wrong(b)' = Plans!Wrong(b)
      BY <1>3, <1>4 DEF Plans!Wrong
    <2> QED BY <1>1, <1>2, <2>1, PlansAmountIsTold DEF Plans!AmountIsTheSum
  <1> QED BY <1>3, <1>5, <1>6, <1>7, <1>8, <1>9, <1>10 DEF Plans!IInv

\* No other budget is of the category and the month of the row.
NoOther(b, row) ==
    \A c \in Plans!AllIds \ {b} :
        Plans!Exists(c) => ~ (budgets[c].category = row.category /\ budgets[c].month = row.month)

\* A statement that writes a row of budgets.
LEMMA PlansWritesBudget ==
  ASSUME Plans!IInv, NEW r \in Requests, NEW h \in Plans!Holding, Plans!HoldOK(h), Plans!Go(r, h),
         NEW S \in SUBSET Requests, Plans!Observe(S),
         NEW b \in Ids, NEW row \in Plans!Budget, row.category \in Own, Plans!WriteBudget(b, row),
         NoOther(b, row),
         h.at \in {"idle", "sync"}, h.at = "sync" => h.budget = b,
         budgeting[r].budget = b \/ budgeting[r].at \notin {"sync", "sum"},
         row.auto => \/ h.at = "sync"
                     \/ r \in late /\ budgeting[r].budget = b /\ h # budgeting[r]
                     \/ row.amount = Plans!Sum(b)
  PROVE  Plans!IInv' /\ \A c \in OtherIds : budgets'[c] = budgets[c]
  <1>1. /\ Plans!TypeOK /\ Plans!OfTheUser /\ Plans!Saving /\ Plans!OneBudgetForAMonth
        /\ Plans!AmountIsTheSum
        /\ \A q \in Requests : Plans!HoldOK(budgeting[q])
        /\ \A q \in Requests \ late : Plans!Fresh(q)
    BY DEF Plans!IInv
  <1>2. /\ budgeting' \in [Requests -> Plans!Holding]
        /\ \A q \in Requests : Plans!HoldOK(budgeting'[q])
        /\ budgeting'[r] = h
        /\ \A q \in Requests \ {r} : budgeting'[q] = budgeting[q]
    BY <1>1, PlansGoes DEF Plans!TypeOK
  <1>3. /\ UNCHANGED <<categories, details>>
        /\ budgets' \in [Plans!AllIds -> Plans!Budget \union {Plans!NoBudget}]
        /\ budgets'[b] = row /\ b \in Plans!AllIds
        /\ \A c \in Plans!AllIds \ {b} : budgets'[c] = budgets[c]
    BY <1>1 DEF Plans!WriteBudget, Plans!TypeOK, Plans!AllIds
  <1>4. \A c \in Plans!AllIds : Plans!Sum(c)' = Plans!Sum(c)
    BY <1>3, PlansSumStays
  <1>5. Plans!TypeOK'
    BY <1>1, <1>2, <1>3, PlansHistoryIsTyped DEF Plans!TypeOK
  <1>6. (\A q \in Requests : Plans!HoldOK(budgeting[q]))'
    BY <1>2 DEF Plans!HoldOK
  <1>7. b \notin OtherIds /\ OtherIds \subseteq Plans!AllIds
    BY PlansConstants DEF Plans!AllIds
  <1>8. Plans!OfTheUser'
    BY <1>1, <1>3, <1>7 DEF Plans!OfTheUser, Plans!AllIds
  <1>9. Plans!OneBudgetForAMonth'
    <2>1. Plans!NoBudget.category \notin Plans!Categories /\ row.category \in Plans!Categories
      BY PlansConstants DEF Plans!NoBudget, Plans!Categories
    <2>2. ASSUME NEW c \in Plans!AllIds, NEW e \in Plans!AllIds, Plans!Exists(c)',
                 budgets'[c].category = budgets'[e].category, budgets'[c].month = budgets'[e].month
          PROVE  c = e
      <3>1. CASE c # b /\ e # b
        BY <1>1, <1>3, <2>2, <3>1 DEF Plans!OneBudgetForAMonth, Plans!Exists
      <3>2. CASE c = b /\ e # b
        <4>1. Plans!Exists(e)
          BY <1>3, <2>1, <2>2, <3>2 DEF Plans!Exists
        <4> QED BY <1>3, <2>2, <3>2, <4>1 DEF NoOther
      <3>3. CASE c # b /\ e = b
        BY <1>3, <2>2, <3>3 DEF Plans!Exists, NoOther
      <3> QED BY <3>1, <3>2, <3>3
    <2> QED BY <2>2 DEF Plans!OneBudgetForAMonth
  <1>10. Plans!Saving'
    <2>1. ASSUME NEW q \in Requests, budgeting'[q].at = "change"
          PROVE  budgeting'[q].budget \in Ids
      BY <1>2, <2>1 DEF Plans!HoldOK
    <2>2. \A q \in Requests : budgeting'[q].at = "change" => budgeting'[q].budget # None
      BY <2>1, PlansConstants DEF Plans!AllIds
    <2> QED BY <1>1, <1>2, <1>3, <2>2, PlansSavingStays DEF Plans!Saving
  <1>11. (\A q \in Requests \ late : Plans!Fresh(q))'
    BY <1>1, <1>2, PlansFreshStays
  <1>12. Plans!AmountIsTheSum'
    <2>1. \A c \in Plans!AllIds \ {b} : Plans!Wrong(c)' = Plans!Wrong(c)
      BY <1>3, <1>4 DEF Plans!Wrong
    <2>2. Plans!Wrong(b)'
            => h.at = "sync" \/ (r \in late /\ budgeting[r].budget = b /\ h # budgeting[r])
      BY <1>3, <1>4 DEF Plans!Wrong
    <2>3. ASSUME NEW c \in Plans!AllIds, Plans!Wrong(c)'
          PROVE  \/ \E q \in Requests :
                       budgeting'[q].at \in {"sync", "sum"} /\ budgeting'[q].budget = c
                 \/ \E q \in Requests :
                       budgeting'[q] # budgeting[q] /\ budgeting[q].budget = c /\ q \in late
                 \/ /\ Plans!Wrong(c)
                    /\ \A q \in Requests :
                          budgeting[q].at \in {"sync", "sum"} /\ budgeting[q].budget = c
                                             => budgeting'[q] = budgeting[q]
                                               \/ (q \in S /\ budgeting'[q] # budgeting[q])
      BY <1>2, <2>1, <2>2, <2>3
    <2> QED BY <1>1, <2>3, PlansAmountIsTold
  <1> QED BY <1>3, <1>5, <1>6, <1>7, <1>8, <1>9, <1>10, <1>11, <1>12 DEF Plans!IInv

\* A statement that writes a row of budget_details; the sum is still to come.
LEMMA PlansWritesDetail ==
  ASSUME Plans!IInv, NEW r \in Requests, NEW b \in Ids, Plans!Go(r, Plans!Synced(b)),
         NEW S \in SUBSET Requests, Plans!Observe(S),
         NEW d \in DetailIds, NEW row \in Plans!Detail \union {Plans!NoDetail},
             Plans!WriteDetail(d, row),
         row.budget \in {b, None}, details[d].budget \in {b, None},
         budgeting[r].at \notin {"sync", "sum"},
         \A q \in Requests \ {r} :
            budgeting[q].at = "change" /\ budgeting[q].detail = d => budgeting[q].budget = b
  PROVE  Plans!IInv' /\ budgets' = budgets
  <1>1. /\ Plans!TypeOK /\ Plans!OfTheUser /\ Plans!Saving /\ Plans!OneBudgetForAMonth
        /\ Plans!AmountIsTheSum
        /\ \A q \in Requests : Plans!HoldOK(budgeting[q])
        /\ \A q \in Requests \ late : Plans!Fresh(q)
    BY DEF Plans!IInv
  <1>2. /\ budgeting' \in [Requests -> Plans!Holding]
        /\ \A q \in Requests : Plans!HoldOK(budgeting'[q])
        /\ budgeting'[r].at = "sync" /\ budgeting'[r].budget = b
        /\ \A q \in Requests \ {r} : budgeting'[q] = budgeting[q]
    BY <1>1, PlansGoes, PlansSyncedIsHolding DEF Plans!TypeOK
  <1>3. /\ UNCHANGED <<categories, budgets>>
        /\ details' \in [DetailIds -> Plans!Detail \union {Plans!NoDetail}]
        /\ details'[d] = row
        /\ \A e \in DetailIds \ {d} : details'[e] = details[e]
    BY <1>1 DEF Plans!WriteDetail, Plans!TypeOK
  <1>4. b \notin OtherIds /\ b \in Plans!AllIds /\ None \notin Plans!AllIds
    BY PlansConstants DEF Plans!AllIds
  <1>5. \A c \in Plans!AllIds \ {b} : Plans!Sum(c)' = Plans!Sum(c)
    BY <1>3, <1>4, PlansSumStays
  <1>6. Plans!TypeOK'
    BY <1>1, <1>2, <1>3, PlansHistoryIsTyped DEF Plans!TypeOK
  <1>7. (\A q \in Requests : Plans!HoldOK(budgeting[q]))'
    BY <1>2 DEF Plans!HoldOK
  <1>8. Plans!OfTheUser' /\ Plans!OneBudgetForAMonth'
    BY <1>1, <1>3, <1>4 DEF Plans!OfTheUser, Plans!OneBudgetForAMonth, Plans!Exists, Plans!AllIds
  <1>9. Plans!Saving'
    <2>1. ASSUME NEW q \in Requests, budgeting'[q].at = "change"
          PROVE  /\ budgeting'[q] = budgeting[q] /\ budgeting'[q].budget # None
                 /\ details'[budgeting'[q].detail].budget \in {budgeting'[q].budget, None}
      <3>1. /\ budgeting'[q] = budgeting[q] /\ q # r /\ budgeting[q].budget \in Ids
            /\ budgeting[q].detail \in DetailIds
        BY <1>1, <1>2, <2>1 DEF Plans!HoldOK
      <3>2. CASE budgeting[q].detail = d
        BY <1>1, <1>3, <1>4, <2>1, <3>1, <3>2 DEF Plans!AllIds
      <3>3. CASE budgeting[q].detail # d
        BY <1>1, <1>3, <1>4, <2>1, <3>1, <3>3 DEF Plans!Saving, Plans!AllIds
      <3> QED BY <3>2, <3>3
    <2> QED BY <1>1, <2>1, PlansSavingStays
  <1>10. (\A q \in Requests \ late : Plans!Fresh(q))'
    BY <1>1, <1>2, PlansFreshStays
  <1>11. Plans!AmountIsTheSum'
    <2>1. \A c \in Plans!AllIds \ {b} : Plans!Wrong(c)' = Plans!Wrong(c)
      BY <1>3, <1>5 DEF Plans!Wrong
    <2> QED BY <1>1, <1>2, <2>1, PlansAmountIsTold
  <1> QED BY <1>3, <1>6, <1>7, <1>8, <1>9, <1>10, <1>11 DEF Plans!IInv

\* The removal of budgets with their details.
LEMMA PlansDeletesAll ==
  ASSUME Plans!IInv, NEW gone \in SUBSET Ids, Plans!DeleteAll(gone),
         categories' \subseteq categories,
         budgeting' \in [Requests -> Plans!Holding],
         \A q \in Requests :
            budgeting'[q] = budgeting[q]
              \/ (budgeting'[q] = Plans!Idle /\ budgeting[q].at \notin {"sync", "sum"}),
         NEW S \in SUBSET Requests, Plans!Observe(S)
  PROVE  Plans!IInv' /\ \A b \in OtherIds : budgets'[b] = budgets[b]
  <1>1. /\ Plans!TypeOK /\ Plans!OfTheUser /\ Plans!Saving /\ Plans!OneBudgetForAMonth
        /\ Plans!AmountIsTheSum
        /\ \A q \in Requests : Plans!HoldOK(budgeting[q])
        /\ \A q \in Requests \ late : Plans!Fresh(q)
    BY DEF Plans!IInv
  <1>2. \A q \in Requests :
           Plans!HoldOK(budgeting'[q]) /\ (budgeting'[q] # budgeting[q] => budgeting'[q].at = "idle")
    <2>1. Plans!Idle.at = "idle" /\ Plans!HoldOK(Plans!Idle)
      BY PlansIdleIsHolding DEF Plans!Idle
    <2>2. ASSUME NEW q \in Requests
          PROVE  Plans!HoldOK(budgeting'[q])
                 /\ (budgeting'[q] # budgeting[q] => budgeting'[q].at = "idle")
      <3>1. CASE budgeting'[q] = budgeting[q]
        BY <1>1, <3>1
      <3>2. CASE budgeting'[q] = Plans!Idle
        BY <2>1, <3>2
      <3> QED BY <3>1, <3>2
    <2> QED BY <2>2
  <1>3. /\ budgets' \in [Plans!AllIds -> Plans!Budget \union {Plans!NoBudget}]
        /\ \A b \in Plans!AllIds : budgets'[b] = IF b \in gone THEN Plans!NoBudget ELSE budgets[b]
        /\ details' \in [DetailIds -> Plans!Detail \union {Plans!NoDetail}]
        /\ \A d \in DetailIds :
              details'[d] = IF details[d].budget \in gone THEN Plans!NoDetail ELSE details[d]
    BY <1>1 DEF Plans!DeleteAll, Plans!TypeOK
  <1>4. gone \intersect OtherIds = {} /\ gone \subseteq Plans!AllIds /\ None \notin Plans!AllIds
        /\ OtherIds \subseteq Plans!AllIds
    BY PlansConstants DEF Plans!AllIds
  <1>5. /\ Plans!NoBudget.category \notin Plans!Categories /\ ~ Plans!NoBudget.auto
        /\ Plans!NoDetail.budget = None
    BY PlansConstants DEF Plans!NoBudget, Plans!NoDetail
  <1>6. \A c \in Plans!AllIds \ gone : Plans!Sum(c)' = Plans!Sum(c)
    BY <1>3, <1>4, <1>5, PlansSumStays
  <1>7. Plans!TypeOK'
    BY <1>1, <1>3, PlansHistoryIsTyped DEF Plans!TypeOK
  <1>8. (\A q \in Requests : Plans!HoldOK(budgeting[q]))'
    BY <1>2 DEF Plans!HoldOK
  <1>9. Plans!OfTheUser'
    BY <1>1, <1>3, <1>4, <1>5 DEF Plans!OfTheUser, Plans!AllIds, Plans!Budget
  <1>10. Plans!OneBudgetForAMonth'
    <2>1. ASSUME NEW c \in Plans!AllIds, NEW e \in Plans!AllIds, Plans!Exists(c)',
                 budgets'[c].category = budgets'[e].category, budgets'[c].month = budgets'[e].month
          PROVE  c = e
      <3>1. budgets'[c] = budgets[c] /\ Plans!Exists(c) /\ budgets[c].category \in Plans!Categories
        BY <1>1, <1>3, <2>1 DEF Plans!Exists, Plans!TypeOK, Plans!Budget
      <3>2. budgets'[e] = budgets[e]
        BY <1>3, <1>5, <2>1, <3>1
      <3> QED BY <1>1, <2>1, <3>1, <3>2 DEF Plans!OneBudgetForAMonth
    <2> QED BY <2>1 DEF Plans!OneBudgetForAMonth
  <1>11. Plans!Saving'
    <2>1. ASSUME NEW q \in Requests, budgeting'[q].at = "change"
          PROVE  /\ budgeting'[q] = budgeting[q] /\ budgeting'[q].budget # None
                 /\ details'[budgeting'[q].detail].budget \in {budgeting'[q].budget, None}
      <3>1. /\ budgeting'[q] = budgeting[q] /\ budgeting[q].budget \in Ids
            /\ budgeting[q].detail \in DetailIds
        BY <1>1, <1>2, <2>1 DEF Plans!HoldOK
      <3> QED BY <1>1, <1>3, <1>4, <1>5, <2>1, <3>1 DEF Plans!Saving, Plans!AllIds
    <2> QED BY <1>1, <2>1, PlansSavingStays
  <1>12. (\A q \in Requests \ late : Plans!Fresh(q))'
    BY <1>1, <1>2, PlansFreshStays
  <1>13. Plans!AmountIsTheSum'
    <2>1. \A c \in Plans!AllIds : Plans!Wrong(c)' => Plans!Wrong(c)
      BY <1>3, <1>5, <1>6 DEF Plans!Wrong
    <2> QED BY <1>1, <1>2, <2>1, PlansAmountIsTold
  <1> QED BY <1>3, <1>4, <1>7, <1>8, <1>9, <1>10, <1>11, <1>12, <1>13 DEF Plans!IInv

-----------------------------------------------------------------------------
\* It holds at first.
LEMMA PlansInitIInv == Plans!Init => Plans!IInv
  <1> SUFFICES ASSUME Plans!Init PROVE Plans!IInv
    OBVIOUS
  <1>1. PICK rows \in [OtherIds -> Plans!Budget] :
          /\ \A b \in OtherIds : /\ rows[b].category = CHOOSE c \in Other : TRUE
                                 /\ ~ rows[b].auto
          /\ \A b, c \in OtherIds : rows[b].month = rows[c].month => b = c
          /\ budgets = [b \in Plans!AllIds |-> IF b \in OtherIds THEN rows[b] ELSE Plans!NoBudget]
    BY DEF Plans!Init
  <1>2. \A b \in OtherIds : rows[b].category \in Other
    BY <1>1, PlansConstants
  <1>3. /\ Plans!NoBudget.category = None /\ ~ Plans!NoBudget.auto /\ Plans!NoDetail.budget = None
        /\ None \notin Plans!Categories /\ None \notin Plans!AllIds
        /\ Plans!NoBudget \notin Plans!Budget
        /\ Ids \intersect OtherIds = {}
    BY PlansConstants DEF Plans!NoBudget, Plans!NoDetail, Plans!Budget
  <1>4. /\ categories = Own /\ details = [d \in DetailIds |-> Plans!NoDetail]
        /\ budgeting = [r \in Requests |-> Plans!Idle] /\ late = {} /\ excused = {}
    BY DEF Plans!Init
  <1>5. /\ \A b \in Plans!AllIds : budgets[b] = IF b \in OtherIds THEN rows[b] ELSE Plans!NoBudget
        /\ OtherIds \subseteq Plans!AllIds /\ Ids \subseteq Plans!AllIds
    BY <1>1 DEF Plans!AllIds
  <1>6. Plans!TypeOK
    BY <1>1, <1>4, <1>5, PlansIdleIsHolding DEF Plans!TypeOK
  <1>7. \A r \in Requests : Plans!HoldOK(budgeting[r]) /\ budgeting[r].at = "idle"
    BY <1>4, PlansIdleIsHolding DEF Plans!Idle
  <1>8. Plans!OfTheUser
    BY <1>2, <1>3, <1>4, <1>5 DEF Plans!OfTheUser
  <1>9. Plans!Saving /\ \A r \in Requests \ late : Plans!Fresh(r)
    BY <1>7 DEF Plans!Saving, Plans!Fresh
  <1>10. Plans!OneBudgetForAMonth
    BY <1>1, <1>2, <1>3, <1>5 DEF Plans!OneBudgetForAMonth, Plans!Exists, Plans!Categories
  <1>11. Plans!AmountIsTheSum
    BY <1>1, <1>3, <1>5 DEF Plans!AmountIsTheSum, Plans!Wrong
  <1> QED BY <1>6, <1>7, <1>8, <1>9, <1>10, <1>11 DEF Plans!IInv

-----------------------------------------------------------------------------
\* The invariant, and what another user has, stay.
PlansKeeps == Plans!IInv' /\ \A b \in OtherIds : budgets'[b] = budgets[b]

\* What follows from the invariant for every statement.
LEMMA PlansKnown ==
  ASSUME Plans!IInv
  PROVE  /\ OtherIds \subseteq Plans!AllIds /\ Ids \subseteq Plans!AllIds
         /\ Own \subseteq Plans!Categories
         /\ budgeting \in [Requests -> Plans!Holding]
         /\ \A q \in Requests : Plans!HoldOK(budgeting[q])
         /\ \A b \in Plans!AllIds : Plans!Exists(b) => budgets[b] \in Plans!Budget
         /\ \A b \in Plans!AllIds :
               budgets[b].category \in Own => b \in Ids /\ budgets[b] \in Plans!Budget
         /\ \A b \in Plans!AllIds : Plans!Found(b) => b \in Ids /\ budgets[b] \in Plans!Budget
         /\ \A b \in Plans!AllIds : budgets[b].auto \in BOOLEAN
         /\ \A b \in Ids : Plans!Exists(b) => budgets[b].category \in Own
  <1>1. /\ OtherIds \subseteq Plans!AllIds /\ Ids \subseteq Plans!AllIds
        /\ Plans!AllIds = Ids \union OtherIds
        /\ Own \subseteq Plans!Categories /\ Own \intersect Other = {} /\ None \notin Own
    BY PlansConstants DEF Plans!AllIds, Plans!Categories
  <1>2. Plans!NoBudget.category = None /\ Plans!NoBudget.auto \in BOOLEAN
    BY DEF Plans!NoBudget
  <1>3. \A b \in Plans!AllIds : budgets[b] \in Plans!Budget \union {Plans!NoBudget}
    BY DEF Plans!IInv, Plans!TypeOK
  <1>4. \A row \in Plans!Budget : row.auto \in BOOLEAN
    BY DEF Plans!Budget
  <1>5. \A b \in Plans!AllIds :
           budgets[b].category \in Own => b \in Ids /\ budgets[b] \in Plans!Budget
    BY <1>1, <1>2, <1>3 DEF Plans!IInv, Plans!OfTheUser
  <1>6. \A b \in Plans!AllIds : Plans!Exists(b) => budgets[b] \in Plans!Budget
    BY <1>3 DEF Plans!Exists
  <1>7. \A b \in Ids : Plans!Exists(b) => budgets[b].category \in Own
    BY <1>1, <1>6 DEF Plans!IInv, Plans!OfTheUser
  <1>8. \A b \in Plans!AllIds : budgets[b].auto \in BOOLEAN
    BY <1>2, <1>3, <1>4
  <1> QED BY <1>1, <1>5, <1>6, <1>7, <1>8 DEF Plans!IInv, Plans!TypeOK, Plans!Found

\* Creation.
LEMMA PlansCreateStep ==
  ASSUME Plans!IInv, NEW r \in Requests, Plans!Create(r), NEW S \in SUBSET Requests,
         Plans!Observe(S)
  PROVE PlansKeeps
  <1>1. PICK c \in categories, month \in Months, auto \in BOOLEAN, amount \in Plans!Amounts :
          Plans!Continue(r, [Plans!Idle EXCEPT !.at = "existing",
                            !.entity = [category |-> c, month |-> month,
                                        amount |-> amount, auto |-> auto]])
    BY DEF Plans!Create
  <1> DEFINE e == [category |-> c, month |-> month, amount |-> amount, auto |-> auto]
             h == [Plans!Idle EXCEPT !.at = "existing", !.entity = e]
  <1>2. c \in Own /\ c \in Plans!Categories
    BY DEF Plans!IInv, Plans!TypeOK, Plans!Categories
  <1>3. e \in Plans!Budget /\ e.category \in Own
    BY <1>2, PlansAmountsAreSums DEF Plans!Budget
  <1> HIDE DEF e
  <1>4. h \in Plans!Holding /\ Plans!HoldOK(h) /\ h.at = "existing"
    BY <1>3, PlansIdleIsHolding DEF Plans!Idle, Plans!Holding, Plans!HoldOK
  <1>5. budgeting[r].at = "idle" /\ Plans!Continue(r, h)
    BY <1>1 DEF Plans!Create, e
  <1> HIDE DEF h
  <1> QED BY <1>4, <1>5, PlansContinues, PlansKnown DEF PlansKeeps

\* A request that stops, and one that has nothing more to do.
LEMMA PlansStopStep ==
  ASSUME Plans!IInv, NEW r \in Requests, Plans!Stop(r), Plans!Observe({r}) PROVE PlansKeeps
  <1>1. Plans!Idle.at = "idle"
    BY DEF Plans!Idle
  <1> QED BY <1>1, PlansIdleIsHolding, PlansContinues, PlansKnown DEF PlansKeeps, Plans!Stop

LEMMA PlansRequestStops ==
  ASSUME Plans!IInv, NEW r \in Requests, Plans!Continue(r, Plans!Idle),
         budgeting[r].at \notin {"sync", "sum"},
         NEW S \in SUBSET Requests, Plans!Observe(S)
  PROVE PlansKeeps
  <1>1. Plans!Idle.at = "idle"
    BY DEF Plans!Idle
  <1> QED BY <1>1, PlansIdleIsHolding, PlansContinues, PlansKnown DEF PlansKeeps

LEMMA PlansFindExistingStep ==
  ASSUME Plans!IInv, NEW r \in Requests, Plans!FindExisting(r), NEW S \in SUBSET Requests,
         Plans!Observe(S)
  PROVE PlansKeeps
  <1> DEFINE a == budgeting[r]
             same == {b \in Plans!AllIds : budgets[b].category = a.entity.category
                                     /\ budgets[b].month = a.entity.month}
  <1>1. a \in Plans!Holding /\ Plans!HoldOK(a) /\ a.at = "existing"
    BY PlansKnown DEF Plans!FindExisting
  <1>2. a.entity \in Plans!Budget /\ a.entity.category \in Own
    BY <1>1 DEF Plans!HoldOK
  <1>3. CASE Plans!Continue(r, [a EXCEPT !.at = "insert"])
    <2> DEFINE h == [a EXCEPT !.at = "insert"]
    <2>1. h \in Plans!Holding /\ Plans!HoldOK(h) /\ h.at = "insert"
      BY <1>1, <1>2 DEF Plans!Holding, Plans!HoldOK
    <2>2. Plans!Continue(r, h)
      BY <1>3
    <2> HIDE DEF h
    <2> QED BY <1>1, <2>1, <2>2, PlansContinues, PlansKnown DEF PlansKeeps
  <1>4. CASE \E b \in same :
               Plans!Continue(r, [a EXCEPT !.at = "save", !.budget = b,
                              !.entity.amount = IF a.entity.auto THEN budgets[b].amount ELSE @])
    <2>1. PICK b \in same :
               Plans!Continue(r, [a EXCEPT !.at = "save", !.budget = b,
                              !.entity.amount = IF a.entity.auto THEN budgets[b].amount ELSE @])
      BY <1>4
    <2>2. b \in Ids /\ budgets[b] \in Plans!Budget
      BY <1>2, PlansKnown
    <2> DEFINE amount == IF a.entity.auto THEN budgets[b].amount ELSE a.entity.amount
               e == [a.entity EXCEPT !.amount = amount]
               h == [a EXCEPT !.at = "save", !.budget = b, !.entity = e]
    <2>3. e \in Plans!Budget /\ e.category \in Own
      BY <1>2, <2>2 DEF Plans!Budget
    <2>4. Plans!Continue(r, h)
      BY <2>1
    <2> HIDE DEF e
    <2>5. h \in Plans!Holding /\ Plans!HoldOK(h) /\ h.at = "save"
      BY <1>1, <2>2, <2>3 DEF Plans!Holding, Plans!HoldOK, Plans!AllIds
    <2> HIDE DEF h
    <2> QED BY <1>1, <2>4, <2>5, PlansContinues, PlansKnown DEF PlansKeeps
  <1> QED BY <1>3, <1>4 DEF Plans!FindExisting

LEMMA PlansSaveExistingStep ==
  ASSUME Plans!IInv, NEW r \in Requests, Plans!SaveExisting(r), NEW S \in SUBSET Requests,
         Plans!Observe(S)
  PROVE PlansKeeps
  <1>1. PICK b : b = budgeting[r].budget
    OBVIOUS
  <1>2. PICK row : row = budgeting[r].entity
    OBVIOUS
  <1>3. budgeting[r] \in Plans!Holding /\ Plans!HoldOK(budgeting[r]) /\ budgeting[r].at = "save"
    BY PlansKnown DEF Plans!SaveExisting
  <1>4. b \in Ids /\ row \in Plans!Budget /\ row.category \in Own /\ row.auto \in BOOLEAN
    BY <1>1, <1>2, <1>3 DEF Plans!HoldOK, Plans!Budget
  <1>5. CASE /\ Plans!Accepted(b, row) /\ Plans!WriteBudget(b, row)
             /\ Plans!Go(r, Plans!AfterSave(b, row.auto))
    BY <1>1, <1>3, <1>4, <1>5, PlansAfterSaveIsHolding, PlansWritesBudget
      DEF Plans!Accepted, NoOther, PlansKeeps
  <1>6. CASE Plans!Continue(r, Plans!Idle)
    BY <1>3, <1>6, PlansRequestStops
  <1> QED BY <1>1, <1>2, <1>5, <1>6 DEF Plans!SaveExisting

LEMMA PlansInsertStep ==
  ASSUME Plans!IInv, NEW r \in Requests, NEW b \in Ids, Plans!Insert(r, b),
         NEW S \in SUBSET Requests, Plans!Observe(S)
  PROVE PlansKeeps
  <1>2. PICK row : row = budgeting[r].entity
    OBVIOUS
  <1>3. budgeting[r] \in Plans!Holding /\ Plans!HoldOK(budgeting[r]) /\ budgeting[r].at = "insert"
    BY PlansKnown DEF Plans!Insert
  <1>4. row \in Plans!Budget /\ row.category \in Own /\ row.auto \in BOOLEAN
    BY <1>2, <1>3 DEF Plans!HoldOK, Plans!Budget
  <1>5. CASE /\ Plans!Accepted(b, row) /\ Plans!WriteBudget(b, row)
             /\ Plans!Go(r, Plans!AfterSave(b, row.auto))
    BY <1>3, <1>4, <1>5, PlansAfterSaveIsHolding, PlansWritesBudget
      DEF Plans!Accepted, NoOther, PlansKeeps
  <1>6. CASE Plans!Continue(r, Plans!Idle)
    BY <1>3, <1>6, PlansRequestStops
  <1> QED BY <1>2, <1>5, <1>6 DEF Plans!Insert

-----------------------------------------------------------------------------
\* The statement after the look at the category.
LEMMA PlansAfterCategoryIsHolding ==
  ASSUME NEW a \in Plans!Holding, NEW b \in Ids, a.budget = b,
         a.patch.category \in Own \union {None}
  PROVE  LET h == Plans!AfterCategory(a) IN
         /\ h \in Plans!Holding /\ Plans!HoldOK(h) /\ h.at \in {"patch", "sync", "idle"}
         /\ h.at = "sync" => h.budget = b
         /\ h.at = "patch" => h.auto = a.auto /\ h.patch = a.patch /\ h.budget = b
  <1> DEFINE h == [a EXCEPT !.at = "patch"]
  <1>1. CASE a.patch # Plans!NoPatch
    <2>1. h \in Plans!Holding /\ Plans!HoldOK(h)
      BY <1>1 DEF Plans!Holding, Plans!HoldOK
    <2>2. h.at = "patch" /\ h.auto = a.auto /\ h.patch = a.patch /\ h.budget = b
      BY DEF Plans!Holding
    <2>3. Plans!AfterCategory(a) = h
      BY <1>1 DEF Plans!AfterCategory
    <2> HIDE DEF h
    <2> QED BY <2>1, <2>2, <2>3
  <1>2. CASE a.patch = Plans!NoPatch
    <2>1. Plans!AfterCategory(a) = Plans!AfterSave(b, a.auto) /\ a.auto \in BOOLEAN
      BY <1>2 DEF Plans!AfterCategory, Plans!Holding
    <2> QED BY <2>1, PlansAfterSaveIsHolding
  <1> QED BY <1>1, <1>2

\* Plans!Update.
LEMMA PlansUpdateStep ==
  ASSUME Plans!IInv, NEW r \in Requests, NEW b \in Plans!AllIds, Plans!Update(r, b),
         NEW S \in SUBSET Requests, Plans!Observe(S)
  PROVE PlansKeeps
  <1>1. /\ b \in Ids /\ budgets[b] \in Plans!Budget /\ budgets[b].category \in Own
        /\ budgeting[r].at = "idle"
    BY PlansKnown DEF Plans!Update, Plans!Found
  <1>2. PICK patch \in Plans!Patch :
          LET auto == IF patch.auto = None THEN budgets[b].auto ELSE patch.auto
              a == [Plans!Idle EXCEPT !.budget = b, !.auto = auto,
                                !.patch = IF auto THEN [patch EXCEPT !.amount = None] ELSE patch] IN
          Plans!Continue(r,
            IF patch.category \in {None, budgets[b].category} THEN Plans!AfterCategory(a)
                      ELSE [a EXCEPT !.at = "category"])
    BY DEF Plans!Update
  <1> DEFINE auto == IF patch.auto = None THEN budgets[b].auto ELSE patch.auto
             p == IF auto THEN [patch EXCEPT !.amount = None] ELSE patch
             a == [Plans!Idle EXCEPT !.budget = b, !.auto = auto, !.patch = p]
             h == IF patch.category \in {None, budgets[b].category} THEN Plans!AfterCategory(a)
                  ELSE [a EXCEPT !.at = "category"]
  <1>3. auto \in BOOLEAN
    BY <1>1 DEF Plans!Patch, Plans!Budget
  <1>4. p \in Plans!Patch /\ p.auto = patch.auto /\ p.category = patch.category
    BY DEF Plans!Patch
  <1>5. Plans!Continue(r, h)
    BY <1>2
  <1> HIDE DEF p
  <1>6. auto = IF p.auto = None THEN budgets[b].auto ELSE p.auto
    BY <1>4
  <1> HIDE DEF auto
  <1>7. a \in Plans!Holding /\ a.budget = b /\ a.auto = auto /\ a.patch = p /\ a.at = "idle"
    BY <1>1, <1>3, <1>4, PlansIdleIsHolding DEF Plans!Idle, Plans!Holding, Plans!AllIds
  <1> HIDE DEF a
  <1>8. /\ h \in Plans!Holding /\ Plans!HoldOK(h) /\ h.at \in {"category", "patch", "sync", "idle"}
        /\ h.at \in {"category", "patch"} =>
             h.auto = IF h.patch.auto = None THEN budgets[h.budget].auto ELSE h.patch.auto
    <2>1. CASE patch.category \in {None, budgets[b].category}
      <3>1. h = Plans!AfterCategory(a) /\ a.patch.category \in Own \union {None}
        BY <1>1, <1>4, <1>7, <2>1
      <3> HIDE DEF h
      <3>2. /\ h \in Plans!Holding /\ Plans!HoldOK(h) /\ h.at \in {"patch", "sync", "idle"}
            /\ h.at = "patch" => h.auto = a.auto /\ h.patch = a.patch /\ h.budget = b
        BY <1>1, <1>7, <3>1, PlansAfterCategoryIsHolding
      <3> QED BY <1>6, <1>7, <3>2
    <2>2. CASE patch.category \notin {None, budgets[b].category}
      <3>1. h = [a EXCEPT !.at = "category"]
        BY <2>2
      <3> HIDE DEF h
      <3>2. h \in Plans!Holding /\ h.at = "category" /\ h.budget = b /\ h.auto = auto /\ h.patch = p
        BY <1>7, <3>1 DEF Plans!Holding
      <3>3. Plans!HoldOK(h)
        BY <1>1, <1>4, <2>2, <3>2 DEF Plans!HoldOK
      <3> QED BY <1>6, <3>2, <3>3
    <2> QED BY <2>1, <2>2
  <1> HIDE DEF h
  <1> QED BY <1>1, <1>5, <1>8, PlansContinues, PlansKnown DEF PlansKeeps

LEMMA PlansCheckCategoryStep ==
  ASSUME Plans!IInv, NEW r \in Requests, Plans!CheckCategory(r), NEW S \in SUBSET Requests,
         Plans!Observe(S)
  PROVE PlansKeeps
  <1> DEFINE a == budgeting[r]
             h == Plans!AfterCategory(a)
  <1>1. a \in Plans!Holding /\ Plans!HoldOK(a) /\ a.at = "category"
    BY PlansKnown DEF Plans!CheckCategory
  <1>2. a.budget \in Ids
    BY <1>1 DEF Plans!HoldOK
  <1>3. CASE a.patch.category \in categories /\ Plans!Continue(r, h)
    <2>1. a.patch.category \in Own
      BY <1>3 DEF Plans!IInv, Plans!TypeOK
    <2>2. /\ h \in Plans!Holding /\ Plans!HoldOK(h) /\ h.at \in {"patch", "sync", "idle"}
          /\ h.at = "patch" => h.auto = a.auto /\ h.patch = a.patch /\ h.budget = a.budget
      BY <1>1, <1>2, <2>1, PlansAfterCategoryIsHolding
    <2>3. r \in late \/ Plans!Fresh(r)
      BY DEF Plans!IInv
    <2> HIDE DEF h
    <2>4. \/ r \in late
          \/ h.at = "patch" =>
               h.auto = IF h.patch.auto = None THEN budgets[h.budget].auto ELSE h.patch.auto
      BY <1>1, <2>2, <2>3 DEF Plans!Fresh
    <2> QED BY <1>1, <1>3, <2>2, <2>4, PlansContinues, PlansKnown DEF PlansKeeps
  <1>4. CASE Plans!Continue(r, Plans!Idle)
    BY <1>1, <1>4, PlansRequestStops
  <1> QED BY <1>3, <1>4 DEF Plans!CheckCategory

\* What a patch leaves is a row of a budget.
LEMMA PlansPatchedIsBudget ==
  ASSUME NEW row \in Plans!Budget, row.category \in Own, NEW patch \in Plans!Patch,
         patch.category \in Own \union {None}
  PROVE  LET new == Plans!Patched(row, patch) IN
         /\ new \in Plans!Budget /\ new.category \in Own
         /\ new.auto = IF patch.auto = None THEN row.auto ELSE patch.auto
  <1> DEFINE new == Plans!Patched(row, patch)
             is(f) == IF patch[f] = None THEN row[f] ELSE patch[f]
  <1>1. DOMAIN row = {"category", "month", "amount", "auto"}
    BY DEF Plans!Budget
  <1>2. new = [f \in {"category", "month", "amount", "auto"} |-> is(f)]
    BY <1>1 DEF Plans!Patched
  <1>3. new = [category |-> is("category"), month |-> is("month"),
               amount |-> is("amount"), auto |-> is("auto")]
    BY <1>2
  <1>4. /\ is("category") \in Own /\ is("month") \in Months
        /\ is("amount") \in Plans!Sums /\ is("auto") \in BOOLEAN
    BY PlansAmountsAreSums, PlansConstants DEF Plans!Budget, Plans!Patch, Plans!Amounts
  <1>5. Own \subseteq Plans!Categories
    BY DEF Plans!Categories
  <1>6. is("auto") = IF patch.auto = None THEN row.auto ELSE patch.auto
    OBVIOUS
  <1> HIDE DEF is
  <1>7. new \in Plans!Budget /\ new.category \in Own /\ new.auto = is("auto")
    BY <1>3, <1>4, <1>5 DEF Plans!Budget
  <1> QED BY <1>6, <1>7

LEMMA PlansWritePatchStep ==
  ASSUME Plans!IInv, NEW r \in Requests, Plans!WritePatch(r), NEW S \in SUBSET Requests,
         Plans!Observe(S)
  PROVE PlansKeeps
  <1>1. PICK b : b = budgeting[r].budget
    OBVIOUS
  <1>2. PICK row : row = Plans!Patched(budgets[b], budgeting[r].patch)
    OBVIOUS
  <1>3. budgeting[r] \in Plans!Holding /\ Plans!HoldOK(budgeting[r]) /\ budgeting[r].at = "patch"
    BY PlansKnown DEF Plans!WritePatch
  <1>4. /\ b \in Ids /\ budgeting[r].patch \in Plans!Patch
        /\ budgeting[r].patch.category \in Own \union {None}
        /\ budgeting[r].auto \in BOOLEAN
    BY <1>1, <1>3 DEF Plans!HoldOK, Plans!Holding
  <1> DEFINE h == Plans!AfterSave(b, budgeting[r].auto)
  <1>5. /\ h \in Plans!Holding /\ Plans!HoldOK(h) /\ h.at = IF budgeting[r].auto THEN "sync" ELSE "idle"
        /\ h.at = "sync" => h.budget = b
    BY <1>4, PlansAfterSaveIsHolding
  <1> HIDE DEF h
  <1>6. CASE Plans!Continue(r, h)
    BY <1>3, <1>5, <1>6, PlansContinues, PlansKnown DEF PlansKeeps
  <1>7. CASE /\ Plans!Exists(b) /\ Plans!Accepted(b, row) /\ Plans!WriteBudget(b, row)
             /\ Plans!Go(r, h)
    <2>1. budgets[b] \in Plans!Budget /\ budgets[b].category \in Own
      BY <1>4, <1>7, PlansKnown
    <2>2. /\ row \in Plans!Budget /\ row.category \in Own
          /\ row.auto = IF budgeting[r].patch.auto
               = None THEN budgets[b].auto ELSE budgeting[r].patch.auto
      BY <1>2, <1>4, <2>1, PlansPatchedIsBudget
    <2>3. r \in late \/ row.auto = budgeting[r].auto
      BY <1>1, <1>3, <2>2 DEF Plans!IInv, Plans!Fresh
    <2>4. row.auto => h.at = "sync" \/ (r \in late /\ budgeting[r].budget = b /\ h # budgeting[r])
      BY <1>1, <1>3, <1>5, <2>3
    <2> QED BY <1>1, <1>3, <1>4, <1>5, <1>7, <2>2, <2>4, PlansWritesBudget
        DEF Plans!Accepted, NoOther, PlansKeeps
  <1>8. CASE Plans!Continue(r, Plans!Idle)
    BY <1>3, <1>8, PlansRequestStops
  <1> QED BY <1>1, <1>2, <1>6, <1>7, <1>8 DEF Plans!WritePatch, h

-----------------------------------------------------------------------------
\* The requests that find their budget, and go on with the first statement.
LEMMA PlansFoundStep ==
  ASSUME Plans!IInv, NEW r \in Requests, NEW b \in Plans!AllIds,
         \/ Plans!Remove(r, b) \/ Plans!AddDetail(r, b) \/ Plans!UpdateDetail(r, b)
              \/ Plans!RemoveDetail(r, b),
         NEW S \in SUBSET Requests, Plans!Observe(S)
  PROVE PlansKeeps
  <1>1. b \in Ids /\ budgeting[r].at = "idle"
    BY PlansKnown DEF Plans!Remove, Plans!AddDetail, Plans!UpdateDetail, Plans!RemoveDetail
  <1>2. ASSUME NEW h \in Plans!Holding, Plans!HoldOK(h),
        h.at \in {"delete", "add", "find", "drop"}, Plans!Continue(r, h)
        PROVE  PlansKeeps
    BY <1>1, <1>2, PlansContinues, PlansKnown DEF PlansKeeps
  <1>3. CASE Plans!Remove(r, b)
    <2> DEFINE h == [Plans!Idle EXCEPT !.at = "delete", !.budget = b]
    <2>1. h \in Plans!Holding /\ Plans!HoldOK(h) /\ h.at = "delete" /\ Plans!Continue(r, h)
      BY <1>1, <1>3, PlansIdleIsHolding
        DEF Plans!Idle, Plans!Holding, Plans!HoldOK, Plans!Remove, Plans!AllIds
    <2> HIDE DEF h
    <2> QED BY <1>2, <2>1
  <1>4. CASE Plans!AddDetail(r, b)
    <2>1. PICK amount \in Plans!Amounts :
          Plans!Continue(r, [Plans!Idle EXCEPT !.at = "add", !.budget = b, !.amount = amount])
      BY <1>4 DEF Plans!AddDetail
    <2> DEFINE h == [Plans!Idle EXCEPT !.at = "add", !.budget = b, !.amount = amount]
    <2>2. h \in Plans!Holding /\ Plans!HoldOK(h) /\ h.at = "add"
      BY <1>1, PlansIdleIsHolding, PlansAmountsAreSums
        DEF Plans!Idle, Plans!Holding, Plans!HoldOK, Plans!AllIds
    <2>3. Plans!Continue(r, h)
      BY <2>1
    <2> HIDE DEF h
    <2> QED BY <1>2, <2>2, <2>3
  <1>5. CASE Plans!UpdateDetail(r, b)
    <2>1. PICK d \in DetailIds :
          Plans!Continue(r, [Plans!Idle EXCEPT !.at = "find", !.budget = b, !.detail = d])
      BY <1>5 DEF Plans!UpdateDetail
    <2> DEFINE h == [Plans!Idle EXCEPT !.at = "find", !.budget = b, !.detail = d]
    <2>2. h \in Plans!Holding /\ Plans!HoldOK(h) /\ h.at = "find"
      BY <1>1, PlansIdleIsHolding DEF Plans!Idle, Plans!Holding, Plans!HoldOK, Plans!AllIds
    <2>3. Plans!Continue(r, h)
      BY <2>1
    <2> HIDE DEF h
    <2> QED BY <1>2, <2>2, <2>3
  <1>6. CASE Plans!RemoveDetail(r, b)
    <2>1. PICK d \in DetailIds :
          Plans!Continue(r, [Plans!Idle EXCEPT !.at = "drop", !.budget = b, !.detail = d])
      BY <1>6 DEF Plans!RemoveDetail
    <2> DEFINE h == [Plans!Idle EXCEPT !.at = "drop", !.budget = b, !.detail = d]
    <2>2. h \in Plans!Holding /\ Plans!HoldOK(h) /\ h.at = "drop"
      BY <1>1, PlansIdleIsHolding DEF Plans!Idle, Plans!Holding, Plans!HoldOK, Plans!AllIds
    <2>3. Plans!Continue(r, h)
      BY <2>1
    <2> HIDE DEF h
    <2> QED BY <1>2, <2>2, <2>3
  <1> QED BY <1>3, <1>4, <1>5, <1>6

\* Removal, of a budget and of a category.
LEMMA PlansDeleteStep ==
  ASSUME Plans!IInv, NEW r \in Requests, Plans!Delete(r), NEW S \in SUBSET Requests,
         Plans!Observe(S)
  PROVE PlansKeeps
  <1>1. PICK b : b = budgeting[r].budget
    OBVIOUS
  <1>2. b \in Ids /\ budgeting[r].at = "delete"
    BY <1>1, PlansKnown DEF Plans!Delete, Plans!HoldOK
  <1>3. /\ budgeting' \in [Requests -> Plans!Holding]
        /\ \A q \in Requests :
              budgeting'[q] = budgeting[q]
                \/ (budgeting'[q] = Plans!Idle /\ budgeting[q].at \notin {"sync", "sum"})
    BY <1>2, PlansIdleIsHolding, PlansKnown DEF Plans!Delete, Plans!Go
  <1>4. {b} \in SUBSET Ids /\ Plans!DeleteAll({b}) /\ categories' \subseteq categories
    BY <1>1, <1>2 DEF Plans!Delete
  <1> QED BY <1>3, <1>4, PlansDeletesAll DEF PlansKeeps

LEMMA PlansRemoveCategoryStep ==
  ASSUME Plans!IInv, NEW c \in Own, Plans!RemoveCategory(c), NEW S \in SUBSET Requests,
         Plans!Observe(S)
  PROVE PlansKeeps
  <1>1. PICK gone : gone = {b \in Plans!AllIds : budgets[b].category = c}
    OBVIOUS
  <1>2. gone \in SUBSET Ids
    BY <1>1, PlansKnown
  <1>3. Plans!DeleteAll(gone) /\ categories' \subseteq categories /\ budgeting' = budgeting
    BY <1>1 DEF Plans!RemoveCategory
  <1> QED BY <1>2, <1>3, PlansDeletesAll, PlansKnown DEF PlansKeeps

\* Details.
LEMMA PlansSaveDetailStep ==
  ASSUME Plans!IInv, NEW r \in Requests, NEW d \in DetailIds, Plans!SaveDetail(r, d),
         NEW S \in SUBSET Requests, Plans!Observe(S)
  PROVE PlansKeeps
  <1>1. PICK b : b = budgeting[r].budget
    OBVIOUS
  <1>2. PICK row : row = [budget |-> b, amount |-> budgeting[r].amount]
    OBVIOUS
  <1>3. /\ Plans!HoldOK(budgeting[r]) /\ budgeting[r].at \in {"add", "change"}
        /\ details[d] = Plans!NoDetail \/ (budgeting[r].at = "change" /\ budgeting[r].detail = d)
    BY PlansKnown DEF Plans!SaveDetail
  <1>4. b \in Ids /\ row \in Plans!Detail /\ row.budget = b
    BY <1>1, <1>2, <1>3 DEF Plans!HoldOK, Plans!Detail, Plans!AllIds
  <1>5. CASE Plans!Continue(r, Plans!Idle)
    BY <1>3, <1>5, PlansRequestStops
  <1>6. CASE Plans!WriteDetail(d, row) /\ Plans!Go(r, Plans!Synced(b))
    <2>1. /\ details[d].budget \in {b, None}
          /\ \A q \in Requests \ {r} :
                budgeting[q].at = "change" /\ budgeting[q].detail = d => budgeting[q].budget = b
      <3>1. CASE details[d] = Plans!NoDetail /\ \A q \in Requests : budgeting[q].detail # d
        BY <3>1 DEF Plans!NoDetail
      <3>2. CASE budgeting[r].at = "change" /\ budgeting[r].detail = d
        BY <1>1, <3>2 DEF Plans!IInv, Plans!Saving
      <3> QED BY <3>1, <3>2 DEF Plans!SaveDetail
    <2> QED BY <1>3, <1>4, <1>6, <2>1, PlansWritesDetail, PlansKnown DEF PlansKeeps
  <1> QED BY <1>1, <1>2, <1>5, <1>6 DEF Plans!SaveDetail

LEMMA PlansFindDetailStep ==
  ASSUME Plans!IInv, NEW r \in Requests, Plans!FindDetail(r), NEW S \in SUBSET Requests,
         Plans!Observe(S)
  PROVE PlansKeeps
  <1> DEFINE a == budgeting[r]
  <1>1. a \in Plans!Holding /\ Plans!HoldOK(a) /\ a.at = "find"
    BY PlansKnown DEF Plans!FindDetail
  <1>2. CASE Plans!Continue(r, Plans!Idle)
    BY <1>1, <1>2, PlansRequestStops
  <1>3. CASE /\ details[a.detail].budget = a.budget
             /\ \E amount \in Plans!Amounts :
                   Plans!Continue(r, [a EXCEPT !.at = "change", !.amount = amount])
    <2>1. PICK amount \in Plans!Amounts :
          Plans!Continue(r, [a EXCEPT !.at = "change", !.amount = amount])
      BY <1>3
    <2> DEFINE h == [a EXCEPT !.at = "change", !.amount = amount]
    <2>2. /\ h \in Plans!Holding /\ Plans!HoldOK(h) /\ h.at = "change" /\ h.detail = a.detail
          /\ h.budget = a.budget
      BY <1>1, PlansAmountsAreSums DEF Plans!Holding, Plans!HoldOK
    <2>3. Plans!Continue(r, h)
      BY <2>1
    <2> HIDE DEF h
    <2> QED BY <1>1, <1>3, <2>2, <2>3, PlansContinues, PlansKnown DEF PlansKeeps
  <1> QED BY <1>2, <1>3 DEF Plans!FindDetail

LEMMA PlansDropDetailStep ==
  ASSUME Plans!IInv, NEW r \in Requests, Plans!DropDetail(r), NEW S \in SUBSET Requests,
         Plans!Observe(S)
  PROVE PlansKeeps
  <1>1. PICK b, d : b = budgeting[r].budget /\ d = budgeting[r].detail
    OBVIOUS
  <1>2. Plans!HoldOK(budgeting[r]) /\ budgeting[r].at = "drop"
    BY PlansKnown DEF Plans!DropDetail
  <1>3. b \in Ids /\ d \in DetailIds
    BY <1>1, <1>2 DEF Plans!HoldOK
  <1>4. CASE Plans!Continue(r, Plans!Idle)
    BY <1>2, <1>4, PlansRequestStops
  <1>5. CASE /\ details[d].budget = b /\ Plans!WriteDetail(d, Plans!NoDetail)
             /\ Plans!Go(r, Plans!Synced(b))
    <2>1. \A q \in Requests \ {r} :
             budgeting[q].at = "change" /\ budgeting[q].detail = d => budgeting[q].budget = b
      BY <1>3, <1>5, PlansConstants DEF Plans!IInv, Plans!Saving, Plans!AllIds
    <2>2. Plans!NoDetail.budget = None
      BY DEF Plans!NoDetail
    <2> QED BY <1>2, <1>3, <1>5, <2>1, <2>2, PlansWritesDetail, PlansKnown DEF PlansKeeps
  <1> QED BY <1>1, <1>4, <1>5 DEF Plans!DropDetail

\* The sum.
LEMMA PlansReadDetailsStep ==
  ASSUME Plans!IInv, NEW r \in Requests, Plans!ReadDetails(r), NEW S \in SUBSET Requests,
         Plans!Observe(S)
  PROVE PlansKeeps
  <1>1. PICK b : b = budgeting[r].budget
    OBVIOUS
  <1>2. Plans!HoldOK(budgeting[r]) /\ budgeting[r].at = "sync"
    BY PlansKnown DEF Plans!ReadDetails
  <1>3. b \in Ids /\ b \in Plans!AllIds
    BY <1>1, <1>2, PlansKnown DEF Plans!HoldOK
  <1>4. CASE ~ budgets[b].auto /\ Plans!Continue(r, Plans!Idle)
    <2>1. \A c \in Plans!AllIds : c = b => ~ Plans!Wrong(c)
      BY <1>4 DEF Plans!Wrong
    <2>2. Plans!Idle.at = "idle"
      BY DEF Plans!Idle
    <2> QED BY <1>1, <1>4, <2>1, <2>2, PlansIdleIsHolding, PlansContinues, PlansKnown DEF PlansKeeps
  <1>5. CASE Plans!Continue(r, [Plans!Synced(b) EXCEPT !.at = "sum", !.amount = Plans!Sum(b)])
    <2>1. PICK s : s = Plans!Sum(b)
      OBVIOUS
    <2> DEFINE h == [Plans!Synced(b) EXCEPT !.at = "sum", !.amount = s]
    <2>2. s \in Plans!Sums
      BY <1>3, <2>1, PlansSumIsSum DEF Plans!IInv
    <2>3. h \in Plans!Holding /\ Plans!HoldOK(h) /\ h.at = "sum" /\ h.budget = b /\ h.amount = s
      <3>1. PICK a \in Plans!Holding : a = Plans!Synced(b) /\ a.budget = b
        BY <1>3, PlansSyncedIsHolding
      <3>2. h = [a EXCEPT !.at = "sum", !.amount = s]
        BY <3>1
      <3> HIDE DEF h
      <3>3. h \in Plans!Holding /\ h.at = "sum" /\ h.budget = b /\ h.amount = s
        BY <2>2, <3>1, <3>2 DEF Plans!Holding
      <3> QED BY <1>3, <3>3 DEF Plans!HoldOK
    <2>4. Plans!Continue(r, h)
      BY <1>5, <2>1
    <2> HIDE DEF h
    <2> QED BY <1>1, <1>2, <1>3, <2>1, <2>3, <2>4, PlansContinues, PlansKnown DEF PlansKeeps
  <1> QED BY <1>1, <1>4, <1>5 DEF Plans!ReadDetails

LEMMA PlansWriteSumStep ==
  ASSUME Plans!IInv, NEW r \in Requests, Plans!WriteSum(r), NEW S \in SUBSET Requests,
         Plans!Observe(S)
  PROVE PlansKeeps
  <1>1. PICK b : b = budgeting[r].budget
    OBVIOUS
  <1>2. PICK row : row = [budgets[b] EXCEPT !.amount = budgeting[r].amount]
    OBVIOUS
  <1>3. Plans!HoldOK(budgeting[r]) /\ budgeting[r] \in Plans!Holding /\ budgeting[r].at = "sum"
    BY PlansKnown DEF Plans!WriteSum
  <1>4. b \in Ids /\ b \in Plans!AllIds /\ Plans!Idle.at = "idle" /\ Plans!Idle # budgeting[r]
    BY <1>1, <1>3, PlansKnown DEF Plans!HoldOK, Plans!Idle
  <1>5. CASE ~ Plans!Exists(b) /\ Plans!Continue(r, Plans!Idle)
    <2>1. \A c \in Plans!AllIds : c = b => ~ Plans!Wrong(c)
      BY <1>5 DEF Plans!Exists, Plans!Wrong, Plans!NoBudget
    <2> QED BY <1>1, <1>3, <1>4, <1>5, <2>1, PlansIdleIsHolding, PlansContinues, PlansKnown
        DEF PlansKeeps
  <1>6. CASE Plans!Exists(b) /\ Plans!WriteBudget(b, row) /\ Plans!Go(r, Plans!Idle)
    <2>1. budgets[b] \in Plans!Budget /\ budgets[b].category \in Own
      BY <1>4, <1>6, PlansKnown
    <2>2. /\ row \in Plans!Budget /\ row.category = budgets[b].category
          /\ row.month = budgets[b].month /\ row.amount = budgeting[r].amount
      BY <1>2, <1>3, <2>1 DEF Plans!Budget, Plans!Holding
    <2>3. r \in late \/ row.amount = Plans!Sum(b)
      BY <1>1, <1>3, <2>2 DEF Plans!IInv, Plans!Fresh
    <2>4. NoOther(b, row)
      BY <1>4, <1>6, <2>2 DEF Plans!IInv, Plans!OneBudgetForAMonth, NoOther
    <2> QED BY <1>1, <1>3, <1>4, <1>6, <2>1, <2>2, <2>3, <2>4, PlansIdleIsHolding, PlansWritesBudget
        DEF PlansKeeps
  <1> QED BY <1>1, <1>2, <1>5, <1>6 DEF Plans!WriteSum, Plans!Continue

-----------------------------------------------------------------------------
\* Every step.
LEMMA PlansNextKeeps ==
  ASSUME Plans!IInv, Plans!Next
  PROVE  PlansKeeps
  <1>1. ASSUME Plans!Step, Plans!Observe({})
        PROVE  PlansKeeps
    <2>1. {} \in SUBSET Requests
      OBVIOUS
    <2> QED BY <1>1, <2>1, PlansCreateStep, PlansFindExistingStep, PlansSaveExistingStep,
        PlansCheckCategoryStep,
               PlansWritePatchStep, PlansDeleteStep, PlansFindDetailStep, PlansDropDetailStep,
                                    PlansReadDetailsStep,
               PlansWriteSumStep, PlansInsertStep, PlansUpdateStep, PlansFoundStep,
                                  PlansSaveDetailStep,
               PlansRemoveCategoryStep DEF Plans!Step
  <1> QED BY <1>1, PlansStopStep DEF Plans!Next

LEMMA PlansStutterKeeps ==
  ASSUME Plans!IInv, UNCHANGED Plans!vars
  PROVE  PlansKeeps
  <1>1. UNCHANGED <<categories, budgets, details, budgeting, late, excused>>
    BY DEF Plans!vars, Plans!tables
  <1>2. \A b \in Plans!AllIds : Plans!Sum(b)' = Plans!Sum(b)
    BY <1>1, PlansSumStays
  <1>3. Plans!TypeOK' /\ Plans!OfTheUser' /\ Plans!Saving' /\ Plans!OneBudgetForAMonth'
    BY <1>1
      DEF Plans!IInv, Plans!TypeOK, Plans!OfTheUser, Plans!Saving, Plans!OneBudgetForAMonth,
          Plans!Exists
  <1>4. (\A r \in Requests : Plans!HoldOK(budgeting[r]))'
    BY <1>1 DEF Plans!IInv, Plans!HoldOK
  <1>5. (\A r \in Requests \ late : Plans!Fresh(r))'
    <2>1. ASSUME NEW r \in Requests, r \notin late, budgeting[r].at \in {"sum", "category", "patch"}
          PROVE  budgeting[r].budget \in Plans!AllIds /\ Plans!Fresh(r)
      BY <2>1 DEF Plans!IInv, Plans!HoldOK, Plans!AllIds
    <2> QED BY <1>1, <1>2, <2>1 DEF Plans!Fresh
  <1>6. Plans!AmountIsTheSum'
    BY <1>1, <1>2 DEF Plans!IInv, Plans!AmountIsTheSum, Plans!Wrong
  <1> QED BY <1>1, <1>3, <1>4, <1>5, <1>6, PlansKnown DEF Plans!IInv, PlansKeeps

\* The step of Plans!BudgetsStayWithTheirUser.
PlansStayWithTheirUser ==
    /\ \A b \in OtherIds :
          budgets'[b] = budgets[b] /\ {d \in DetailIds : details'[d].budget = b} = {}
    /\ \A b \in Ids : budgets'[b].category \notin Other

\* The budgets of the other user stay.
LEMMA PlansKeptStay ==
  ASSUME Plans!IInv, PlansKeeps PROVE PlansStayWithTheirUser
  <1>1. \A b \in Ids : budgets'[b] \in Plans!Budget \union {Plans!NoBudget}
    BY DEF PlansKeeps, Plans!IInv, Plans!TypeOK, Plans!AllIds
  <1>2. Plans!NoBudget.category \notin Other /\ Own \intersect Other = {}
    BY PlansConstants DEF Plans!NoBudget, Plans!Categories
  <1>3. Plans!OfTheUser'
    BY DEF PlansKeeps, Plans!IInv
  <1> QED BY <1>1, <1>2, <1>3 DEF PlansKeeps, Plans!OfTheUser, PlansStayWithTheirUser

\* The amounts of the budgets, whatever the requests do.
THEOREM BudgetsInvariant == Plans!Spec => []Plans!IInv
  <1>1. Plans!IInv /\ [Plans!Next]_Plans!vars => Plans!IInv'
    BY PlansNextKeeps, PlansStutterKeeps DEF PlansKeeps
  <1> QED BY <1>1, PlansInitIInv, PTL DEF Plans!Spec

\* The budgets of another user do not change.
THEOREM BudgetsStay == Plans!Spec => Plans!BudgetsStayWithTheirUser
  <1>1. Plans!IInv /\ [Plans!Next]_Plans!vars => [PlansStayWithTheirUser]_Plans!vars
    BY PlansNextKeeps, PlansKeptStay
  <1>2. Plans!BudgetsStayWithTheirUser <=> [][PlansStayWithTheirUser]_Plans!vars
    BY DEF Plans!BudgetsStayWithTheirUser, PlansStayWithTheirUser
  <1> QED BY <1>1, <1>2, BudgetsInvariant, PTL DEF Plans!Spec

(***************************************************************************)
(* One request at a time, to its end: the history excuses nothing else.    *)
(***************************************************************************)
\* While a request is between two statements, only it goes on, and no request stops there.
PlansOneAtATime ==
    [][\A r \in Requests : budgeting[r].at # "idle" => budgeting'[r] # budgeting[r]]_Plans!vars
PlansNoneStops == [][Plans!Step /\ Plans!Observe({})]_Plans!vars

PlansExcuseNothing == late = {} /\ excused = {}

\* The amount of an automatic budget is the sum of its details, or somebody is about to
\* write it.
PlansSumIsOnItsWay ==
    \A b \in Plans!AllIds :
        Plans!Wrong(b) =>
            \E r \in Requests : budgeting[r].at \in {"sync", "sum"} /\ budgeting[r].budget = b

LEMMA PlansStillExcuseNothing ==
  ASSUME PlansExcuseNothing, [Plans!Step /\ Plans!Observe({})]_Plans!vars,
         [\A r \in Requests :
             budgeting[r].at # "idle" => budgeting'[r] # budgeting[r]]_Plans!vars
  PROVE  PlansExcuseNothing'
  <1>1. CASE UNCHANGED Plans!vars
    BY <1>1 DEF Plans!vars, PlansExcuseNothing
  <1>2. CASE Plans!Observe({})
             /\ \A r \in Requests : budgeting[r].at # "idle" => budgeting'[r] # budgeting[r]
    <2>1. late' = {}
      BY <1>2 DEF Plans!Observe, PlansExcuseNothing
    <2>2. excused' = {}
      BY <1>2 DEF Plans!Observe, PlansExcuseNothing
    <2> QED BY <2>1, <2>2 DEF PlansExcuseNothing
  <1> QED BY <1>1, <1>2

\* syncAmountFromDetailsIfNeeded: requests that do not overlap and run to their end leave
\* every automatic amount the sum of its details, through any sequence of them.
THEOREM BudgetsAloneAddUp ==
  Plans!Spec /\ PlansOneAtATime /\ PlansNoneStops => []PlansSumIsOnItsWay
  <1>1. Plans!Init => PlansExcuseNothing
    BY DEF Plans!Init, PlansExcuseNothing
  <1>2. Plans!IInv /\ PlansExcuseNothing => PlansSumIsOnItsWay
    BY DEF Plans!IInv, Plans!AmountIsTheSum, PlansExcuseNothing, PlansSumIsOnItsWay
  <1> QED
    BY <1>1, <1>2, PlansStillExcuseNothing, BudgetsInvariant, PTL
    DEF Plans!Spec, PlansOneAtATime, PlansNoneStops

(***************************************************************************)
(* The same of the specification that is run: a step of PasswordReset or   *)
(* of Login leaves every variable of Budgets as it is.                     *)
(***************************************************************************)
LEMMA AccessStepsArePlans ==
  /\ AccessInit => Plans!Init
  /\ [AccessNext]_<<part, vars, login, planned>> => [Plans!Next]_Plans!vars
  <1>1. UNCHANGED planned => UNCHANGED Plans!vars
    BY DEF planned, Plans!vars, Plans!tables
  <1> QED BY <1>1 DEF AccessInit, AccessNext

LEMMA AccessPlans == AccessSpec => Plans!Spec
  BY AccessStepsArePlans, PTL DEF AccessSpec, Plans!Spec

\* The amount of an automatic budget is the sum of its details as soon as nobody has a
\* sum to write for it, but for what late and stopped requests do
\* (syncAmountFromDetailsIfNeeded), and a category has one budget for a month.
THEOREM AccessBudgetsAddUp == AccessSpec => []BudgetsAddUp
  <1>1. Plans!IInv => BudgetsAddUp
    BY DEF Plans!IInv, BudgetsAddUp
  <1> QED BY <1>1, AccessPlans, BudgetsInvariant, PTL

\* No request of a user changes a budget of another one, puts details in it, or moves a
\* budget to a category of the other one (findOne of BudgetsService).
THEOREM AccessBudgetsStay == AccessSpec => BudgetsStayWithTheirUser
  BY AccessPlans, BudgetsStay DEF BudgetsStayWithTheirUser

-----------------------------------------------------------------------------
(* Login. *)

\* The operators of the instance are those of the library.
LEMMA LoginInstanceCardinality == ASSUME NEW S PROVE Login!Cardinality(S) = Cardinality(S)
  BY DEF Login!Cardinality, Cardinality

LEMMA LoginInstanceSum ==
  ASSUME NEW f, NEW S
  PROVE  Login!SumFunctionOnSet(f, S) = SumFunctionOnSet(f, S)
  BY DEF Login!SumFunctionOnSet, SumFunctionOnSet,
         Login!FoldFunctionOnSet, FoldFunctionOnSet, Login!MapThenFoldSet, MapThenFoldSet

LEMMA LoginInstanceChoose == ASSUME NEW n, NEW k PROVE Login!choose(n, k) = choose(n, k)
  BY DEF Login!choose, choose, Login!factorial, factorial

LEMMA LoginInstanceGain ==
  ASSUME NEW i, NEW n
  PROVE  Login!Gain(i, n) = choose(n + i, i) - choose(n + i - 1, i - 1)
  BY LoginInstanceChoose DEF Login!Gain

\* What the gain of n requests is.
LEMMA LoginGainIs ==
  ASSUME NEW i \in Nat \ {0}, NEW n \in Nat
  PROVE  /\ Login!Gain(i, n) = Ways(i, n) - Ways(i - 1, n)
         /\ Login!Gain(i, n) = IF n = 0 THEN 0 ELSE Ways(i, n - 1)
         /\ Login!Gain(i, n) \in Nat
  <1>1. Login!Gain(i, n) = Ways(i, n) - Ways(i - 1, n)
    <2>1. n + (i - 1) = n + i - 1
      OBVIOUS
    <2> QED BY <2>1, LoginInstanceGain DEF Ways
  <1>2. i - 1 \in Nat
    OBVIOUS
  <1>3. CASE n = 0
    <2>1. Ways(i, 0) = 1 /\ Ways(i - 1, 0) = 1
      BY <1>2, WaysFacts
    <2> QED BY <1>1, <1>3, <2>1
  <1>4. CASE n # 0
    <2>1. n - 1 \in Nat
      BY <1>4
    <2>3. Ways(i, n - 1) \in Nat /\ Ways(i - 1, n) \in Nat
      BY <1>2, <2>1, WaysFacts
    <2>2. Ways(i, n) = Ways(i - 1, n) + Ways(i, n - 1)
      BY <1>4, WaysFacts
    <2> QED BY <1>1, <1>4, <2>2, <2>3
  <1> QED BY <1>1, <1>3, <1>4

LEMMA LoginGainGrows ==
  ASSUME NEW i \in Nat \ {0}, NEW n \in Nat, NEW m \in Nat, n <= m
  PROVE  Login!Gain(i, n) <= Login!Gain(i, m)
  <1>1. CASE n = 0
    BY <1>1, LoginGainIs
  <1>2. CASE n # 0
    <2>1. n - 1 \in Nat /\ m - 1 \in Nat /\ n - 1 <= m - 1 /\ m # 0
      BY <1>2
    <2>2. Login!Gain(i, n) = Ways(i, n - 1) /\ Login!Gain(i, m) = Ways(i, m - 1)
      BY <1>2, <2>1, LoginGainIs
    <2> QED BY <2>1, <2>2, WaysGrow
  <1> QED BY <1>1, <1>2

\* The sum of the gains of m requests, from the level d below the maximum.
LEMMA LoginGainsAddUp ==
  ASSUME NEW w, NEW m \in Nat, NEW e \in 0 .. MaxFailed - 1,
         \A j \in MaxFailed - e .. MaxFailed - 1 :
            w[j] \in Nat /\ w[j] <= Login!Gain(MaxFailed - j, m)
  PROVE  SumFunctionOnSet(w, MaxFailed - e .. MaxFailed - 1) <= Ways(e, m) - 1
  <1> DEFINE S(d) == MaxFailed - d .. MaxFailed - 1
             B == {d \in 0 .. e : ~ (SumFunctionOnSet(w, S(d)) <= Ways(d, m) - 1)}
  <1>1. SUFFICES ASSUME B # {} PROVE FALSE
    <2>1. e \in 0 .. e
      OBVIOUS
    <2> QED BY <2>1
  <1>2. PICK d \in B : \A k \in B : d <= k
    <2>1. B \in SUBSET Nat
      OBVIOUS
    <2> HIDE DEF B
    <2> QED BY <1>1, <2>1, LeastNumber
  <1>3. MaxFailed \in Nat \ {0} /\ e \in Nat /\ d \in 0 .. e /\ e < MaxFailed
    BY LoginConstants
  <1>4. d # 0
    <2>1. ASSUME d = 0 PROVE FALSE
      <3>1. S(0) = {}
        BY <1>3
      <3>2. S(d) = {} /\ Ways(d, m) = 1
        BY <2>1, <3>1, WaysFacts
      <3> HIDE DEF S
      <3>3. SumFunctionOnSet(w, S(d)) = 0
        BY <3>2, SumOfNone
      <3>4. SumFunctionOnSet(w, S(d)) <= Ways(d, m) - 1
        BY <3>2, <3>3
      <3> QED BY <1>2, <3>4
    <2> QED BY <2>1
  <1>5. d - 1 \in 0 .. e /\ d - 1 \notin B /\ d - 1 \in Nat /\ d \in Nat \ {0}
    BY <1>2, <1>3, <1>4
  <1>6. SumFunctionOnSet(w, S(d - 1)) <= Ways(d - 1, m) - 1
    BY <1>5
  <1> DEFINE x == MaxFailed - d
  <1>7. /\ x \in Nat /\ S(d) = S(d - 1) \union {x} /\ x \notin S(d - 1) /\ IsFiniteSet(S(d - 1))
        /\ x \in MaxFailed - e .. MaxFailed - 1 /\ MaxFailed - x = d
        /\ S(d - 1) \subseteq MaxFailed - e .. MaxFailed - 1
    <2>1. x \in Nat /\ x \in MaxFailed - e .. MaxFailed - 1 /\ MaxFailed - x = d
      BY <1>3, <1>4
    <2>2. S(d - 1) = x + 1 .. MaxFailed - 1
      BY <1>3, <1>4
    <2>3. S(d) = x .. MaxFailed - 1
      OBVIOUS
    <2>4. IsFiniteSet(S(d - 1))
      <3>1. x + 1 \in Int /\ MaxFailed - 1 \in Int
        BY <1>3, <2>1
      <3> HIDE DEF S, x
      <3> QED BY <2>2, <3>1, FS_Interval
    <2> HIDE DEF S
    <2>5. S(d) = S(d - 1) \union {x}
      <3>1. ASSUME NEW a \in Nat, NEW b \in Int, a <= b PROVE a .. b = (a + 1 .. b) \union {a}
        <4>1. ASSUME NEW y PROVE y \in a .. b <=> (y \in a + 1 .. b \/ y = a)
          <5>1. CASE y \in Int
            BY <3>1, <5>1
          <5>2. CASE y \notin Int
            BY <3>1, <5>2
          <5> QED BY <5>1, <5>2
        <4> QED BY <4>1
      <3>2. x <= MaxFailed - 1 /\ MaxFailed - 1 \in Int
        BY <1>3, <1>4
      <3> HIDE DEF x
      <3> QED BY <2>1, <2>2, <2>3, <3>1, <3>2
    <2>6. x \notin S(d - 1) /\ S(d - 1) \subseteq MaxFailed - e .. MaxFailed - 1
      BY <1>3, <2>1, <2>2
    <2> QED BY <2>1, <2>4, <2>5, <2>6
  <1> HIDE DEF S, x
  <1>8. w[x] \in Nat /\ w[x] <= Login!Gain(d, m) /\ \A j \in S(d - 1) : w[j] \in Nat
    BY <1>7
  <1>9. SumFunctionOnSet(w, S(d)) = SumFunctionOnSet(w, S(d - 1)) + w[x]
    <2>1. SumFunctionOnSet(w, S(d - 1) \union {x}) = SumFunctionOnSet(w, S(d - 1)) + w[x]
      BY <1>7, <1>8, SumWithElement
    <2> QED BY <1>7, <2>1
  <1>10. SumFunctionOnSet(w, S(d - 1)) \in Int
    BY <1>7, <1>8, SumIsInteger
  <1>11. /\ Login!Gain(d, m) = Ways(d, m) - Ways(d - 1, m)
         /\ Ways(d, m) \in Nat /\ Ways(d - 1, m) \in Nat
    BY <1>5, LoginGainIs, WaysFacts
  <1>12. SumFunctionOnSet(w, S(d)) <= Ways(d, m) - 1
    BY <1>6, <1>8, <1>9, <1>10, <1>11
  <1> QED BY <1>2, <1>12

Levels == 1 .. MaxFailed - 1

LEMMA LoginLevelsAreFinite == IsFiniteSet(Levels) /\ Levels \subseteq Nat \ {0}
  <1>1. 1 \in Int /\ MaxFailed - 1 \in Int
    BY LoginConstants
  <1> QED BY <1>1, FS_Interval DEF Levels

\* The counter goes down, from an old copy: a request more has reached the level over the
\* copy, and none is counted higher.
LEMMA LoginOldCopyGains ==
  ASSUME NEW w, NEW v, \A j \in Levels : w[j] \in Nat /\ v[j] \in Nat,
         NEW c \in Nat, c + 1 \in Levels, NEW m \in Nat,
         \A j \in Levels : j <= c => v[j] = w[j],
         w[c + 1] = Login!Gain(MaxFailed - (c + 1), m),
         v[c + 1] = Login!Gain(MaxFailed - (c + 1), m + 1),
         \A j \in Levels : j > c + 1 => w[j] <= Login!Gain(MaxFailed - j, m)
  PROVE  SumFunctionOnSet(w, Levels) + 1 <= SumFunctionOnSet(v, Levels)
  <1> DEFINE low == 1 .. c
             high == c + 2 .. MaxFailed - 1
             i == MaxFailed - (c + 1)
  <1>1. /\ MaxFailed \in Nat /\ c + 1 <= MaxFailed - 1
        /\ i \in Nat \ {0} /\ i - 1 \in 0 .. MaxFailed - 1
    BY LoginConstants DEF Levels
  <1>2. /\ Levels = low \union ({c + 1} \union high)
        /\ low \intersect ({c + 1} \union high) = {} /\ c + 1 \notin high
        /\ \A j \in low : j <= c
        /\ \A j \in high : j > c + 1
        /\ high = MaxFailed - (i - 1) .. MaxFailed - 1
    BY <1>1 DEF Levels
  <1>3. IsFiniteSet(low) /\ IsFiniteSet(high) /\ IsFiniteSet({c + 1} \union high)
    <2>1. low \subseteq Levels /\ high \subseteq Levels /\ {c + 1} \union high \subseteq Levels
      BY <1>2
    <2> HIDE DEF low, high
    <2> QED BY <2>1, LoginLevelsAreFinite, FS_Subset
  <1> HIDE DEF low, high, i
  <1>4. ASSUME NEW u, \A j \in Levels : u[j] \in Nat
        PROVE  /\ SumFunctionOnSet(u, Levels)
                    = SumFunctionOnSet(u, low) + (SumFunctionOnSet(u, high) + u[c + 1])
               /\ SumFunctionOnSet(u, low) \in Int /\ SumFunctionOnSet(u, high) \in Int
               /\ SumFunctionOnSet(u, high) >= 0
    <2>1. \A j \in Levels : u[j] \in Int
      BY <1>4
    <2>2. SumFunctionOnSet(u, low \union ({c + 1} \union high))
             = SumFunctionOnSet(u, low) + SumFunctionOnSet(u, {c + 1} \union high)
      BY <1>2, <1>3, <2>1, SumSplits
    <2>3. SumFunctionOnSet(u, high \union {c + 1}) = SumFunctionOnSet(u, high) + u[c + 1]
      BY <1>2, <1>3, <2>1, SumWithElement
    <2>4. {c + 1} \union high = high \union {c + 1}
      OBVIOUS
    <2>5. SumFunctionOnSet(u, low) \in Int /\ SumFunctionOnSet(u, high) \in Int
      BY <1>2, <1>3, <2>1, SumIsInteger
    <2>6. SumFunctionOnSet(u, high) >= 0
      <3>1. \A j \in high : u[j] \in Nat
        BY <1>2, <1>4
      <3> QED BY <1>3, <3>1, SumIsNatural
    <2> QED BY <1>2, <2>2, <2>3, <2>4, <2>5, <2>6
  <1>5. SumFunctionOnSet(w, low) = SumFunctionOnSet(v, low)
    <2>1. \A j \in low : w[j] = v[j]
      BY <1>2
    <2> QED BY <1>3, <2>1, SumOfSame
  <1>6. SumFunctionOnSet(w, high) <= Ways(i - 1, m) - 1
    <2>1. \A j \in MaxFailed - (i - 1) .. MaxFailed - 1 :
             w[j] \in Nat /\ w[j] <= Login!Gain(MaxFailed - j, m)
      BY <1>2
    <2>2. SumFunctionOnSet(w, MaxFailed - (i - 1) .. MaxFailed - 1) <= Ways(i - 1, m) - 1
      BY <1>1, <2>1, LoginGainsAddUp
    <2> QED BY <1>2, <2>2
  <1>7. /\ Login!Gain(i, m) = Ways(i, m) - Ways(i - 1, m)
        /\ Login!Gain(i, m + 1) = Ways(i, m)
        /\ Ways(i, m) \in Nat /\ Ways(i - 1, m) \in Nat
    <2>1. m + 1 \in Nat /\ m + 1 # 0 /\ (m + 1) - 1 = m /\ i - 1 \in Nat
      BY <1>1
    <2>2. Login!Gain(i, m) = Ways(i, m) - Ways(i - 1, m)
      BY <1>1, LoginGainIs
    <2>3. Login!Gain(i, m + 1) = Ways(i, (m + 1) - 1)
      BY <1>1, <2>1, LoginGainIs
    <2>4. Ways(i, m) \in Nat /\ Ways(i - 1, m) \in Nat
      BY <1>1, <2>1, WaysFacts
    <2> QED BY <2>1, <2>2, <2>3, <2>4
  <1>8. w[c + 1] = Login!Gain(i, m) /\ v[c + 1] = Login!Gain(i, m + 1)
    BY DEF i
  <1> QED BY <1>4, <1>5, <1>6, <1>7, <1>8

-----------------------------------------------------------------------------
\* For any counters b of the requests: how many have reached j, and what they stand for.
Reached(b, j) == {r \in Logins : b[r] >= j}
Weights(b) == [j \in Levels |-> Login!Gain(MaxFailed - j, Cardinality(Reached(b, j)))]

LEMMA LoginReachedFacts ==
  ASSUME NEW b \in [Logins -> Nat], NEW j \in Nat
  PROVE  /\ IsFiniteSet(Reached(b, j))
         /\ Cardinality(Reached(b, j)) \in Nat
         /\ Cardinality(Reached(b, j)) <= Cardinality(Logins)
         /\ Cardinality(Logins) \in Nat
  <1>1. Reached(b, j) \subseteq Logins
    BY DEF Reached
  <1> QED BY <1>1, LoginConstants, FS_Subset, FS_CardinalityType

LEMMA LoginWeightsAreNatural ==
  ASSUME NEW b \in [Logins -> Nat]
  PROVE  \A j \in Levels : Weights(b)[j] \in Nat
  <1>1. ASSUME NEW j \in Levels PROVE Weights(b)[j] \in Nat
    <2>1. MaxFailed - j \in Nat \ {0} /\ j \in Nat
      BY LoginConstants DEF Levels
    <2>2. Cardinality(Reached(b, j)) \in Nat
      BY <2>1, LoginReachedFacts
    <2>3. Weights(b)[j] = Login!Gain(MaxFailed - j, Cardinality(Reached(b, j)))
      BY DEF Weights
    <2> QED BY <2>1, <2>2, <2>3, LoginGainIs
  <1> QED BY <1>1

\* Requests that have reached more stand for more.
LEMMA LoginWeightsGrow ==
  ASSUME NEW b \in [Logins -> Nat], NEW d \in [Logins -> Nat],
         \A r \in Logins : b[r] <= d[r]
  PROVE  \A j \in Levels : Weights(b)[j] <= Weights(d)[j]
  <1>1. ASSUME NEW j \in Levels PROVE Weights(b)[j] <= Weights(d)[j]
    <2>1. MaxFailed - j \in Nat \ {0} /\ j \in Nat
      BY LoginConstants DEF Levels
    <2>2. Reached(b, j) \subseteq Reached(d, j)
      BY <2>1 DEF Reached
    <2>3. Cardinality(Reached(b, j)) <= Cardinality(Reached(d, j))
      BY <2>1, <2>2, LoginReachedFacts, FS_Subset
    <2>4. Cardinality(Reached(b, j)) \in Nat /\ Cardinality(Reached(d, j)) \in Nat
      BY <2>1, LoginReachedFacts
    <2>5. /\ Weights(b)[j] = Login!Gain(MaxFailed - j, Cardinality(Reached(b, j)))
          /\ Weights(d)[j] = Login!Gain(MaxFailed - j, Cardinality(Reached(d, j)))
      BY DEF Weights
    <2> QED BY <2>1, <2>3, <2>4, <2>5, LoginGainGrows
  <1> QED BY <1>1

LEMMA LoginHigherCountersWeighMore ==
  ASSUME NEW b \in [Logins -> Nat], NEW d \in [Logins -> Nat],
         \A r \in Logins : b[r] <= d[r]
  PROVE  SumFunctionOnSet(Weights(b), Levels) <= SumFunctionOnSet(Weights(d), Levels)
  <1>1. \A j \in Levels : Weights(b)[j] \in Int /\ Weights(d)[j] \in Int
                          /\ Weights(b)[j] <= Weights(d)[j]
    BY LoginWeightsAreNatural, LoginWeightsGrow
  <1> QED BY <1>1, LoginLevelsAreFinite, SumGrows

\* Nobody had reached level j, and now somebody has.
LEMMA LoginNewLevelWeighsMore ==
  ASSUME NEW b \in [Logins -> Nat], NEW d \in [Logins -> Nat],
         \A r \in Logins : b[r] <= d[r],
         NEW j \in Levels, \A r \in Logins : b[r] < j, NEW q \in Logins, d[q] >= j
  PROVE  SumFunctionOnSet(Weights(b), Levels) + 1 <= SumFunctionOnSet(Weights(d), Levels)
  <1>1. MaxFailed - j \in Nat \ {0} /\ j \in Nat
    BY LoginConstants DEF Levels
  <1>2. Reached(b, j) = {} /\ q \in Reached(d, j)
    BY <1>1 DEF Reached
  <1>3. Cardinality(Reached(b, j)) = 0
    BY <1>2, FS_EmptySet
  <1>4. Cardinality(Reached(d, j)) \in Nat /\ Cardinality(Reached(d, j)) # 0
    BY <1>1, <1>2, LoginReachedFacts, FS_EmptySet
  <1>5. Weights(b)[j] = 0
    <2>1. Weights(b)[j] = Login!Gain(MaxFailed - j, 0)
      BY <1>3 DEF Weights
    <2>2. 0 \in Nat
      OBVIOUS
    <2> QED BY <1>1, <2>1, <2>2, LoginGainIs
  <1>6. Weights(d)[j] >= 1
    <2> DEFINE n == Cardinality(Reached(d, j))
               i == MaxFailed - j
    <2>1. Weights(d)[j] = Login!Gain(i, n)
      BY DEF Weights
    <2>2. n - 1 \in Nat /\ n \in Nat /\ n # 0
      BY <1>4
    <2>3. i \in Nat \ {0}
      BY <1>1
    <2> HIDE DEF n, i
    <2>4. Login!Gain(i, n) = Ways(i, n - 1)
      BY <2>2, <2>3, LoginGainIs
    <2>5. Ways(i, 0) <= Ways(i, n - 1) /\ Ways(i, 0) = 1 /\ Ways(i, n - 1) \in Nat
      <3>1. 0 \in Nat /\ 0 <= n - 1 /\ i \in Nat
        BY <2>2, <2>3
      <3> QED BY <2>2, <3>1, WaysGrow, WaysFacts
    <2> QED BY <2>1, <2>4, <2>5
  <1>7. \A k \in Levels : Weights(b)[k] \in Int /\ Weights(d)[k] \in Int
                          /\ Weights(b)[k] <= Weights(d)[k]
    BY LoginWeightsAreNatural, LoginWeightsGrow
  <1>8. Weights(b)[j] < Weights(d)[j]
    BY <1>5, <1>6, <1>7
  <1> QED BY <1>7, <1>8, LoginLevelsAreFinite, OneGrows

\* A request counts from its copy c: it reaches c + 1, and so do those that were higher.
LEMMA LoginOldCopyWeighsMore ==
  ASSUME NEW b \in [Logins -> Nat], NEW d \in [Logins -> Nat],
         NEW r \in Logins, NEW c \in Nat, c + 1 \in Levels, b[r] = c, d[r] = c + 1,
         \A q \in Logins \ {r} :
            \/ b[q] <= c /\ d[q] = b[q]
            \/ b[q] > c /\ d[q] = c + 1
  PROVE  SumFunctionOnSet(Weights(b), Levels) + 1 <= SumFunctionOnSet(Weights(d), Levels)
  <1> DEFINE m == Cardinality(Reached(b, c + 1))
  <1>1. m \in Nat /\ IsFiniteSet(Reached(b, c + 1))
    BY LoginReachedFacts
  <1>2. Cardinality(Reached(d, c + 1)) = m + 1
    <2>1. Reached(d, c + 1) = Reached(b, c + 1) \union {r} /\ r \notin Reached(b, c + 1)
      BY DEF Reached
    <2> QED BY <1>1, <2>1, FS_AddElement
  <1>3. ASSUME NEW j \in Levels, j <= c PROVE Weights(d)[j] = Weights(b)[j]
    <2>1. Reached(d, j) = Reached(b, j)
      BY <1>3 DEF Reached, Levels
    <2> QED BY <2>1 DEF Weights
  <1>4. ASSUME NEW j \in Levels, j > c + 1 PROVE Weights(b)[j] <= Login!Gain(MaxFailed - j, m)
    <2>1. MaxFailed - j \in Nat \ {0} /\ j \in Nat
      BY LoginConstants DEF Levels
    <2>2. Reached(b, j) \subseteq Reached(b, c + 1)
      BY <1>4, <2>1 DEF Reached
    <2>3. Cardinality(Reached(b, j)) <= m /\ Cardinality(Reached(b, j)) \in Nat
      BY <1>1, <2>1, <2>2, FS_Subset, LoginReachedFacts
    <2>4. Weights(b)[j] = Login!Gain(MaxFailed - j, Cardinality(Reached(b, j)))
      BY DEF Weights
    <2> HIDE DEF m
    <2> QED BY <1>1, <2>1, <2>3, <2>4, LoginGainGrows
  <1>5. /\ Weights(b)[c + 1] = Login!Gain(MaxFailed - (c + 1), m)
        /\ Weights(d)[c + 1] = Login!Gain(MaxFailed - (c + 1), m + 1)
    BY <1>2 DEF Weights
  <1>6. \A j \in Levels : Weights(b)[j] \in Nat /\ Weights(d)[j] \in Nat
    BY LoginWeightsAreNatural
  <1> HIDE DEF m
  <1> QED BY <1>1, <1>3, <1>4, <1>5, <1>6, LoginOldCopyGains

LEMMA LoginWeightsSum ==
  ASSUME NEW b \in [Logins -> Nat]
  PROVE  SumFunctionOnSet(Weights(b), Levels) \in Int /\ SumFunctionOnSet(Weights(b), Levels) >= 0
  <1>1. \A j \in Levels : Weights(b)[j] \in Int
    BY LoginWeightsAreNatural
  <1>2. SumFunctionOnSet(Weights(b), Levels) \in Int
    BY <1>1, LoginLevelsAreFinite, SumIsInteger
  <1>3. SumFunctionOnSet(Weights(b), Levels) >= 0
    <2>1. \A j \in Levels : Weights(b)[j] \in Nat
      BY LoginWeightsAreNatural
    <2> QED BY <2>1, LoginLevelsAreFinite, SumIsNatural
  <1> QED BY <1>2, <1>3

\* All of them together stand for less than the multisets of counters.
LEMMA LoginWeightsAreBounded ==
  ASSUME NEW b \in [Logins -> Nat]
  PROVE  /\ choose(MaxFailed + Cardinality(Logins) - 1, Cardinality(Logins)) \in Nat
         /\ SumFunctionOnSet(Weights(b), Levels)
              < choose(MaxFailed + Cardinality(Logins) - 1, Cardinality(Logins))
  <1> DEFINE n == Cardinality(Logins)
  <1>1. n \in Nat /\ MaxFailed \in Nat \ {0} /\ MaxFailed - 1 \in Nat
    BY LoginConstants, FS_CardinalityType
  <1>2. ASSUME NEW j \in MaxFailed - (MaxFailed - 1) .. MaxFailed - 1
        PROVE  Weights(b)[j] \in Nat /\ Weights(b)[j] <= Login!Gain(MaxFailed - j, n)
    <2>1. j \in Levels /\ j \in Nat /\ MaxFailed - j \in Nat \ {0}
      BY <1>1 DEF Levels
    <2>2. Cardinality(Reached(b, j)) \in Nat /\ Cardinality(Reached(b, j)) <= n
      BY <2>1, LoginReachedFacts
    <2>3. Weights(b)[j] = Login!Gain(MaxFailed - j, Cardinality(Reached(b, j)))
      BY <2>1 DEF Weights
    <2>4. Weights(b)[j] \in Nat
      BY <2>1, LoginWeightsAreNatural
    <2> HIDE DEF n
    <2> QED BY <1>1, <2>1, <2>2, <2>3, <2>4, LoginGainGrows
  <1>3. MaxFailed - (MaxFailed - 1) .. MaxFailed - 1 = Levels
    <2>1. MaxFailed - (MaxFailed - 1) = 1
      BY <1>1
    <2> QED BY <2>1 DEF Levels
  <1>4. SumFunctionOnSet(Weights(b), Levels) <= Ways(MaxFailed - 1, n) - 1
    <2>1. MaxFailed - 1 \in 0 .. MaxFailed - 1
      BY <1>1
    <2> HIDE DEF n
    <2>2. SumFunctionOnSet(Weights(b), MaxFailed - (MaxFailed - 1) .. MaxFailed - 1)
            <= Ways(MaxFailed - 1, n) - 1
      BY <1>1, <1>2, <2>1, LoginGainsAddUp
    <2> QED BY <1>3, <2>2
  <1>5. choose(MaxFailed + n - 1, n) = Ways(MaxFailed - 1, n)
    <2> HIDE DEF n
    <2> DEFINE i == MaxFailed - 1
    <2>0. i \in Nat /\ MaxFailed + n - 1 = n + i
      BY <1>1
    <2> HIDE DEF i
    <2>1. Exact(i, n) /\ Ways(i, n) \in Nat
      BY <1>1, <2>0, WaysAreExact, WaysFacts
    <2>2. factorial[n + i] = Ways(i, n) * (factorial[i] * factorial[n])
      BY <2>1 DEF Exact
    <2>3. n + i = i + n /\ factorial[i] * factorial[n] = factorial[n] * factorial[i]
      <3>1. factorial[i] \in Nat /\ factorial[n] \in Nat
        BY <1>1, <2>0, FactorialIsPositive
      <3> QED BY <1>1, <2>0, <3>1
    <2>4. factorial[i + n] = Ways(i, n) * (factorial[n] * factorial[i])
      BY <2>2, <2>3
    <2>5. Ways(n, i) = Ways(i, n)
      BY <1>1, <2>0, <2>1, <2>4, WaysIs
    <2>6. Ways(n, i) = choose(i + n, n)
      BY DEF Ways
    <2> QED BY <2>0, <2>3, <2>5, <2>6 DEF i
  <1>6. Ways(MaxFailed - 1, n) \in Nat
    BY <1>1, WaysFacts
  <1>7. SumFunctionOnSet(Weights(b), Levels) \in Int
    BY LoginWeightsSum
  <1> QED BY <1>4, <1>5, <1>6, <1>7

LEMMA LoginGuessesAre ==
  ASSUME NEW b, \A r \in Logins : b[r] = Login!Behind(r)
  PROVE  Login!GuessesCounted <=> wrong <= SumFunctionOnSet(Weights(b), Levels)
  <1>1. ASSUME NEW j PROVE Reached(b, j) = {r \in Logins : Login!Behind(r) >= j}
    BY DEF Reached
  <1>2. ASSUME NEW j PROVE Login!From(j) = Cardinality(Reached(b, j))
    BY <1>1, LoginInstanceCardinality DEF Login!From
  <1>3. [j \in 1 .. MaxFailed - 1 |-> Login!Gain(MaxFailed - j, Login!From(j))] = Weights(b)
    BY <1>2 DEF Weights, Levels
  <1> QED BY <1>3, LoginInstanceSum DEF Login!GuessesCounted, Levels

LEMMA LoginGuessesWillBe ==
  ASSUME NEW b, \A r \in Logins : b[r] = Login!Behind(r)'
  PROVE  Login!GuessesCounted' <=> wrong' <= SumFunctionOnSet(Weights(b), Levels)
  <1>1. ASSUME NEW j PROVE Reached(b, j) = {r \in Logins : Login!Behind(r)' >= j}
    BY DEF Reached
  <1>2. ASSUME NEW j PROVE Login!From(j)' = Cardinality(Reached(b, j))
    BY <1>1, LoginInstanceCardinality DEF Login!From
  <1>3. [j \in 1 .. MaxFailed - 1 |-> Login!Gain(MaxFailed - j, Login!From(j)')] = Weights(b)
    BY <1>2 DEF Weights, Levels
  <1> QED BY <1>3, LoginInstanceSum DEF Login!GuessesCounted, Levels

LEMMA LoginBehindIsNatural ==
  /\ Login!TypeOK => \A r \in Logins : Login!Behind(r) \in Nat
  /\ Login!TypeOK' => \A r \in Logins : Login!Behind(r)' \in Nat
  BY LoginConstants DEF Login!TypeOK, Login!Behind, Login!Row

\* A step that lowers no counter of a request.
LEMMA LoginGuessesStay ==
  ASSUME Login!TypeOK, Login!TypeOK', Login!GuessesCounted, wrong' = wrong,
         \A r \in Logins : Login!Behind(r) <= Login!Behind(r)'
  PROVE  Login!GuessesCounted'
  <1>1. PICK b : b = [r \in Logins |-> Login!Behind(r)]
    OBVIOUS
  <1>2. PICK d : d = [r \in Logins |-> Login!Behind(r)']
    OBVIOUS
  <1>3. /\ b \in [Logins -> Nat] /\ \A r \in Logins : b[r] = Login!Behind(r)
        /\ d \in [Logins -> Nat] /\ \A r \in Logins : d[r] = Login!Behind(r)'
    BY <1>1, <1>2, LoginBehindIsNatural
  <1>4. \A r \in Logins : b[r] <= d[r]
    BY <1>3
  <1>5. wrong <= SumFunctionOnSet(Weights(b), Levels)
    BY <1>3, LoginGuessesAre
  <1>6. SumFunctionOnSet(Weights(b), Levels) <= SumFunctionOnSet(Weights(d), Levels)
    BY <1>3, <1>4, LoginHigherCountersWeighMore
  <1>7. SumFunctionOnSet(Weights(b), Levels) \in Int /\ SumFunctionOnSet(Weights(d), Levels) \in Int
    BY <1>3, LoginWeightsSum
  <1>8. wrong \in Nat
    BY DEF Login!TypeOK
  <1>9. wrong' <= SumFunctionOnSet(Weights(d), Levels)
    BY <1>5, <1>6, <1>7, <1>8
  <1> QED BY <1>3, <1>9, LoginGuessesWillBe

\* A step that sets the history back.
LEMMA LoginGuessesRestart ==
  ASSUME Login!TypeOK', wrong' = 0
  PROVE  Login!GuessesCounted'
  <1>2. PICK d : d = [r \in Logins |-> Login!Behind(r)']
    OBVIOUS
  <1>3. d \in [Logins -> Nat] /\ \A r \in Logins : d[r] = Login!Behind(r)'
    BY <1>2, LoginBehindIsNatural
  <1>4. wrong' <= SumFunctionOnSet(Weights(d), Levels)
    BY <1>3, LoginWeightsSum
  <1> QED BY <1>3, <1>4, LoginGuessesWillBe

LEMMA LoginNewRowOK ==
  Login!NewRow \in Login!Row /\ Login!NewRow.failed = 0 /\ Login!NewRow.lockedUntil = 0
  BY LoginConstants DEF Login!NewRow, Login!Row

LEMMA LoginInitIInv == Login!Init => Login!IInv
  <1> SUFFICES ASSUME Login!Init PROVE Login!IInv
    OBVIOUS
  <1>1. Login!TypeOK
    <2>1. Login!Idle \in [step : {"idle", "insert", "accept", "reject"}, row : Login!Row,
                         right : BOOLEAN]
      BY LoginNewRowOK DEF Login!Idle, Login!Act
    <2>2. user \in Login!Row /\ user.failed < MaxFailed
      BY LoginConstants, LoginNewRowOK DEF Login!Init
    <2>3. logins \in [Logins -> [step : {"idle", "insert", "accept", "reject"}, row : Login!Row,
                               right : BOOLEAN]]
      BY <2>1 DEF Login!Init
    <2>4. /\ clock \in 1 .. MaxTime /\ users \in Nat /\ wrong \in Nat
          /\ password \in 1 .. MaxPasswords
      BY LoginConstants DEF Login!Init
    <2>5. shared \in BOOLEAN
      BY DEF Login!Init
    <2> QED BY <2>2, <2>3, <2>4, <2>5, Zenon DEF Login!TypeOK
  <1>2. Login!OneUserPerEmail /\ Login!CountsEachFailure /\ Login!Alone
    BY LoginNewRowOK
    DEF Login!Init, Login!OneUserPerEmail, Login!CountsEachFailure, Login!Alone, Login!Idle,
        Login!Act
  <1>3. Login!CopiesOK
    BY LoginNewRowOK, LoginConstants DEF Login!Init, Login!CopiesOK, Login!Idle, Login!Act
  <1>4. Login!GuessesCounted
    <2>2. PICK d : d = [r \in Logins |-> Login!Behind(r)]
      OBVIOUS
    <2>3. d \in [Logins -> Nat] /\ \A r \in Logins : d[r] = Login!Behind(r)
      BY <1>1, <2>2, LoginBehindIsNatural
    <2>4. wrong <= SumFunctionOnSet(Weights(d), Levels)
      BY <2>3, LoginWeightsSum DEF Login!Init
    <2> QED BY <2>3, <2>4, LoginGuessesAre
  <1> QED BY <1>1, <1>2, <1>3, <1>4 DEF Login!IInv

\* The parts of the invariant in which a request's row and step matter.
LEMMA LoginActsAreTyped ==
  ASSUME Login!TypeOK, NEW r \in Logins
  PROVE  /\ logins[r].step \in {"idle", "insert", "accept", "reject"}
         /\ logins[r].row \in Login!Row /\ logins[r].right \in BOOLEAN
         /\ user \in Login!Row
         /\ \A row \in Login!Row : /\ row.failed \in 0 .. MaxFailed
                             /\ row.lockedUntil \in 0 .. MaxTime + LockTime
  BY DEF Login!TypeOK, Login!Row

\* A step that only changes what request r holds, and perhaps how many users there are,
\* and lets go of a copy or takes none.
LEMMA LoginQuietSteps ==
  ASSUME Login!IInv, NEW r \in Logins, NEW step \in {"idle", "insert"},
         logins' = [logins EXCEPT ![r] = Login!Act(step, Login!NewRow, FALSE)],
         users' \in {0, 1}, UNCHANGED <<clock, user, password, wrong, shared>>
  PROVE  Login!IInv'
  <1>1. Login!TypeOK'
    BY LoginNewRowOK DEF Login!IInv, Login!TypeOK, Login!Act
  <1>2. /\ logins'[r].step = step /\ logins'[r].row = Login!NewRow /\ logins'[r].right = FALSE
        /\ \A q \in Logins \ {r} : logins'[q] = logins[q]
    BY DEF Login!IInv, Login!TypeOK, Login!Act
  <1>3. Login!OneUserPerEmail' /\ Login!CountsEachFailure'
    BY DEF Login!IInv, Login!OneUserPerEmail, Login!CountsEachFailure
  <1>4. Login!CopiesOK'
    <2>1. Login!NewRow.lockedUntil <= clock /\ Login!NewRow.failed < MaxFailed
      BY LoginNewRowOK, LoginConstants DEF Login!IInv, Login!TypeOK
    <2> QED BY <1>2, <2>1 DEF Login!IInv, Login!CopiesOK
  <1>5. Login!Alone'
    BY <1>2 DEF Login!IInv, Login!Alone
  <1>6. Login!GuessesCounted'
    <2>1. ASSUME NEW q \in Logins PROVE Login!Behind(q) <= Login!Behind(q)'
      <3>1. user.failed \in Nat /\ logins[q].row.failed \in Nat
        BY LoginActsAreTyped DEF Login!IInv
      <3>2. CASE q = r
        <4>1. logins'[r].step # "reject"
          BY <1>2
        <4>2. Login!Behind(r)' = user.failed
          BY <4>1 DEF Login!Behind
        <4>3. Login!Behind(r) <= user.failed
          BY <3>1, <3>2 DEF Login!Behind
        <4> QED BY <3>2, <4>2, <4>3
      <3>3. CASE q # r
        BY <1>2, <3>1, <3>3 DEF Login!Behind
      <3> QED BY <3>2, <3>3
    <2> QED BY <1>1, <2>1, LoginGuessesStay DEF Login!IInv
  <1> QED BY <1>1, <1>3, <1>4, <1>5, <1>6 DEF Login!IInv

LEMMA LoginCheckEmailKeeps ==
  ASSUME Login!IInv, NEW r \in Logins, Login!CheckEmail(r)
  PROVE  Login!IInv'
  BY LoginQuietSteps DEF Login!CheckEmail

LEMMA LoginInsertUserKeeps ==
  ASSUME Login!IInv, NEW r \in Logins, Login!InsertUser(r)
  PROVE  Login!IInv'
  <1>1. users' \in {0, 1}
    BY DEF Login!InsertUser, Login!EmailIsFree, Login!IInv, Login!OneUserPerEmail, Login!TypeOK
  <1> QED BY <1>1, LoginQuietSteps DEF Login!InsertUser, Login!Idle

LEMMA LoginStopKeeps ==
  ASSUME Login!IInv, NEW r \in Logins, Login!Stop(r)
  PROVE  Login!IInv'
  <1>1. users' \in {0, 1}
    BY DEF Login!Stop, Login!IInv, Login!OneUserPerEmail, Login!TypeOK
  <1> QED BY <1>1, LoginQuietSteps DEF Login!Stop, Login!Idle

LEMMA LoginTickKeeps ==
  ASSUME Login!IInv, Login!Tick
  PROVE  Login!IInv'
  <1>1. Login!TypeOK'
    <2>1. clock' \in 1 .. MaxTime
      BY LoginConstants DEF Login!IInv, Login!TypeOK, Login!Tick
    <2> QED BY <2>1 DEF Login!IInv, Login!TypeOK, Login!Tick
  <1>2. Login!OneUserPerEmail' /\ Login!CountsEachFailure' /\ Login!Alone'
    BY DEF Login!IInv, Login!OneUserPerEmail, Login!CountsEachFailure, Login!Alone, Login!Tick
  <1>3. Login!CopiesOK'
    <2>1. ASSUME NEW r \in Logins PROVE logins[r].row.lockedUntil \in Int /\ clock \in Int
      BY LoginActsAreTyped DEF Login!IInv, Login!TypeOK
    <2> QED BY <2>1 DEF Login!IInv, Login!CopiesOK, Login!Tick
  <1>4. Login!GuessesCounted'
    <2>1. ASSUME NEW q \in Logins PROVE Login!Behind(q) <= Login!Behind(q)'
      <3>1. Login!Behind(q) \in Nat /\ Login!Behind(q)' = Login!Behind(q)
        BY LoginBehindIsNatural DEF Login!IInv, Login!Behind, Login!Tick
      <3> QED BY <3>1
    <2>2. wrong' = wrong
      BY DEF Login!Tick
    <2> QED BY <1>1, <2>1, <2>2, LoginGuessesStay DEF Login!IInv
  <1> QED BY <1>1, <1>2, <1>3, <1>4 DEF Login!IInv

LEMMA LoginResetPasswordKeeps ==
  ASSUME Login!IInv, Login!ResetPassword
  PROVE  Login!IInv'
  <1>1. Login!TypeOK'
    <2>1. password' \in 1 .. MaxPasswords
      BY LoginConstants DEF Login!IInv, Login!TypeOK, Login!ResetPassword
    <2> QED BY <2>1 DEF Login!IInv, Login!TypeOK, Login!ResetPassword
  <1>2. UNCHANGED <<clock, users, user, logins, wrong, shared>>
    BY DEF Login!ResetPassword
  <1> QED BY <1>1, <1>2 DEF Login!IInv, Login!OneUserPerEmail, Login!CopiesOK,
                Login!CountsEachFailure, Login!Alone, Login!GuessesCounted,
                Login!From, Login!Behind

LEMMA LoginReadUserKeeps ==
  ASSUME Login!IInv, NEW r \in Logins, NEW right \in BOOLEAN, Login!ReadUser(r, right)
  PROVE  Login!IInv'
  <1>1. Login!TypeOK'
    <2>1. /\ user \in Login!Row
          /\ logins' = [logins EXCEPT
                          ![r] = Login!Act(IF right THEN "accept" ELSE "reject", user, right)]
      BY DEF Login!IInv, Login!TypeOK, Login!ReadUser
    <2>2. Login!Act(IF right THEN "accept" ELSE "reject", user, right)
            \in [step : {"idle", "insert", "accept", "reject"}, row : Login!Row, right : BOOLEAN]
      BY <2>1 DEF Login!Act
    <2>3. shared' \in BOOLEAN
      BY DEF Login!IInv, Login!TypeOK, Login!ReadUser
    <2> DEFINE X == Login!Act(IF right THEN "accept" ELSE "reject", user, right)
               Kind == [step : {"idle", "insert", "accept", "reject"}, row : Login!Row,
                        right : BOOLEAN]
    <2>4. logins \in [Logins -> Kind] /\ X \in Kind /\ logins' = [logins EXCEPT ![r] = X]
      BY <2>1, <2>2 DEF Login!IInv, Login!TypeOK
    <2> HIDE DEF X, Kind
    <2>5. logins' \in [Logins -> Kind]
      BY <2>4
    <2>6. /\ clock \in 1 .. MaxTime /\ users \in Nat /\ wrong \in Nat /\ user.failed < MaxFailed
          /\ UNCHANGED <<clock, users, user, password, wrong>> /\ password \in 1 .. MaxPasswords
      BY DEF Login!IInv, Login!TypeOK, Login!ReadUser
    <2>7. /\ clock' \in 1 .. MaxTime /\ users' \in Nat /\ wrong' \in Nat /\ user'.failed < MaxFailed
          /\ user' \in Login!Row /\ password' \in 1 .. MaxPasswords
      BY <2>1, <2>6
    <2> QED BY <2>3, <2>5, <2>7, Zenon DEF Login!TypeOK, Kind
  <1>2. /\ logins'[r].step = (IF right THEN "accept" ELSE "reject")
        /\ logins'[r].row = user /\ logins'[r].right = right
        /\ \A q \in Logins \ {r} : logins'[q] = logins[q]
    BY DEF Login!IInv, Login!TypeOK, Login!ReadUser, Login!Act
  <1>3. Login!OneUserPerEmail' /\ Login!CountsEachFailure'
    BY DEF Login!IInv, Login!OneUserPerEmail, Login!CountsEachFailure, Login!ReadUser
  <1>4. Login!CopiesOK'
    <2>1. user.lockedUntil <= clock /\ user.failed < MaxFailed
      BY LoginActsAreTyped DEF Login!IInv, Login!TypeOK, Login!ReadUser, Login!Locked
    <2> QED BY <1>2, <2>1 DEF Login!IInv, Login!CopiesOK, Login!ReadUser
  <1>5. Login!Alone'
    <2>1. SUFFICES ASSUME ~ shared', NEW q \in Logins, logins'[q].step \in {"accept", "reject"}
                   PROVE  logins'[q].row.failed = user'.failed
      BY DEF Login!Alone
    <2>2. Login!Busy = {} /\ user' = user
      BY <2>1 DEF Login!ReadUser
    <2>3. q = r
      BY <1>2, <2>1, <2>2 DEF Login!Busy, Login!Idle, Login!Act
    <2> QED BY <1>2, <2>2, <2>3
  <1>6. Login!GuessesCounted'
    <2>1. ASSUME NEW q \in Logins PROVE Login!Behind(q) <= Login!Behind(q)'
      <3>1. user.failed \in Nat /\ logins[q].row.failed \in Nat /\ user' = user
        BY LoginActsAreTyped DEF Login!IInv, Login!ReadUser
      <3>2. CASE q = r
        <4>1. Login!Behind(q)' = user.failed
          BY <1>2, <3>1, <3>2 DEF Login!Behind
        <4> QED BY <3>1, <4>1 DEF Login!Behind
      <3>3. CASE q # r
        BY <1>2, <3>1, <3>3 DEF Login!Behind
      <3> QED BY <3>2, <3>3
    <2>2. wrong' = wrong
      BY DEF Login!ReadUser
    <2> QED BY <1>1, <2>1, <2>2, LoginGuessesStay DEF Login!IInv
  <1> QED BY <1>1, <1>3, <1>4, <1>5, <1>6 DEF Login!IInv

\* What is left when a request is over: it holds nothing, and the others what they held.
LEMMA LoginRequestEnds ==
  ASSUME Login!IInv, NEW r \in Logins,
         logins' = [logins EXCEPT ![r] = Login!Idle], UNCHANGED <<clock, users, password>>,
         user' \in Login!Row, user'.failed < MaxFailed, wrong' \in Nat, shared' \in BOOLEAN
  PROVE  /\ Login!TypeOK' /\ Login!OneUserPerEmail' /\ Login!CopiesOK'
         /\ logins'[r] = Login!Idle /\ Login!Idle.step = "idle" /\ Login!Idle.row = Login!NewRow
         /\ \A q \in Logins \ {r} : logins'[q] = logins[q]
         /\ Login!Busy = {r} => Login!Alone'
  <1>1. Login!TypeOK'
    BY LoginNewRowOK DEF Login!IInv, Login!TypeOK, Login!Idle, Login!Act
  <1>2. /\ logins'[r] = Login!Idle /\ Login!Idle.step = "idle" /\ Login!Idle.row = Login!NewRow
        /\ \A q \in Logins \ {r} : logins'[q] = logins[q]
    BY DEF Login!IInv, Login!TypeOK, Login!Idle, Login!Act
  <1>3. Login!OneUserPerEmail'
    BY DEF Login!IInv, Login!OneUserPerEmail
  <1>4. Login!CopiesOK'
    BY <1>2, LoginNewRowOK, LoginConstants DEF Login!IInv, Login!CopiesOK, Login!TypeOK
  <1>5. ASSUME Login!Busy = {r} PROVE Login!Alone'
    <2>1. \A q \in Logins : logins'[q] = Login!Idle
      BY <1>2, <1>5 DEF Login!Busy
    <2> QED BY <1>2, <2>1 DEF Login!Alone
  <1> QED BY <1>1, <1>2, <1>3, <1>4, <1>5

LEMMA LoginAcceptKeeps ==
  ASSUME Login!IInv, NEW r \in Logins, Login!Accept(r)
  PROVE  Login!IInv'
  <1>1. /\ user' \in Login!Row /\ user'.failed < MaxFailed /\ wrong' = 0 /\ shared' \in BOOLEAN
        /\ logins' = [logins EXCEPT ![r] = Login!Idle] /\ UNCHANGED <<clock, users, password>>
    BY LoginNewRowOK, LoginConstants DEF Login!IInv, Login!TypeOK, Login!Accept, Login!Cleared
  <1>2. /\ Login!TypeOK' /\ Login!OneUserPerEmail' /\ Login!CopiesOK'
        /\ (Login!Busy = {r} => Login!Alone')
    BY <1>1, LoginRequestEnds
  <1>3. ~ shared' => Login!Busy = {r} /\ (~ shared \/ user' = Login!NewRow)
    BY DEF Login!Accept
  <1>4. Login!CountsEachFailure'
    <2>1. SUFFICES ASSUME ~ shared' PROVE user'.failed = 0
      BY <1>1 DEF Login!CountsEachFailure
    <2>2. CASE user' = Login!NewRow
      BY <2>2, LoginNewRowOK
    <2>3. CASE user' # Login!NewRow
      <3>1. ~ shared /\ user' = user /\ ~ (logins[r].row.failed > 0)
        BY <1>3, <2>1, <2>3 DEF Login!Accept, Login!Cleared
      <3>2. logins[r].row.failed = user.failed
        BY <3>1 DEF Login!IInv, Login!Alone, Login!Accept
      <3>3. logins[r].row.failed \in Nat
        BY LoginActsAreTyped DEF Login!IInv
      <3> QED BY <3>1, <3>2, <3>3
    <2> QED BY <2>2, <2>3
  <1>5. Login!Alone'
    BY <1>2, <1>3 DEF Login!Alone
  <1>6. Login!GuessesCounted'
    BY <1>1, <1>2, LoginGuessesRestart
  <1> QED BY <1>2, <1>4, <1>5, <1>6 DEF Login!IInv

LEMMA LoginRejectKeeps ==
  ASSUME Login!IInv, NEW r \in Logins, Login!Reject(r)
  PROVE  Login!IInv'
  <1> DEFINE copy == logins[r].row
             c == copy.failed
             f == user.failed
  <1>1. /\ logins[r].step = "reject"
        /\ logins' = [logins EXCEPT ![r] = Login!Idle] /\ UNCHANGED <<clock, users, password>>
        /\ user' = Login!registerFailedLogin(copy)
        /\ wrong' = IF user'.failed = 0 THEN 0 ELSE wrong + 1
        /\ shared' = (Login!Busy # {r} \/ (shared /\ ~ (user'.failed = 0)))
    BY DEF Login!Reject
  <1>2. /\ c \in Nat /\ c < MaxFailed /\ f \in Nat /\ f < MaxFailed /\ clock \in 1 .. MaxTime
        /\ wrong \in Nat /\ shared \in BOOLEAN
    BY LoginActsAreTyped DEF Login!IInv, Login!TypeOK, Login!CopiesOK
  <1>3. ~ shared' => Login!Busy = {r} /\ (~ shared \/ user'.failed = 0)
    BY <1>1
  <1>4. CASE c + 1 >= MaxFailed
    <2>1. user' = [failed |-> 0, lockedUntil |-> clock + LockTime]
      BY <1>1, <1>4 DEF Login!registerFailedLogin
    <2>2. user' \in Login!Row /\ user'.failed = 0 /\ wrong' = 0 /\ shared' \in BOOLEAN
      BY <1>1, <1>2, <2>1, LoginConstants DEF Login!Row
    <2>3. /\ Login!TypeOK' /\ Login!OneUserPerEmail' /\ Login!CopiesOK'
          /\ (Login!Busy = {r} => Login!Alone')
      <3>1. user'.failed < MaxFailed /\ wrong' \in Nat
        BY <2>2, LoginConstants
      <3> QED BY <1>1, <2>2, <3>1, LoginRequestEnds
    <2>4. Login!CountsEachFailure'
      BY <2>2 DEF Login!CountsEachFailure
    <2>5. Login!Alone'
      BY <1>3, <2>3 DEF Login!Alone
    <2>6. Login!GuessesCounted'
      BY <2>2, <2>3, LoginGuessesRestart
    <2> QED BY <2>3, <2>4, <2>5, <2>6 DEF Login!IInv
  <1>5. CASE ~ (c + 1 >= MaxFailed)
    <2>1. /\ c + 1 \in Levels /\ c + 1 < MaxFailed
          /\ user' = [user EXCEPT !.failed = c + 1] /\ user \in Login!Row
      BY <1>1, <1>2, <1>5, LoginConstants
      DEF Login!registerFailedLogin, Levels, Login!IInv, Login!TypeOK
    <2>2. /\ user'.failed = c + 1 /\ user' \in Login!Row /\ user'.failed < MaxFailed
          /\ wrong' = wrong + 1 /\ shared' \in BOOLEAN /\ wrong' \in Nat
      <3>0. c + 1 \in 0 .. MaxFailed
        BY <1>2, <2>1, LoginConstants
      <3>1. user'.failed = c + 1 /\ user' \in Login!Row
        <4> HIDE DEF c
        <4> QED BY <2>1, <3>0 DEF Login!Row
      <3> QED BY <1>1, <1>2, <2>1, <3>1
    <2>3. /\ Login!TypeOK' /\ Login!OneUserPerEmail' /\ Login!CopiesOK'
          /\ (Login!Busy = {r} => Login!Alone')
          /\ logins'[r] = Login!Idle /\ Login!Idle.step = "idle"
          /\ \A q \in Logins \ {r} : logins'[q] = logins[q]
      BY <1>1, <2>2, LoginRequestEnds
    <2>4. Login!CountsEachFailure'
      <3>1. SUFFICES ASSUME ~ shared' PROVE user'.failed = wrong'
        BY DEF Login!CountsEachFailure
      <3>2. ~ shared
        BY <1>2, <1>3, <2>2, <3>1
      <3>3. f = wrong /\ c = f
        BY <1>1, <3>2 DEF Login!IInv, Login!CountsEachFailure, Login!Alone
      <3> QED BY <2>2, <3>3
    <2>5. Login!Alone'
      BY <1>3, <2>3 DEF Login!Alone
    <2>6. Login!GuessesCounted'
      <3>1. PICK b : b = [q \in Logins |-> Login!Behind(q)]
        OBVIOUS
      <3>2. PICK d : d = [q \in Logins |-> Login!Behind(q)']
        OBVIOUS
      <3>3. /\ b \in [Logins -> Nat] /\ \A q \in Logins : b[q] = Login!Behind(q)
            /\ d \in [Logins -> Nat] /\ \A q \in Logins : d[q] = Login!Behind(q)'
        BY <2>3, <3>1, <3>2, LoginBehindIsNatural DEF Login!IInv
      <3>4. /\ d[r] = c + 1
            /\ b[r] = IF c < f THEN c ELSE f
        BY <1>1, <2>2, <2>3, <3>3 DEF Login!Behind
      <3>5. ASSUME NEW q \in Logins \ {r}
            PROVE  \E n \in Nat : /\ b[q] = IF n < f THEN n ELSE f
                                  /\ d[q] = IF n < c + 1 THEN n ELSE c + 1
        <4>1. CASE logins[q].step = "reject"
          <5>1. logins[q].row.failed \in Nat
            BY LoginActsAreTyped DEF Login!IInv
          <5>2. /\ b[q] = IF logins[q].row.failed < f THEN logins[q].row.failed ELSE f
                /\ d[q] = IF logins[q].row.failed < c + 1 THEN logins[q].row.failed ELSE c + 1
            BY <2>2, <2>3, <3>3, <4>1 DEF Login!Behind
          <5> QED BY <5>1, <5>2
        <4>2. CASE logins[q].step # "reject"
          <5>1. b[q] = f /\ d[q] = c + 1
            BY <2>2, <2>3, <3>3, <4>2 DEF Login!Behind
          <5> DEFINE n == f + c + 1
          <5>2. n \in Nat /\ ~ (n < f) /\ ~ (n < c + 1)
            BY <1>2
          <5> HIDE DEF n
          <5> QED BY <5>1, <5>2
        <4> QED BY <4>1, <4>2
      <3>6. wrong <= SumFunctionOnSet(Weights(b), Levels)
        BY <3>3, LoginGuessesAre DEF Login!IInv
      <3>7. /\ SumFunctionOnSet(Weights(b), Levels) \in Int
            /\ SumFunctionOnSet(Weights(d), Levels) \in Int
        BY <3>3, LoginWeightsSum
      <3>8. SumFunctionOnSet(Weights(b), Levels) + 1 <= SumFunctionOnSet(Weights(d), Levels)
        <4>1. CASE c >= f
          <5>1. b[r] <= d[r] /\ b[r] < c + 1 /\ d[r] >= c + 1
            BY <1>2, <3>4, <4>1
          <5>2. ASSUME NEW q \in Logins \ {r} PROVE b[q] <= d[q] /\ b[q] < c + 1
            BY <1>2, <3>5, <4>1
          <5>3. \A q \in Logins : b[q] <= d[q]
            BY <5>1, <5>2
          <5>4. \A q \in Logins : b[q] < c + 1
            BY <5>1, <5>2
          <5> HIDE DEF c, f
          <5> QED BY <2>1, <3>3, <5>1, <5>3, <5>4, LoginNewLevelWeighsMore
        <4>2. CASE ~ (c >= f)
          <5>1. b[r] = c /\ d[r] = c + 1
            BY <1>2, <3>4, <4>2
          <5>2. ASSUME NEW q \in Logins \ {r}
                PROVE  \/ b[q] <= c /\ d[q] = b[q]
                       \/ b[q] > c /\ d[q] = c + 1
            BY <1>2, <3>5, <4>2
          <5> HIDE DEF c, f
          <5> QED BY <1>2, <2>1, <3>3, <5>1, <5>2, LoginOldCopyWeighsMore
        <4> QED BY <4>1, <4>2
      <3>9. wrong' <= SumFunctionOnSet(Weights(d), Levels)
        BY <1>2, <2>2, <3>6, <3>7, <3>8
      <3> QED BY <3>3, <3>9, LoginGuessesWillBe
    <2> QED BY <2>3, <2>4, <2>5, <2>6 DEF Login!IInv
  <1> QED BY <1>4, <1>5

LEMMA LoginNextKeepsIInv == Login!IInv /\ [Login!Next]_Login!vars => Login!IInv'
  <1> SUFFICES ASSUME Login!IInv, [Login!Next]_Login!vars PROVE Login!IInv'
    OBVIOUS
  <1>1. ASSUME NEW r \in Logins, Login!CheckEmail(r) PROVE Login!IInv'
    BY <1>1, LoginCheckEmailKeeps
  <1>2. ASSUME NEW r \in Logins, Login!InsertUser(r) PROVE Login!IInv'
    BY <1>2, LoginInsertUserKeeps
  <1>3. ASSUME NEW r \in Logins, NEW right \in BOOLEAN, Login!ReadUser(r, right) PROVE Login!IInv'
    BY <1>3, LoginReadUserKeeps
  <1>4. ASSUME NEW r \in Logins, Login!Reject(r) PROVE Login!IInv'
    BY <1>4, LoginRejectKeeps
  <1>5. ASSUME NEW r \in Logins, Login!Accept(r) PROVE Login!IInv'
    BY <1>5, LoginAcceptKeeps
  <1>6. ASSUME NEW r \in Logins, Login!Stop(r) PROVE Login!IInv'
    BY <1>6, LoginStopKeeps
  <1>7. CASE Login!Tick
    BY <1>7, LoginTickKeeps
  <1>8. CASE Login!ResetPassword
    BY <1>8, LoginResetPasswordKeeps
  <1>9. CASE UNCHANGED Login!vars
    BY <1>9 DEF Login!IInv, Login!TypeOK, Login!OneUserPerEmail, Login!CopiesOK,
                Login!CountsEachFailure, Login!Alone, Login!GuessesCounted,
                Login!From, Login!Behind, Login!vars
  <1> QED BY <1>1, <1>2, <1>3, <1>4, <1>5, <1>6, <1>7, <1>8, <1>9 DEF Login!Next

LEMMA LoginWrongPasswordsAreBounded == Login!IInv => Login!WrongPasswordsBounded
  <1> SUFFICES ASSUME Login!IInv PROVE Login!WrongPasswordsBounded
    OBVIOUS
  <1>1. PICK b : b = [q \in Logins |-> Login!Behind(q)]
    OBVIOUS
  <1>2. b \in [Logins -> Nat] /\ \A q \in Logins : b[q] = Login!Behind(q)
    BY <1>1, LoginBehindIsNatural DEF Login!IInv
  <1>3. wrong <= SumFunctionOnSet(Weights(b), Levels)
    BY <1>2, LoginGuessesAre DEF Login!IInv
  <1>4. SumFunctionOnSet(Weights(b), Levels) \in Int /\ wrong \in Nat
    BY <1>2, LoginWeightsSum DEF Login!IInv, Login!TypeOK
  <1>5. SumFunctionOnSet(Weights(b), Levels)
           < choose(MaxFailed + Cardinality(Logins) - 1, Cardinality(Logins))
    BY <1>2, LoginWeightsAreBounded
  <1>6. choose(MaxFailed + Cardinality(Logins) - 1, Cardinality(Logins)) \in Int
    BY <1>2, LoginWeightsAreBounded
  <1>7. Login!WrongPasswordsBounded <=>
           wrong < choose(MaxFailed + Cardinality(Logins) - 1, Cardinality(Logins))
    BY LoginInstanceCardinality, LoginInstanceChoose DEF Login!WrongPasswordsBounded
  <1> QED BY <1>3, <1>4, <1>5, <1>6, <1>7

LEMMA LoginStepLocks ==
  ASSUME Login!IInv, [Login!Next]_Login!vars, Login!Locked, user'.lockedUntil <= clock
  PROVE  \E r \in Logins : logins[r].right /\ logins[r].row.lockedUntil # user.lockedUntil
  <1>1. user.lockedUntil \in Int /\ clock \in Int /\ user.lockedUntil > clock /\ user' # user
    BY DEF Login!IInv, Login!TypeOK, Login!Row, Login!Locked
  <1>2. ASSUME NEW r \in Logins, Login!Reject(r) PROVE FALSE
    <2>1. user'.lockedUntil \in {user.lockedUntil, clock + LockTime}
      BY <1>2 DEF Login!Reject, Login!registerFailedLogin, Login!IInv, Login!TypeOK, Login!Row
    <2> QED BY <1>1, <2>1, LoginConstants
  <1>3. ASSUME NEW r \in Logins, Login!Accept(r)
        PROVE  logins[r].right /\ logins[r].row.lockedUntil # user.lockedUntil
    <2>1. logins[r].right /\ logins[r].row.lockedUntil <= clock
      BY <1>3 DEF Login!Accept, Login!IInv, Login!CopiesOK
    <2> QED BY <1>1, <2>1
  <1>4. \E r \in Logins : Login!Accept(r)
    BY <1>1, <1>2
    DEF Login!Next, Login!vars, Login!CheckEmail, Login!InsertUser, Login!ReadUser, Login!Stop,
        Login!ResetPassword, Login!Tick
  <1> QED BY <1>3, <1>4

\* The invariant of Login is inductive (validateUser, registerFailedLogin, register).
THEOREM LoginInvariant == Login!Spec => []Login!IInv
  BY LoginInitIInv, LoginNextKeepsIInv, PTL DEF Login!Spec

\* Parallel guesses are bounded by the multisets of counters that they may hold
\* (registerFailedLogin).
THEOREM LoginPasswordsBounded == Login!Spec => []Login!WrongPasswordsBounded
  BY LoginInvariant, LoginWrongPasswordsAreBounded, PTL

\* What a step does that lifts a lock before its time.
LoginLockIsLifted ==
  Login!Locked /\ user'.lockedUntil <= clock =>
     \/ \E r \in Logins : logins[r].right /\ logins[r].row.lockedUntil # user.lockedUntil
     \/ password' # password

\* A right password that was read before a lock, or a reset, is all that may lift it early
\* (validateUser).
THEOREM LoginLocksLast == Login!Spec => Login!LocksLast
  <1>1. Login!IInv /\ [Login!Next]_Login!vars => [LoginLockIsLifted]_Login!vars
    BY LoginStepLocks DEF LoginLockIsLifted
  <1>2. Login!LocksLast <=> [][LoginLockIsLifted]_Login!vars
    BY DEF Login!LocksLast, LoginLockIsLifted
  <1> QED BY <1>1, <1>2, LoginInvariant, PTL DEF Login!Spec

(***************************************************************************)
(* One request at a time: the counter is exact, so that MaxFailed wrong    *)
(* passwords lock.                                                         *)
(***************************************************************************)
\* While a request is between two statements, no other one goes on.
LoginOneAtATime ==
    [][\A r \in Logins :
          logins[r] # Login!Idle /\ logins' # logins => logins'[r] # logins[r]]_Login!vars

LoginNotShared == shared = FALSE

\* The counter counts the wrong passwords, and is below the maximum.
LoginCountIsExact == user.failed = wrong /\ wrong < MaxFailed

LEMMA LoginStaysUnshared ==
  ASSUME Login!IInv, LoginNotShared, [Login!Next]_Login!vars,
         [\A r \in Logins :
             logins[r] # Login!Idle /\ logins' # logins => logins'[r] # logins[r]]_Login!vars
  PROVE  LoginNotShared'
  <1>1. CASE UNCHANGED Login!vars
    BY <1>1 DEF Login!vars, LoginNotShared
  <1>2. CASE Login!Next /\ ~ UNCHANGED Login!vars
    <2>1. \A r \in Logins : logins[r] # Login!Idle /\ logins' # logins => logins'[r] # logins[r]
      BY <1>2
    <2>2. ASSUME NEW r \in Logins, NEW h, h # logins[r], logins' = [logins EXCEPT ![r] = h]
          PROVE  Login!Busy \subseteq {r}
      BY <2>1, <2>2 DEF Login!Busy, Login!IInv, Login!TypeOK
    <2>3. ASSUME NEW r \in Logins, NEW right \in BOOLEAN, Login!ReadUser(r, right)
          PROVE  LoginNotShared'
      <3>1. PICK h : /\ logins' = [logins EXCEPT ![r] = h]
                     /\ h = Login!Act(IF right THEN "accept" ELSE "reject", user, right)
        BY <2>3 DEF Login!ReadUser
      <3>2. h.step # "idle" /\ logins[r] = Login!Idle /\ Login!Idle.step = "idle"
        BY <2>3, <3>1 DEF Login!ReadUser, Login!Act, Login!Idle
      <3>3. Login!Busy \subseteq {r}
        BY <2>2, <3>1, <3>2
      <3>4. Login!Busy = {}
        BY <3>2, <3>3 DEF Login!Busy
      <3> QED BY <2>3, <3>4 DEF Login!ReadUser, LoginNotShared
    <2>4. ASSUME NEW r \in Logins, Login!Reject(r) \/ Login!Accept(r)
          PROVE  LoginNotShared'
      <3>1. logins' = [logins EXCEPT ![r] = Login!Idle] /\ logins[r] # Login!Idle
        BY <2>4 DEF Login!Reject, Login!Accept, Login!Act, Login!Idle
      <3>2. Login!Busy = {r}
        <4>1. Login!Busy \subseteq {r}
          BY <2>2, <3>1
        <4>2. r \in Login!Busy
          BY <3>1 DEF Login!Busy
        <4> QED BY <4>1, <4>2
      <3> QED BY <2>4, <3>2 DEF Login!Reject, Login!Accept, LoginNotShared
    <2>5. ASSUME NEW r \in Logins, Login!CheckEmail(r) \/ Login!InsertUser(r) \/ Login!Stop(r)
          PROVE  LoginNotShared'
      BY <2>5 DEF Login!CheckEmail, Login!InsertUser, Login!Stop, LoginNotShared
    <2>6. CASE Login!Tick \/ Login!ResetPassword
      BY <2>6 DEF Login!Tick, Login!ResetPassword, LoginNotShared
    <2> QED BY <1>2, <2>3, <2>4, <2>5, <2>6 DEF Login!Next
  <1> QED BY <1>1, <1>2

\* validateUser and registerFailedLogin: requests that do not overlap, in any sequence and
\* with any stops, never compare MaxFailed wrong passwords without a lock.
THEOREM LoginAloneCounts == Login!Spec /\ LoginOneAtATime => []LoginCountIsExact
  <1>1. Login!Init => LoginNotShared
    BY DEF Login!Init, LoginNotShared
  <1>2. Login!IInv /\ LoginNotShared => LoginCountIsExact
    BY DEF Login!IInv, Login!TypeOK, Login!CountsEachFailure, LoginNotShared, LoginCountIsExact
  <1> QED
    BY <1>1, <1>2, LoginStaysUnshared, LoginInvariant, PTL DEF Login!Spec, LoginOneAtATime

(***************************************************************************)
(* The same of the specification that is run: a step of PasswordReset or   *)
(* of Budgets leaves every variable of Login as it is.                     *)
(***************************************************************************)
LEMMA AccessStepsAreLogins ==
  /\ AccessInit => Login!Init
  /\ [AccessNext]_<<part, vars, login, planned>> => [Login!Next]_Login!vars
  <1>1. UNCHANGED login => UNCHANGED Login!vars
    BY DEF login, Login!vars
  <1> QED BY <1>1 DEF AccessInit, AccessNext

LEMMA AccessLogins == AccessSpec => Login!Spec
  BY AccessStepsAreLogins, PTL DEF AccessSpec, Login!Spec

\* An email has one user, the counter of wrong passwords counts them while requests do not
\* overlap, and parallel guesses are bounded by the multisets of their old copies
\* (registerFailedLogin).
THEOREM AccessLoginInv == AccessSpec => []LoginInv
  <1>1. Login!IInv => LoginInv
    BY LoginWrongPasswordsAreBounded DEF Login!IInv, LoginInv
  <1> QED BY <1>1, AccessLogins, LoginInvariant, PTL

\* A lock is only lifted by its time, by a right password that was read before it, or by a
\* reset (validateUser).
THEOREM AccessLocksLast == AccessSpec => LocksLast
  BY AccessLogins, LoginLocksLast DEF LocksLast

=============================================================================
