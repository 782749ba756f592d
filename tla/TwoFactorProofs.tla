--------------------------- MODULE TwoFactorProofs --------------------------
(***************************************************************************)
(* Proofs about TwoFactor, for any sets of requests and addresses and any  *)
(* limits.                                                                 *)
(***************************************************************************)
EXTENDS TwoFactor, TLAPS

LEMMA StartingIsRequest ==
  ASSUME NEW i \in 0 .. MaxChallenges, NEW purpose \in Purpose,
         NEW payload \in Emails \union {NoEmail},
         NEW at \in {"idle", "invalidate", "insert", "send", "disable"}
  PROVE  /\ Starting(at, i, purpose, payload) \in Request
         /\ Starting(at, i, purpose, payload).at = at
         /\ Starting(at, i, purpose, payload).id = i
         /\ Starting(at, i, purpose, payload).purpose = purpose
         /\ Starting(at, i, purpose, payload).payload = payload
  BY TwoFactorConstants DEF Starting, Request

LEMMA IdleHolding == Idle \in Request /\ HoldingOK(Idle)
  BY TwoFactorConstants, StartingIsRequest DEF Idle, HoldingOK, Purpose

LEMMA ChallengeIsRow ==
  ASSUME NEW state \in {"none", "open"}, NEW purpose \in Purpose,
         NEW payload \in Emails \union {NoEmail}
  PROVE  /\ Challenge(state, purpose, payload) \in Row
         /\ Challenge(state, purpose, payload).state = state
         /\ Challenge(state, purpose, payload).purpose = purpose
         /\ Challenge(state, purpose, payload).payload = payload
         /\ Challenge(state, purpose, payload).attempts = 0
         /\ Challenge(state, purpose, payload).sends = 1
  BY TwoFactorConstants DEF Challenge, Row

LEMMA InitIInv == Init => IInv
  <1> SUFFICES ASSUME Init PROVE IInv
    OBVIOUS
  <1>1. /\ NoRow \in Row
        /\ NoRow.state = "none"
        /\ NoRow.purpose = "login"
        /\ NoRow.attempts = 0
        /\ NoRow.sends = 1
    BY ChallengeIsRow DEF NoRow, Purpose
  <1> HIDE DEF NoRow
  <1>2. TypeOK
    BY <1>1, IdleHolding, TwoFactorConstants DEF Init, TypeOK, ChallengeId
  <1>3. \A i \in ChallengeId : RowOK(i)
    <2> SUFFICES ASSUME NEW i \in ChallengeId PROVE RowOK(i)
      OBVIOUS
    <2>1. MaxAttempts * 1 = MaxAttempts
      BY TwoFactorConstants
    <2> QED BY <1>1, <2>1, TwoFactorConstants DEF Init, RowOK
  <1>4. closedBelow <= nextRow /\ \A r \in Requests : HoldingOK(req[r])
    BY IdleHolding DEF Init
  <1>5. EmailIsConfirmed /\ DisableClosesChallenges
    BY <1>1 DEF Init, EmailIsConfirmed, DisableClosesChallenges, Open
  <1> QED BY <1>2, <1>3, <1>4, <1>5 DEF IInv

-----------------------------------------------------------------------------
(* The ways of writing used_at. *)

\* rows' differs from rows in used_at or age only, and opens no row.
Quiet(new) ==
    /\ new \in [ChallengeId -> Row]
    /\ \A i \in ChallengeId :
          /\ i >= nextRow => new[i] = rows[i]
          /\ new[i].purpose = rows[i].purpose
          /\ new[i].payload = rows[i].payload
          /\ new[i].attempts = rows[i].attempts
          /\ new[i].sends = rows[i].sends
          /\ new[i].state \in {"none", "open"} => new[i].state = rows[i].state

LEMMA InvalidatedQuiet ==
  ASSUME IInv, NEW purposes
  PROVE  /\ Quiet(Invalidated(purposes))
         /\ \A i \in ChallengeId :
               Invalidated(purposes)[i].state =
                  IF Open(i) /\ rows[i].purpose \in purposes THEN "used"
                  ELSE rows[i].state
  <1>1. \A i \in ChallengeId : i >= nextRow => ~ Open(i)
    BY DEF IInv, RowOK, NoRow, Challenge, Open
  <1> QED BY <1>1 DEF IInv, TypeOK, Quiet, Invalidated, Row

\* A change of one row that exists.
LEMMA OneRowQuiet ==
  ASSUME IInv, NEW i \in ChallengeId, i < nextRow, NEW row \in Row,
         row.purpose = rows[i].purpose,
         row.payload = rows[i].payload,
         row.attempts = rows[i].attempts,
         row.sends = rows[i].sends,
         row.state \in {"none", "open"} => row.state = rows[i].state
  PROVE  Quiet([rows EXCEPT ![i] = row])
  BY DEF IInv, TypeOK, Quiet, ChallengeId

LEMMA MarkUsedQuiet ==
  ASSUME IInv, NEW i \in ChallengeId, i < nextRow
  PROVE  /\ Quiet(MarkUsed(i))
         /\ MarkUsed(i)[i].state =
               IF rows[i].state = "deleted" THEN "deleted" ELSE "used"
         /\ \A j \in ChallengeId : j # i => MarkUsed(i)[j] = rows[j]
  <1> DEFINE row == [rows[i] EXCEPT !.state = "used"]
  <1>1. /\ row \in Row
        /\ row.state = "used"
        /\ row.purpose = rows[i].purpose
        /\ row.payload = rows[i].payload
        /\ row.attempts = rows[i].attempts
        /\ row.sends = rows[i].sends
    BY DEF IInv, TypeOK, Row
  <1>2. Quiet(rows)
    BY DEF IInv, TypeOK, Quiet
  <1>3. MarkUsed(i) = IF rows[i].state = "deleted" THEN rows
                      ELSE [rows EXCEPT ![i] = row]
    BY DEF MarkUsed
  <1> HIDE DEF row
  <1> QED BY <1>1, <1>2, <1>3, OneRowQuiet DEF IInv, TypeOK

\* A step that changes no more than used_at, age, twoFactorEnabled and what one
\* request holds keeps the invariant.
LEMMA QuietKeeps ==
  ASSUME IInv, NEW h \in Request, HoldingOK(h),
         req' = req \/ \E r \in Requests : req' = [req EXCEPT ![r] = h],
         Quiet(rows'),
         enabled' \in BOOLEAN,
         UNCHANGED <<nextRow, email, histories>>
  PROVE  IInv'
  <1>1. TypeOK'
    BY DEF IInv, TypeOK, histories, Quiet
  <1>2. ASSUME NEW i \in ChallengeId PROVE RowOK(i)'
    <2>1. MaxAttempts * rows'[i].sends = MaxAttempts * rows[i].sends
      BY DEF Quiet
    <2> QED BY <2>1 DEF IInv, RowOK, Quiet, histories
  <1>3. ASSUME NEW g \in Request, HoldingOK(g) PROVE HoldingOK(g)'
    <2>1. g.at \notin {"idle", "invalidate", "insert", "disable", "close"} =>
             g.id \in ChallengeId
      BY <1>3, TwoFactorConstants DEF HoldingOK, IInv, TypeOK, ChallengeId, Request
    <2> QED BY <1>3, <2>1 DEF HoldingOK, Quiet, histories
  <1>4. \A r \in Requests : HoldingOK(req[r])'
    <2>1. \A r \in Requests : req[r] \in Request /\ HoldingOK(req[r])
      BY DEF IInv, TypeOK
    <2>2. \A r \in Requests : req'[r] = req[r] \/ req'[r] = h
      BY DEF IInv, TypeOK
    <2> QED BY <1>3, <2>1, <2>2 DEF HoldingOK
  <1>5. EmailIsConfirmed'
    BY DEF IInv, EmailIsConfirmed, Quiet, histories
  <1>6. (closedBelow <= nextRow)' /\ DisableClosesChallenges'
    BY DEF IInv, DisableClosesChallenges, Open, Quiet, histories
  <1> QED BY <1>1, <1>2, <1>4, <1>5, <1>6 DEF IInv

-----------------------------------------------------------------------------
(* One lemma per family of actions: its steps keep the invariant. *)

\* The row of a request that holds one exists.
LEMMA HeldRowExists ==
  ASSUME IInv, NEW r \in Requests,
         req[r].at \notin {"idle", "invalidate", "insert", "disable", "close"}
  PROVE  req[r].id \in ChallengeId /\ req[r].id < nextRow
  BY TwoFactorConstants DEF IInv, TypeOK, HoldingOK, ChallengeId, Request

\* An open row was inserted.
LEMMA OpenRowExists ==
  ASSUME IInv, NEW i \in ChallengeId, Open(i)
  PROVE  i \in 1 .. nextRow - 1
  BY TwoFactorConstants
  DEF IInv, TypeOK, RowOK, Open, NoRow, Challenge, ChallengeId

\* Changing only the step of a request keeps the rest of what it holds.
LEMMA StepOfRequest ==
  ASSUME NEW h \in Request,
         NEW at \in {"insert", "delete", "exhaust", "mark", "enable", "email",
                      "close"}
  PROVE  /\ [h EXCEPT !.at = at] \in Request
         /\ [h EXCEPT !.at = at].at = at
         /\ [h EXCEPT !.at = at].id = h.id
         /\ [h EXCEPT !.at = at].purpose = h.purpose
         /\ [h EXCEPT !.at = at].payload = h.payload
  BY DEF Request

\* Deleting a row keeps the rest of it.
LEMMA DeletedRow ==
  ASSUME NEW x \in Row
  PROVE  /\ [x EXCEPT !.state = "deleted"] \in Row
         /\ [x EXCEPT !.state = "deleted"].state = "deleted"
         /\ [x EXCEPT !.state = "deleted"].purpose = x.purpose
         /\ [x EXCEPT !.state = "deleted"].payload = x.payload
         /\ [x EXCEPT !.state = "deleted"].attempts = x.attempts
         /\ [x EXCEPT !.state = "deleted"].sends = x.sends
  BY DEF Row

LEMMA RowsQuiet ==
  ASSUME IInv
  PROVE  Quiet(rows)
  BY DEF IInv, TypeOK, Quiet

\* Steps after which the request is idle.
LEMMA EndsKeep ==
  ASSUME IInv, NEW r \in Requests,
         \/ Sent(r)
         \/ Delete(r)
         \/ ResendRefused(r)
         \/ Exhaust(r)
         \/ ConsumeRefused(r)
         \/ ConfirmEnable(r)
         \/ Stop(r)
  PROVE  IInv'
  <1>1. CASE Sent(r) \/ ResendRefused(r) \/ ConsumeRefused(r) \/ Stop(r)
    <2>1. /\ req' = [req EXCEPT ![r] = Idle]
          /\ rows' = rows /\ enabled' = enabled
          /\ UNCHANGED <<nextRow, email, histories>>
      BY <1>1 DEF Sent, ResendRefused, ConsumeRefused, Stop, user
    <2> QED BY <2>1, RowsQuiet, IdleHolding, QuietKeeps DEF IInv, TypeOK
  <1>2. CASE ConfirmEnable(r)
    <2>1. /\ req' = [req EXCEPT ![r] = Idle]
          /\ rows' = rows /\ enabled' = TRUE
          /\ UNCHANGED <<nextRow, email, histories>>
      BY <1>2 DEF ConfirmEnable
    <2> QED BY <2>1, RowsQuiet, IdleHolding, QuietKeeps
  <1>3. CASE Exhaust(r)
    <2>1. Quiet(rows')
      BY <1>3, HeldRowExists, MarkUsedQuiet DEF Exhaust
    <2>2. /\ req' = [req EXCEPT ![r] = Idle]
          /\ enabled' = enabled
          /\ UNCHANGED <<nextRow, email, histories>>
      BY <1>3 DEF Exhaust, user
    <2> QED BY <2>1, <2>2, IdleHolding, QuietKeeps DEF IInv, TypeOK
  <1>4. CASE Delete(r)
    <2> DEFINE i == req[r].id
               row == [rows[i] EXCEPT !.state = "deleted"]
    <2>1. i \in ChallengeId /\ i < nextRow
      BY <1>4, HeldRowExists DEF Delete
    <2>2. /\ row \in Row
          /\ row.state = "deleted"
          /\ row.purpose = rows[i].purpose
          /\ row.payload = rows[i].payload
          /\ row.attempts = rows[i].attempts
          /\ row.sends = rows[i].sends
      <3>1. rows[i] \in Row
        BY <2>1 DEF IInv, TypeOK
      <3> QED BY <3>1, DeletedRow
    <2>3. /\ rows' = [rows EXCEPT ![i] = row]
          /\ req' = [req EXCEPT ![r] = Idle]
          /\ enabled' = enabled
          /\ UNCHANGED <<nextRow, email, histories>>
      BY <1>4 DEF Delete, user
    <2> HIDE DEF i, row
    <2>4. Quiet(rows')
      BY <2>1, <2>2, <2>3, OneRowQuiet
    <2> QED BY <2>3, <2>4, IdleHolding, QuietKeeps DEF IInv, TypeOK
  <1> QED BY <1>1, <1>2, <1>3, <1>4

\* Steps that begin or continue a request without a copy of a row.
LEMMA StartsKeep ==
  ASSUME IInv, NEW r \in Requests,
         \/ \E purpose \in Purpose : \E payload \in Emails \union {NoEmail} :
               Start(r, purpose, payload)
         \/ Invalidate(r)
         \/ DisableRead(r)
         \/ Disable(r)
  PROVE  IInv'
  <1>1. req[r] \in Request /\ HoldingOK(req[r])
    BY DEF IInv, TypeOK
  <1>2. CASE \E purpose \in Purpose : \E payload \in Emails \union {NoEmail} :
               Start(r, purpose, payload)
    <2>1. PICK purpose \in Purpose, payload \in Emails \union {NoEmail} :
             Start(r, purpose, payload)
      BY <1>2
    <2> DEFINE h == Starting("invalidate", 0, purpose, payload)
    <2>2. purpose = "email_change" => payload # NoEmail
      BY <2>1, TwoFactorConstants DEF Start
    <2>3. h \in Request /\ HoldingOK(h)
      BY <2>2, StartingIsRequest, TwoFactorConstants DEF HoldingOK
    <2>4. /\ req' = [req EXCEPT ![r] = h]
          /\ rows' = rows /\ enabled' = enabled
          /\ UNCHANGED <<nextRow, email, histories>>
      BY <2>1 DEF Start, user
    <2> HIDE DEF h
    <2> QED BY <2>3, <2>4, RowsQuiet, QuietKeeps DEF IInv, TypeOK
  <1>3. CASE Invalidate(r)
    <2> DEFINE h == [req[r] EXCEPT !.at = "insert"]
    <2>1. h \in Request /\ HoldingOK(h)
      BY <1>1, StepOfRequest DEF HoldingOK
    <2>2. /\ req' = [req EXCEPT ![r] = h]
          /\ rows' = Invalidated({req[r].purpose})
          /\ enabled' = enabled
          /\ UNCHANGED <<nextRow, email, histories>>
      BY <1>3 DEF Invalidate, user
    <2> HIDE DEF h
    <2> QED BY <2>1, <2>2, InvalidatedQuiet, QuietKeeps DEF IInv, TypeOK
  <1>4. CASE DisableRead(r)
    <2> DEFINE h == Starting("disable", 0, "login", NoEmail)
    <2>1. h \in Request /\ HoldingOK(h)
      BY StartingIsRequest, TwoFactorConstants DEF HoldingOK, Purpose
    <2>2. /\ req' = [req EXCEPT ![r] = h]
          /\ rows' = rows /\ enabled' = enabled
          /\ UNCHANGED <<nextRow, email, histories>>
      BY <1>4 DEF DisableRead, user
    <2> HIDE DEF h
    <2> QED BY <2>1, <2>2, RowsQuiet, QuietKeeps DEF IInv, TypeOK
  <1>5. CASE Disable(r)
    <2> DEFINE h == [req[r] EXCEPT !.at = "close"]
    <2>1. h \in Request /\ HoldingOK(h)
      BY <1>1, StepOfRequest DEF HoldingOK
    <2>2. /\ req' = [req EXCEPT ![r] = h]
          /\ rows' = rows /\ enabled' = FALSE
          /\ UNCHANGED <<nextRow, email, histories>>
      BY <1>5 DEF Disable
    <2> HIDE DEF h
    <2> QED BY <2>1, <2>2, RowsQuiet, QuietKeeps
  <1> QED BY <1>2, <1>3, <1>4, <1>5

\* A copy of an open row, or of one that is only to be closed, may be held.
LEMMA CopyHolding ==
  ASSUME IInv, NEW i \in ChallengeId, Open(i), NEW right \in BOOLEAN,
         NEW at \in {"resend", "count", "exhaust"},
         at = "resend" => rows[i].sends < MaxSends
  PROVE  Copying(at, i, right) \in Request /\ HoldingOK(Copying(at, i, right))
  <1>1. rows[i] \in Row /\ RowOK(i) /\ i \in 1 .. nextRow - 1
    BY OpenRowExists DEF IInv, TypeOK
  <1>2. /\ rows[i].sends \in 0 .. MaxSends
        /\ rows[i].attempts \in 0 .. MaxAttempts
        /\ rows[i].purpose \in Purpose
        /\ rows[i].payload \in Emails \union {NoEmail}
    BY <1>1, TwoFactorConstants DEF Row
  <1>3. Copying(at, i, right) \in Request
    BY <1>2, TwoFactorConstants DEF Copying, Request, ChallengeId
  <1>4. HoldingOK(Copying(at, i, right))
    BY <1>1 DEF HoldingOK, Copying, RowOK
  <1> QED BY <1>3, <1>4

\* Steps that take or keep a copy of a row.
LEMMA CopiesKeep ==
  ASSUME IInv, NEW r \in Requests,
         \/ \E i \in ChallengeId : ResendRead(r, i)
         \/ \E i \in ChallengeId : \E right \in BOOLEAN : VerifyRead(r, i, right)
         \/ CountRefused(r)
         \/ SendFails(r)
  PROVE  IInv'
  <1>1. req[r] \in Request /\ HoldingOK(req[r])
    BY DEF IInv, TypeOK
  <1>2. CASE \E i \in ChallengeId : ResendRead(r, i)
    <2>1. PICK i \in ChallengeId : ResendRead(r, i)
      BY <1>2
    <2> DEFINE at == IF rows[i].sends >= MaxSends THEN "exhaust" ELSE "resend"
               h == Copying(at, i, FALSE)
    <2>2. h \in Request /\ HoldingOK(h)
      <3>1. rows[i].sends \in Nat
        BY DEF IInv, TypeOK, Row
      <3>2. /\ at \in {"resend", "count", "exhaust"}
            /\ at = "resend" => rows[i].sends < MaxSends
        BY <3>1, TwoFactorConstants
      <3> HIDE DEF at
      <3> QED BY <2>1, <3>2, CopyHolding DEF ResendRead
    <2>3. /\ req' = [req EXCEPT ![r] = h]
          /\ rows' = rows /\ enabled' = enabled
          /\ UNCHANGED <<nextRow, email, histories>>
      BY <2>1 DEF ResendRead, user
    <2> HIDE DEF h
    <2> QED BY <2>2, <2>3, RowsQuiet, QuietKeeps DEF IInv, TypeOK
  <1>3. CASE \E i \in ChallengeId : \E right \in BOOLEAN : VerifyRead(r, i, right)
    <2>1. PICK i \in ChallengeId, right \in BOOLEAN : VerifyRead(r, i, right)
      BY <1>3
    <2> DEFINE h == Copying("count", i, right)
    <2>2. h \in Request /\ HoldingOK(h)
      BY <2>1, CopyHolding DEF VerifyRead
    <2>3. /\ req' = [req EXCEPT ![r] = h]
          /\ rows' = rows /\ enabled' = enabled
          /\ UNCHANGED <<nextRow, email, histories>>
      BY <2>1 DEF VerifyRead, user
    <2> HIDE DEF h
    <2> QED BY <2>2, <2>3, RowsQuiet, QuietKeeps DEF IInv, TypeOK
  <1>4. CASE CountRefused(r) \/ SendFails(r)
    <2>1. PICK at \in {"exhaust", "delete"} :
             /\ req' = [req EXCEPT ![r].at = at]
             /\ req[r].at \in {"count", "send"}
             /\ rows' = rows /\ enabled' = enabled
             /\ UNCHANGED <<nextRow, email, histories>>
      BY <1>4 DEF CountRefused, SendFails, user
    <2> DEFINE h == [req[r] EXCEPT !.at = at]
    <2>2. h \in Request /\ HoldingOK(h)
      <3>1. /\ h \in Request
            /\ h.at = at
            /\ h.id = req[r].id
            /\ h.purpose = req[r].purpose
            /\ h.payload = req[r].payload
        BY <1>1 DEF Request
      <3> HIDE DEF h
      <3>2. req[r].id \in 1 .. nextRow - 1
        BY <1>1, <2>1 DEF HoldingOK
      <3> QED BY <1>1, <3>1, <3>2 DEF HoldingOK
    <2>3. req' = [req EXCEPT ![r] = h]
      BY <2>1
    <2> HIDE DEF h
    <2> QED BY <2>1, <2>2, <2>3, RowsQuiet, QuietKeeps DEF IInv, TypeOK
  <1> QED BY <1>2, <1>3, <1>4

LEMMA TimePassesKeeps ==
  ASSUME IInv, NEW i \in ChallengeId, TimePasses(i)
  PROVE  IInv'
  <1> DEFINE row == [rows[i] EXCEPT !.age =
                       IF @ = "fresh" THEN "cooled" ELSE "expired"]
  <1>1. i < nextRow
    BY OpenRowExists DEF TimePasses, IInv, TypeOK
  <1>2. /\ row \in Row
        /\ row.state = rows[i].state
        /\ row.purpose = rows[i].purpose
        /\ row.payload = rows[i].payload
        /\ row.attempts = rows[i].attempts
        /\ row.sends = rows[i].sends
    BY DEF IInv, TypeOK, Row
  <1>3. /\ rows' = [rows EXCEPT ![i] = row]
        /\ req' = req /\ enabled' = enabled
        /\ UNCHANGED <<nextRow, email, histories>>
    BY DEF TimePasses, user
  <1> HIDE DEF row
  <1>4. Quiet(rows')
    BY <1>1, <1>2, <1>3, OneRowQuiet
  <1> QED BY <1>3, <1>4, IdleHolding, QuietKeeps DEF IInv, TypeOK

\* The steps that count: what they add is allowed by the row itself.
LEMMA InsertKeeps ==
  ASSUME IInv, NEW r \in Requests, Insert(r)
  PROVE  IInv'
  <1> DEFINE h == Starting("send", nextRow, req[r].purpose, req[r].payload)
             new == Challenge("open", req[r].purpose, req[r].payload)
  <1>1. /\ req[r].purpose \in Purpose
        /\ req[r].payload \in Emails \union {NoEmail}
        /\ req[r].purpose = "email_change" => req[r].payload # NoEmail
    BY DEF IInv, TypeOK, Request, HoldingOK
  <1>2. /\ new \in Row
        /\ new.state = "open"
        /\ new.purpose = req[r].purpose
        /\ new.payload = req[r].payload
        /\ new.attempts = 0
        /\ new.sends = 1
    BY <1>1, ChallengeIsRow
  <1>3. /\ nextRow \in ChallengeId
        /\ rows' = [rows EXCEPT ![nextRow] = new]
        /\ emailed' = [emailed EXCEPT ![nextRow] = 1]
        /\ nextRow' = nextRow + 1
        /\ req' = [req EXCEPT ![r] = h]
        /\ UNCHANGED <<user, compared, consumed, consumedCode, closedBelow>>
    BY DEF Insert
  <1>4. PICK g \in Request :
           /\ req' = [req EXCEPT ![r] = g]
           /\ g.at = "send"
           /\ g.id = nextRow
           /\ g.purpose = "email_change" => g.payload # NoEmail
    <2>1. nextRow \in 0 .. MaxChallenges
      BY <1>3 DEF ChallengeId
    <2>2. /\ h \in Request
          /\ h.at = "send"
          /\ h.id = nextRow
          /\ h.purpose = req[r].purpose
          /\ h.payload = req[r].payload
      BY <1>1, <2>1, StartingIsRequest
    <2> HIDE DEF h
    <2> QED BY <1>1, <1>3, <2>2
  <1> HIDE DEF h, new
  <1>5. RowOK(nextRow) /\ rows[nextRow].state = "none"
    BY <1>3 DEF IInv, RowOK, TypeOK, NoRow, Challenge
  <1>6. TypeOK'
    <2>1. rows' \in [ChallengeId -> Row] /\ req' \in [Requests -> Request]
      BY <1>2, <1>3, <1>4 DEF IInv, TypeOK
    <2>2. /\ nextRow' \in 1 .. MaxChallenges + 1
          /\ emailed' \in [ChallengeId -> Nat]
          /\ closedBelow' \in 1 .. MaxChallenges + 1
      BY <1>3, TwoFactorConstants DEF IInv, TypeOK, ChallengeId
    <2> QED BY <1>3, <2>1, <2>2 DEF IInv, TypeOK, user
  <1>7. ASSUME NEW i \in ChallengeId PROVE RowOK(i)'
    <2>1. CASE i = nextRow
      <3>1. compared[i] = 0 /\ consumed[i] = 0 /\ MaxAttempts * 1 = MaxAttempts
        BY <1>5, <2>1, TwoFactorConstants
        DEF IInv, TypeOK, RowOK
      <3>2. /\ rows'[i] = new /\ emailed'[i] = 1
            /\ compared'[i] = 0 /\ consumed'[i] = 0
            /\ ~ (i >= nextRow')
        BY <1>3, <2>1, <3>1 DEF IInv, TypeOK, ChallengeId
      <3>3. new.purpose = "email_change" => new.payload # NoEmail
        BY <1>1, <1>2
      <3> QED BY <1>2, <3>1, <3>2, <3>3, TwoFactorConstants DEF RowOK
    <2>2. CASE i # nextRow
      <3>1. rows'[i] = rows[i] /\ emailed'[i] = emailed[i]
        BY <1>3, <2>2 DEF IInv, TypeOK
      <3> QED BY <1>3, <2>2, <3>1 DEF IInv, TypeOK, RowOK, ChallengeId
    <2> QED BY <2>1, <2>2
  <1>8. ASSUME NEW f \in Request, HoldingOK(f) PROVE HoldingOK(f)'
    <2>1. f.at \notin {"idle", "invalidate", "insert", "disable", "close"} =>
             f.id \in ChallengeId /\ rows'[f.id] = rows[f.id]
      BY <1>3, <1>8, TwoFactorConstants
      DEF HoldingOK, IInv, TypeOK, ChallengeId, Request
    <2> QED BY <1>3, <1>8, <2>1 DEF HoldingOK, IInv, TypeOK
  <1>9. HoldingOK(g)'
    BY <1>3, <1>4, TwoFactorConstants DEF HoldingOK, ChallengeId
  <1>10. \A q \in Requests : HoldingOK(req[q])'
    <2>1. \A q \in Requests : req[q] \in Request /\ HoldingOK(req[q])
      BY DEF IInv, TypeOK
    <2>2. \A q \in Requests : req'[q] = req[q] \/ req'[q] = g
      BY <1>4 DEF IInv, TypeOK
    <2> QED BY <1>8, <1>9, <2>1, <2>2 DEF HoldingOK
  <1>11. EmailIsConfirmed'
    <2>1. \A i \in ChallengeId : consumed[i] = 1 => rows'[i] = rows[i]
      BY <1>3, <1>5 DEF IInv, TypeOK, RowOK
    <2> QED BY <1>3, <2>1 DEF IInv, EmailIsConfirmed, user
  <1>12. (closedBelow <= nextRow)' /\ DisableClosesChallenges'
    BY <1>3, TwoFactorConstants
    DEF IInv, TypeOK, DisableClosesChallenges, Open, ChallengeId
  <1> QED BY <1>6, <1>7, <1>10, <1>11, <1>12 DEF IInv

\* What requests hold stays right when a step rewrites one row i that exists,
\* and one request r.
LEMMA HoldingsKept ==
  ASSUME IInv, NEW r \in Requests, NEW i \in ChallengeId,
         NEW row \in Row, rows' = [rows EXCEPT ![i] = row],
         row.purpose = rows[i].purpose, row.payload = rows[i].payload,
         \A j \in ChallengeId : consumed[j] = 1 => consumed'[j] = 1,
         nextRow' = nextRow,
         NEW g \in Request, req' = [req EXCEPT ![r] = g], HoldingOK(g)'
  PROVE  \A q \in Requests : HoldingOK(req[q])'
  <1>1. ASSUME NEW f \in Request, HoldingOK(f) PROVE HoldingOK(f)'
    <2>1. f.at \notin {"idle", "invalidate", "insert", "disable", "close"} =>
             f.id \in ChallengeId
      BY <1>1, TwoFactorConstants
      DEF HoldingOK, IInv, TypeOK, ChallengeId, Request
    <2>2. \A j \in ChallengeId :
             /\ rows'[j].purpose = rows[j].purpose
             /\ rows'[j].payload = rows[j].payload
      BY DEF IInv, TypeOK
    <2> QED BY <1>1, <2>1, <2>2 DEF HoldingOK
  <1>2. \A q \in Requests : req[q] \in Request /\ HoldingOK(req[q])
    BY DEF IInv, TypeOK
  <1>3. \A q \in Requests : req'[q] = req[q] \/ req'[q] = g
    BY DEF IInv, TypeOK
  <1> QED BY <1>1, <1>2, <1>3 DEF HoldingOK

\* The copy's count is below the limit, and the row's is the copy's.
LEMMA ResendKeeps ==
  ASSUME IInv, NEW r \in Requests, Resend(r)
  PROVE  IInv'
  <1> DEFINE i == req[r].id
             new == Challenge("open", rows[i].purpose, rows[i].payload)
             row == [new EXCEPT !.sends = req[r].code + 1]
  <1>1. i \in ChallengeId /\ i < nextRow
    BY HeldRowExists DEF Resend
  <1>2. /\ Open(i)
        /\ rows[i] \in Row
        /\ RowOK(i)
        /\ rows[i].sends = req[r].code
        /\ req[r].code < MaxSends
    BY <1>1 DEF Resend, MayResend, IInv, TypeOK, HoldingOK
  <1>3. rows[i].sends \in 1 .. MaxSends
    BY <1>2 DEF Row
  <1>4. new \in Row /\ new.state = "open" /\ new.attempts = 0
        /\ new.purpose = rows[i].purpose /\ new.payload = rows[i].payload
    BY <1>2, ChallengeIsRow DEF Row
  <1>5. /\ rows' = [rows EXCEPT ![i] = row]
        /\ emailed' = [emailed EXCEPT ![i] = @ + 1]
        /\ req' = [req EXCEPT ![r] = Idle]
        /\ UNCHANGED <<nextRow, user, compared, consumed, consumedCode,
                        closedBelow>>
    BY DEF Resend
  <1> HIDE DEF new, i
  <1>6. /\ row \in Row /\ row.state = "open" /\ row.attempts = 0
        /\ row.purpose = rows[i].purpose /\ row.payload = rows[i].payload
        /\ row.sends = rows[i].sends + 1
    BY <1>2, <1>3, <1>4, TwoFactorConstants DEF Row
  <1> HIDE DEF row
  <1>7. TypeOK'
    BY <1>1, <1>5, <1>6, IdleHolding DEF IInv, TypeOK, user
  <1>8. ASSUME NEW j \in ChallengeId PROVE RowOK(j)'
    <2>1. CASE j = i
      <3>1. /\ compared[i] \in Nat /\ rows[i].attempts \in 0 .. MaxAttempts
            /\ emailed[i] \in Nat /\ nextRow \in Nat /\ i \in Nat
        BY <1>1, <1>2 DEF IInv, TypeOK, Row, ChallengeId
      <3>2. MaxAttempts * (rows[i].sends + 1)
               = MaxAttempts * rows[i].sends + MaxAttempts
        BY <1>3, TwoFactorConstants
      <3>3. MaxAttempts * rows[i].sends \in Nat
        BY <1>3, TwoFactorConstants
      <3>4. compared[i] + MaxAttempts <= MaxAttempts * (rows[i].sends + 1) + 0
        <4> DEFINE product == MaxAttempts * rows[i].sends
        <4>1. compared[i] + MaxAttempts <= product + rows[i].attempts
          BY <1>2 DEF RowOK
        <4>2. product \in Nat
          BY <3>3
        <4> HIDE DEF product
        <4>3. compared[i] + MaxAttempts <= (product + MaxAttempts) + 0
          BY <3>1, <4>1, <4>2, TwoFactorConstants
        <4> QED BY <3>2, <4>3 DEF product
      <3>5. /\ rows'[j] = row /\ emailed'[j] = emailed[i] + 1
            /\ compared'[j] = compared[i] /\ consumed'[j] = consumed[i]
            /\ ~ (j >= nextRow')
        BY <1>1, <1>5, <2>1, <3>1 DEF IInv, TypeOK
      <3>6. emailed[i] + 1 <= rows[i].sends + 1
        BY <1>2, <1>3, <3>1 DEF RowOK
      <3>7. consumed[i] = 0
        BY <1>2 DEF RowOK, Open
      <3>8. row.purpose = "email_change" => row.payload # NoEmail
        BY <1>2, <1>6 DEF RowOK
      <3> QED BY <1>5, <1>6, <3>4, <3>5, <3>6, <3>7, <3>8 DEF RowOK
    <2>2. CASE j # i
      <3>1. rows'[j] = rows[j] /\ emailed'[j] = emailed[j]
        BY <1>5, <2>2 DEF IInv, TypeOK
      <3> QED BY <1>5, <3>1 DEF IInv, RowOK
    <2> QED BY <2>1, <2>2
  <1>9. \A q \in Requests : HoldingOK(req[q])'
    <2>1. HoldingOK(Idle)'
      BY <1>5, TwoFactorConstants DEF Idle, HoldingOK, Starting
    <2> QED BY <1>1, <1>5, <1>6, <2>1, IdleHolding, HoldingsKept
  <1>10. EmailIsConfirmed'
    BY <1>1, <1>5, <1>6 DEF IInv, TypeOK, EmailIsConfirmed, user
  <1>11. (closedBelow <= nextRow)' /\ DisableClosesChallenges'
    BY <1>1, <1>2, <1>5 DEF IInv, TypeOK, DisableClosesChallenges, Open
  <1> QED BY <1>7, <1>8, <1>9, <1>10, <1>11 DEF IInv

\* The row's own counter was below the limit when the guess was counted.
LEMMA CountedKeeps ==
  ASSUME IInv, NEW r \in Requests, Counted(r)
  PROVE  IInv'
  <1> DEFINE i == req[r].id
             row == [rows[i] EXCEPT !.attempts = @ + 1]
             h == IF req[r].right THEN [req[r] EXCEPT !.at = "mark"]
                  ELSE IF req[r].attempts + 1 >= MaxAttempts
                       THEN [req[r] EXCEPT !.at = "exhaust"]
                  ELSE Idle
  <1>1. i \in ChallengeId /\ i < nextRow
    BY HeldRowExists DEF Counted
  <1>2. /\ rows[i] \in Row
        /\ RowOK(i)
        /\ rows[i].attempts < MaxAttempts
        /\ req[r] \in Request
        /\ HoldingOK(req[r])
        /\ req[r].at = "count"
    BY <1>1 DEF Counted, MayCount, IInv, TypeOK
  <1>3. /\ row \in Row
        /\ row.state = rows[i].state
        /\ row.purpose = rows[i].purpose
        /\ row.payload = rows[i].payload
        /\ row.sends = rows[i].sends
        /\ row.attempts = rows[i].attempts + 1
    BY <1>2, TwoFactorConstants DEF Row
  <1>4. /\ rows' = [rows EXCEPT ![i] = row]
        /\ compared' = [compared EXCEPT ![i] = @ + 1]
        /\ req' = [req EXCEPT ![r] = h]
        /\ UNCHANGED <<nextRow, user, emailed, consumed, consumedCode,
                        closedBelow>>
    BY DEF Counted
  <1> HIDE DEF row
  <1>5. PICK g \in Request : req' = [req EXCEPT ![r] = g] /\ HoldingOK(g)'
    <2>1. \A j \in ChallengeId :
             /\ rows'[j].purpose = rows[j].purpose
             /\ rows'[j].payload = rows[j].payload
      BY <1>1, <1>3, <1>4 DEF IInv, TypeOK
    <2>2. ASSUME NEW f \in Request,
                 \/ f = Idle
                 \/ /\ f.at \in {"mark", "exhaust"}
                    /\ f.id = req[r].id
                    /\ f.purpose = req[r].purpose
                    /\ f.payload = req[r].payload
          PROVE  HoldingOK(f)'
      <3>1. CASE f = Idle
        BY <3>1, TwoFactorConstants DEF Idle, HoldingOK, Starting
      <3>2. CASE f # Idle
        BY <1>1, <1>2, <1>4, <2>1, <2>2, <3>2 DEF HoldingOK
      <3> QED BY <3>1, <3>2
    <2>3. /\ [req[r] EXCEPT !.at = "mark"] \in Request
          /\ [req[r] EXCEPT !.at = "mark"].at = "mark"
          /\ [req[r] EXCEPT !.at = "mark"].id = req[r].id
          /\ [req[r] EXCEPT !.at = "mark"].purpose = req[r].purpose
          /\ [req[r] EXCEPT !.at = "mark"].payload = req[r].payload
      BY <1>2, StepOfRequest
    <2>4. /\ [req[r] EXCEPT !.at = "exhaust"] \in Request
          /\ [req[r] EXCEPT !.at = "exhaust"].at = "exhaust"
          /\ [req[r] EXCEPT !.at = "exhaust"].id = req[r].id
          /\ [req[r] EXCEPT !.at = "exhaust"].purpose = req[r].purpose
          /\ [req[r] EXCEPT !.at = "exhaust"].payload = req[r].payload
      BY <1>2, StepOfRequest
    <2>5. /\ h \in Request
          /\ \/ h = Idle
             \/ /\ h.at \in {"mark", "exhaust"}
                /\ h.id = req[r].id
                /\ h.purpose = req[r].purpose
                /\ h.payload = req[r].payload
      BY <2>3, <2>4, IdleHolding
    <2> HIDE DEF h
    <2> QED BY <1>4, <2>2, <2>5
  <1> HIDE DEF i, h
  <1>6. TypeOK'
    BY <1>1, <1>3, <1>4, <1>5 DEF IInv, TypeOK, user
  <1>7. ASSUME NEW j \in ChallengeId PROVE RowOK(j)'
    <2>1. CASE j = i
      <3> DEFINE product == MaxAttempts * rows[i].sends
      <3>1. /\ compared[i] \in Nat /\ rows[i].attempts \in Nat
            /\ rows[i].sends \in Nat /\ nextRow \in Nat /\ i \in Nat
        BY <1>1, <1>2, TwoFactorConstants DEF IInv, TypeOK, Row, ChallengeId
      <3>2. product \in Nat
        BY <3>1, TwoFactorConstants
      <3>3. compared[i] + MaxAttempts <= product + rows[i].attempts
        BY <1>2 DEF RowOK
      <3>4. MaxAttempts * row.sends = product
        BY <1>3
      <3> HIDE DEF product
      <3>5. (compared[i] + 1) + MaxAttempts <= product + (rows[i].attempts + 1)
        BY <3>1, <3>2, <3>3, TwoFactorConstants
      <3>6. /\ rows'[j] = row /\ compared'[j] = compared[i] + 1
            /\ emailed'[j] = emailed[i] /\ consumed'[j] = consumed[i]
            /\ ~ (j >= nextRow')
        BY <1>1, <1>4, <2>1, <3>1 DEF IInv, TypeOK
      <3> QED BY <1>2, <1>3, <3>4, <3>5, <3>6 DEF RowOK
    <2>2. CASE j # i
      <3>1. rows'[j] = rows[j] /\ compared'[j] = compared[j]
        BY <1>4, <2>2 DEF IInv, TypeOK
      <3> QED BY <1>4, <3>1 DEF IInv, RowOK
    <2> QED BY <2>1, <2>2
  <1>8. \A q \in Requests : HoldingOK(req[q])'
    BY <1>1, <1>3, <1>4, <1>5, HoldingsKept
  <1>9. EmailIsConfirmed'
    BY <1>1, <1>3, <1>4 DEF IInv, TypeOK, EmailIsConfirmed, user
  <1>10. (closedBelow <= nextRow)' /\ DisableClosesChallenges'
    BY <1>1, <1>3, <1>4 DEF IInv, TypeOK, DisableClosesChallenges, Open
  <1> QED BY <1>6, <1>7, <1>8, <1>9, <1>10 DEF IInv

\* Only an open row lets a request through, and it is used from then on.
LEMMA ConsumeKeeps ==
  ASSUME IInv, NEW r \in Requests, Consume(r)
  PROVE  IInv'
  <1> DEFINE i == req[r].id
             row == [rows[i] EXCEPT !.state = "used"]
             h == CASE req[r].purpose = "login" -> Idle
                    [] req[r].purpose = "enable" -> [req[r] EXCEPT !.at = "enable"]
                    [] OTHER -> [req[r] EXCEPT !.at = "email"]
  <1>1. i \in ChallengeId /\ i < nextRow
    BY HeldRowExists DEF Consume
  <1>2. /\ rows[i] \in Row
        /\ RowOK(i)
        /\ rows[i].state = "open"
        /\ req[r] \in Request
        /\ HoldingOK(req[r])
        /\ req[r].at = "mark"
        /\ consumed[i] = 0
    BY <1>1 DEF Consume, StillUnused, Open, IInv, TypeOK, RowOK
  <1>3. /\ row \in Row
        /\ row.state = "used"
        /\ row.purpose = rows[i].purpose
        /\ row.payload = rows[i].payload
        /\ row.sends = rows[i].sends
        /\ row.attempts = rows[i].attempts
    BY <1>2 DEF Row
  <1>4. /\ rows' = [rows EXCEPT ![i] = row]
        /\ consumed' = [consumed EXCEPT ![i] = @ + 1]
        /\ consumedCode' = [consumedCode EXCEPT ![i] = req[r].code]
        /\ req' = [req EXCEPT ![r] = h]
        /\ UNCHANGED <<nextRow, user, compared, emailed, closedBelow>>
    BY <1>2 DEF Consume, MarkUsed
  <1> HIDE DEF row
  <1>5. PICK g \in Request : req' = [req EXCEPT ![r] = g] /\ HoldingOK(g)'
    <2>1. /\ \A j \in ChallengeId :
                /\ rows'[j].purpose = rows[j].purpose
                /\ rows'[j].payload = rows[j].payload
          /\ consumed'[i] = 1
      BY <1>1, <1>2, <1>3, <1>4 DEF IInv, TypeOK
    <2>2. ASSUME NEW f \in Request,
                 \/ f = Idle
                 \/ /\ f.at \in {"enable", "email"}
                    /\ f.at = "email" => f.purpose = "email_change"
                    /\ f.id = req[r].id
                    /\ f.purpose = req[r].purpose
                    /\ f.payload = req[r].payload
          PROVE  HoldingOK(f)'
      <3>1. CASE f = Idle
        BY <3>1, TwoFactorConstants DEF Idle, HoldingOK, Starting
      <3>2. CASE f # Idle
        BY <1>1, <1>2, <1>4, <2>1, <2>2, <3>2 DEF HoldingOK
      <3> QED BY <3>1, <3>2
    <2>3. /\ [req[r] EXCEPT !.at = "enable"] \in Request
          /\ [req[r] EXCEPT !.at = "enable"].at = "enable"
          /\ [req[r] EXCEPT !.at = "enable"].id = req[r].id
          /\ [req[r] EXCEPT !.at = "enable"].purpose = req[r].purpose
          /\ [req[r] EXCEPT !.at = "enable"].payload = req[r].payload
      BY <1>2, StepOfRequest
    <2>4. /\ [req[r] EXCEPT !.at = "email"] \in Request
          /\ [req[r] EXCEPT !.at = "email"].at = "email"
          /\ [req[r] EXCEPT !.at = "email"].id = req[r].id
          /\ [req[r] EXCEPT !.at = "email"].purpose = req[r].purpose
          /\ [req[r] EXCEPT !.at = "email"].payload = req[r].payload
      BY <1>2, StepOfRequest
    <2>5. req[r].purpose \in {"login", "enable", "email_change"}
      BY <1>2 DEF Request, Purpose
    <2>6. CASE req[r].purpose = "login"
      BY <1>4, <2>2, <2>6, IdleHolding
    <2>7. CASE req[r].purpose = "enable"
      <3>1. h = [req[r] EXCEPT !.at = "enable"]
        BY <2>7
      <3> QED BY <1>4, <2>2, <2>3, <3>1
    <2>8. CASE req[r].purpose = "email_change"
      <3>1. h = [req[r] EXCEPT !.at = "email"]
        BY <2>8
      <3> QED BY <1>4, <2>2, <2>4, <2>8, <3>1
    <2> QED BY <2>5, <2>6, <2>7, <2>8
  <1> HIDE DEF i, h
  <1>6. TypeOK'
    <2>1. req[r].code \in 0 .. MaxSends
      BY <1>2 DEF Request
    <2> QED BY <1>1, <1>3, <1>4, <1>5, <2>1 DEF IInv, TypeOK, user
  <1>7. ASSUME NEW j \in ChallengeId PROVE RowOK(j)'
    <2>1. CASE j = i
      <3>1. /\ rows'[j] = row /\ consumed'[j] = 1
            /\ ~ (j >= nextRow')
        BY <1>1, <1>2, <1>4, <2>1 DEF IInv, TypeOK, ChallengeId
      <3>2. MaxAttempts * row.sends = MaxAttempts * rows[i].sends
        BY <1>3
      <3> QED BY <1>2, <1>3, <1>4, <2>1, <3>1, <3>2 DEF RowOK
    <2>2. CASE j # i
      <3>1. rows'[j] = rows[j] /\ consumed'[j] = consumed[j]
        BY <1>4, <2>2 DEF IInv, TypeOK
      <3> QED BY <1>4, <3>1 DEF IInv, RowOK
    <2> QED BY <2>1, <2>2
  <1>8. \A q \in Requests : HoldingOK(req[q])'
    <2>1. \A j \in ChallengeId : consumed[j] = 1 => consumed'[j] = 1
      BY <1>2, <1>4 DEF IInv, TypeOK
    <2> QED BY <1>1, <1>3, <1>4, <1>5, <2>1, HoldingsKept
  <1>9. EmailIsConfirmed'
    <2>1. \A j \in ChallengeId :
             /\ rows'[j].purpose = rows[j].purpose
             /\ rows'[j].payload = rows[j].payload
             /\ consumed[j] = 1 => consumed'[j] = 1
      BY <1>1, <1>2, <1>3, <1>4 DEF IInv, TypeOK
    <2>2. email' = email
      BY <1>4 DEF user
    <2>3. CASE email # FirstEmail
      <3>1. PICK j \in ChallengeId :
               /\ rows[j].purpose = "email_change"
               /\ rows[j].payload = email
               /\ consumed[j] = 1
        BY <2>3 DEF IInv, EmailIsConfirmed
      <3>2. /\ rows'[j].purpose = "email_change"
            /\ rows'[j].payload = email'
            /\ consumed'[j] = 1
        BY <2>1, <2>2, <3>1
      <3> QED BY <3>2 DEF EmailIsConfirmed
    <2>4. CASE email = FirstEmail
      BY <2>2, <2>4 DEF EmailIsConfirmed
    <2> QED BY <2>3, <2>4
  <1>10. (closedBelow <= nextRow)' /\ DisableClosesChallenges'
    BY <1>1, <1>3, <1>4 DEF IInv, TypeOK, DisableClosesChallenges, Open
  <1> QED BY <1>6, <1>7, <1>8, <1>9, <1>10 DEF IInv

\* The email written is the address of the challenge that let the request
\* through.
LEMMA ConfirmEmailChangeKeeps ==
  ASSUME IInv, NEW r \in Requests, ConfirmEmailChange(r)
  PROVE  IInv'
  <1>1. req[r] \in Request /\ HoldingOK(req[r]) /\ req[r].at = "email"
    BY DEF IInv, TypeOK, ConfirmEmailChange
  <1>2. req[r].id \in ChallengeId
    BY <1>1, HeldRowExists
  <1>3. /\ email' = req[r].payload
        /\ req' = [req EXCEPT ![r] = Idle]
        /\ UNCHANGED <<rows, nextRow, enabled, histories>>
    BY DEF ConfirmEmailChange, ConfirmedEmail
  <1>4. email' \in Emails /\ EmailIsConfirmed'
    BY <1>1, <1>2, <1>3 DEF HoldingOK, EmailIsConfirmed, Request, histories
  <1>5. TypeOK'
    BY <1>3, <1>4, IdleHolding DEF IInv, TypeOK, histories
  <1>6. \A i \in ChallengeId : RowOK(i)'
    BY <1>3 DEF IInv, RowOK, histories
  <1>7. \A q \in Requests : HoldingOK(req[q])'
    <2>1. \A q \in Requests : HoldingOK(req[q])
      BY DEF IInv
    <2>2. \A q \in Requests : req'[q] = req[q] \/ req'[q] = Idle
      BY <1>3 DEF IInv, TypeOK
    <2> QED BY <1>3, <2>1, <2>2, IdleHolding DEF HoldingOK, histories
  <1>8. (closedBelow <= nextRow)' /\ DisableClosesChallenges'
    BY <1>3 DEF IInv, DisableClosesChallenges, Open, histories
  <1> QED BY <1>4, <1>5, <1>6, <1>7, <1>8 DEF IInv

LEMMA CloseAllKeeps ==
  ASSUME IInv, NEW r \in Requests, CloseAll(r)
  PROVE  IInv'
  <1>1. /\ rows' = Invalidated(Purpose)
        /\ closedBelow' = nextRow
        /\ req' = [req EXCEPT ![r] = Idle]
        /\ UNCHANGED <<nextRow, user, compared, emailed, consumed, consumedCode>>
    BY DEF CloseAll, ClosedByDisable
  <1>2. Quiet(rows')
    BY <1>1, InvalidatedQuiet
  <1>3. TypeOK'
    BY <1>1, <1>2, IdleHolding DEF IInv, TypeOK, Quiet, user
  <1>4. ASSUME NEW i \in ChallengeId PROVE RowOK(i)'
    <2>1. MaxAttempts * rows'[i].sends = MaxAttempts * rows[i].sends
      BY <1>2 DEF Quiet
    <2> QED BY <1>1, <1>2, <2>1 DEF IInv, RowOK, Quiet
  <1>5. ASSUME NEW g \in Request, HoldingOK(g) PROVE HoldingOK(g)'
    <2>1. g.at \notin {"idle", "invalidate", "insert", "disable", "close"} =>
             g.id \in ChallengeId
      BY <1>5, TwoFactorConstants DEF HoldingOK, IInv, TypeOK, ChallengeId, Request
    <2> QED BY <1>1, <1>2, <1>5, <2>1 DEF HoldingOK, Quiet
  <1>6. \A q \in Requests : HoldingOK(req[q])'
    <2>1. \A q \in Requests : req[q] \in Request /\ HoldingOK(req[q])
      BY DEF IInv, TypeOK
    <2>2. \A q \in Requests : req'[q] = req[q] \/ req'[q] = Idle
      BY <1>1 DEF IInv, TypeOK
    <2> QED BY <1>5, <2>1, <2>2, IdleHolding DEF HoldingOK
  <1>7. EmailIsConfirmed'
    BY <1>1, <1>2 DEF IInv, EmailIsConfirmed, Quiet, user
  <1>8. (closedBelow <= nextRow)' /\ DisableClosesChallenges'
    <2>1. \A i \in ChallengeId : rows[i].purpose \in Purpose
      BY DEF IInv, TypeOK, Row
    <2> QED
      BY <1>1, <2>1, InvalidatedQuiet
      DEF IInv, TypeOK, DisableClosesChallenges, Open
  <1> QED BY <1>3, <1>4, <1>6, <1>7, <1>8 DEF IInv

LEMMA NextKeeps == IInv /\ [Next]_vars => IInv'
  <1> SUFFICES ASSUME IInv, [Next]_vars PROVE IInv'
    OBVIOUS
  <1>1. CASE UNCHANGED vars
    <2>1. /\ req' = req /\ rows' = rows /\ enabled' = enabled
          /\ UNCHANGED <<nextRow, email, histories>>
      BY <1>1 DEF vars
    <2> QED BY <2>1, RowsQuiet, IdleHolding, QuietKeeps DEF IInv, TypeOK
  <1>2. CASE Next
    BY <1>2, EndsKeep, StartsKeep, CopiesKeep, TimePassesKeeps, InsertKeeps,
       ResendKeeps, CountedKeeps, ConsumeKeeps, ConfirmEmailChangeKeeps,
       CloseAllKeeps
    DEF Next
  <1> QED BY <1>1, <1>2

\* The invariant holds in every state of every behaviour.
THEOREM TwoFactorInvariant == Spec => []IInv
  BY InitIInv, NextKeeps, PTL DEF Spec

\* Type correctness, with attempts and send_count within their limits.
THEOREM TwoFactorTypeOK == Spec => []TypeOK
  BY TwoFactorInvariant, PTL DEF IInv

\* Whatever number of requests verify and resend at once, each code sent buys
\* at most MAX_CODE_ATTEMPTS comparisons.
THEOREM TwoFactorComparisonsBounded == Spec => []ComparisonsBounded
  <1>1. IInv => ComparisonsBounded
    <2> SUFFICES ASSUME IInv, NEW i \in ChallengeId
                 PROVE  compared[i] <= MaxAttempts * rows[i].sends
      BY DEF ComparisonsBounded
    <2> DEFINE product == MaxAttempts * rows[i].sends
    <2>1. /\ rows[i].attempts \in 0 .. MaxAttempts
          /\ rows[i].sends \in Nat
          /\ compared[i] \in Nat
      BY TwoFactorConstants DEF IInv, TypeOK, Row
    <2>2. product \in Nat
      BY <2>1, TwoFactorConstants
    <2>3. compared[i] + MaxAttempts <= product + rows[i].attempts
      BY DEF IInv, RowOK
    <2> HIDE DEF product
    <2>4. compared[i] <= product
      BY <2>1, <2>2, <2>3, TwoFactorConstants
    <2> QED BY <2>4 DEF product
  <1> QED BY <1>1, TwoFactorInvariant, PTL

\* A challenge never sends more than MAX_SENDS codes.
THEOREM TwoFactorSendsBounded == Spec => []SendsBounded
  <1>1. IInv => SendsBounded
    <2> SUFFICES ASSUME IInv, NEW i \in ChallengeId PROVE emailed[i] <= MaxSends
      BY DEF SendsBounded
    <2>1. /\ emailed[i] \in Nat /\ emailed[i] <= rows[i].sends
          /\ rows[i].sends \in 1 .. MaxSends
      BY DEF IInv, TypeOK, Row, RowOK
    <2> QED BY <2>1, TwoFactorConstants
  <1> QED BY <1>1, TwoFactorInvariant, PTL

\* A challenge lets at most one request through.
THEOREM TwoFactorConsumedOnce == Spec => []ConsumedOnce
  <1>1. IInv => ConsumedOnce
    BY DEF IInv, RowOK, ConsumedOnce
  <1> QED BY <1>1, TwoFactorInvariant, PTL

\* The email is always one whose owner returned the code.
THEOREM TwoFactorEmailIsConfirmed == Spec => []EmailIsConfirmed
  BY TwoFactorInvariant, PTL DEF IInv

\* Turning 2FA off leaves no earlier code alive.
THEOREM TwoFactorDisableClosesChallenges == Spec => []DisableClosesChallenges
  BY TwoFactorInvariant, PTL DEF IInv

-----------------------------------------------------------------------------
(* What no step may do: reopen, resend or use a closed challenge. *)

LEMMA NextClosed ==
  ASSUME IInv, [Next]_vars, NEW i \in ChallengeId,
         rows[i].state \in {"used", "deleted"}
  PROVE  /\ rows'[i].state \in {"used", "deleted"}
         /\ emailed'[i] = emailed[i]
         /\ consumed'[i] = consumed[i]
  <1> DEFINE Closed == /\ rows'[i].state \in {"used", "deleted"}
                       /\ emailed'[i] = emailed[i]
                       /\ consumed'[i] = consumed[i]
  <1>1. TypeOK /\ i # nextRow /\ ~ Open(i)
    BY DEF IInv, TypeOK, RowOK, NoRow, Challenge, Open
  <1>2. CASE UNCHANGED <<rows, emailed, consumed>>
    BY <1>2
  <1>3. ASSUME NEW r \in Requests,
               \/ Sent(r)
               \/ SendFails(r)
               \/ ResendRefused(r)
               \/ CountRefused(r)
               \/ ConsumeRefused(r)
               \/ ConfirmEnable(r)
               \/ ConfirmEmailChange(r)
               \/ DisableRead(r)
               \/ Disable(r)
               \/ Stop(r)
        PROVE  UNCHANGED <<rows, emailed, consumed>>
    BY <1>3
    DEF Sent, SendFails, ResendRefused, CountRefused, ConsumeRefused,
        ConfirmEnable, ConfirmEmailChange, DisableRead, Disable, Stop, histories
  <1>4. ASSUME NEW r \in Requests,
               \/ \E purpose \in Purpose : \E payload \in Emails \union {NoEmail} :
                     Start(r, purpose, payload)
               \/ \E j \in ChallengeId : ResendRead(r, j)
               \/ \E j \in ChallengeId : \E right \in BOOLEAN :
                     VerifyRead(r, j, right)
        PROVE  UNCHANGED <<rows, emailed, consumed>>
    BY <1>4 DEF Start, ResendRead, VerifyRead, histories
  <1>5. ASSUME NEW r \in Requests, Invalidate(r) \/ CloseAll(r) PROVE Closed
    BY <1>1, <1>5, InvalidatedQuiet
    DEF Invalidate, CloseAll, ClosedByDisable, histories
  <1>6. ASSUME NEW r \in Requests, Insert(r) \/ Resend(r) PROVE Closed
    BY <1>1, <1>6 DEF Insert, Resend, MayResend, Open, TypeOK
  <1>7. ASSUME NEW r \in Requests, Delete(r) \/ Counted(r) PROVE Closed
    BY <1>1, <1>7 DEF Delete, Counted, TypeOK, Row, histories
  <1>8. ASSUME NEW r \in Requests, Exhaust(r) PROVE Closed
    BY <1>1, <1>8, MarkUsedQuiet, HeldRowExists DEF Exhaust, histories
  <1>9. ASSUME NEW r \in Requests, Consume(r) PROVE Closed
    <2>1. req[r].id \in ChallengeId /\ req[r].id < nextRow /\ req[r].id # i
      BY <1>1, <1>9, HeldRowExists DEF Consume, StillUnused
    <2> QED BY <1>1, <1>9, <2>1, MarkUsedQuiet DEF Consume, TypeOK
  <1>10. ASSUME NEW j \in ChallengeId, TimePasses(j) PROVE Closed
    BY <1>1, <1>10 DEF TimePasses, TypeOK, histories
  <1>11. CASE UNCHANGED vars
    BY <1>2, <1>11 DEF vars, histories
  <1>12. CASE Next
    BY <1>12, <1>2, <1>3, <1>4, <1>5, <1>6, <1>7, <1>8, <1>9, <1>10 DEF Next
  <1> QED BY <1>11, <1>12

\* A used, replaced or withdrawn challenge never comes back, is not sent again
\* and lets nobody through.
THEOREM TwoFactorClosedStaysClosed == Spec => ClosedStaysClosed
  <1>1. IInv /\ [Next]_vars =>
          [\A i \in ChallengeId :
              rows[i].state \in {"used", "deleted"}
                  => /\ rows'[i].state \in {"used", "deleted"}
                     /\ emailed'[i] = emailed[i]
                     /\ consumed'[i] = consumed[i]]_vars
    BY NextClosed
  <1> QED BY <1>1, TwoFactorInvariant, PTL DEF Spec, ClosedStaysClosed
-----------------------------------------------------------------------------
(* TwoFactor implements OneTimeCode.                                       *)

\* The invariant of the refinement: IInv, that send_count is the number of codes sent,
\* and that a request about to mark a row used has guessed.
RefInv == IInv /\ SendsAgree /\ MarksAreEarned

LEMMA InitRefInv == Init => RefInv
  BY InitIInv, TwoFactorConstants
  DEF RefInv, Init, SendsAgree, MarksAreEarned, Idle, Starting, ChallengeId

\* The steps that touch the rows, but neither a counter nor the codes.
LEMMA QuietStep ==
  ASSUME IInv,
         \/ \E r \in Requests : \/ Invalidate(r)
                                \/ Delete(r)
                                \/ Exhaust(r)
                                \/ Consume(r)
                                \/ CloseAll(r)
         \/ \E i \in ChallengeId : TimePasses(i)
  PROVE  Quiet(rows') /\ UNCHANGED <<nextRow, emailed, compared>>
  <1>1. ASSUME NEW r \in Requests, Invalidate(r) \/ CloseAll(r)
        PROVE  Quiet(rows')
    BY <1>1, InvalidatedQuiet DEF Invalidate, CloseAll, ClosedByDisable
  <1>2. ASSUME NEW r \in Requests, Exhaust(r) \/ Consume(r)
        PROVE  Quiet(rows')
    BY <1>2, HeldRowExists, MarkUsedQuiet DEF Exhaust, Consume
  <1>3. ASSUME NEW r \in Requests, Delete(r)
        PROVE  Quiet(rows')
    <2>1. req[r].id \in ChallengeId /\ req[r].id < nextRow /\ rows[req[r].id] \in Row
      BY <1>3, HeldRowExists DEF Delete, IInv, TypeOK
    <2> QED BY <1>3, <2>1, DeletedRow, OneRowQuiet DEF Delete
  <1>4. ASSUME NEW i \in ChallengeId, TimePasses(i)
        PROVE  Quiet(rows')
    <2> DEFINE row == [rows[i] EXCEPT !.age =
                         IF @ = "fresh" THEN "cooled" ELSE "expired"]
    <2>1. i < nextRow
      BY <1>4, OpenRowExists DEF TimePasses, IInv, TypeOK
    <2>2. /\ row \in Row
          /\ row.state = rows[i].state
          /\ row.purpose = rows[i].purpose
          /\ row.payload = rows[i].payload
          /\ row.attempts = rows[i].attempts
          /\ row.sends = rows[i].sends
      BY DEF IInv, TypeOK, Row
    <2>3. rows' = [rows EXCEPT ![i] = row]
      BY <1>4 DEF TimePasses
    <2> HIDE DEF row
    <2> QED BY <2>1, <2>2, <2>3, OneRowQuiet
  <1>5. UNCHANGED <<nextRow, emailed, compared>>
    BY DEF Invalidate, Delete, Exhaust, Consume, CloseAll, TimePasses, histories
  <1> QED BY <1>1, <1>2, <1>3, <1>4, <1>5

\* The steps that touch neither the rows nor the histories.
LEMMA LocalStep ==
  ASSUME NEW r \in Requests,
         \/ Sent(r)
         \/ SendFails(r)
         \/ ResendRefused(r)
         \/ CountRefused(r)
         \/ ConsumeRefused(r)
         \/ ConfirmEnable(r)
         \/ ConfirmEmailChange(r)
         \/ DisableRead(r)
         \/ Disable(r)
         \/ Stop(r)
         \/ \E purpose \in Purpose : \E payload \in Emails \union {NoEmail} :
               Start(r, purpose, payload)
         \/ \E i \in ChallengeId : ResendRead(r, i)
         \/ \E i \in ChallengeId : \E right \in BOOLEAN : VerifyRead(r, i, right)
  PROVE  UNCHANGED <<rows, nextRow, histories>>
  BY DEF Sent, SendFails, ResendRefused, CountRefused, ConsumeRefused, ConfirmEnable,
         ConfirmEmailChange, DisableRead, Disable, Stop, Start, ResendRead, VerifyRead

\* What counting an attempt, and sending again, do to the row.
LEMMA CountedRow ==
  ASSUME IInv, NEW r \in Requests, Counted(r)
  PROVE  /\ req[r].id \in ChallengeId /\ req[r].id < nextRow
         /\ rows[req[r].id].attempts < MaxAttempts
         /\ \A j \in ChallengeId : /\ rows'[j].state = rows[j].state
                                   /\ rows'[j].sends = rows[j].sends
                                   /\ rows'[j].purpose = rows[j].purpose
         /\ compared' = [compared EXCEPT ![req[r].id] = @ + 1]
         /\ UNCHANGED <<nextRow, emailed, consumed>>
  <1>1. req[r].id \in ChallengeId /\ req[r].id < nextRow
    BY HeldRowExists DEF Counted
  <1>2. \A j \in ChallengeId : rows[j] \in Row
    BY DEF IInv, TypeOK
  <1> QED BY <1>1, <1>2 DEF Counted, MayCount, IInv, TypeOK, Row

LEMMA ResendRow ==
  ASSUME IInv, NEW r \in Requests, Resend(r)
  PROVE  /\ req[r].id \in ChallengeId /\ req[r].id < nextRow
         /\ Open(req[r].id) /\ rows'[req[r].id].state = "open"
         /\ rows[req[r].id].sends < MaxSends
         /\ rows'[req[r].id].sends = rows[req[r].id].sends + 1
         /\ \A j \in ChallengeId : j # req[r].id => rows'[j] = rows[j]
         /\ emailed' = [emailed EXCEPT ![req[r].id] = @ + 1]
         /\ UNCHANGED <<nextRow, compared, consumed, consumedCode>>
  <1>1. req[r].id \in ChallengeId /\ req[r].id < nextRow
    BY HeldRowExists DEF Resend
  <1>2. req[r].code < MaxSends /\ rows[req[r].id].sends = req[r].code
    BY DEF Resend, MayResend, IInv, HoldingOK
  <1> QED BY <1>1, <1>2 DEF Resend, MayResend, IInv, TypeOK, Challenge

LEMMA InsertRow ==
  ASSUME IInv, NEW r \in Requests, Insert(r)
  PROVE  /\ nextRow \in ChallengeId /\ nextRow' = nextRow + 1
         /\ rows[nextRow].state = "none" /\ rows'[nextRow].state = "open"
         /\ emailed[nextRow] = 0 /\ consumed[nextRow] = 0
         /\ rows'[nextRow].sends = 1
         /\ \A j \in ChallengeId : j # nextRow => rows'[j] = rows[j]
         /\ emailed' = [emailed EXCEPT ![nextRow] = 1]
         /\ UNCHANGED <<compared, consumed, consumedCode>>
  BY DEF Insert, IInv, TypeOK, RowOK, NoRow, Challenge

LEMMA NextSendsAgree == RefInv /\ [Next]_vars => SendsAgree'
  <1> SUFFICES ASSUME RefInv, [Next]_vars PROVE SendsAgree'
    OBVIOUS
  <1>1. /\ IInv /\ nextRow \in Nat /\ emailed \in [ChallengeId -> Nat]
        /\ \A i \in ChallengeId :
              i < nextRow => rows[i].state # "none" /\ emailed[i] = rows[i].sends
    BY TwoFactorConstants DEF RefInv, IInv, TypeOK, SendsAgree
  <1>2. CASE UNCHANGED <<rows, nextRow, emailed>>
    BY <1>1, <1>2 DEF SendsAgree
  <1>3. ASSUME Quiet(rows'), UNCHANGED <<nextRow, emailed>>
        PROVE  SendsAgree'
    <2>1. \A i \in ChallengeId : rows'[i].state = "none" => rows[i].state = "none"
      BY <1>3 DEF Quiet
    <2> QED BY <1>1, <1>3, <2>1 DEF Quiet, SendsAgree
  <1>4. ASSUME NEW r \in Requests, Insert(r)
        PROVE  SendsAgree'
    <2>1. ASSUME NEW i \in ChallengeId, i # nextRow, i < nextRow + 1
          PROVE  i < nextRow
      BY <1>1, <2>1 DEF ChallengeId
    <2> QED BY <1>1, <1>4, <2>1, InsertRow DEF SendsAgree
  <1>5. ASSUME NEW r \in Requests, Resend(r)
        PROVE  SendsAgree'
    BY <1>1, <1>5, ResendRow DEF SendsAgree
  <1>6. ASSUME NEW r \in Requests, Counted(r)
        PROVE  SendsAgree'
    BY <1>1, <1>6, CountedRow DEF SendsAgree
  <1> QED
    BY <1>1, <1>2, <1>3, <1>4, <1>5, <1>6, QuietStep, LocalStep DEF Next, vars, histories

LEMMA NextEarned == RefInv /\ [Next]_vars => MarksAreEarned'
  <1> SUFFICES ASSUME RefInv, [Next]_vars,
                      NEW q \in Requests, req'[q].at = "mark"
               PROVE  compared'[req'[q].id] > 0
    BY DEF MarksAreEarned
  <1>1. /\ IInv /\ req \in [Requests -> Request]
        /\ compared \in [ChallengeId -> Nat]
        /\ req[q].at = "mark" => req[q].id \in ChallengeId /\ compared[req[q].id] > 0
    BY HeldRowExists DEF RefInv, IInv, TypeOK, MarksAreEarned
  <1>2. CASE req'[q] = req[q] /\ compared' = compared
    BY <1>1, <1>2
  <1>3. ASSUME NEW r \in Requests, Counted(r)
        PROVE  compared'[req'[q].id] > 0
    <2>1. \A i \in ChallengeId : compared'[i] >= compared[i]
      BY <1>1, <1>3, CountedRow
    <2>2. CASE q = r
      <3>1. req'[r].id = req[r].id
        BY <1>1, <1>3, <2>2 DEF Counted, Idle, Starting, Request
      <3> QED BY <1>1, <1>3, <2>2, <3>1, CountedRow
    <2>3. CASE q # r
      <3>1. req'[q] = req[q]
        BY <1>1, <1>3, <2>3 DEF Counted
      <3>2. compared[req[q].id] \in Nat /\ compared'[req[q].id] \in Nat
        BY <1>1, <1>3, <3>1, CountedRow
      <3> QED BY <1>1, <2>1, <3>1, <3>2
    <2> QED BY <2>2, <2>3
  <1>4. ASSUME NEW r \in Requests, q = r,
               \/ Insert(r) \/ Sent(r) \/ Delete(r) \/ Resend(r) \/ ResendRefused(r)
               \/ Exhaust(r) \/ ConsumeRefused(r) \/ ConfirmEnable(r)
               \/ ConfirmEmailChange(r) \/ DisableRead(r) \/ CloseAll(r) \/ Stop(r)
        PROVE  FALSE
    <2>1. CASE Insert(r)
      BY <1>1, <1>4, <2>1 DEF Insert, Starting
    <2>2. CASE DisableRead(r)
      BY <1>1, <1>4, <2>2 DEF DisableRead, Starting
    <2>3. CASE \/ Sent(r) \/ Delete(r) \/ Resend(r) \/ ResendRefused(r) \/ Exhaust(r)
               \/ ConsumeRefused(r) \/ ConfirmEnable(r) \/ ConfirmEmailChange(r)
               \/ CloseAll(r) \/ Stop(r)
      <3>1. req' = [req EXCEPT ![r] = Idle]
        BY <2>3
        DEF Sent, Delete, Resend, ResendRefused, Exhaust, ConsumeRefused, ConfirmEnable,
            ConfirmEmailChange, CloseAll, Stop
      <3> QED BY <1>1, <1>4, <3>1 DEF Idle, Starting
    <2> QED BY <1>4, <2>1, <2>2, <2>3
  <1>5. ASSUME NEW r \in Requests, q = r,
               \/ Invalidate(r) \/ SendFails(r) \/ CountRefused(r) \/ Consume(r)
               \/ Disable(r)
        PROVE  FALSE
    <2>1. req[q] \in Request
      BY <1>1
    <2>2. CASE Consume(r)
      BY <1>1, <1>5, <2>1, <2>2 DEF Consume, Idle, Starting, Request
    <2>3. CASE Invalidate(r) \/ SendFails(r) \/ CountRefused(r) \/ Disable(r)
      BY <1>1, <1>5, <2>1, <2>3
      DEF Invalidate, SendFails, CountRefused, Disable, Request
    <2> QED BY <1>5, <2>2, <2>3
  <1>6. ASSUME NEW r \in Requests, q = r,
               \/ \E purpose \in Purpose : \E payload \in Emails \union {NoEmail} :
                     Start(r, purpose, payload)
               \/ \E i \in ChallengeId : ResendRead(r, i)
               \/ \E i \in ChallengeId : \E right \in BOOLEAN : VerifyRead(r, i, right)
        PROVE  FALSE
    <2>1. CASE \E purpose \in Purpose : \E payload \in Emails \union {NoEmail} :
                  Start(r, purpose, payload)
      BY <1>1, <1>6, <2>1 DEF Start, Starting
    <2>2. CASE \E i \in ChallengeId : ResendRead(r, i)
      BY <1>1, <1>6, <2>2 DEF ResendRead, Copying
    <2>3. CASE \E i \in ChallengeId : \E right \in BOOLEAN : VerifyRead(r, i, right)
      BY <1>1, <1>6, <2>3 DEF VerifyRead, Copying
    <2> QED BY <1>6, <2>1, <2>2, <2>3
  <1>7. ASSUME NEW r \in Requests, ~ Counted(r), q # r,
               \/ Invalidate(r) \/ Insert(r) \/ Sent(r) \/ SendFails(r) \/ Delete(r)
               \/ Resend(r) \/ ResendRefused(r) \/ CountRefused(r) \/ Exhaust(r)
               \/ Consume(r) \/ ConsumeRefused(r) \/ ConfirmEnable(r)
               \/ ConfirmEmailChange(r) \/ DisableRead(r) \/ Disable(r)
               \/ CloseAll(r) \/ Stop(r)
               \/ \E purpose \in Purpose : \E payload \in Emails \union {NoEmail} :
                     Start(r, purpose, payload)
               \/ \E i \in ChallengeId : ResendRead(r, i)
               \/ \E i \in ChallengeId : \E right \in BOOLEAN : VerifyRead(r, i, right)
        PROVE  req'[q] = req[q] /\ compared' = compared
    BY <1>1, <1>7
    DEF Start, Invalidate, Insert, Sent, SendFails, Delete, Resend, ResendRefused,
        CountRefused, Exhaust, Consume, ConsumeRefused, ConfirmEnable,
        ConfirmEmailChange, DisableRead, Disable, CloseAll, Stop, ResendRead,
        VerifyRead, histories
  <1>8. ASSUME NEW i \in ChallengeId, TimePasses(i)
        PROVE  req' = req /\ compared' = compared
    BY <1>8 DEF TimePasses, histories
  <1>9. CASE UNCHANGED vars
    BY <1>2, <1>9 DEF vars, histories
  <1> QED
    BY <1>2, <1>3, <1>4, <1>5, <1>6, <1>7, <1>8, <1>9 DEF Next

LEMMA RefInvariant == Spec => []RefInv
  <1>1. RefInv /\ [Next]_vars => RefInv'
    BY NextKeeps, NextSendsAgree, NextEarned DEF RefInv
  <1> QED BY <1>1, InitRefInv, PTL DEF Spec

\* A quiet step closes the rows that were open and are not any more.
ClosedNow == {i \in ChallengeId : Open(i) /\ rows'[i].state # "open"}

LEMMA QuietMaps ==
  ASSUME RefInv, Quiet(rows')
  PROVE  /\ ClosedNow \in SUBSET ChallengeId
         /\ \A i \in ClosedNow : CodeState[i] = "open"
         /\ CodeState' = Code!Closing(ClosedNow)
  <1>1. \A i \in ChallengeId :
           /\ rows[i] \in Row /\ rows'[i] \in Row
           /\ rows'[i].state = rows[i].state
              \/ /\ rows[i].state # "none"
                 /\ rows'[i].state \in {"used", "deleted"}
    <2> SUFFICES ASSUME NEW i \in ChallengeId
                 PROVE  /\ rows[i] \in Row /\ rows'[i] \in Row
                        /\ rows'[i].state = rows[i].state
                           \/ /\ rows[i].state # "none"
                              /\ rows'[i].state \in {"used", "deleted"}
      OBVIOUS
    <2>1. rows[i] \in Row /\ rows'[i] \in Row
      BY DEF RefInv, IInv, TypeOK, Quiet
    <2>2. nextRow \in Nat /\ i \in Nat
      BY TwoFactorConstants DEF RefInv, IInv, TypeOK, ChallengeId
    <2>3. CASE i >= nextRow
      BY <2>1, <2>3 DEF Quiet
    <2>4. CASE i < nextRow
      BY <2>1, <2>4 DEF RefInv, SendsAgree, Quiet, Row
    <2> QED BY <2>2, <2>3, <2>4
  <1>2. \A i \in ChallengeId :
           /\ rows[i].state \in {"none", "open", "used", "deleted"}
           /\ rows'[i].state \in {"none", "open", "used", "deleted"}
    BY <1>1 DEF Row
  <1>3. /\ ClosedNow \in SUBSET ChallengeId
        /\ \A i \in ClosedNow : CodeState[i] = "open"
    BY DEF ClosedNow, CodeState, Open
  <1>4. \A i \in ChallengeId :
           CodeState'[i] = IF i \in ClosedNow THEN "closed" ELSE CodeState[i]
    BY <1>1, <1>2 DEF ClosedNow, CodeState, Open
  <1>5. CodeState' = [i \in ChallengeId |-> CodeState'[i]]
    BY DEF CodeState
  <1> QED BY <1>3, <1>4, <1>5 DEF Code!Closing

LEMMA InitRefines == Init => Code!Init
  BY DEF Init, Code!Init, CodeState, NoRow, Challenge

LEMMA ClosesRefines ==
  ASSUME RefInv,
         \/ \E r \in Requests : \/ Invalidate(r)
                                \/ Delete(r)
                                \/ Exhaust(r)
                                \/ CloseAll(r)
         \/ \E i \in ChallengeId : TimePasses(i)
  PROVE  Code!Next
  <1>1. Quiet(rows') /\ UNCHANGED <<emailed, compared, consumed>>
    BY QuietStep DEF RefInv, Invalidate, Delete, Exhaust, CloseAll, TimePasses, histories
  <1>2. Code!Close(ClosedNow) /\ ClosedNow \in SUBSET ChallengeId
    BY <1>1, QuietMaps DEF Code!Close
  <1> QED BY <1>2 DEF Code!Next

LEMMA ConsumeRefines ==
  ASSUME RefInv, NEW r \in Requests, Consume(r)
  PROVE  Code!Next
  <1>1. Quiet(rows') /\ UNCHANGED <<emailed, compared>>
    BY QuietStep DEF RefInv
  <1>2. req[r].id \in ClosedNow
    BY HeldRowExists, MarkUsedQuiet DEF RefInv, Consume, StillUnused, ClosedNow, Open
  <1>3. /\ compared[req[r].id] > 0
        /\ consumed' = [consumed EXCEPT ![req[r].id] = @ + 1]
    BY DEF RefInv, MarksAreEarned, Consume
  <1>4. Code!Use(req[r].id, ClosedNow) /\ ClosedNow \in SUBSET ChallengeId
    BY <1>1, <1>2, <1>3, QuietMaps DEF Code!Use
  <1> QED BY <1>2, <1>4 DEF Code!Next

LEMMA SendsRefine ==
  ASSUME RefInv, NEW r \in Requests, Insert(r) \/ Resend(r)
  PROVE  Code!Next
  <1>1. CASE Insert(r)
    <2>1. CodeState[nextRow] = "new"
      BY <1>1, InsertRow DEF RefInv, CodeState
    <2>2. CodeState' = [CodeState EXCEPT ![nextRow] = "open"]
      BY <1>1, InsertRow DEF RefInv, CodeState
    <2>3. emailed' = [emailed EXCEPT ![nextRow] = @ + 1]
      BY <1>1, InsertRow DEF RefInv, IInv, TypeOK
    <2> QED
      BY <1>1, <2>1, <2>2, <2>3, InsertRow DEF RefInv, Code!Send, Code!Next
  <1>2. CASE Resend(r)
    <2> DEFINE i == req[r].id
    <2>1. /\ i \in ChallengeId /\ emailed[i] < MaxSends
          /\ emailed' = [emailed EXCEPT ![i] = @ + 1]
          /\ UNCHANGED <<compared, consumed>>
      BY <1>2, ResendRow DEF RefInv, SendsAgree
    <2>2. CodeState[i] = "open" /\ \A j \in ChallengeId : rows'[j].state = rows[j].state
      BY <1>2, ResendRow DEF RefInv, CodeState, Open
    <2>3. CodeState' = [CodeState EXCEPT ![i] = "open"]
      BY <2>1, <2>2 DEF CodeState
    <2> QED BY <2>1, <2>2, <2>3 DEF Code!Send, Code!Next
  <1> QED BY <1>1, <1>2

LEMMA CountedRefines ==
  ASSUME RefInv, NEW r \in Requests, Counted(r)
  PROVE  Code!Next
  <1> DEFINE i == req[r].id
             limit == MaxAttempts * emailed[i]
  <1>1. /\ i \in ChallengeId /\ i < nextRow
        /\ compared' = [compared EXCEPT ![i] = @ + 1]
        /\ UNCHANGED <<emailed, consumed>>
        /\ \A j \in ChallengeId : rows'[j].state = rows[j].state
    BY CountedRow DEF RefInv
  <1>2. compared[i] < limit
    <2>1. emailed[i] = rows[i].sends /\ rows[i].attempts < MaxAttempts
      BY <1>1, CountedRow DEF RefInv, SendsAgree
    <2>2. compared[i] + MaxAttempts <= limit + rows[i].attempts
      BY <1>1, <2>1 DEF RefInv, IInv, RowOK
    <2>3. /\ compared[i] \in Nat /\ emailed[i] \in Nat /\ MaxAttempts \in Nat
          /\ rows[i].attempts \in Nat
      BY <1>1, TwoFactorConstants DEF RefInv, IInv, TypeOK, Row
    <2>4. limit \in Nat
      BY <2>3
    <2> HIDE DEF i, limit
    <2> QED BY <2>1, <2>2, <2>3, <2>4
  <1>3. CodeState[i] # "new" /\ UNCHANGED CodeState
    BY <1>1 DEF RefInv, SendsAgree, CodeState
  <1> QED BY <1>1, <1>2, <1>3 DEF Code!Guess, Code!Next

LEMMA NextRefines == RefInv /\ [Next]_vars => [Code!Next]_Code!code
  <1> SUFFICES ASSUME RefInv, [Next]_vars PROVE [Code!Next]_Code!code
    OBVIOUS
  <1>1. CASE UNCHANGED <<rows, emailed, compared, consumed>>
    BY <1>1 DEF Code!code, CodeState
  <1> QED
    BY <1>1, ClosesRefines, ConsumeRefines, SendsRefine, CountedRefines, LocalStep
    DEF Next, vars, histories

\* A challenge keeps the promise of OneTimeCode without a database transaction: it is
\* sent at most MAX_SENDS times, each code it sends buys MAX_CODE_ATTEMPTS guesses, and
\* only an open challenge that was guessed at lets a request through, once.
THEOREM TwoFactorImplementsCode == Spec => ImplementsCode
  BY InitRefines, NextRefines, RefInvariant, PTL
  DEF Spec, ImplementsCode, Code!Spec
-----------------------------------------------------------------------------
(* Why a replaced code may work (OldCodeIsDead is violated): a resend between the two *)
(* UPDATEs of a verification of the same challenge, and nothing else.                 *)

Verifying(i) == \E r \in Requests : req[r].at \in {"count", "mark"} /\ req[r].id = i

ResendsWait == [][\A r \in Requests : Verifying(req[r].id) => ~ Resend(r)]_vars

\* The invariant behind: a guess is compared with the code that is in force.
CopiesAreCurrent ==
    \A r \in Requests :
        req[r].at \in {"count", "mark"} => req[r].code = rows[req[r].id].sends

LEMMA CurrentStays ==
  ASSUME IInv, CopiesAreCurrent, OldCodeIsDead, [Next]_vars,
         [\A r \in Requests : Verifying(req[r].id) => ~ Resend(r)]_vars
  PROVE  CopiesAreCurrent' /\ OldCodeIsDead'
  <1>1. /\ rows \in [ChallengeId -> Row] /\ req \in [Requests -> Request]
        /\ consumed \in [ChallengeId -> Nat]
        /\ consumedCode \in [ChallengeId -> 0 .. MaxSends]
        /\ \A q \in Requests : req[q].at \in {"count", "mark"} =>
              req[q].id \in ChallengeId /\ req[q].id < nextRow
    BY HeldRowExists DEF IInv, TypeOK
  <1> DEFINE Kept(q) == /\ req[q].at \in {"count", "mark"}
                        /\ req'[q].id = req[q].id
                        /\ req'[q].code = req[q].code
             Same == \A i \in ChallengeId : rows'[i].sends = rows[i].sends
  <1>2. ASSUME Same,
               \A q \in Requests : req'[q].at \in {"count", "mark"} => Kept(q)
        PROVE  CopiesAreCurrent'
    BY <1>1, <1>2 DEF CopiesAreCurrent
  <1>3. ASSUME Same, UNCHANGED <<consumed, consumedCode>>
        PROVE  OldCodeIsDead'
    BY <1>1, <1>3 DEF OldCodeIsDead
  <1>4. ASSUME NEW r \in Requests,
               \/ \E i \in ChallengeId : ResendRead(r, i)
               \/ \E i \in ChallengeId : \E right \in BOOLEAN : VerifyRead(r, i, right)
        PROVE  CopiesAreCurrent' /\ OldCodeIsDead'
    <2>1. UNCHANGED <<rows, histories>>
      BY <1>4 DEF ResendRead, VerifyRead
    <2>2. ASSUME NEW i \in ChallengeId, NEW at, NEW right,
                 req' = [req EXCEPT ![r] = Copying(at, i, right)]
          PROVE  CopiesAreCurrent'
      <3>1. Copying(at, i, right).code = rows[i].sends /\ Copying(at, i, right).id = i
        BY DEF Copying
      <3> QED BY <1>1, <2>1, <2>2, <3>1 DEF CopiesAreCurrent
    <2>3. CASE \E i \in ChallengeId : ResendRead(r, i)
      <3>1. PICK i \in ChallengeId : ResendRead(r, i)
        BY <2>3
      <3> DEFINE at == IF rows[i].sends >= MaxSends THEN "exhaust" ELSE "resend"
      <3>2. req' = [req EXCEPT ![r] = Copying(at, i, FALSE)]
        BY <3>1 DEF ResendRead
      <3> HIDE DEF at
      <3>3. CopiesAreCurrent'
        BY <2>2, <3>2
      <3> QED BY <1>3, <2>1, <3>3 DEF histories
    <2>4. CASE \E i \in ChallengeId : \E right \in BOOLEAN : VerifyRead(r, i, right)
      BY <1>3, <2>1, <2>2, <2>4 DEF VerifyRead, histories
    <2> QED BY <1>4, <2>3, <2>4
  <1>5. ASSUME NEW r \in Requests, Counted(r)
        PROVE  CopiesAreCurrent' /\ OldCodeIsDead'
    <2>1. ASSUME NEW q \in Requests, req'[q].at \in {"count", "mark"}
          PROVE  Kept(q)
      BY <1>1, <1>5, <2>1 DEF Counted, Request, Idle, Starting
    <2> QED BY <1>2, <1>3, <1>5, <2>1, CountedRow DEF Counted
  <1>6. ASSUME NEW r \in Requests, Consume(r)
        PROVE  CopiesAreCurrent' /\ OldCodeIsDead'
    <2>1. /\ req[r].id \in ChallengeId /\ req[r].code = rows[req[r].id].sends
          /\ consumed' = [consumed EXCEPT ![req[r].id] = @ + 1]
          /\ consumedCode' = [consumedCode EXCEPT ![req[r].id] = req[r].code]
      BY <1>1, <1>6 DEF Consume, CopiesAreCurrent
    <2>2. Same
      BY <1>6, QuietStep DEF Quiet
    <2>3. ASSUME NEW q \in Requests, req'[q].at \in {"count", "mark"}
          PROVE  Kept(q)
      <3>1. CASE q = r
        BY <1>1, <1>6, <2>3, <3>1 DEF Consume, Request, Idle, Starting
      <3>2. CASE q # r
        BY <1>1, <1>6, <2>3, <3>2 DEF Consume
      <3> QED BY <3>1, <3>2
    <2>4. OldCodeIsDead'
      BY <1>1, <2>1, <2>2 DEF OldCodeIsDead
    <2> QED BY <1>2, <2>2, <2>3, <2>4
  <1>7. ASSUME NEW r \in Requests, Insert(r)
        PROVE  CopiesAreCurrent' /\ OldCodeIsDead'
    <2>1. PICK h : h.at = "send" /\ req' = [req EXCEPT ![r] = h]
      BY <1>7 DEF Insert, Starting
    <2>2. CopiesAreCurrent'
      BY <1>1, <1>7, <2>1, InsertRow DEF CopiesAreCurrent, ChallengeId
    <2>3. OldCodeIsDead'
      BY <1>1, <1>7, InsertRow DEF OldCodeIsDead
    <2> QED BY <2>2, <2>3
  <1>8. ASSUME NEW r \in Requests, Resend(r)
        PROVE  CopiesAreCurrent' /\ OldCodeIsDead'
    <2>1. ~ Verifying(req[r].id) /\ consumed[req[r].id] = 0
      <3>1. /\ Open(req[r].id) /\ req[r].id \in ChallengeId
            /\ rows'[req[r].id].sends = rows[req[r].id].sends + 1
            /\ rows[req[r].id].sends \in Nat
        BY <1>1, <1>8, ResendRow DEF Row
      <3>2. ~ UNCHANGED vars
        BY <3>1 DEF vars
      <3> QED BY <1>8, <3>1, <3>2 DEF IInv, RowOK, Open
    <2>2. CopiesAreCurrent'
      BY <1>1, <1>8, <2>1, ResendRow
      DEF CopiesAreCurrent, Verifying, Resend, Idle, Starting
    <2>3. OldCodeIsDead'
      BY <1>1, <1>8, <2>1, ResendRow DEF OldCodeIsDead
    <2> QED BY <2>2, <2>3
  <1>9. ASSUME NEW r \in Requests,
               \/ Sent(r) \/ SendFails(r) \/ ResendRefused(r) \/ CountRefused(r)
               \/ ConsumeRefused(r) \/ ConfirmEnable(r) \/ ConfirmEmailChange(r)
               \/ DisableRead(r) \/ Disable(r) \/ Stop(r)
               \/ \E purpose \in Purpose : \E payload \in Emails \union {NoEmail} :
                     Start(r, purpose, payload)
        PROVE  CopiesAreCurrent' /\ OldCodeIsDead'
    <2>1. UNCHANGED <<rows, consumed, consumedCode>>
      BY <1>9, LocalStep DEF histories
    <2>2. PICK h : h.at \notin {"count", "mark"} /\ req' = [req EXCEPT ![r] = h]
      <3>1. \/ req' = [req EXCEPT ![r] = Idle]
            \/ \E at \in {"delete", "exhaust", "close"} : req' = [req EXCEPT ![r].at = at]
            \/ \E purpose, payload : \E at \in {"invalidate", "disable"} :
                  req' = [req EXCEPT ![r] = Starting(at, 0, purpose, payload)]
        <4>1. CASE \/ Sent(r) \/ ResendRefused(r) \/ ConsumeRefused(r) \/ ConfirmEnable(r)
                   \/ ConfirmEmailChange(r) \/ Stop(r)
          BY <4>1
          DEF Sent, ResendRefused, ConsumeRefused, ConfirmEnable, ConfirmEmailChange, Stop
        <4>2. CASE SendFails(r) \/ CountRefused(r) \/ Disable(r)
          BY <4>2 DEF SendFails, CountRefused, Disable
        <4>3. CASE \/ DisableRead(r)
                   \/ \E purpose \in Purpose : \E payload \in Emails \union {NoEmail} :
                         Start(r, purpose, payload)
          BY <4>3 DEF DisableRead, Start
        <4> QED BY <1>9, <4>1, <4>2, <4>3
      <3>2. Idle.at = "idle" /\ \A at, purpose, payload : Starting(at, 0, purpose, payload).at = at
        BY DEF Idle, Starting
      <3>3. \A at : [req[r] EXCEPT !.at = at].at = at
        BY <1>1 DEF Request
      <3> QED BY <3>1, <3>2, <3>3
    <2>3. CopiesAreCurrent'
      BY <1>1, <2>1, <2>2 DEF CopiesAreCurrent
    <2> QED BY <1>3, <2>1, <2>3
  <1>10. ASSUME \/ \E r \in Requests : Invalidate(r) \/ Delete(r) \/ Exhaust(r) \/ CloseAll(r)
                \/ \E i \in ChallengeId : TimePasses(i)
         PROVE  CopiesAreCurrent' /\ OldCodeIsDead'
    <2>1. Same
      BY <1>10, QuietStep DEF Quiet
    <2>2. UNCHANGED <<consumed, consumedCode>>
      BY <1>10 DEF Invalidate, Delete, Exhaust, CloseAll, TimePasses, histories
    <2>3. ASSUME NEW q \in Requests, req'[q].at \in {"count", "mark"}
          PROVE  Kept(q)
      <3>1. ASSUME NEW r \in Requests, Invalidate(r)
            PROVE  Kept(q)
        BY <1>1, <2>3, <3>1 DEF Invalidate, Request
      <3>2. ASSUME NEW r \in Requests, Delete(r) \/ Exhaust(r) \/ CloseAll(r)
            PROVE  Kept(q)
        <4>1. req' = [req EXCEPT ![r] = Idle]
          BY <3>2 DEF Delete, Exhaust, CloseAll
        <4> QED BY <1>1, <2>3, <4>1 DEF Idle, Starting
      <3>3. ASSUME NEW i \in ChallengeId, TimePasses(i)
            PROVE  Kept(q)
        BY <1>1, <2>3, <3>3 DEF TimePasses
      <3> QED BY <1>10, <3>1, <3>2, <3>3
    <2> QED BY <1>2, <1>3, <2>1, <2>2, <2>3
  <1>11. CASE UNCHANGED vars
    BY <1>1, <1>11 DEF vars, histories, CopiesAreCurrent, OldCodeIsDead
  <1> QED
    BY <1>4, <1>5, <1>6, <1>7, <1>8, <1>9, <1>10, <1>11 DEF Next

\* What lets a request through is the last code sent, in every behaviour in which no
\* resend comes between the read of a verification and its last UPDATE: the
\* counterexample of OldCodeIsDead is the only kind there is.
THEOREM TwoFactorOldCodeIsDead == Spec /\ ResendsWait => []OldCodeIsDead
  <1>1. Init => CopiesAreCurrent /\ OldCodeIsDead
    BY DEF Init, CopiesAreCurrent, OldCodeIsDead, Idle, Starting
  <1> QED
    BY <1>1, CurrentStays, TwoFactorInvariant, PTL DEF Spec, ResendsWait
=============================================================================
