------------------------------ MODULE TwoFactor -----------------------------
(***************************************************************************)
(* TwoFactorService (src/src/auth/two-factor.service.ts) for one user: the *)
(* code of the second login step, turning 2FA on and off, and the code     *)
(* that confirms a new email.  Every await is a statement of its own and   *)
(* there is no database transaction, so requests interleave between any    *)
(* two of them.                                                            *)
(*                                                                         *)
(* A challenge is a row, numbered in the order of insertion (the order of  *)
(* created_at).  The codes of a row are numbered by its send_count: a      *)
(* resend replaces the code.  Of a guess the model keeps whether it is the *)
(* code of the copy it is compared with.  Of last_sent_at and expires_at,  *)
(* which are written together, it keeps what the code compares: whether    *)
(* the cooldown, and then the code's longer lifetime, is over.             *)
(***************************************************************************)
EXTENDS Naturals

CONSTANTS
    Requests,      \* HTTP requests that may be in flight at the same time
    Emails,        \* addresses the user may ask to change to
    FirstEmail,    \* the address the user registered with
    NoEmail,       \* payload is NULL
    MaxAttempts,   \* MAX_CODE_ATTEMPTS
    MaxSends,      \* MAX_SENDS
    MaxChallenges  \* bound: rows inserted in a behaviour

ASSUME TwoFactorConstants ==
    /\ MaxAttempts \in Nat \ {0}
    /\ MaxSends \in Nat \ {0}
    /\ MaxChallenges \in Nat
    /\ NoEmail \notin Emails \union {FirstEmail}

VARIABLES
    rows,          \* rows[i]: row i of two_factor_challenges
    nextRow,       \* the number of the next row
    enabled,       \* users.twoFactorEnabled
    email,         \* users.email
    req,           \* req[r]: what request r holds between two statements
    compared,      \* history: compared[i] guesses were compared for row i
    emailed,       \* history: emailed[i] codes of row i were sent
    consumed,      \* history: consumed[i] requests were let through by row i
    consumedCode,  \* history: the code that let the last of them through
    closedBelow    \* history: nextRow when 2FA was last turned off

histories == <<compared, emailed, consumed, consumedCode, closedBelow>>

vars == <<rows, nextRow, enabled, email, req, histories>>

ChallengeId == 1 .. MaxChallenges
Purpose == {"login", "enable", "email_change"}

\* A row: "none" before its INSERT, "open" while used_at is NULL, "used" after,
\* "deleted" when its first email could not be sent.
Row == [state : {"none", "open", "used", "deleted"}, purpose : Purpose,
        attempts : 0 .. MaxAttempts, sends : 1 .. MaxSends,
        age : {"fresh", "cooled", "expired"},
        payload : Emails \union {NoEmail}]

Challenge(state, purpose, payload) ==
    [state |-> state, purpose |-> purpose, attempts |-> 0, sends |-> 1,
     age |-> "fresh", payload |-> payload]

NoRow == Challenge("none", "login", NoEmail)

\* code: the send_count of the copy that was read, which names its code.
Request ==
    [at : {"idle", "invalidate", "insert", "send", "delete", "resend",
           "count", "exhaust", "mark", "enable", "email", "disable", "close"},
     id : 0 .. MaxChallenges, purpose : Purpose,
     payload : Emails \union {NoEmail}, right : BOOLEAN,
     attempts : 0 .. MaxAttempts, code : 0 .. MaxSends]

\* A request that is about to send a code, or holds no copy of a row.
Starting(at, i, purpose, payload) ==
    [at |-> at, id |-> i, purpose |-> purpose, payload |-> payload,
     right |-> FALSE, attempts |-> 0, code |-> 0]

\* A request that holds a copy of row i.
Copying(at, i, right) ==
    [at |-> at, id |-> i, purpose |-> rows[i].purpose,
     payload |-> rows[i].payload, right |-> right,
     attempts |-> rows[i].attempts, code |-> rows[i].sends]

Idle == Starting("idle", 0, "login", NoEmail)

Init ==
    /\ rows = [i \in ChallengeId |-> NoRow]
    /\ nextRow = 1
    /\ enabled \in BOOLEAN
    /\ email = FirstEmail
    /\ req = [r \in Requests |-> Idle]
    /\ compared = [i \in ChallengeId |-> 0]
    /\ emailed = [i \in ChallengeId |-> 0]
    /\ consumed = [i \in ChallengeId |-> 0]
    /\ consumedCode = [i \in ChallengeId |-> 0]
    /\ closedBelow = 1

Open(i) == rows[i].state = "open"

\* The newest open row of a purpose: findOne(..., order createdAt DESC).
IsLatest(i, purpose) ==
    /\ Open(i)
    /\ rows[i].purpose = purpose
    /\ \A j \in ChallengeId : Open(j) /\ rows[j].purpose = purpose => j <= i

\* invalidateOpen: UPDATE ... SET used_at WHERE user, purpose and used_at NULL.
Invalidated(purposes) ==
    [i \in ChallengeId |->
        IF Open(i) /\ rows[i].purpose \in purposes
        THEN [rows[i] EXCEPT !.state = "used"] ELSE rows[i]]

\* UPDATE ... SET used_at WHERE id.
MarkUsed(i) ==
    IF rows[i].state = "deleted" THEN rows
    ELSE [rows EXCEPT ![i].state = "used"]

user == <<enabled, email>>

-----------------------------------------------------------------------------
(* Sending a code: startLoginChallenge, startEnable, startEmailChange *)

InCooldown(purpose) ==
    \E i \in ChallengeId : IsLatest(i, purpose) /\ rows[i].age = "fresh"

\* The password is checked, and that the operation makes sense for this user;
\* then assertCooldown.
Start(r, purpose, payload) ==
    /\ req[r].at = "idle"
    /\ CASE purpose = "login" -> enabled /\ payload = NoEmail
         [] purpose = "enable" -> ~ enabled /\ payload = NoEmail
         [] purpose = "email_change" -> payload \in Emails \ {email}
    /\ ~ InCooldown(purpose)
    /\ req' = [req EXCEPT ![r] = Starting("invalidate", 0, purpose, payload)]
    /\ UNCHANGED <<rows, nextRow, user, histories>>

Invalidate(r) ==
    /\ req[r].at = "invalidate"
    /\ rows' = Invalidated({req[r].purpose})
    /\ req' = [req EXCEPT ![r].at = "insert"]
    /\ UNCHANGED <<nextRow, user, histories>>

Insert(r) ==
    /\ req[r].at = "insert"
    /\ nextRow \in ChallengeId
    /\ rows' = [rows EXCEPT ![nextRow] =
                  Challenge("open", req[r].purpose, req[r].payload)]
    /\ emailed' = [emailed EXCEPT ![nextRow] = 1]
    /\ nextRow' = nextRow + 1
    /\ req' = [req EXCEPT ![r] =
                 Starting("send", nextRow, req[r].purpose, req[r].payload)]
    /\ UNCHANGED <<user, compared, consumed, consumedCode, closedBelow>>

Sent(r) ==
    /\ req[r].at = "send"
    /\ req' = [req EXCEPT ![r] = Idle]
    /\ UNCHANGED <<rows, nextRow, user, histories>>

SendFails(r) ==
    /\ req[r].at = "send"
    /\ req' = [req EXCEPT ![r].at = "delete"]
    /\ UNCHANGED <<rows, nextRow, user, histories>>

Delete(r) ==
    /\ req[r].at = "delete"
    /\ rows' = [rows EXCEPT ![req[r].id].state = "deleted"]
    /\ req' = [req EXCEPT ![r] = Idle]
    /\ UNCHANGED <<nextRow, user, histories>>

-----------------------------------------------------------------------------
(* resend *)

\* findLoginChallenge, then the checks on the copy: past the last send allowed
\* the challenge is closed.
ResendRead(r, i) ==
    /\ req[r].at = "idle"
    /\ Open(i)
    /\ rows[i].purpose = "login"
    /\ rows[i].age = "cooled"
    /\ req' = [req EXCEPT ![r] =
                 Copying(IF rows[i].sends >= MaxSends THEN "exhaust"
                         ELSE "resend", i, FALSE)]
    /\ UNCHANGED <<rows, nextRow, user, histories>>

\* UPDATE ... WHERE id AND used_at IS NULL AND send_count = the copy's.
MayResendMutant(r) == Open(req[r].id)
MayResend(r) == Open(req[r].id) /\ rows[req[r].id].sends = req[r].code

\* The code is replaced and sent; a failed email leaves the row as it is.
Resend(r) ==
    LET i == req[r].id IN
    /\ req[r].at = "resend"
    /\ MayResend(r)
    /\ rows' = [rows EXCEPT ![i] =
                  [Challenge("open", @.purpose, @.payload)
                      EXCEPT !.sends = req[r].code + 1]]
    /\ emailed' = [emailed EXCEPT ![i] = @ + 1]
    /\ req' = [req EXCEPT ![r] = Idle]
    /\ UNCHANGED <<nextRow, user, compared, consumed, consumedCode, closedBelow>>

ResendRefused(r) ==
    /\ req[r].at = "resend"
    /\ ~ MayResend(r)
    /\ req' = [req EXCEPT ![r] = Idle]
    /\ UNCHANGED <<rows, nextRow, user, histories>>

-----------------------------------------------------------------------------
(* consumeCode: verifyLogin, confirmEnable, confirmEmailChange *)

\* A login names its challenge by its token, the others take the newest one.
VerifyRead(r, i, right) ==
    /\ req[r].at = "idle"
    /\ Open(i)
    /\ rows[i].purpose = "login" \/ IsLatest(i, rows[i].purpose)
    /\ rows[i].age # "expired"
    /\ req' = [req EXCEPT ![r] = Copying("count", i, right)]
    /\ UNCHANGED <<rows, nextRow, user, histories>>

\* UPDATE ... SET attempts = attempts + 1 WHERE id AND attempts < max: the row
\* decides, not the copy.  It does not look at used_at.
MayCountMutant(r) == req[r].attempts < MaxAttempts
MayCount(r) ==
    LET row == rows[req[r].id] IN
    row.state # "deleted" /\ row.attempts < MaxAttempts

CountRefused(r) ==
    /\ req[r].at = "count"
    /\ ~ MayCount(r)
    /\ req' = [req EXCEPT ![r].at = "exhaust"]
    /\ UNCHANGED <<rows, nextRow, user, histories>>

\* The attempt is counted on the row; the guess is compared with the copy.
Counted(r) ==
    LET i == req[r].id IN
    /\ req[r].at = "count"
    /\ MayCount(r)
    /\ rows' = [rows EXCEPT ![i].attempts = @ + 1]
    /\ compared' = [compared EXCEPT ![i] = @ + 1]
    /\ req' = [req EXCEPT ![r] =
                 IF req[r].right THEN [@ EXCEPT !.at = "mark"]
                 ELSE IF req[r].attempts + 1 >= MaxAttempts
                      THEN [@ EXCEPT !.at = "exhaust"]
                 ELSE Idle]
    /\ UNCHANGED <<nextRow, user, emailed, consumed, consumedCode, closedBelow>>

Exhaust(r) ==
    /\ req[r].at = "exhaust"
    /\ rows' = MarkUsed(req[r].id)
    /\ req' = [req EXCEPT ![r] = Idle]
    /\ UNCHANGED <<nextRow, user, histories>>

\* UPDATE ... SET used_at WHERE id AND used_at IS NULL.
StillUnusedMutant(r) == TRUE
StillUnused(r) == Open(req[r].id)

\* The code is right.  A login is let in; the other two go on to their UPDATE.
Consume(r) ==
    LET i == req[r].id IN
    /\ req[r].at = "mark"
    /\ StillUnused(r)
    /\ rows' = MarkUsed(i)
    /\ consumed' = [consumed EXCEPT ![i] = @ + 1]
    /\ consumedCode' = [consumedCode EXCEPT ![i] = req[r].code]
    /\ req' = [req EXCEPT ![r] =
                 CASE req[r].purpose = "login" -> Idle
                   [] req[r].purpose = "enable" -> [@ EXCEPT !.at = "enable"]
                   [] OTHER -> [@ EXCEPT !.at = "email"]]
    /\ UNCHANGED <<nextRow, user, compared, emailed, closedBelow>>

ConsumeRefused(r) ==
    /\ req[r].at = "mark"
    /\ ~ StillUnused(r)
    /\ req' = [req EXCEPT ![r] = Idle]
    /\ UNCHANGED <<rows, nextRow, user, histories>>

ConfirmEnable(r) ==
    /\ req[r].at = "enable"
    /\ enabled' = TRUE
    /\ req' = [req EXCEPT ![r] = Idle]
    /\ UNCHANGED <<rows, nextRow, email, histories>>

\* The address the confirmed challenge was sent to; in the mutant, that of the
\* newest challenge.
ConfirmedEmailMutant(r) ==
    LET i == CHOOSE i \in ChallengeId :
               rows[i].payload # NoEmail /\
               \A j \in ChallengeId : rows[j].payload # NoEmail => j <= i
    IN  rows[i].payload
ConfirmedEmail(r) == req[r].payload

ConfirmEmailChange(r) ==
    /\ req[r].at = "email"
    /\ email' = ConfirmedEmail(r)
    /\ req' = [req EXCEPT ![r] = Idle]
    /\ UNCHANGED <<rows, nextRow, enabled, histories>>

-----------------------------------------------------------------------------
(* disable *)

DisableRead(r) ==
    /\ req[r].at = "idle"
    /\ enabled
    /\ req' = [req EXCEPT ![r] = Starting("disable", 0, "login", NoEmail)]
    /\ UNCHANGED <<rows, nextRow, user, histories>>

Disable(r) ==
    /\ req[r].at = "disable"
    /\ enabled' = FALSE
    /\ req' = [req EXCEPT ![r].at = "close"]
    /\ UNCHANGED <<rows, nextRow, email, histories>>

\* invalidateOpen without a purpose closes the challenges of every purpose.
ClosedByDisableMutant == Invalidated({"enable"})
ClosedByDisable == Invalidated(Purpose)

CloseAll(r) ==
    /\ req[r].at = "close"
    /\ rows' = ClosedByDisable
    /\ closedBelow' = nextRow
    /\ req' = [req EXCEPT ![r] = Idle]
    /\ UNCHANGED <<nextRow, user, compared, emailed, consumed, consumedCode>>

-----------------------------------------------------------------------------
(* A check may fail or the process stop between any two statements (the email *)
(* taken by someone else meanwhile is one case); time passes.                 *)

Stop(r) ==
    /\ req[r].at # "idle"
    /\ req' = [req EXCEPT ![r] = Idle]
    /\ UNCHANGED <<rows, nextRow, user, histories>>

TimePasses(i) ==
    /\ Open(i)
    /\ rows[i].age # "expired"
    /\ rows' = [rows EXCEPT ![i].age = IF @ = "fresh" THEN "cooled" ELSE "expired"]
    /\ UNCHANGED <<nextRow, user, req, histories>>

Next ==
    \/ \E r \in Requests : \E purpose \in Purpose :
          \E payload \in Emails \union {NoEmail} : Start(r, purpose, payload)
    \/ \E r \in Requests : Invalidate(r)
    \/ \E r \in Requests : Insert(r)
    \/ \E r \in Requests : Sent(r)
    \/ \E r \in Requests : SendFails(r)
    \/ \E r \in Requests : Delete(r)
    \/ \E r \in Requests : \E i \in ChallengeId : ResendRead(r, i)
    \/ \E r \in Requests : Resend(r)
    \/ \E r \in Requests : ResendRefused(r)
    \/ \E r \in Requests : \E i \in ChallengeId : \E right \in BOOLEAN :
          VerifyRead(r, i, right)
    \/ \E r \in Requests : CountRefused(r)
    \/ \E r \in Requests : Counted(r)
    \/ \E r \in Requests : Exhaust(r)
    \/ \E r \in Requests : Consume(r)
    \/ \E r \in Requests : ConsumeRefused(r)
    \/ \E r \in Requests : ConfirmEnable(r)
    \/ \E r \in Requests : ConfirmEmailChange(r)
    \/ \E r \in Requests : DisableRead(r)
    \/ \E r \in Requests : Disable(r)
    \/ \E r \in Requests : CloseAll(r)
    \/ \E r \in Requests : Stop(r)
    \/ \E i \in ChallengeId : TimePasses(i)

Spec == Init /\ [][Next]_vars

-----------------------------------------------------------------------------
(* Properties *)

TypeOK ==
    /\ rows \in [ChallengeId -> Row]
    /\ nextRow \in 1 .. MaxChallenges + 1
    /\ enabled \in BOOLEAN
    /\ email \in Emails \union {FirstEmail}
    /\ req \in [Requests -> Request]
    /\ compared \in [ChallengeId -> Nat]
    /\ emailed \in [ChallengeId -> Nat]
    /\ consumed \in [ChallengeId -> Nat]
    /\ consumedCode \in [ChallengeId -> 0 .. MaxSends]
    /\ closedBelow \in 1 .. MaxChallenges + 1

\* A code buys at most MaxAttempts comparisons, however many guesses run in
\* parallel with each other and with a resend (l.375-386).
ComparisonsBounded ==
    \A i \in ChallengeId : compared[i] <= MaxAttempts * rows[i].sends

\* A challenge sends at most MaxSends codes, also when resends overlap (l.306).
SendsBounded == \A i \in ChallengeId : emailed[i] <= MaxSends

\* A challenge lets at most one request through (l.394).
ConsumedOnce == \A i \in ChallengeId : consumed[i] <= 1

\* The user's email, when it is not the first one, is one whose owner returned
\* the code sent there (l.185-197); while no challenge for it is let through the
\* email stays.
EmailIsConfirmed ==
    email # FirstEmail =>
        \E i \in ChallengeId :
            /\ rows[i].purpose = "email_change"
            /\ rows[i].payload = email
            /\ consumed[i] = 1

\* Once 2FA is turned off, no code sent before works (l.143).
DisableClosesChallenges ==
    \A i \in ChallengeId : i < closedBelow => ~ Open(i)

\* A challenge that was used, replaced or withdrawn stays so, is not sent again
\* and lets nobody through, whatever a request that read it before still does.
ClosedStaysClosed ==
    [][\A i \in ChallengeId :
          rows[i].state \in {"used", "deleted"}
              => /\ rows'[i].state \in {"used", "deleted"}
                 /\ emailed'[i] = emailed[i]
                 /\ consumed'[i] = consumed[i]]_vars

\* The rows seen as codes: a row without used_at is open.
CodeState ==
    [i \in ChallengeId |-> CASE rows[i].state = "none" -> "new"
                            [] rows[i].state = "open" -> "open"
                            [] OTHER -> "closed"]

Code == INSTANCE OneTimeCode WITH
    Codes <- ChallengeId,
    state <- CodeState,
    sent  <- emailed,
    tried <- compared,
    used  <- consumed

\* A challenge keeps the promise of OneTimeCode, with a limit of guesses for each
\* code it sends: seen from outside, every step sends a code, counts a guess, lets
\* one request through a challenge that is open and was guessed at, closes
\* challenges, or changes nothing.
ImplementsCode == Code!Spec

\* The invariant the proofs need.  A row that is not inserted yet is untouched.
\* An inserted one carries an address if it is to change the email, its counters
\* count its comparisons and its codes, and while it is open it has let nobody
\* through.
RowOK(i) ==
    /\ i >= nextRow => rows[i] = NoRow /\ compared[i] = 0 /\ emailed[i] = 0
    /\ rows[i].purpose = "email_change" => rows[i].payload # NoEmail
    /\ compared[i] + MaxAttempts
          <= MaxAttempts * rows[i].sends + rows[i].attempts
    /\ emailed[i] <= rows[i].sends
    /\ rows[i].state \in {"none", "open"} => consumed[i] = 0
    /\ consumed[i] <= 1

\* What a request may hold: a row that exists, whose purpose and address its
\* copy has; to resend, one that is below the limit; to write the email, one
\* that let it through.
HoldingOK(h) ==
    /\ h.at \notin {"idle", "invalidate", "insert", "disable", "close"} =>
          h.id \in 1 .. nextRow - 1
    /\ h.purpose = "email_change" => h.payload # NoEmail
    /\ h.at \in {"count", "mark", "email"} =>
          /\ h.purpose = rows[h.id].purpose
          /\ h.payload = rows[h.id].payload
    /\ h.at = "resend" => h.code < MaxSends
    /\ h.at = "email" => h.purpose = "email_change" /\ consumed[h.id] = 1

IInv ==
    /\ TypeOK
    /\ closedBelow <= nextRow
    /\ \A i \in ChallengeId : RowOK(i)
    /\ \A r \in Requests : HoldingOK(req[r])
    /\ EmailIsConfirmed
    /\ DisableClosesChallenges

\* The invariant that ImplementsCode needs besides: a row that was inserted is no new
\* one again, its send_count is the number of codes it sent, and a request about to
\* mark it used comes after a guess.
SendsAgree ==
    \A i \in ChallengeId :
        i < nextRow => rows[i].state # "none" /\ emailed[i] = rows[i].sends

MarksAreEarned == \A r \in Requests : req[r].at = "mark" => compared[req[r].id] > 0

\* two-factor.controller.ts:68: "Envía un código nuevo (el anterior deja de
\* servir)": what lets a request through is the last code sent.
OldCodeIsDead ==
    \A i \in ChallengeId : consumed[i] > 0 => consumedCode[i] = rows[i].sends
=============================================================================
