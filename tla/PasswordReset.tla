--------------------------- MODULE PasswordReset ----------------------------
(***************************************************************************)
(* PasswordResetService (src/src/auth/password-reset.service.ts) for one   *)
(* user: forgot-password, verify-reset-code and reset-password.  Every     *)
(* await is a statement of its own, so requests interleave between any two *)
(* of them; only the end of resetPassword is one database transaction.     *)
(*                                                                         *)
(* A request for a new password is a row, numbered in the order of         *)
(* insertion (the order of created_at).  Of a guess the model keeps whether *)
(* it is the code of the row it is compared with; of a token, whether its  *)
(* row has one and whether it is still good: a token is random, an         *)
(* overwritten one matches no row.  Time is abstracted to what the code    *)
(* compares: rows up to cooledUpTo are older than the cooldown, rows up to *)
(* expiredUpTo older than the code's lifetime, which is longer.            *)
(*                                                                         *)
(* The transaction of resetPassword is one step: its first UPDATE locks    *)
(* the row until it ends, so the statements of others on that row come     *)
(* before or after it.  Two of them that lock each other's rows are        *)
(* ended by Postgres, which aborts one: that is a Stop.                    *)
(***************************************************************************)
EXTENDS Naturals

CONSTANTS
    Requests,     \* HTTP requests that may be in flight at the same time
    MaxAttempts,  \* MAX_CODE_ATTEMPTS
    MaxResets     \* bound: rows inserted in a behaviour

ASSUME ResetConstants ==
    /\ MaxAttempts \in Nat \ {0}
    /\ MaxResets \in Nat

VARIABLES
    resets,       \* resets[i]: row i of password_resets
    nextReset,    \* the number of the next row
    cooledUpTo,   \* rows 1..cooledUpTo are past RESEND_COOLDOWN_SECONDS
    expiredUpTo,  \* rows 1..expiredUpTo are past CODE_TTL_MINUTES
    req,          \* req[r]: what request r holds between two statements
    compared,     \* history: compared[i] codes were compared with that of row i
    changes,      \* history: changes[i] password changes went through row i
    closedBelow   \* history: nextReset at the last password change

vars == <<resets, nextReset, cooledUpTo, expiredUpTo, req,
          compared, changes, closedBelow>>

ResetId == 1 .. MaxResets

\* A row: "none" before its INSERT, "open" while used_at is NULL, "used" after,
\* "deleted" when its email could not be sent.
Row == [state : {"none", "open", "used", "deleted"},
        attempts : 0 .. MaxAttempts, token : {"none", "good", "expired"}]

NoRow == [state |-> "none", attempts |-> 0, token |-> "none"]

Step == {"idle", "invalidate", "insert", "send", "delete",
         "count", "exhaust", "grant", "change"}

Request == [at : Step, id : 0 .. MaxResets, right : BOOLEAN,
            attempts : 0 .. MaxAttempts]

Holding(at, i) == [at |-> at, id |-> i, right |-> FALSE, attempts |-> 0]

Idle == Holding("idle", 0)

Init ==
    /\ resets = [i \in ResetId |-> NoRow]
    /\ nextReset = 1
    /\ cooledUpTo = 0
    /\ expiredUpTo = 0
    /\ req = [r \in Requests |-> Idle]
    /\ compared = [i \in ResetId |-> 0]
    /\ changes = [i \in ResetId |-> 0]
    /\ closedBelow = 1

Open(i) == resets[i].state = "open"

\* The newest open row: what findOne(..., order createdAt DESC) returns.
IsLatest(i) == Open(i) /\ \A j \in ResetId : Open(j) => j <= i

\* UPDATE ... SET used_at WHERE user_id AND used_at IS NULL.
AllUsed ==
    [i \in ResetId |->
        IF Open(i) THEN [resets[i] EXCEPT !.state = "used"] ELSE resets[i]]

\* UPDATE ... SET used_at WHERE id.
MarkUsed(i) ==
    IF resets[i].state = "deleted" THEN resets
    ELSE [resets EXCEPT ![i].state = "used"]

rowTimers == <<cooledUpTo, expiredUpTo>>
histories == <<compared, changes, closedBelow>>

-----------------------------------------------------------------------------
(* requestReset *)

\* The newest open code is recent: nothing is sent, the answer is the same.
InCooldown == \E i \in ResetId : IsLatest(i) /\ i > cooledUpTo

RequestRead(r) ==
    /\ req[r].at = "idle"
    /\ ~ InCooldown
    /\ req' = [req EXCEPT ![r] = Holding("invalidate", 0)]
    /\ UNCHANGED <<resets, nextReset, rowTimers, histories>>

Invalidate(r) ==
    /\ req[r].at = "invalidate"
    /\ resets' = AllUsed
    /\ req' = [req EXCEPT ![r] = Holding("insert", 0)]
    /\ UNCHANGED <<nextReset, rowTimers, histories>>

Insert(r) ==
    /\ req[r].at = "insert"
    /\ nextReset \in ResetId
    /\ resets' = [resets EXCEPT ![nextReset] = [NoRow EXCEPT !.state = "open"]]
    /\ nextReset' = nextReset + 1
    /\ req' = [req EXCEPT ![r] = Holding("send", nextReset)]
    /\ UNCHANGED <<rowTimers, histories>>

Sent(r) ==
    /\ req[r].at = "send"
    /\ req' = [req EXCEPT ![r] = Idle]
    /\ UNCHANGED <<resets, nextReset, rowTimers, histories>>

SendFails(r) ==
    /\ req[r].at = "send"
    /\ req' = [req EXCEPT ![r].at = "delete"]
    /\ UNCHANGED <<resets, nextReset, rowTimers, histories>>

Delete(r) ==
    /\ req[r].at = "delete"
    /\ resets' = [resets EXCEPT ![req[r].id] = [NoRow EXCEPT !.state = "deleted"]]
    /\ req' = [req EXCEPT ![r] = Idle]
    /\ UNCHANGED <<nextReset, rowTimers, histories>>

-----------------------------------------------------------------------------
(* verifyCode *)

VerifyRead(r, right) ==
    /\ req[r].at = "idle"
    /\ \E i \in ResetId :
          /\ IsLatest(i)
          /\ i > expiredUpTo
          /\ req' = [req EXCEPT ![r] =
                       [at |-> "count", id |-> i, right |-> right,
                        attempts |-> resets[i].attempts]]
    /\ UNCHANGED <<resets, nextReset, rowTimers, histories>>

\* UPDATE ... SET attempts = attempts + 1 WHERE id AND attempts < max: the row
\* decides, not the copy read before.  It does not look at used_at.
MayCountMutant(r) == req[r].attempts < MaxAttempts
MayCount(r) ==
    LET row == resets[req[r].id] IN
    row.state # "deleted" /\ row.attempts < MaxAttempts

CountRefused(r) ==
    /\ req[r].at = "count"
    /\ ~ MayCount(r)
    /\ req' = [req EXCEPT ![r].at = "exhaust"]
    /\ UNCHANGED <<resets, nextReset, rowTimers, histories>>

\* The attempt is counted, then the code compared.  After a wrong one, what is
\* left is computed from the copy: the last attempt closes the row.
Counted(r) ==
    LET i == req[r].id IN
    /\ req[r].at = "count"
    /\ MayCount(r)
    /\ resets' = [resets EXCEPT ![i].attempts = @ + 1]
    /\ compared' = [compared EXCEPT ![i] = @ + 1]
    /\ req' = [req EXCEPT ![r] =
                 IF req[r].right THEN [@ EXCEPT !.at = "grant"]
                 ELSE IF req[r].attempts + 1 >= MaxAttempts
                      THEN [@ EXCEPT !.at = "exhaust"]
                 ELSE Idle]
    /\ UNCHANGED <<nextReset, rowTimers, changes, closedBelow>>

Exhaust(r) ==
    /\ req[r].at = "exhaust"
    /\ resets' = MarkUsed(req[r].id)
    /\ req' = [req EXCEPT ![r] = Idle]
    /\ UNCHANGED <<nextReset, rowTimers, histories>>

\* UPDATE ... SET reset_token_hash WHERE id: whatever happened to the row since
\* it was read; an earlier token of the row is overwritten.
Grant(r) ==
    LET i == req[r].id IN
    /\ req[r].at = "grant"
    /\ resets' = IF resets[i].state = "deleted" THEN resets
                 ELSE [resets EXCEPT ![i].token = "good"]
    /\ req' = [req EXCEPT ![r] = Idle]
    /\ UNCHANGED <<nextReset, rowTimers, histories>>

-----------------------------------------------------------------------------
(* resetPassword *)

ResetRead(r) ==
    /\ req[r].at = "idle"
    /\ \E i \in ResetId :
          /\ Open(i)
          /\ resets[i].token = "good"
          /\ req' = [req EXCEPT ![r] = Holding("change", i)]
    /\ UNCHANGED <<resets, nextReset, rowTimers, histories>>

\* The first UPDATE of the transaction marks the row used if nobody did before.
StillUnusedMutant(r) == TRUE
StillUnused(r) == Open(req[r].id)

\* What the transaction leaves of the rows: no open one.
ClosedMutant(i) == MarkUsed(i)
Closed(i) == AllUsed

ChangePassword(r) ==
    /\ req[r].at = "change"
    /\ StillUnused(r)
    /\ resets' = Closed(req[r].id)
    /\ changes' = [changes EXCEPT ![req[r].id] = @ + 1]
    /\ closedBelow' = nextReset
    /\ req' = [req EXCEPT ![r] = Idle]
    /\ UNCHANGED <<nextReset, rowTimers, compared>>

ChangeRefused(r) ==
    /\ req[r].at = "change"
    /\ ~ StillUnused(r)
    /\ req' = [req EXCEPT ![r] = Idle]
    /\ UNCHANGED <<resets, nextReset, rowTimers, histories>>

-----------------------------------------------------------------------------
(* The process may stop between any two statements; time passes. *)

Stop(r) ==
    /\ req[r].at # "idle"
    /\ req' = [req EXCEPT ![r] = Idle]
    /\ UNCHANGED <<resets, nextReset, rowTimers, histories>>

CooldownPasses ==
    /\ cooledUpTo + 1 < nextReset
    /\ cooledUpTo' = cooledUpTo + 1
    /\ UNCHANGED <<resets, nextReset, expiredUpTo, req, histories>>

CodeExpires ==
    /\ expiredUpTo < cooledUpTo
    /\ expiredUpTo' = expiredUpTo + 1
    /\ UNCHANGED <<resets, nextReset, cooledUpTo, req, histories>>

TokenExpires(i) ==
    /\ resets[i].token = "good"
    /\ resets' = [resets EXCEPT ![i].token = "expired"]
    /\ UNCHANGED <<nextReset, rowTimers, req, histories>>

Next ==
    \/ \E r \in Requests : RequestRead(r)
    \/ \E r \in Requests : Invalidate(r)
    \/ \E r \in Requests : Insert(r)
    \/ \E r \in Requests : Sent(r)
    \/ \E r \in Requests : SendFails(r)
    \/ \E r \in Requests : Delete(r)
    \/ \E r \in Requests : \E right \in BOOLEAN : VerifyRead(r, right)
    \/ \E r \in Requests : CountRefused(r)
    \/ \E r \in Requests : Counted(r)
    \/ \E r \in Requests : Exhaust(r)
    \/ \E r \in Requests : Grant(r)
    \/ \E r \in Requests : ResetRead(r)
    \/ \E r \in Requests : ChangePassword(r)
    \/ \E r \in Requests : ChangeRefused(r)
    \/ \E r \in Requests : Stop(r)
    \/ CooldownPasses
    \/ CodeExpires
    \/ \E i \in ResetId : TokenExpires(i)

Spec == Init /\ [][Next]_vars

-----------------------------------------------------------------------------
(* Properties *)

TypeOK ==
    /\ resets \in [ResetId -> Row]
    /\ nextReset \in 1 .. MaxResets + 1
    /\ cooledUpTo \in Nat
    /\ expiredUpTo \in Nat
    /\ req \in [Requests -> Request]
    /\ compared \in [ResetId -> Nat]
    /\ changes \in [ResetId -> Nat]
    /\ closedBelow \in 1 .. MaxResets + 1

\* However many guesses run in parallel, at most MaxAttempts codes are ever
\* compared with that of a row (l.119-128; FRONT.md:71 "Máx. 5 intentos").
ComparisonsBounded == \A i \in ResetId : compared[i] <= MaxAttempts

\* A request changes the password at most once, however many requests hold its
\* token (l.180, FRONT.md:73 "un solo uso").
ChangesPasswordOnce == \A i \in ResetId : changes[i] <= 1

\* After a password change no code and no token that existed before it works,
\* also when two requests had opened a row each (l.196-201).
ChangeClosesEarlierResets ==
    \A i \in ResetId : i < closedBelow => ~ Open(i)

\* Once used, replaced or withdrawn, a row stays so and never changes the
\* password, even if a request that read it earlier grants it a token now.
ClosedStaysClosed ==
    [][\A i \in ResetId :
          resets[i].state \in {"used", "deleted"}
              => /\ resets'[i].state \in {"used", "deleted"}
                 /\ changes'[i] = changes[i]]_vars

\* The rows seen as codes: a row without used_at is open, its insertion sends it.
CodeState ==
    [i \in ResetId |-> CASE resets[i].state = "none" -> "new"
                        [] resets[i].state = "open" -> "open"
                        [] OTHER -> "closed"]

CodesSent == [i \in ResetId |-> IF resets[i].state = "none" THEN 0 ELSE 1]

Code == INSTANCE OneTimeCode WITH
    Codes    <- ResetId,
    MaxSends <- 1,
    state    <- CodeState,
    sent     <- CodesSent,
    tried    <- compared,
    used     <- changes

\* A code and its token keep the promise of OneTimeCode: seen from outside, every
\* step sends a code, counts a guess at it, lets one request through a code that is
\* open and was guessed at, closes codes, or changes nothing.
ImplementsCode == Code!Spec

\* The invariant the proofs need.  Rows not inserted yet are untouched;
UntouchedUntilInserted ==
    \A i \in ResetId : i >= nextReset => resets[i] = NoRow /\ compared[i] = 0

\* what a request holds past its first read is a row that exists;
HeldRowsExist ==
    \A r \in Requests : req[r].at \notin {"idle", "invalidate", "insert"} =>
        req[r].id \in 1 .. nextReset - 1

\* the counter of a row counts its comparisons;
CountersAgree ==
    \A i \in ResetId : resets[i].state # "deleted" =>
        compared[i] = resets[i].attempts

\* and an open row has not changed the password.
OpenRowsUnused ==
    \A i \in ResetId : resets[i].state \in {"none", "open"} => changes[i] = 0

IInv ==
    /\ TypeOK
    /\ closedBelow <= nextReset
    /\ UntouchedUntilInserted
    /\ HeldRowsExist
    /\ CountersAgree
    /\ OpenRowsUnused
    /\ ComparisonsBounded
    /\ ChangesPasswordOnce
    /\ ChangeClosesEarlierResets

-----------------------------------------------------------------------------
(* The invariant that ImplementsCode needs besides: a row that was inserted is no     *)
(* new one again, and a token, or a request about to give or use one, comes after a   *)
(* guess.                                                                             *)

InsertedStaySo == \A i \in ResetId : i < nextReset => resets[i].state # "none"

TokensAreEarned ==
    /\ \A i \in ResetId : resets[i].token # "none" => compared[i] > 0
    /\ \A r \in Requests : req[r].at \in {"grant", "change"} => compared[req[r].id] > 0
=============================================================================
