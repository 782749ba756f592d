-------------------------------- MODULE Login --------------------------------
(***************************************************************************)
(* One email: the registration of its user, and the lock of its login      *)
(* after MaxFailed wrong passwords in a row (AuthService).  A request      *)
(* reads the row, waits for bcrypt, and writes the counter or the lock     *)
(* from the copy that it read.  The reset of a forgotten password is the    *)
(* one step of PasswordReset that writes the row.                          *)
(***************************************************************************)
EXTENDS Naturals, FiniteSets, Functions, Combinatorics

CONSTANTS
    Requests,    \* requests in flight at the same time
    MaxFailed,   \* MAX_FAILED_LOGINS
    LockTime,    \* LOCK_MINUTES
    MaxTime,     \* bound: the clock
    MaxPasswords \* bound: passwords the user has had

VARIABLES
    clock,    \* minutes
    users,    \* how many rows of users have the email
    user,     \* the row: its failed attempts, and until when its login is locked
    password, \* which of the passwords chosen so far is in the row
    act,      \* act[r]: what request r holds between two statements
    wrong,    \* history: wrong passwords since the last lock or right password
    shared    \* history: whether requests have overlapped since then

vars == <<clock, users, user, password, act, wrong, shared>>

\* lockedUntil = 0 stands for null.
Row == [failed : 0 .. MaxFailed, lockedUntil : 0 .. MaxTime + LockTime]
NewRow == [failed |-> 0, lockedUntil |-> 0]

Act(step, row, right) == [step |-> step, row |-> row, right |-> right]
Idle == Act("idle", NewRow, FALSE)

Locked == user.lockedUntil > clock

Init ==
    /\ clock = 1
    /\ users = 0
    /\ user = NewRow
    /\ password = 1
    /\ act = [r \in Requests |-> Idle]
    /\ wrong = 0
    /\ shared = FALSE

Busy == {r \in Requests : act[r] # Idle}

\* The statements of register: look for the email, and insert its user.
CheckEmail(r) ==
    /\ act[r] = Idle
    /\ users = 0
    /\ act' = [act EXCEPT ![r] = Act("insert", NewRow, FALSE)]
    /\ UNCHANGED <<clock, users, user, password, wrong, shared>>

\* Mutant: no constraint.
EmailIsFreeMutant == TRUE

\* CONSTRAINT UNIQUE ("email"): the INSERT of a second row fails.
EmailIsFree == users = 0

InsertUser(r) ==
    /\ act[r].step = "insert"
    /\ users' = IF EmailIsFree THEN users + 1 ELSE users
    /\ act' = [act EXCEPT ![r] = Idle]
    /\ UNCHANGED <<clock, user, password, wrong, shared>>

\* validateUser reads the row; a locked one is refused before the password is compared.
ReadUser(r, right) ==
    /\ act[r] = Idle
    /\ users > 0
    /\ ~Locked
    /\ act' = [act EXCEPT ![r] = Act(IF right THEN "accept" ELSE "reject", user, right)]
    /\ shared' = (shared \/ Busy # {})
    /\ UNCHANGED <<clock, users, user, password, wrong>>

\* Mutants: the lock leaves the counter at its maximum; one failure too many; the
\* whole copy is written back.
registerFailedLoginKeepMutant(copy) ==
    IF copy.failed + 1 >= MaxFailed
    THEN [failed |-> MaxFailed, lockedUntil |-> clock + LockTime]
    ELSE [user EXCEPT !.failed = copy.failed + 1]
registerFailedLoginMutant(copy) ==
    IF copy.failed >= MaxFailed
    THEN [failed |-> 0, lockedUntil |-> clock + LockTime]
    ELSE [user EXCEPT !.failed = copy.failed + 1]
registerFailedLoginCopyMutant(copy) ==
    IF copy.failed + 1 >= MaxFailed
    THEN [failed |-> 0, lockedUntil |-> clock + LockTime]
    ELSE [copy EXCEPT !.failed = copy.failed + 1]

\* The row after a wrong password, from the copy that the request read.
registerFailedLogin(copy) ==
    IF copy.failed + 1 >= MaxFailed
    THEN [failed |-> 0, lockedUntil |-> clock + LockTime]
    ELSE [user EXCEPT !.failed = copy.failed + 1]

Reject(r) ==
    /\ act[r].step = "reject"
    /\ user' = registerFailedLogin(act[r].row)
    /\ act' = [act EXCEPT ![r] = Idle]
    /\ LET locks == user'.failed = 0
       IN  /\ wrong' = IF locks THEN 0 ELSE wrong + 1
           /\ shared' = (Busy # {r} \/ (shared /\ ~locks))
    /\ UNCHANGED <<clock, users, password>>

\* Mutant: only a lock is cleared.
ClearedMutant(copy) == IF copy.lockedUntil # 0 THEN NewRow ELSE user

\* The row after a right password: cleared when the copy had something to clear.
Cleared(copy) == IF copy.failed > 0 \/ copy.lockedUntil # 0 THEN NewRow ELSE user

Accept(r) ==
    /\ act[r].step = "accept"
    /\ user' = Cleared(act[r].row)
    /\ act' = [act EXCEPT ![r] = Idle]
    /\ wrong' = 0
    /\ shared' = (Busy # {r} \/ (shared /\ user' # NewRow))
    /\ UNCHANGED <<clock, users, password>>

\* The transaction of resetPassword, with a code that was sent by email: it writes the
\* password, and neither the lock nor the counter.
ResetPassword ==
    /\ users > 0
    /\ password < MaxPasswords
    /\ password' = password + 1
    /\ UNCHANGED <<clock, users, user, act, wrong, shared>>

\* The process stops, or a statement fails.
Stop(r) ==
    /\ act[r] # Idle
    /\ act' = [act EXCEPT ![r] = Idle]
    /\ UNCHANGED <<clock, users, user, password, wrong, shared>>

Tick ==
    /\ clock < MaxTime
    /\ clock' = clock + 1
    /\ UNCHANGED <<users, user, password, act, wrong, shared>>

Next ==
    \/ \E r \in Requests : \/ CheckEmail(r)
                           \/ InsertUser(r)
                           \/ \E right \in BOOLEAN : ReadUser(r, right)
                           \/ Reject(r)
                           \/ Accept(r)
                           \/ Stop(r)
    \/ ResetPassword
    \/ Tick

Spec == Init /\ [][Next]_vars

(***************************************************************************)
(* Properties.                                                             *)
(***************************************************************************)
\* Rows and copies of rows; the counter never stays at the maximum.
TypeOK ==
    /\ clock \in 1 .. MaxTime
    /\ users \in Nat
    /\ user \in Row
    /\ password \in 1 .. MaxPasswords
    /\ act \in [Requests -> [step : {"idle", "insert", "accept", "reject"}, row : Row, right : BOOLEAN]]
    /\ wrong \in Nat /\ shared \in BOOLEAN
    /\ user.failed < MaxFailed

\* Two registrations that both find the email free leave one user.
OneUserPerEmail == users <= 1

\* While requests do not overlap, the counter is the number of wrong passwords in a row.
CountsEachFailure == ~shared => user.failed = wrong

\* How many wrong passwords are compared before the lock: MaxFailed, one at a time; but
\* an old copy of the counter may be written again for each request more in flight.
WrongPasswordsBounded ==
    wrong < choose(MaxFailed + Cardinality(Requests) - 1, Cardinality(Requests))

\* A lock ends when its time is over, by a right password that was read before it, or by
\* a reset, if that ends it at all (ResetEndsLock): no wrong password that is written
\* from an old copy takes it back.
LocksLast ==
    [][Locked /\ user'.lockedUntil <= clock =>
          \/ \E r \in Requests : act[r].right /\ act[r].row.lockedUntil # user.lockedUntil
          \/ password' # password]_vars

\* The answer to a locked user, auth.service.ts:163: "Intenta de nuevo en N minutos o
\* restablece tu contraseña"; and that of the reset: "Ya puedes iniciar sesión"
\* (password-reset.service.ts:206).
ResetEndsLock == [][password' # password => ~ Locked']_vars

(***************************************************************************)
(* The inductive invariant.                                                *)
(***************************************************************************)
\* The rows that requests have read are from before, and below the maximum; only a right
\* password is accepted.
CopiesOK ==
    \A r \in Requests :
        /\ act[r].row.lockedUntil <= clock /\ act[r].row.failed < MaxFailed
        /\ act[r].step = "accept" => act[r].right

\* While requests do not overlap, the one that there is has read the counter as it is.
Alone ==
    ~shared => \A r \in Requests :
                  act[r].step \in {"accept", "reject"} => act[r].row.failed = user.failed

\* The lowest counter from which a request may still count a wrong password, and how many
\* of them may count from j or from more.
Behind(r) ==
    IF act[r].step = "reject" /\ act[r].row.failed < user.failed
    THEN act[r].row.failed ELSE user.failed
From(j) == Cardinality({r \in Requests : Behind(r) >= j})

\* What n requests that have reached the counter MaxFailed - i stand for: the multisets
\* of n counters between that one and the maximum, without those that do not have it.
Gain(i, n) == choose(n + i, i) - choose(n + i - 1, i - 1)

\* Each wrong password uses up one of the multisets of counters that the requests may
\* hold: when it is written from an old copy, the counter goes down for everybody, but
\* more of them have reached it.
GuessesCounted ==
    wrong <= SumFunctionOnSet([j \in 1 .. MaxFailed - 1 |-> Gain(MaxFailed - j, From(j))],
                              1 .. MaxFailed - 1)

IInv ==
    /\ TypeOK
    /\ OneUserPerEmail
    /\ CopiesOK
    /\ CountsEachFailure
    /\ Alone
    /\ GuessesCounted

=============================================================================
