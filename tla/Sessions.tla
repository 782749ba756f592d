------------------------------ MODULE Sessions ------------------------------
(***************************************************************************)
(* The sessions of one user: AuthService (src/src/auth/auth.service.ts),   *)
(* JwtStrategy, and what changes users.password and users.tokenVersion     *)
(* beside them: ProfileController and ProfileService, TwoFactorController, *)
(* PasswordResetService.resetPassword.                                     *)
(*                                                                         *)
(* A session is a JWT that was handed out; it works while its version is   *)
(* the user's.  Every await is a statement of its own.  Passwords are      *)
(* numbered in the order they were chosen.  Sessions are numbered in the   *)
(* order they were issued.  Two fields are ghosts: basis is the password    *)
(* whose knowledge a session goes back to, direct says that it comes from  *)
(* a login in one step.  JWT expiry only takes sessions away and is   *)
(* left out, and so is the lock after failed logins.                       *)
(***************************************************************************)
EXTENDS Naturals

CONSTANTS
    Requests,      \* HTTP requests that may be in flight at the same time
    MaxSessions,   \* bound: sessions issued in a behaviour
    MaxPasswords,  \* bound: passwords chosen in a behaviour
    MaxVersion     \* bound: times tokenVersion is raised

ASSUME SessionConstants ==
    /\ MaxSessions \in Nat
    /\ MaxPasswords \in Nat \ {0}
    /\ MaxVersion \in Nat

VARIABLES
    password,      \* users.password
    version,       \* users.tokenVersion
    enabled,       \* users.twoFactorEnabled
    sessions,      \* sessions[i]: the i-th session issued
    nextSession,   \* the number of the next session
    lastPassword,  \* the newest password chosen
    req,           \* req[r]: what request r holds between two statements
    rotatedAt,     \* history: nextSession when tokenVersion was last raised
    changedAt,     \* history: nextSession when 2FA was last confirmed or disabled
    inForce        \* history: values of password since the last rotation

user == <<password, version, enabled>>

vars == <<user, sessions, nextSession, lastPassword, req, rotatedAt, changedAt,
          inForce>>

SessionId == 1 .. MaxSessions
Password == 1 .. MaxPasswords
Version == 0 .. MaxVersion

Session == [version : Version, basis : 0 .. MaxPasswords, direct : BOOLEAN]
NoSession == [version |-> 0, basis |-> 0, direct |-> FALSE]

\* The columns of a user entity that the module tells apart (tokenVersion is
\* not read with it; name and email are carried like these two).
Entity == [password : Password, enabled : BOOLEAN]
NoEntity == [password |-> 1, enabled |-> FALSE]

\* "issue" holds the version its session will carry; "challenge" waits for the
\* code of a 2FA login; "version" is about to read tokenVersion; "save" and
\* "write" hold a user entity between findOne, save's own SELECT and its UPDATE
\* of some columns; "enable" and "disable" are about to write twoFactorEnabled;
\* "rotate" is about to raise tokenVersion.
Request ==
    [at : {"idle", "issue", "challenge", "version", "save", "write", "enable",
           "disable", "rotate"},
     basis : 0 .. MaxPasswords, version : Version, direct : BOOLEAN,
     entity : Entity, columns : SUBSET {"password", "enabled"}, rotates : BOOLEAN]

\* A request without an entity.
Holding(at, basis, ver) ==
    [at |-> at, basis |-> basis, version |-> ver, direct |-> FALSE,
     entity |-> NoEntity, columns |-> {}, rotates |-> FALSE]

\* A request about to save an entity.
Saving(basis, entity, rotates) ==
    [at |-> "save", basis |-> basis, version |-> 0, direct |-> FALSE,
     entity |-> entity, columns |-> {}, rotates |-> rotates]

Idle == Holding("idle", 0, 0)

Init ==
    /\ password = 1
    /\ version = 0
    /\ enabled \in BOOLEAN
    /\ sessions = [i \in SessionId |-> NoSession]
    /\ nextSession = 1
    /\ lastPassword = 1
    /\ req = [r \in Requests |-> Idle]
    /\ rotatedAt = 1
    /\ changedAt = 1
    /\ inForce = {1}

\* JwtStrategy.validate: the session's version is the user's.
Valid(i) == i < nextSession /\ sessions[i].version = version

histories == <<rotatedAt, changedAt, inForce>>

-----------------------------------------------------------------------------
(* login, verifyTwoFactorLogin *)

\* One SELECT reads the password and tokenVersion: without 2FA the session will
\* carry the version that goes with the password that was compared.
LoginReadMutant == [Holding("version", password, 0) EXCEPT !.direct = TRUE]
LoginRead == [Holding("issue", password, version) EXCEPT !.direct = TRUE]

Login(r) ==
    /\ req[r].at = "idle"
    /\ req' = [req EXCEPT ![r] =
                 IF enabled THEN Holding("challenge", password, 0) ELSE LoginRead]
    /\ UNCHANGED <<user, sessions, nextSession, lastPassword, histories>>

\* The code was right (TwoFactor): findOne leaves tokenVersion out (select:
\* false), so createSession will read it.
VerifyTwoFactorLogin(r) ==
    /\ req[r].at = "challenge"
    /\ req' = [req EXCEPT ![r].at = "version"]
    /\ UNCHANGED <<user, sessions, nextSession, lastPassword, histories>>

-----------------------------------------------------------------------------
(* refreshSession, and the end of createSession *)

\* The guard found session i valid; the rest of the request is still to come.
Refresh(r, i) ==
    /\ req[r].at = "idle"
    /\ Valid(i)
    /\ req' = [req EXCEPT ![r] =
                 Holding("version", sessions[i].basis, 0)]
    /\ UNCHANGED <<user, sessions, nextSession, lastPassword, histories>>

ReadVersion(r) ==
    /\ req[r].at = "version"
    /\ req' = [req EXCEPT ![r].at = "issue", ![r].version = version]
    /\ UNCHANGED <<user, sessions, nextSession, lastPassword, histories>>

Issue(r) ==
    /\ req[r].at = "issue"
    /\ nextSession \in SessionId
    /\ sessions' = [sessions EXCEPT ![nextSession] =
                      [version |-> req[r].version, basis |-> req[r].basis,
                       direct |-> req[r].direct]]
    /\ nextSession' = nextSession + 1
    /\ req' = [req EXCEPT ![r] = Idle]
    /\ UNCHANGED <<user, lastPassword, histories>>

-----------------------------------------------------------------------------
(* rotateSession *)

\* increment is one UPDATE: SET tokenVersion = tokenVersion + 1.
RaisedMutant == 1
Raised == version + 1

Rotate(r) ==
    /\ req[r].at = "rotate"
    /\ Raised \in Version
    /\ version' = Raised
    /\ rotatedAt' = nextSession
    /\ inForce' = {password}
    /\ req' = [req EXCEPT ![r].at = "version"]
    /\ UNCHANGED <<password, enabled, sessions, nextSession, lastPassword,
                   changedAt>>

-----------------------------------------------------------------------------
(* updateProfile and changePassword: findOne, then save of the entity *)

\* findOne, without tokenVersion (select: false).
UserRead == [password |-> password, enabled |-> enabled]

\* A new name only; the entity carries the other columns as they were read.
UpdateProfile(r, i) ==
    /\ req[r].at = "idle"
    /\ Valid(i)
    /\ req' = [req EXCEPT ![r] = Saving(sessions[i].basis, UserRead, FALSE)]
    /\ UNCHANGED <<user, sessions, nextSession, lastPassword, histories>>

\* The current password was given; the controller rotates after the save.
ChangePassword(r, i) ==
    LET new == lastPassword + 1 IN
    /\ req[r].at = "idle"
    /\ Valid(i)
    /\ new \in Password
    /\ lastPassword' = new
    /\ req' = [req EXCEPT ![r] =
                 Saving(new, [UserRead EXCEPT !.password = new], TRUE)]
    /\ UNCHANGED <<user, sessions, nextSession, histories>>

\* What follows the save.
AfterSave(r) ==
    IF req[r].rotates THEN Holding("rotate", req[r].basis, 0) ELSE Idle

\* save reads the row again, and will write the columns in which the entity
\* differs from it.
Differing(entity) ==
    {c \in {"password", "enabled"} : entity[c] # UserRead[c]}

SaveLoad(r) ==
    /\ req[r].at = "save"
    /\ req' = [req EXCEPT ![r].at = "write",
                          ![r].columns = Differing(req[r].entity)]
    /\ UNCHANGED <<user, sessions, nextSession, lastPassword, histories>>

SaveWrite(r) ==
    /\ req[r].at = "write"
    /\ password' = IF "password" \in req[r].columns
                   THEN req[r].entity.password ELSE password
    /\ enabled' = IF "enabled" \in req[r].columns
                  THEN req[r].entity.enabled ELSE enabled
    /\ inForce' = inForce \union {password'}
    /\ req' = [req EXCEPT ![r] = AfterSave(r)]
    /\ UNCHANGED <<version, sessions, nextSession, lastPassword, rotatedAt,
                   changedAt>>

-----------------------------------------------------------------------------
(* resetPassword, two-step verification, email *)

\* One transaction: the password, tokenVersion + 1 (PasswordReset).
ResetPassword ==
    /\ lastPassword + 1 \in Password
    /\ Raised \in Version
    /\ password' = lastPassword + 1
    /\ lastPassword' = lastPassword + 1
    /\ version' = Raised
    /\ rotatedAt' = nextSession
    /\ inForce' = {lastPassword + 1}
    /\ UNCHANGED <<enabled, sessions, nextSession, req, changedAt>>

\* confirmEnable: the code was right (TwoFactor); the UPDATE, and nothing after
\* it.
ConfirmEnableRead(r, i) ==
    /\ req[r].at = "idle"
    /\ Valid(i)
    /\ req' = [req EXCEPT ![r] = Holding("enable", sessions[i].basis, 0)]
    /\ UNCHANGED <<user, sessions, nextSession, lastPassword, histories>>

ConfirmEnable(r) ==
    /\ req[r].at = "enable"
    /\ enabled' = TRUE
    /\ changedAt' = nextSession
    /\ req' = [req EXCEPT ![r] = Idle]
    /\ UNCHANGED <<password, version, sessions, nextSession, lastPassword,
                   rotatedAt, inForce>>

\* disable, with the current password; the controller rotates.
DisableRead(r, i) ==
    /\ req[r].at = "idle"
    /\ Valid(i)
    /\ enabled
    /\ req' = [req EXCEPT ![r] = Holding("disable", password, 0)]
    /\ UNCHANGED <<user, sessions, nextSession, lastPassword, histories>>

Disable(r) ==
    /\ req[r].at = "disable"
    /\ enabled' = FALSE
    /\ changedAt' = nextSession
    /\ req' = [req EXCEPT ![r].at = "rotate"]
    /\ UNCHANGED <<password, version, sessions, nextSession, lastPassword,
                   rotatedAt, inForce>>

\* The email was changed (TwoFactor); the controller rotates.
ConfirmEmailChange(r, i) ==
    /\ req[r].at = "idle"
    /\ Valid(i)
    /\ req' = [req EXCEPT ![r] = Holding("rotate", sessions[i].basis, 0)]
    /\ UNCHANGED <<user, sessions, nextSession, lastPassword, histories>>

\* The process stops, or a later check fails.
Stop(r) ==
    /\ req[r].at # "idle"
    /\ req' = [req EXCEPT ![r] = Idle]
    /\ UNCHANGED <<user, sessions, nextSession, lastPassword, histories>>

Next ==
    \/ \E r \in Requests : Login(r)
    \/ \E r \in Requests : VerifyTwoFactorLogin(r)
    \/ \E r \in Requests : \E i \in SessionId : Refresh(r, i)
    \/ \E r \in Requests : ReadVersion(r)
    \/ \E r \in Requests : Issue(r)
    \/ \E r \in Requests : Rotate(r)
    \/ \E r \in Requests : \E i \in SessionId : UpdateProfile(r, i)
    \/ \E r \in Requests : \E i \in SessionId : ChangePassword(r, i)
    \/ \E r \in Requests : SaveLoad(r)
    \/ \E r \in Requests : SaveWrite(r)
    \/ ResetPassword
    \/ \E r \in Requests : \E i \in SessionId : ConfirmEnableRead(r, i)
    \/ \E r \in Requests : ConfirmEnable(r)
    \/ \E r \in Requests : \E i \in SessionId : DisableRead(r, i)
    \/ \E r \in Requests : Disable(r)
    \/ \E r \in Requests : \E i \in SessionId : ConfirmEmailChange(r, i)
    \/ \E r \in Requests : Stop(r)

Spec == Init /\ [][Next]_vars

-----------------------------------------------------------------------------
(* Properties *)

TypeOK ==
    /\ password \in Password
    /\ version \in Version
    /\ enabled \in BOOLEAN
    /\ sessions \in [SessionId -> Session]
    /\ nextSession \in 1 .. MaxSessions + 1
    /\ lastPassword \in Password
    /\ req \in [Requests -> Request]
    /\ rotatedAt \in 1 .. MaxSessions + 1
    /\ changedAt \in 1 .. MaxSessions + 1
    /\ inForce \in SUBSET Password

\* user.entity.ts:30: raising tokenVersion ends every session issued before,
\* for good, however many security changes overlap; the one of the request that
\* raises it too, whose answer has a new session (profile.controller.ts:89 and :129).
\* FRONT.md:114 says otherwise of a change of email or password.
SessionsDieOnRotation == \A i \in SessionId : i < rotatedAt => ~ Valid(i)

\* auth.service.ts:154: a login that compared a password works only while a
\* rotation has not followed that password's end, however late its session is
\* signed.
LoginsFollowPassword ==
    \A i \in SessionId :
        Valid(i) /\ sessions[i].direct => sessions[i].basis \in inForce

\* What a request may hold: no version that is not reached yet; and to sign the
\* session of a login in one step, a password in force or a version that is over.
HoldingOK(h) ==
    /\ h.version <= version
    /\ h.direct /\ h.version = version => h.basis \in inForce
    /\ h.direct => h.at = "issue"

\* The invariant the proofs need: no session carries a version that is not
\* reached yet; what was issued before the last rotation carries an older one.
IInv ==
    /\ TypeOK
    /\ password \in inForce
    /\ rotatedAt <= nextSession
    /\ \A i \in SessionId : i < nextSession => sessions[i].version <= version
    /\ \A i \in SessionId : i < rotatedAt => sessions[i].version < version
    /\ LoginsFollowPassword
    /\ \A r \in Requests : HoldingOK(req[r])

\* profile.controller.ts:63: PATCH /profile "Actualiza el `name`": no step puts
\* an older password back.
PasswordStaysChanged == [][password' >= password]_vars

\* jwt.strategy.ts:28: "cambio de contraseña, recuperación, 2FA o email suben
\* tokenVersion": once no request is running, sessions from before 2FA was
\* turned on or off are dead.
TwoFactorChangeClosesSessions ==
    (\A r \in Requests : req[r].at = "idle") =>
        \A i \in SessionId : i < changedAt => ~ Valid(i)
=============================================================================
