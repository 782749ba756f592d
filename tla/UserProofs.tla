------------------------------ MODULE UserProofs ------------------------------
(***************************************************************************)
(* Proofs about Sessions and Transactions, and about Documents in the run  *)
(* that MCFiles puts together, for any sets of requests,                   *)
(* transactions and accounts and any bounds.                               *)
(***************************************************************************)
EXTENDS MCFiles, TLAPS

(***************************************************************************)
(* Sessions.                                                               *)
(***************************************************************************)
LEMMA HoldingIsRequest ==
  ASSUME NEW at \in {"idle", "issue", "challenge", "version", "enable",
                     "disable", "rotate"},
         NEW basis \in 0 .. MaxPasswords, NEW ver \in Version
  PROVE  /\ Holding(at, basis, ver) \in Request
         /\ Holding(at, basis, ver).version = ver
         /\ Holding(at, basis, ver).basis = basis
         /\ ~ Holding(at, basis, ver).direct
  BY SessionConstants DEF Holding, Request, NoEntity, Entity, Password

LEMMA SavingIsRequest ==
  ASSUME NEW basis \in 0 .. MaxPasswords, NEW entity \in Entity,
         NEW rotates \in BOOLEAN
  PROVE  /\ Saving(basis, entity, rotates) \in Request
         /\ Saving(basis, entity, rotates).version = 0
         /\ ~ Saving(basis, entity, rotates).direct
  BY SessionConstants DEF Saving, Request, Version

LEMMA ZeroVersion == 0 \in Version
  BY SessionConstants DEF Version

LEMMA IdleIsRequest ==
  Idle \in Request /\ Idle.version = 0 /\ ~ Idle.direct
  BY HoldingIsRequest, ZeroVersion, SessionConstants DEF Idle

\* A request that holds nothing but what it knows may be at any point.
LEMMA ZeroHolding ==
  ASSUME IInv, NEW h \in Request, h.version = 0, ~ h.direct
  PROVE  HoldingOK(h)
  BY SessionConstants DEF IInv, TypeOK, HoldingOK, Version

LEMMA InitIInv == Init => IInv
  <1> SUFFICES ASSUME Init PROVE IInv
    OBVIOUS
  <1>1. TypeOK
    BY IdleIsRequest, ZeroVersion, SessionConstants
       DEF Init, TypeOK, Password, SessionId, Session, NoSession
  <1>2. \A r \in Requests : HoldingOK(req[r])
    <2>1. \A r \in Requests : req[r] = Idle
      BY DEF Init
    <2>2. HoldingOK(Idle)
      BY IdleIsRequest DEF Init, HoldingOK
    <2> QED BY <2>1, <2>2
  <1>3. LoginsFollowPassword
    BY SessionConstants
       DEF Init, LoginsFollowPassword, Valid, SessionId, NoSession
  <1> QED BY <1>1, <1>2, <1>3, SessionConstants DEF Init, IInv, SessionId

\* A step of one request that issues and rotates nothing.
LEMMA RequestStep ==
  ASSUME IInv, NEW r \in Requests, NEW h \in Request, HoldingOK(h),
         req' = [req EXCEPT ![r] = h],
         password' \in inForce', inForce \subseteq inForce',
         inForce' \in SUBSET Password,
         enabled' \in BOOLEAN, lastPassword' \in Password,
         changedAt' \in {changedAt, nextSession},
         UNCHANGED <<version, sessions, nextSession, rotatedAt>>
  PROVE  IInv'
  <1>1. TypeOK'
    BY DEF IInv, TypeOK
  <1>2. \A s \in Requests : HoldingOK(req[s])'
    BY DEF IInv, TypeOK, HoldingOK
  <1>3. LoginsFollowPassword'
    BY DEF IInv, LoginsFollowPassword, Valid
  <1> QED BY <1>1, <1>2, <1>3 DEF IInv

\* A rotation, with or without a new password.
LEMMA RotationStep ==
  ASSUME IInv, req' \in [Requests -> Request],
         \A s \in Requests :
            /\ req'[s].version = req[s].version
            /\ req'[s].direct = req[s].direct
            /\ req'[s].direct => req'[s].at = "issue",
         password' \in Password, lastPassword' \in Password,
         version' = version + 1, version' \in Version,
         rotatedAt' = nextSession, inForce' = {password'},
         UNCHANGED <<enabled, sessions, nextSession, changedAt>>
  PROVE  IInv'
  <1>1. TypeOK'
    BY DEF IInv, TypeOK
  <1>2. \A i \in SessionId : i < nextSession => sessions[i].version < version'
    BY DEF IInv, TypeOK, Session, Version, SessionId
  <1>3. \A s \in Requests : HoldingOK(req[s])'
    <2> SUFFICES ASSUME NEW s \in Requests PROVE HoldingOK(req[s])'
      OBVIOUS
    <2>1. req[s].version \in Nat /\ version \in Nat /\ req[s].version <= version
      BY DEF IInv, TypeOK, HoldingOK, Request, Version
    <2>2. req[s].version < version'
      BY <2>1
    <2> QED BY <2>1, <2>2 DEF HoldingOK
  <1>4. LoginsFollowPassword'
    BY <1>2 DEF IInv, TypeOK, LoginsFollowPassword, Valid, Session, Version
  <1>5. rotatedAt' <= nextSession' /\ password' \in inForce'
    BY DEF IInv, TypeOK
  <1>6. \A i \in SessionId : i < nextSession' => sessions'[i].version <= version'
    BY <1>1, <1>2 DEF IInv, TypeOK, Session, Version
  <1> QED BY <1>1, <1>2, <1>3, <1>4, <1>5, <1>6 DEF IInv

LEMMA IssueKeeps ==
  ASSUME IInv, NEW r \in Requests, Issue(r)
  PROVE  IInv'
  <1> DEFINE s == [version |-> req[r].version, basis |-> req[r].basis,
                   direct |-> req[r].direct]
  <1>1. s \in Session /\ nextSession \in SessionId
    BY DEF IInv, TypeOK, Issue, Request, Session
  <1>2. /\ sessions' = [sessions EXCEPT ![nextSession] = s]
        /\ s.version <= version
        /\ s.direct /\ s.version = version => s.basis \in inForce
    BY DEF Issue, IInv, HoldingOK
  <1> HIDE DEF s
  <1>3. TypeOK'
    BY <1>1, <1>2, IdleIsRequest, SessionConstants
       DEF IInv, TypeOK, Issue, user, histories, SessionId
  <1>4. \A q \in Requests : HoldingOK(req[q])'
    <2>1. HoldingOK(Idle)
      BY IdleIsRequest, ZeroHolding
    <2> QED BY <2>1 DEF IInv, TypeOK, Issue, user, histories, HoldingOK
  <1>5. LoginsFollowPassword'
    BY <1>1, <1>2
       DEF IInv, TypeOK, Issue, user, histories, LoginsFollowPassword, Valid,
           SessionId
  <1>6. /\ \A i \in SessionId : i < nextSession' => sessions'[i].version <= version
        /\ \A i \in SessionId : i < rotatedAt => sessions'[i].version < version
    BY <1>1, <1>2 DEF IInv, TypeOK, Issue, SessionId
  <1>7. rotatedAt <= nextSession'
    BY DEF IInv, TypeOK, Issue
  <1> QED BY <1>3, <1>4, <1>5, <1>6, <1>7 DEF IInv, Issue, user, histories

-----------------------------------------------------------------------------
(* One lemma for the steps of a group of handlers. *)

LEMMA LoginKeeps ==
  ASSUME IInv, NEW r \in Requests,
         Login(r) \/ VerifyTwoFactorLogin(r) \/ ReadVersion(r)
  PROVE  IInv'
  <1>1. password \in 0 .. MaxPasswords /\ version \in Version
    BY DEF IInv, TypeOK, Password
  <1>2. req[r].basis \in 0 .. MaxPasswords
    BY DEF IInv, TypeOK, Request
  <1>3. CASE Login(r)
    <2>1. /\ LoginRead \in Request
          /\ LoginRead.at = "issue"
          /\ LoginRead.version = version
          /\ LoginRead.basis = password
      <3> DEFINE h == Holding("issue", password, version)
      <3>1. h \in Request /\ h.version = version /\ h.basis = password
        BY <1>1, HoldingIsRequest
      <3>2. h.at = "issue"
        BY DEF Holding
      <3>3. LoginRead = [h EXCEPT !.direct = TRUE]
        BY DEF LoginRead
      <3> HIDE DEF h
      <3> QED BY <3>1, <3>2, <3>3 DEF Request
    <2>2. HoldingOK(LoginRead)
      BY <1>1, <2>1 DEF HoldingOK, IInv, Version
    <2>3. Holding("challenge", password, 0) \in Request
          /\ HoldingOK(Holding("challenge", password, 0))
      BY <1>1, ZeroVersion, HoldingIsRequest, ZeroHolding
    <2>4. PICK h \in Request : HoldingOK(h) /\ req' = [req EXCEPT ![r] = h]
      BY <1>3, <2>1, <2>2, <2>3 DEF Login
    <2> QED BY <1>3, <2>4, RequestStep DEF Login, user, histories, IInv, TypeOK
  <1>4. CASE VerifyTwoFactorLogin(r) \/ ReadVersion(r)
    <2>1. /\ req[r] \in Request
          /\ ~ req[r].direct
          /\ req[r].version <= version
      BY <1>4 DEF VerifyTwoFactorLogin, ReadVersion, IInv, TypeOK, HoldingOK
    <2> DEFINE v == [req[r] EXCEPT !.at = "version"]
               w == [req[r] EXCEPT !.at = "issue", !.version = version]
    <2>2. /\ v \in Request /\ ~ v.direct /\ v.version = req[r].version
          /\ w \in Request /\ ~ w.direct /\ w.version = version
      BY <1>1, <2>1 DEF Request
    <2>3. req' = [req EXCEPT ![r] = v] \/ req' = [req EXCEPT ![r] = w]
      BY <1>4 DEF VerifyTwoFactorLogin, ReadVersion, IInv, TypeOK
    <2> HIDE DEF v, w
    <2>4. HoldingOK(v) /\ HoldingOK(w)
      BY <1>1, <2>1, <2>2 DEF HoldingOK, Version
    <2>5. PICK h \in Request : HoldingOK(h) /\ req' = [req EXCEPT ![r] = h]
      BY <2>2, <2>3, <2>4
    <2> QED BY <1>4, <2>5, RequestStep
            DEF VerifyTwoFactorLogin, ReadVersion, user, histories, IInv, TypeOK
  <1> QED BY <1>3, <1>4

\* The handlers that a session opens, and a request that stops.
LEMMA GuardedKeeps ==
  ASSUME IInv, NEW r \in Requests,
         \/ \E i \in SessionId :
               \/ Refresh(r, i)
               \/ UpdateProfile(r, i)
               \/ ChangePassword(r, i)
               \/ ConfirmEnableRead(r, i)
               \/ DisableRead(r, i)
               \/ ConfirmEmailChange(r, i)
         \/ Stop(r)
  PROVE  IInv'
  <1>1. /\ password \in 0 .. MaxPasswords
        /\ UserRead \in Entity
        /\ lastPassword + 1 \in Password =>
             /\ lastPassword + 1 \in 0 .. MaxPasswords
             /\ [UserRead EXCEPT !.password = lastPassword + 1] \in Entity
    BY DEF IInv, TypeOK, Password, UserRead, Entity
  <1>2. \A i \in SessionId : sessions[i].basis \in 0 .. MaxPasswords
    BY DEF IInv, TypeOK, Session
  <1>3. \E h \in Request :
           /\ h.version = 0
           /\ ~ h.direct
           /\ req' = [req EXCEPT ![r] = h]
    <2>1. CASE \E i \in SessionId :
                  \/ Refresh(r, i)
                  \/ ConfirmEnableRead(r, i)
                  \/ DisableRead(r, i)
                  \/ ConfirmEmailChange(r, i)
      BY <1>1, <1>2, <2>1, HoldingIsRequest, ZeroVersion
         DEF Refresh, ConfirmEnableRead, DisableRead, ConfirmEmailChange
    <2>2. CASE \E i \in SessionId : UpdateProfile(r, i) \/ ChangePassword(r, i)
      BY <1>1, <1>2, <2>2, SavingIsRequest DEF UpdateProfile, ChangePassword
    <2>3. CASE Stop(r)
      BY <2>3, IdleIsRequest DEF Stop
    <2> QED BY <2>1, <2>2, <2>3
  <1>4. PICK h \in Request : HoldingOK(h) /\ req' = [req EXCEPT ![r] = h]
    BY <1>3, ZeroHolding
  <1>5. /\ UNCHANGED <<user, sessions, nextSession, histories>>
        /\ lastPassword' \in Password
    BY DEF IInv, TypeOK, Refresh, UpdateProfile, ChangePassword,
           ConfirmEnableRead, DisableRead, ConfirmEmailChange, Stop
  <1> QED BY <1>4, <1>5, RequestStep DEF user, histories, IInv, TypeOK

\* The statements that write the user without raising tokenVersion.
LEMMA WritesKeep ==
  ASSUME IInv, NEW r \in Requests,
         SaveLoad(r) \/ SaveWrite(r) \/ ConfirmEnable(r) \/ Disable(r)
  PROVE  IInv'
  <1>1. /\ req[r] \in Request
        /\ ~ req[r].direct
        /\ req[r].version <= version
    BY DEF SaveLoad, SaveWrite, ConfirmEnable, Disable, IInv, TypeOK, HoldingOK
  <1> DEFINE s == [req[r] EXCEPT !.at = "write",
                                 !.columns = Differing(req[r].entity)]
             d == [req[r] EXCEPT !.at = "rotate"]
  <1>2. /\ s \in Request /\ ~ s.direct /\ s.version = req[r].version
        /\ d \in Request /\ ~ d.direct /\ d.version = req[r].version
    BY <1>1 DEF Request, Differing
  <1>3. AfterSave(r) \in Request /\ AfterSave(r).version = 0
        /\ ~ AfterSave(r).direct
    BY <1>1, IdleIsRequest, HoldingIsRequest, ZeroVersion DEF AfterSave, Request
  <1>4. \/ req' = [req EXCEPT ![r] = s]
        \/ req' = [req EXCEPT ![r] = d]
        \/ req' = [req EXCEPT ![r] = Idle]
        \/ req' = [req EXCEPT ![r] = AfterSave(r)]
    BY DEF SaveLoad, SaveWrite, ConfirmEnable, Disable, IInv, TypeOK
  <1> HIDE DEF s, d
  <1>5. HoldingOK(s) /\ HoldingOK(d)
    BY <1>1, <1>2 DEF HoldingOK
  <1>6. HoldingOK(Idle) /\ HoldingOK(AfterSave(r))
    BY <1>3, IdleIsRequest, ZeroHolding
  <1>7. PICK h \in Request : HoldingOK(h) /\ req' = [req EXCEPT ![r] = h]
    BY <1>2, <1>3, <1>4, <1>5, <1>6, IdleIsRequest
  <1>8. CASE SaveWrite(r)
    <2>1. password' \in Password /\ enabled' \in BOOLEAN
      BY <1>1, <1>8 DEF SaveWrite, IInv, TypeOK, Request, Entity
    <2> QED BY <1>7, <1>8, <2>1, RequestStep
            DEF SaveWrite, IInv, TypeOK
  <1>9. CASE SaveLoad(r) \/ ConfirmEnable(r) \/ Disable(r)
    BY <1>7, <1>9, RequestStep
       DEF SaveLoad, ConfirmEnable, Disable, user, histories, IInv, TypeOK
  <1> QED BY <1>8, <1>9

LEMMA RotationKeeps ==
  ASSUME IInv, ResetPassword \/ \E r \in Requests : Rotate(r)
  PROVE  IInv'
  <1>1. CASE ResetPassword
    <2>1. lastPassword + 1 \in 0 .. MaxPasswords
      BY <1>1 DEF ResetPassword, Password
    <2> QED BY <1>1, <2>1, RotationStep
            DEF ResetPassword, Raised, IInv, TypeOK, HoldingOK
  <1>2. CASE \E r \in Requests : Rotate(r)
    <2>1. PICK r \in Requests : Rotate(r)
      BY <1>2
    <2> DEFINE h == [req[r] EXCEPT !.at = "version"]
    <2>2. /\ h \in Request
          /\ h.version = req[r].version
          /\ h.direct = req[r].direct
          /\ ~ req[r].direct
      BY <2>1 DEF Rotate, IInv, TypeOK, HoldingOK, Request
    <2>3. req' = [req EXCEPT ![r] = h]
      BY <2>1 DEF Rotate, IInv, TypeOK
    <2> HIDE DEF h
    <2>4. /\ req' \in [Requests -> Request]
          /\ \A s \in Requests :
                /\ req'[s].version = req[s].version
                /\ req'[s].direct = req[s].direct
                /\ req'[s].direct => req'[s].at = "issue"
      BY <2>2, <2>3 DEF IInv, TypeOK, HoldingOK
    <2> QED BY <2>1, <2>4, RotationStep DEF Rotate, Raised, IInv, TypeOK
  <1> QED BY <1>1, <1>2

LEMMA NextIInv == IInv /\ [Next]_vars => IInv'
  <1> SUFFICES ASSUME IInv, [Next]_vars PROVE IInv'
    OBVIOUS
  <1>1. CASE \E r \in Requests :
                Login(r) \/ VerifyTwoFactorLogin(r) \/ ReadVersion(r)
    BY <1>1, LoginKeeps
  <1>2. CASE \E r \in Requests : Issue(r)
    BY <1>2, IssueKeeps
  <1>3. CASE \E r \in Requests :
                \/ \E i \in SessionId :
                      \/ Refresh(r, i)
                      \/ UpdateProfile(r, i)
                      \/ ChangePassword(r, i)
                      \/ ConfirmEnableRead(r, i)
                      \/ DisableRead(r, i)
                      \/ ConfirmEmailChange(r, i)
                \/ Stop(r)
    BY <1>3, GuardedKeeps
  <1>4. CASE \E r \in Requests :
                SaveLoad(r) \/ SaveWrite(r) \/ ConfirmEnable(r) \/ Disable(r)
    BY <1>4, WritesKeep
  <1>5. CASE ResetPassword \/ \E r \in Requests : Rotate(r)
    BY <1>5, RotationKeeps
  <1>6. CASE UNCHANGED vars
    BY <1>6 DEF vars, user, IInv, TypeOK, LoginsFollowPassword, Valid, HoldingOK
  <1> QED BY <1>1, <1>2, <1>3, <1>4, <1>5, <1>6 DEF Next

-----------------------------------------------------------------------------
(* The theorems *)

\* The inductive invariant of Sessions holds, for any number of concurrent
\* requests, sessions and passwords.
THEOREM SessionsInvariant == Spec => []IInv
  <1> QED BY InitIInv, NextIInv, PTL DEF Spec

\* user.entity.ts:30: raising tokenVersion ends every session issued before it
\* for good.
THEOREM SessionsDieForGood == Spec => []SessionsDieOnRotation
  <1>1. IInv => SessionsDieOnRotation
    BY DEF IInv, TypeOK, SessionsDieOnRotation, Valid, Session, Version
  <1> QED BY <1>1, SessionsInvariant, PTL

\* auth.service.ts:154: the session of a login in one step works only while the
\* password it compared has been in force since the last rotation.
THEOREM SessionsLoginsFollowPassword == Spec => []LoginsFollowPassword
  <1>1. IInv => LoginsFollowPassword
    BY DEF IInv
  <1> QED BY <1>1, SessionsInvariant, PTL

-----------------------------------------------------------------------------
(* Why a password may come back (PasswordStaysChanged is violated): somebody else     *)
(* writes it while a request holds the user entity it read, and nothing else.         *)

HoldsEntity(r) == req[r].at \in {"save", "write"}

\* While a request holds an entity, the password changes only by its own step.
WritersTakeTurns ==
    [][\A r \in Requests : HoldsEntity(r) /\ password' # password => req'[r] # req[r]]_vars

\* The invariant behind: what a request may write was chosen, and is no older than the
\* password.
EntitiesAreCurrent ==
    /\ password <= lastPassword
    /\ \A r \in Requests :
          HoldsEntity(r) => req[r].entity.password \in password .. lastPassword

\* A step that leaves the password alone, and gives one request an entity that is
\* no older than it, or none.
LEMMA PasswordKept ==
  ASSUME TypeOK, EntitiesAreCurrent, NEW r \in Requests, NEW h,
         req' = [req EXCEPT ![r] = h],
         h.at \in {"save", "write"} =>
            \/ h.entity.password \in password .. lastPassword'
            \/ HoldsEntity(r) /\ h.entity = req[r].entity,
         password' = password,
         lastPassword' = lastPassword \/ lastPassword' = lastPassword + 1
  PROVE  EntitiesAreCurrent' /\ password' >= password
  <1>1. /\ password \in Nat /\ lastPassword \in Nat
        /\ req \in [Requests -> Request]
    BY SessionConstants DEF TypeOK, Password
  <1>2. (password <= lastPassword)' /\ password' >= password
    BY <1>1 DEF EntitiesAreCurrent
  <1>3. ASSUME NEW q \in Requests, HoldsEntity(q)'
        PROVE  (req[q].entity.password \in password .. lastPassword)'
    BY <1>1, <1>3 DEF EntitiesAreCurrent, HoldsEntity
  <1> QED BY <1>2, <1>3 DEF EntitiesAreCurrent

LEMMA EntitiesStayCurrent ==
  ASSUME IInv, EntitiesAreCurrent, [Next]_vars,
         [\A r \in Requests :
             HoldsEntity(r) /\ password' # password => req'[r] # req[r]]_vars
  PROVE  EntitiesAreCurrent' /\ password' >= password
  <1>1. /\ TypeOK /\ password \in Nat /\ lastPassword \in Nat
        /\ req \in [Requests -> Request]
        /\ \A q \in Requests : req[q].entity.password \in Nat
    BY SessionConstants DEF IInv, TypeOK, Password, Request, Entity
  <1>2. ASSUME NEW r \in Requests,
               \/ Login(r) \/ VerifyTwoFactorLogin(r) \/ ReadVersion(r) \/ Issue(r)
               \/ Rotate(r) \/ ConfirmEnable(r) \/ Disable(r) \/ Stop(r)
               \/ \E i \in SessionId : \/ Refresh(r, i)
                                       \/ ConfirmEnableRead(r, i)
                                       \/ DisableRead(r, i)
                                       \/ ConfirmEmailChange(r, i)
        PROVE  EntitiesAreCurrent' /\ password' >= password
    <2>1. password' = password /\ lastPassword' = lastPassword
      BY <1>2
      DEF Login, VerifyTwoFactorLogin, ReadVersion, Issue, Rotate, ConfirmEnable,
          Disable, Stop, Refresh, ConfirmEnableRead, DisableRead, ConfirmEmailChange, user
    <2>2. PICK h : req' = [req EXCEPT ![r] = h] /\ h.at \notin {"save", "write"}
      <3>1. CASE \/ Login(r) \/ Issue(r) \/ ConfirmEnable(r) \/ Stop(r)
                 \/ \E i \in SessionId : \/ Refresh(r, i)
                                         \/ ConfirmEnableRead(r, i)
                                         \/ DisableRead(r, i)
                                         \/ ConfirmEmailChange(r, i)
        <4>1. \A at, basis, ver : Holding(at, basis, ver).at = at
          BY DEF Holding
        <4>2. LoginRead.at = "issue" /\ Idle.at = "idle"
          BY DEF LoginRead, Holding, Idle
        <4>3. CASE Login(r)
          <5> DEFINE h == IF enabled THEN Holding("challenge", password, 0) ELSE LoginRead
          <5>1. h.at \notin {"save", "write"}
            BY <4>1, <4>2
          <5>2. req' = [req EXCEPT ![r] = h]
            BY <4>3 DEF Login
          <5> HIDE DEF h
          <5> QED BY <5>1, <5>2
        <4>4. CASE Issue(r) \/ ConfirmEnable(r) \/ Stop(r)
          BY <4>2, <4>4 DEF Issue, ConfirmEnable, Stop
        <4>5. CASE \E i \in SessionId : \/ Refresh(r, i)
                                        \/ ConfirmEnableRead(r, i)
                                        \/ DisableRead(r, i)
                                        \/ ConfirmEmailChange(r, i)
          <5>1. ASSUME NEW at \in {"version", "enable", "disable", "rotate"}, NEW basis,
                       req' = [req EXCEPT ![r] = Holding(at, basis, 0)]
                PROVE  \E h : /\ req' = [req EXCEPT ![r] = h]
                             /\ h.at \notin {"save", "write"}
            BY <4>1, <5>1
          <5>2. CASE \E i \in SessionId : Refresh(r, i)
            BY <5>1, <5>2 DEF Refresh
          <5>3. CASE \E i \in SessionId : ConfirmEnableRead(r, i)
            BY <5>1, <5>3 DEF ConfirmEnableRead
          <5>4. CASE \E i \in SessionId : DisableRead(r, i)
            BY <5>1, <5>4 DEF DisableRead
          <5>5. CASE \E i \in SessionId : ConfirmEmailChange(r, i)
            BY <5>1, <5>5 DEF ConfirmEmailChange
          <5> QED BY <4>5, <5>2, <5>3, <5>4, <5>5
        <4> QED BY <3>1, <4>3, <4>4, <4>5
      <3>2. CASE VerifyTwoFactorLogin(r) \/ ReadVersion(r) \/ Rotate(r) \/ Disable(r)
        <4>1. req[r] \in Request
          BY <1>1
        <4>2. \/ req' = [req EXCEPT ![r].at = "version"]
              \/ req' = [req EXCEPT ![r].at = "issue", ![r].version = version]
              \/ req' = [req EXCEPT ![r].at = "rotate"]
          BY <3>2 DEF VerifyTwoFactorLogin, ReadVersion, Rotate, Disable
        <4>3. req'[r].at \notin {"save", "write"} /\ req' = [req EXCEPT ![r] = req'[r]]
          BY <1>1, <4>1, <4>2 DEF Request
        <4> QED BY <4>3
      <3> QED BY <1>2, <3>1, <3>2
    <2> QED BY <1>1, <2>1, <2>2, PasswordKept
  <1>3. ASSUME NEW r \in Requests, NEW i \in SessionId, UpdateProfile(r, i)
        PROVE  EntitiesAreCurrent' /\ password' >= password
    <2> DEFINE h == Saving(sessions[i].basis, UserRead, FALSE)
    <2>1. h.entity.password = password
      BY DEF Saving, UserRead
    <2>2. /\ req' = [req EXCEPT ![r] = h]
          /\ password' = password /\ lastPassword' = lastPassword
      BY <1>3 DEF UpdateProfile, user
    <2> HIDE DEF h
    <2>3. h.entity.password \in password .. lastPassword'
      BY <1>1, <2>1, <2>2 DEF EntitiesAreCurrent
    <2> QED BY <1>1, <2>2, <2>3, PasswordKept
  <1>4. ASSUME NEW r \in Requests, NEW i \in SessionId, ChangePassword(r, i)
        PROVE  EntitiesAreCurrent' /\ password' >= password
    <2> DEFINE new == lastPassword + 1
               h == Saving(new, [UserRead EXCEPT !.password = new], TRUE)
    <2>1. h.entity.password = new
      BY DEF Saving, UserRead
    <2>2. /\ req' = [req EXCEPT ![r] = h]
          /\ password' = password /\ lastPassword' = new
      BY <1>4 DEF ChangePassword, user
    <2> HIDE DEF h
    <2>3. h.entity.password \in password .. lastPassword'
      BY <1>1, <2>1, <2>2 DEF EntitiesAreCurrent
    <2> QED BY <1>1, <2>2, <2>3, PasswordKept
  <1>5. ASSUME NEW r \in Requests, SaveLoad(r)
        PROVE  EntitiesAreCurrent' /\ password' >= password
    <2> DEFINE h == [req[r] EXCEPT !.at = "write", !.columns = Differing(req[r].entity)]
    <2>1. h.entity = req[r].entity /\ HoldsEntity(r)
      BY <1>1, <1>5 DEF SaveLoad, HoldsEntity, Request
    <2>2. /\ req' = [req EXCEPT ![r] = h]
          /\ password' = password /\ lastPassword' = lastPassword
      BY <1>1, <1>5 DEF SaveLoad, user
    <2> HIDE DEF h
    <2> QED BY <1>1, <2>1, <2>2, PasswordKept
  <1>6. ASSUME NEW r \in Requests, SaveWrite(r)
        PROVE  EntitiesAreCurrent' /\ password' >= password
    <2>1. /\ password' \in {password, req[r].entity.password}
          /\ req' = [req EXCEPT ![r] = AfterSave(r)]
          /\ lastPassword' = lastPassword /\ HoldsEntity(r)
      BY <1>6 DEF SaveWrite, HoldsEntity
    <2>2. AfterSave(r).at \notin {"save", "write"}
      BY DEF AfterSave, Idle, Holding
    <2>3. CASE password' = password
      BY <1>1, <2>1, <2>2, <2>3, PasswordKept
    <2>4. CASE password' # password
      <3>1. \A q \in Requests : ~ HoldsEntity(q)'
        BY <1>1, <2>1, <2>2, <2>4 DEF HoldsEntity, vars, user
      <3>2. req[r].entity.password \in password .. lastPassword
        BY <2>1 DEF EntitiesAreCurrent
      <3> QED BY <1>1, <2>1, <3>1, <3>2 DEF EntitiesAreCurrent
    <2> QED BY <2>3, <2>4
  <1>7. CASE ResetPassword
    <2>1. /\ password' = lastPassword + 1 /\ lastPassword' = lastPassword + 1
          /\ req' = req
      BY <1>7 DEF ResetPassword
    <2>2. password' # password
      BY <1>1, <2>1 DEF EntitiesAreCurrent
    <2>3. \A q \in Requests : ~ HoldsEntity(q)'
      BY <2>1, <2>2 DEF HoldsEntity, vars, user
    <2> QED BY <1>1, <2>1, <2>3 DEF EntitiesAreCurrent
  <1>8. CASE UNCHANGED vars
    BY <1>1, <1>8 DEF vars, user, EntitiesAreCurrent, HoldsEntity
  <1> QED
    BY <1>2, <1>3, <1>4, <1>5, <1>6, <1>7, <1>8 DEF Next

\* No password comes back in every behaviour in which nobody else writes it while a
\* request holds the user entity it read: the counterexample of PasswordStaysChanged is
\* the only kind there is.
THEOREM SessionsPasswordStaysChanged == Spec /\ WritersTakeTurns => PasswordStaysChanged
  <1>1. Init => EntitiesAreCurrent
    BY DEF Init, EntitiesAreCurrent, HoldsEntity, Idle, Holding
  <1>2. IInv /\ EntitiesAreCurrent /\ [Next]_vars
           /\ [\A r \in Requests :
                 HoldsEntity(r) /\ password' # password => req'[r] # req[r]]_vars
        => EntitiesAreCurrent' /\ [password' >= password]_vars
    BY EntitiesStayCurrent
  <1> QED
    BY <1>1, <1>2, SessionsInvariant, PTL DEF Spec, WritersTakeTurns, PasswordStaysChanged

-----------------------------------------------------------------------------
(* Why sessions may survive a change of 2FA (TwoFactorChangeClosesSessions is         *)
(* violated): the change was a confirmEnable, or the process stopped before the       *)
(* rotation that follows a disable, and nothing else.                                 *)

EveryChangeRotates ==
    [][\A r \in Requests : ~ ConfirmEnable(r) /\ (req[r].at = "rotate" => ~ Stop(r))]_vars

\* The invariant behind: the sessions from before the change are dead, or somebody is
\* about to end them.
ChangeIsFollowed ==
    /\ changedAt <= nextSession
    /\ \/ \E r \in Requests : req[r].at = "rotate"
       \/ \A i \in SessionId : i < changedAt => sessions[i].version < version

LEMMA ChangeStaysFollowed ==
  ASSUME IInv, ChangeIsFollowed, [Next]_vars,
         [\A r \in Requests :
             ~ ConfirmEnable(r) /\ (req[r].at = "rotate" => ~ Stop(r))]_vars
  PROVE  ChangeIsFollowed'
  <1>1. /\ version \in Nat /\ nextSession \in Nat /\ changedAt \in Nat
        /\ req \in [Requests -> Request] /\ sessions \in [SessionId -> Session]
        /\ \A i \in SessionId : i \in Nat /\ sessions[i].version \in Nat
    BY SessionConstants DEF IInv, TypeOK, Version, Session, SessionId
  <1>2. ASSUME UNCHANGED <<version, sessions, nextSession, changedAt>>,
               \A r \in Requests : req[r].at = "rotate" => req'[r].at = "rotate"
        PROVE  ChangeIsFollowed'
    BY <1>2 DEF ChangeIsFollowed
  <1>3. ASSUME NEW r \in Requests,
               \/ Login(r) \/ VerifyTwoFactorLogin(r) \/ ReadVersion(r)
               \/ SaveLoad(r) \/ SaveWrite(r)
               \/ \E i \in SessionId : \/ Refresh(r, i)
                                       \/ UpdateProfile(r, i)
                                       \/ ChangePassword(r, i)
                                       \/ ConfirmEnableRead(r, i)
                                       \/ DisableRead(r, i)
                                       \/ ConfirmEmailChange(r, i)
        PROVE  ChangeIsFollowed'
    <2>1. /\ UNCHANGED <<version, sessions, nextSession, changedAt>>
          /\ req[r].at # "rotate"
          /\ \A q \in Requests \ {r} : req'[q] = req[q]
      BY <1>1, <1>3
      DEF Login, VerifyTwoFactorLogin, ReadVersion, SaveLoad, SaveWrite, Refresh,
          UpdateProfile, ChangePassword, ConfirmEnableRead, DisableRead,
          ConfirmEmailChange, user, histories
    <2> QED BY <1>2, <2>1
  <1>4. ASSUME NEW r \in Requests, Issue(r)
        PROVE  ChangeIsFollowed'
    <2>1. /\ UNCHANGED <<version, changedAt>> /\ nextSession' = nextSession + 1
          /\ req[r].at = "issue"
          /\ \A q \in Requests \ {r} : req'[q] = req[q]
          /\ \A i \in SessionId : i < changedAt => sessions'[i] = sessions[i]
      BY <1>1, <1>4 DEF Issue, user, histories, ChangeIsFollowed
    <2> QED BY <1>1, <2>1 DEF ChangeIsFollowed
  <1>5. ASSUME ResetPassword \/ \E r \in Requests : Rotate(r)
        PROVE  ChangeIsFollowed'
    <2>1. /\ version' = version + 1
          /\ UNCHANGED <<sessions, nextSession, changedAt>>
      BY <1>5 DEF ResetPassword, Rotate, Raised
    <2>2. \A i \in SessionId : i < changedAt => sessions[i].version <= version
      BY <1>1 DEF IInv, ChangeIsFollowed
    <2> QED BY <1>1, <2>1, <2>2 DEF ChangeIsFollowed
  <1>6. ASSUME NEW r \in Requests, Disable(r)
        PROVE  ChangeIsFollowed'
    <2>1. req[r] \in Request /\ req' = [req EXCEPT ![r].at = "rotate"]
      BY <1>1, <1>6 DEF Disable
    <2>2. req'[r].at = "rotate"
      BY <1>1, <2>1 DEF Request
    <2> QED BY <1>1, <1>6, <2>2 DEF Disable, ChangeIsFollowed
  <1>7. ASSUME NEW r \in Requests, Stop(r)
        PROVE  ChangeIsFollowed'
    <2>1. req'[r] # req[r]
      BY <1>1, <1>7 DEF Stop, Idle, Holding
    <2>2. req[r].at # "rotate"
      BY <1>7, <2>1 DEF vars
    <2> QED BY <1>1, <1>2, <1>7, <2>2 DEF Stop, user, histories
  <1>8. ASSUME NEW r \in Requests, ConfirmEnable(r)
        PROVE  ChangeIsFollowed'
    <2>1. req'[r] # req[r]
      BY <1>1, <1>8 DEF ConfirmEnable, Idle, Holding
    <2> QED BY <1>8, <2>1 DEF vars
  <1>9. CASE UNCHANGED vars
    BY <1>2, <1>9 DEF vars, user
  <1> QED
    BY <1>3, <1>4, <1>5, <1>6, <1>7, <1>8, <1>9 DEF Next

\* Sessions from before a change of 2FA are dead once every request has ended, in every
\* behaviour that turns 2FA off only and lets the rotation run: the missing rotation of
\* confirmEnable and a stop are the only ways to violate TwoFactorChangeClosesSessions.
THEOREM SessionsTwoFactorChangeClosesSessions ==
    Spec /\ EveryChangeRotates => []TwoFactorChangeClosesSessions
  <1>1. Init => ChangeIsFollowed
    BY SessionConstants DEF Init, ChangeIsFollowed, SessionId
  <1>2. IInv /\ ChangeIsFollowed => TwoFactorChangeClosesSessions
    BY SessionConstants
    DEF IInv, TypeOK, ChangeIsFollowed, TwoFactorChangeClosesSessions, Valid, SessionId,
        Session, Version
  <1> QED
    BY <1>1, <1>2, ChangeStaysFollowed, SessionsInvariant, PTL DEF Spec, EveryChangeRotates

-----------------------------------------------------------------------------
(***************************************************************************)
(* Transactions (Moves).                                                   *)
(***************************************************************************)
(***************************************************************************)
(* The inductive invariant.                                                *)
(***************************************************************************)
Edits(r) == moving[r].at \in {"accounts", "update"}

\* What a request holds, given the statement it does next.
MovesHoldingOK(a) ==
  /\ a.at = "insert" =>
        \A x \in a.ids : a.rows[x] \in Moves!Row /\ Moves!CategoryMatchesType(a.rows[x])
  /\ a.at \in {"accounts", "update"} =>
        \E x \in Ids :
           /\ a.ids = {x}
           /\ "type" \in a.fields => a.rows[x].type \in Moves!Types
           /\ "category" \in a.fields => a.rows[x].category \in Moves!Categories
  /\ a.at \in {"usage", "delete", "save", "attach"} => a.account \in Accounts

\* What an update read of row is still so: the columns it was given fit the others,
\* and the destination is the one it means to leave.
Fits(row, a, x) ==
  LET next == Moves!Overlay(row, a.fields, a.rows[x]) IN
  /\ a.fields \intersect {"type", "category"} # {} => Moves!CategoryMatchesType(next)
  /\ "toAccount" \notin a.fields =>
        a.rows[x].toAccount =
           IF next.type = "transferencia" THEN row.toAccount ELSE NoAccount

CopiesFit ==
  \A r \in Requests, x \in Ids :
     Moves!Editing(r, x) /\ r \notin stale => Fits(transactions[x], moving[r], x)

\* While an account is removed, a debt that is put on it is known to race.
RacesAreKnown ==
  \A r \in Requests :
     /\ moving[r].at = "attach" => accounts[moving[r].account] = "live" \/ moving[r].account \in raced
     /\ moving[r].at = "delete" /\ <<"debt", moving[r].account>> \in dependents =>
           moving[r].account \in raced

MovesIInv ==
  /\ Moves!TypeOK
  /\ \A r \in Requests : MovesHoldingOK(moving[r])
  /\ Moves!AccountsExist
  /\ Moves!DestinationsAreOfTransfers
  /\ Moves!TypesMatchCategories
  /\ Moves!DebtsHaveAccount
  /\ CopiesFit
  /\ Moves!RacedAccounts \subseteq raced
  /\ RacesAreKnown

(***************************************************************************)
(* The columns of an edited row.                                           *)
(***************************************************************************)
LEMMA OverlayColumns ==
  ASSUME NEW row, NEW fields, NEW given
  PROVE  LET next == Moves!Overlay(row, fields, given) IN
         /\ next.type = IF "type" \in fields THEN given.type ELSE row.type
         /\ next.category = IF "category" \in fields THEN given.category ELSE row.category
         /\ next.account = IF "account" \in fields THEN given.account ELSE row.account
         /\ next.toAccount = IF "toAccount" \in fields THEN given.toAccount ELSE row.toAccount
  BY DEF Moves!Overlay, Moves!Columns

\* A row is what its columns are, however it was put together.
LEMMA OverlayIsRow ==
  ASSUME NEW row \in Moves!Row, NEW fields, NEW given,
         "type" \in fields => given.type \in Moves!Types,
         "category" \in fields => given.category \in Moves!Categories,
         "account" \in fields => given.account \in Moves!Destination,
         "toAccount" \in fields => given.toAccount \in Moves!Destination
  PROVE  Moves!Overlay(row, fields, given) \in Moves!Row
  <1> DEFINE next == Moves!Overlay(row, fields, given)
  <1>1. /\ next.type \in Moves!Types /\ next.category \in Moves!Categories
        /\ next.account \in Moves!Destination /\ next.toAccount \in Moves!Destination
    BY OverlayColumns DEF Moves!Row
  <1>2. next = [c \in {"type", "category", "account", "toAccount"} |-> next[c]]
    BY DEF Moves!Overlay, Moves!Columns
  <1> HIDE DEF next
  <1>3. next \in Moves!Row
    BY <1>1, <1>2 DEF Moves!Row
  <1> QED BY <1>3 DEF next

(***************************************************************************)
(* What Observe keeps.                                                     *)
(***************************************************************************)
LEMMA HistoriesAreTyped ==
  ASSUME MovesIInv, Moves!Observe
  PROVE  stale' \subseteq Requests /\ raced' \subseteq Ids \union Accounts
  BY DEF MovesIInv, Moves!TypeOK, Moves!Observe, Moves!RacedWrites, Moves!RacedAccounts

\* A copy goes on fitting a row that did not change.
LEMMA CopiesStay ==
  ASSUME MovesIInv, Moves!Observe,
         \A s \in Requests : moving'[s].at \in {"accounts", "update"} =>
            \/ /\ Edits(s)
               /\ moving'[s].ids = moving[s].ids
               /\ moving'[s].fields = moving[s].fields
               /\ moving'[s].rows = moving[s].rows
            \/ /\ UNCHANGED transactions
               /\ \A x \in Ids : moving'[s].ids = {x} => Fits(transactions[x], moving'[s], x)
  PROVE  CopiesFit'
  <1> SUFFICES ASSUME NEW s \in Requests, NEW x \in Ids, Moves!Editing(s, x)', s \notin stale'
               PROVE  Fits(transactions[x], moving[s], x)'
    BY DEF CopiesFit
  <1>1. moving'[s].at \in {"accounts", "update"} /\ moving'[s].ids = {x}
    BY DEF Moves!Editing
  <1>2. CASE /\ Edits(s)
             /\ moving'[s].ids = moving[s].ids
             /\ moving'[s].fields = moving[s].fields
             /\ moving'[s].rows = moving[s].rows
    <2>1. Moves!Editing(s, x) /\ s \notin stale /\ ~ Moves!Changed(x)
      BY <1>1, <1>2 DEF Moves!Observe, Moves!Editing, Edits
    <2>2. Fits(transactions[x], moving[s], x)
      BY <2>1 DEF MovesIInv, CopiesFit
    <2>3. transactions'[x] = transactions[x]
      BY <2>1 DEF Moves!Changed
    <2> QED BY <1>2, <2>2, <2>3 DEF Fits
  <1>3. CASE UNCHANGED transactions /\ Fits(transactions[x], moving'[s], x)
    BY <1>3 DEF Fits
  <1> QED BY <1>1, <1>2, <1>3

\* A row that breaks the rule of categories was written by an outdated update.
LEMMA TypesStay ==
  ASSUME MovesIInv, Moves!Observe,
         \A x \in Ids : Moves!Exists(x)' => \/ ~ Moves!Changed(x)
                                      \/ Moves!CategoryMatchesType(transactions'[x])
                                      \/ x \in raced \union Moves!RacedWrites
  PROVE  Moves!TypesMatchCategories'
  <1> SUFFICES ASSUME NEW x \in Ids, Moves!Exists(x)', ~ Moves!CategoryMatchesType(transactions'[x])
               PROVE  x \in raced'
    BY DEF Moves!TypesMatchCategories, Moves!CategoryMatchesType
  <1>1. x \in raced \union Moves!RacedWrites
    BY DEF MovesIInv, Moves!TypesMatchCategories, Moves!Changed, Moves!Exists
  <1> QED BY <1>1 DEF Moves!Observe, Moves!Exists

\* Whoever puts a debt on an account and whoever removes it meet in raced.
LEMMA RacesStay ==
  ASSUME MovesIInv, Moves!Observe,
         \A a \in Accounts :
            \/ accounts'[a] \in {"live", accounts[a]}
            \/ \E r \in Requests : moving[r].at = "delete" /\ moving[r].account = a,
         \A s \in Requests : moving'[s].at = "attach" =>
            \/ moving'[s] = moving[s]
            \/ accounts'[moving'[s].account] = "live",
         \A s \in Requests : moving'[s].at = "delete" =>
            moving'[s] = moving[s] \/ <<"debt", moving'[s].account>> \notin dependents',
         \A a \in Accounts : <<"debt", a>> \in dependents' =>
            \/ <<"debt", a>> \in dependents
            \/ \E q \in Requests : moving[q].at = "attach" /\ moving[q].account = a,
         \A s \in Requests : MovesHoldingOK(moving'[s])
  PROVE  Moves!DebtsHaveAccount' /\ (Moves!RacedAccounts \subseteq raced)' /\ RacesAreKnown'
  <1>1. \A a \in Accounts : a \in raced /\ a \in Moves!Indebted' => a \in raced'
    BY DEF Moves!Observe
  <1>2. \A a \in Accounts : <<"debt", a>> \in dependents' => a \in Moves!Indebted'
    BY DEF Moves!Indebted
  <1>3. \A s \in Requests : moving'[s].at = "attach" =>
           moving'[s].account \in Accounts /\ moving'[s].account \in Moves!Indebted'
    BY DEF Moves!Indebted, MovesHoldingOK
  <1>4. \A r, q \in Requests :
           moving[r].at = "delete" /\ moving[q].at = "attach" /\ moving[q].account = moving[r].account
              => moving[r].account \in raced
    BY DEF MovesIInv, Moves!RacedAccounts, MovesHoldingOK
  <1>5. (Moves!RacedAccounts \subseteq raced)'
    <2> SUFFICES ASSUME NEW a \in Moves!RacedAccounts' PROVE a \in raced'
      OBVIOUS
    <2>1. a \in Accounts /\ a \in Moves!Indebted'
      BY DEF Moves!RacedAccounts, Moves!Indebted
    <2> QED BY <2>1 DEF Moves!Observe
  <1>6. Moves!DebtsHaveAccount'
    <2> SUFFICES ASSUME NEW a \in Accounts, <<"debt", a>> \in dependents',
                        accounts'[a] # "live"
                 PROVE  a \in raced'
      BY DEF Moves!DebtsHaveAccount
    <2>1. CASE <<"debt", a>> \in dependents
      BY <1>1, <1>2, <2>1 DEF MovesIInv, Moves!DebtsHaveAccount, RacesAreKnown
    <2>2. CASE \E q \in Requests : moving[q].at = "attach" /\ moving[q].account = a
      BY <1>1, <1>2, <1>4, <2>2 DEF MovesIInv, RacesAreKnown
    <2> QED BY <2>1, <2>2
  <1>7. RacesAreKnown'
    <2> SUFFICES ASSUME NEW s \in Requests
                 PROVE  /\ moving'[s].at = "attach" =>
                             \/ accounts'[moving'[s].account] = "live"
                             \/ moving'[s].account \in raced'
                        /\ moving'[s].at = "delete" /\ <<"debt", moving'[s].account>> \in dependents' =>
                             moving'[s].account \in raced'
      BY DEF RacesAreKnown
    <2>1. ASSUME moving'[s].at = "attach", accounts'[moving'[s].account] # "live"
          PROVE  moving'[s].account \in raced'
      <3> DEFINE a == moving'[s].account
      <3>1. moving[s].at = "attach" /\ a = moving[s].account /\ a \in Accounts /\ a \in Moves!Indebted'
        BY <1>3, <2>1
      <3>2. accounts[a] = "live" \/ a \in raced
        BY <3>1 DEF MovesIInv, RacesAreKnown
      <3>3. accounts[a] = "live" => \E r \in Requests : moving[r].at = "delete" /\ moving[r].account = a
        BY <2>1, <3>1
      <3> HIDE DEF a
      <3>4. a \in raced
        BY <1>4, <3>1, <3>2, <3>3
      <3>5. a \in raced'
        BY <1>1, <3>1, <3>4
      <3> QED BY <3>5 DEF a
    <2>2. ASSUME moving'[s].at = "delete", <<"debt", moving'[s].account>> \in dependents'
          PROVE  moving'[s].account \in raced'
      <3>1. moving[s].at = "delete" /\ moving'[s].account = moving[s].account
            /\ moving[s].account \in Accounts
        BY <2>2 DEF MovesHoldingOK
      <3> QED BY <1>1, <1>2, <1>4, <2>2, <3>1 DEF MovesIInv, RacesAreKnown
    <2> QED BY <2>1, <2>2
  <1> QED BY <1>5, <1>6, <1>7

(***************************************************************************)
(* Steps.                                                                  *)
(***************************************************************************)
LEMMA IdleHolds == Moves!Idle \in Moves!Holding /\ MovesHoldingOK(Moves!Idle) /\ Moves!Idle.at = "idle"
  BY DEF Moves!Idle, Moves!Holding, MovesHoldingOK, Moves!Held, Moves!NoRow, Moves!Destination

LEMMA MovesInitIInv == Moves!Init => MovesIInv
  <1> SUFFICES ASSUME NEW rows \in [Ids -> {Moves!NoRow, Moves!OldRow}], Moves!InitWith(rows)
                        PROVE MovesIInv
    BY DEF Moves!Init
  <1>1. Moves!OldRow \in Moves!Row /\ Moves!OldRow # Moves!NoRow
        /\ Moves!CategoryMatchesType(Moves!OldRow)
        /\ Moves!OldRow.toAccount = NoAccount /\ Moves!NoRow.toAccount = NoAccount
        /\ Moves!AccountIds(Moves!OldRow) = {} /\ Moves!AccountIds(Moves!NoRow) = {}
    BY DEF Moves!OldRow, Moves!NoRow, Moves!Row, Moves!Types, Moves!Categories, Moves!Destination,
       Moves!CategoryMatchesType, Moves!AccountIds
  <1>2. \A r \in Requests : moving[r] = Moves!Idle
    BY DEF Moves!InitWith
  <1>3. Moves!TypeOK
    BY <1>1, IdleHolds DEF Moves!InitWith, Moves!TypeOK
  <1>4. Moves!AccountsExist
    BY <1>1 DEF Moves!InitWith, Moves!AccountsExist, Moves!UserAccounts
  <1>5. Moves!DestinationsAreOfTransfers
    BY <1>1 DEF Moves!InitWith, Moves!DestinationsAreOfTransfers, Moves!TransferAccounts
  <1>6. Moves!TypesMatchCategories
    BY <1>1 DEF Moves!InitWith, Moves!TypesMatchCategories, Moves!Exists
  <1>7. Moves!DebtsHaveAccount
    BY DEF Moves!InitWith, Moves!DebtsHaveAccount
  <1>8. CopiesFit /\ Moves!RacedAccounts \subseteq raced /\ RacesAreKnown
    BY <1>2, IdleHolds DEF CopiesFit, Moves!Editing, Moves!RacedAccounts, RacesAreKnown
  <1> QED BY <1>2, <1>3, <1>4, <1>5, <1>6, <1>7, <1>8, IdleHolds DEF MovesIInv

\* A request goes on, and writes nothing.
LEMMA MovesRequestStep ==
  ASSUME MovesIInv, Moves!Observe, UNCHANGED Moves!tables,
         NEW r \in Requests, NEW h \in Moves!Holding, MovesHoldingOK(h),
         moving' = [moving EXCEPT ![r] = h],
         h.at \in {"accounts", "update"} =>
            \/ /\ Edits(r)
               /\ h.ids = moving[r].ids /\ h.fields = moving[r].fields /\ h.rows = moving[r].rows
            \/ \A x \in Ids : h.ids = {x} => Fits(transactions[x], h, x),
         h.at = "attach" => accounts[h.account] = "live",
         h.at = "delete" => <<"debt", h.account>> \notin dependents
  PROVE  MovesIInv'
  <1>1. /\ transactions' = transactions
        /\ accounts' = accounts
        /\ dependents' = dependents
    BY DEF Moves!tables
  <1>2. \A s \in Requests : moving'[s] = IF s = r THEN h ELSE moving[s]
    BY DEF MovesIInv, Moves!TypeOK
  <1>3. Moves!TypeOK'
    BY <1>1, HistoriesAreTyped DEF MovesIInv, Moves!TypeOK
  <1>4. \A s \in Requests : MovesHoldingOK(moving'[s])
    BY <1>2 DEF MovesIInv
  <1>5. Moves!AccountsExist' /\ Moves!DestinationsAreOfTransfers'
    BY <1>1 DEF MovesIInv, Moves!AccountsExist, Moves!DestinationsAreOfTransfers, Moves!UserAccounts
  <1>6. Moves!TypesMatchCategories'
    BY <1>1, TypesStay DEF Moves!Changed
  <1>7. CopiesFit'
    <2>1. ASSUME NEW s \in Requests, moving'[s].at \in {"accounts", "update"}
          PROVE  \/ /\ Edits(s)
                    /\ moving'[s].ids = moving[s].ids
                    /\ moving'[s].fields = moving[s].fields
                    /\ moving'[s].rows = moving[s].rows
                 \/ /\ UNCHANGED transactions
                    /\ \A x \in Ids : moving'[s].ids = {x} => Fits(transactions[x], moving'[s], x)
      <3>1. CASE s = r
        BY <1>1, <1>2, <2>1, <3>1
      <3>2. CASE s # r
        BY <1>2, <2>1, <3>2 DEF Edits
      <3> QED BY <3>1, <3>2
    <2> QED BY <2>1, CopiesStay
  <1>8. Moves!DebtsHaveAccount' /\ (Moves!RacedAccounts \subseteq raced)' /\ RacesAreKnown'
    <2>1. \A s \in Requests : moving'[s].at = "attach" =>
             moving'[s] = moving[s] \/ accounts'[moving'[s].account] = "live"
      BY <1>1, <1>2
    <2>2. \A s \in Requests : moving'[s].at = "delete" =>
             moving'[s] = moving[s] \/ <<"debt", moving'[s].account>> \notin dependents'
      BY <1>1, <1>2
    <2> QED BY <1>1, <1>4, <2>1, <2>2, RacesStay
  <1> QED BY <1>3, <1>4, <1>5, <1>6, <1>7, <1>8 DEF MovesIInv

\* A request ends, or none goes on: the tables may change.
LEMMA WritingStep ==
  ASSUME MovesIInv, Moves!Observe,
         \/ UNCHANGED moving
         \/ \E r \in Requests : moving' = [moving EXCEPT ![r] = Moves!Idle],
         transactions' \in [Ids -> Moves!Row \union {Moves!NoRow}],
         accounts' \in [Accounts -> {"none", "live", "removed"}],
         dependents' \subseteq {"debt", "template"} \X Accounts,
         Moves!AccountsExist',
         Moves!DestinationsAreOfTransfers',
         \A x \in Ids : Moves!Exists(x)' => \/ ~ Moves!Changed(x)
                                      \/ Moves!CategoryMatchesType(transactions'[x])
                                      \/ x \in raced \union Moves!RacedWrites,
         \A a \in Accounts :
            \/ accounts'[a] \in {"live", accounts[a]}
            \/ \E r \in Requests : moving[r].at = "delete" /\ moving[r].account = a,
         \A a \in Accounts : <<"debt", a>> \in dependents' =>
            \/ <<"debt", a>> \in dependents
            \/ \E q \in Requests : moving[q].at = "attach" /\ moving[q].account = a
  PROVE  MovesIInv'
  <1>1. \A s \in Requests : moving'[s] \in {moving[s], Moves!Idle}
    BY DEF MovesIInv, Moves!TypeOK
  <1>2. moving' \in [Requests -> Moves!Holding]
    BY IdleHolds DEF MovesIInv, Moves!TypeOK
  <1>3. \A s \in Requests : MovesHoldingOK(moving'[s])
    BY <1>1, IdleHolds DEF MovesIInv
  <1>4. Moves!TypeOK'
    BY <1>2, HistoriesAreTyped DEF Moves!TypeOK
  <1>5. Moves!TypesMatchCategories'
    BY TypesStay
  <1>6. CopiesFit'
    <2>1. \A s \in Requests : moving'[s].at \in {"accounts", "update"}
            => moving'[s] = moving[s] /\ Edits(s)
      BY <1>1, IdleHolds DEF Edits
    <2> QED BY <2>1, CopiesStay
  <1>7. \A s \in Requests : moving'[s].at \in {"attach", "delete"} => moving'[s] = moving[s]
    BY <1>1, IdleHolds
  <1>8. Moves!DebtsHaveAccount' /\ (Moves!RacedAccounts \subseteq raced)' /\ RacesAreKnown'
    BY <1>3, <1>7, RacesStay
  <1> QED BY <1>3, <1>4, <1>5, <1>6, <1>8 DEF MovesIInv

(***************************************************************************)
(* TransactionsService.                                                    *)
(***************************************************************************)
LEMMA CheckRowsKeeps ==
  ASSUME MovesIInv, Moves!Observe, NEW r \in Requests, Moves!CheckRows(r)
  PROVE  MovesIInv'
  <1>0. PICK ids \in SUBSET Ids : \E rows \in [ids -> {row \in Moves!Row : row.account # NoAccount}] :
           /\ \A x \in ids : Moves!CategoryMatchesType(rows[x]) /\ Moves!TransferAccounts(rows[x])
           /\ moving' = [moving EXCEPT ![r] =
                [Moves!Idle EXCEPT !.at = "insert", !.ids = ids,
                             !.rows = [x \in Ids |-> IF x \in ids THEN rows[x] ELSE Moves!NoRow]]]
    BY DEF Moves!CheckRows
  <1>1. PICK rows \in [ids -> {row \in Moves!Row : row.account # NoAccount}] :
           /\ \A x \in ids : Moves!CategoryMatchesType(rows[x]) /\ Moves!TransferAccounts(rows[x])
           /\ moving' = [moving EXCEPT ![r] =
                [Moves!Idle EXCEPT !.at = "insert", !.ids = ids,
                             !.rows = [x \in Ids |-> IF x \in ids THEN rows[x] ELSE Moves!NoRow]]]
    BY <1>0
  <1> DEFINE held == [x \in Ids |-> IF x \in ids THEN rows[x] ELSE Moves!NoRow]
             h == [Moves!Idle EXCEPT !.at = "insert", !.ids = ids, !.rows = held]
  <1>2. \A x \in ids : rows[x] \in Moves!Row /\ x \in Ids
    BY <1>1
  <1>3. Moves!Row \subseteq Moves!Held /\ Moves!NoRow \in Moves!Held
    BY DEF Moves!Row, Moves!Held, Moves!NoRow, Moves!Destination
  <1>4. held \in [Ids -> Moves!Held] /\ \A x \in ids : held[x] = rows[x]
    BY <1>2, <1>3
  <1>5. moving' = [moving EXCEPT ![r] = h]
    BY <1>1
  <1> HIDE DEF held
  <1>6. h \in Moves!Holding /\ h.at = "insert" /\ h.ids = ids /\ h.rows = held
    BY <1>4, IdleHolds DEF Moves!Idle, Moves!Holding
  <1> HIDE DEF h
  <1>7. MovesHoldingOK(h)
    BY <1>1, <1>2, <1>4, <1>6 DEF MovesHoldingOK
  <1> QED BY <1>5, <1>6, <1>7, MovesRequestStep DEF Moves!CheckRows

LEMMA InsertRowsKeeps ==
  ASSUME MovesIInv, Moves!Observe, NEW r \in Requests, Moves!InsertRows(r)
  PROVE  MovesIInv'
  <1> DEFINE a == moving[r]
  <1>1. \A x \in a.ids : a.rows[x] \in Moves!Row /\ Moves!CategoryMatchesType(a.rows[x])
    BY DEF MovesIInv, MovesHoldingOK, Moves!InsertRows
  <1>2. UNCHANGED <<accounts, dependents>> /\ moving' = [moving EXCEPT ![r] = Moves!Idle]
    BY DEF Moves!InsertRows
  <1>3. CASE UNCHANGED transactions
    BY <1>2, <1>3, WritingStep
       DEF MovesIInv, Moves!TypeOK, Moves!AccountsExist, Moves!UserAccounts,
       Moves!DestinationsAreOfTransfers, Moves!Changed
  <1>4. CASE ~ UNCHANGED transactions
    <2>1. /\ transactions' = [x \in Ids |-> IF x \in a.ids THEN a.rows[x] ELSE transactions[x]]
          /\ \A x \in a.ids : Moves!AccountKeys(a.rows[x]) /\ Moves!ToAccountCheck(a.rows[x])
      BY <1>4 DEF Moves!InsertRows
    <2> HIDE DEF a
    <2>2. \A x \in Ids : transactions'[x] = IF x \in a.ids THEN a.rows[x] ELSE transactions[x]
      BY <2>1
    <2>3. transactions' \in [Ids -> Moves!Row \union {Moves!NoRow}]
      BY <1>1, <2>1 DEF MovesIInv, Moves!TypeOK
    <2>4. Moves!AccountsExist'
      BY <1>2, <2>1, <2>2 DEF MovesIInv, Moves!AccountsExist, Moves!UserAccounts, Moves!AccountKeys
    <2>5. Moves!DestinationsAreOfTransfers'
      BY <2>1, <2>2
         DEF MovesIInv, Moves!DestinationsAreOfTransfers, Moves!ToAccountCheck, Moves!TransferAccounts
    <2>6. \A x \in Ids : ~ Moves!Changed(x) \/ Moves!CategoryMatchesType(transactions'[x])
      BY <1>1, <2>2 DEF Moves!Changed
    <2> QED BY <1>2, <2>3, <2>4, <2>5, <2>6, WritingStep DEF MovesIInv, Moves!TypeOK
  <1> QED BY <1>3, <1>4

\* What update leaves for its UPDATE fits the row it was read from.
LEMMA KeptFits ==
  ASSUME NEW current, NEW fields \in SUBSET Moves!Columns, NEW given \in Moves!Row,
         NEW a, NEW x, a.fields = fields,
         Moves!EditAccepted(current, fields, given),
         NEW asks, a.rows[x] = Moves!Kept(Moves!Edited(current, fields, given), fields, asks)
  PROVE  Fits(current, a, x)
  <1> DEFINE over == Moves!Overlay(current, fields, given)
             edited == Moves!Edited(current, fields, given)
             next == Moves!Overlay(current, fields, a.rows[x])
  <1>1. /\ edited.type = over.type
        /\ edited.category = over.category
        /\ edited.toAccount = IF over.type = "transferencia" THEN over.toAccount ELSE NoAccount
    BY DEF Moves!Edited, Moves!Overlay, Moves!Columns
  <1>2. /\ "type" \in fields => a.rows[x].type = edited.type
        /\ "category" \in fields => a.rows[x].category = edited.category
        /\ a.rows[x].toAccount = edited.toAccount
    BY DEF Moves!Kept
  <1>3. next.type = edited.type /\ next.category = edited.category
    BY <1>1, <1>2, OverlayColumns
  <1>4. (fields \intersect {"type", "category"} # {}) => Moves!CategoryMatchesType(edited)
    BY DEF Moves!EditAccepted
  <1>5. "toAccount" \notin fields => over.toAccount = current.toAccount
    BY OverlayColumns
  <1> HIDE DEF edited, next, over
  <1>6. (fields \intersect {"type", "category"} # {}) => Moves!CategoryMatchesType(next)
    BY <1>3, <1>4 DEF Moves!CategoryMatchesType
  <1>7. "toAccount" \notin fields =>
           a.rows[x].toAccount = IF next.type = "transferencia" THEN current.toAccount ELSE NoAccount
    BY <1>1, <1>2, <1>3, <1>5
  <1> QED BY <1>6, <1>7 DEF Fits, next

LEMMA KeptIsHeld ==
  ASSUME NEW current \in Moves!Row, NEW fields \in SUBSET Moves!Columns, NEW given \in Moves!Row,
         NEW asks
  PROVE  LET kept == Moves!Kept(Moves!Edited(current, fields, given), fields, asks) IN
         /\ kept \in Moves!Held
         /\ "type" \in fields => kept.type \in Moves!Types
         /\ "category" \in fields => kept.category \in Moves!Categories
  <1> DEFINE over == Moves!Overlay(current, fields, given)
             edited == Moves!Edited(current, fields, given)
  <1>1. over \in Moves!Row
    BY OverlayIsRow DEF Moves!Row
  <1>2. /\ edited.type \in Moves!Types /\ edited.category \in Moves!Categories
        /\ edited.account \in Moves!Destination /\ edited.toAccount \in Moves!Destination
    <2> HIDE DEF over
    <2>1. edited = [over EXCEPT !.toAccount =
                       IF over.type = "transferencia" THEN @ ELSE NoAccount]
      BY DEF Moves!Edited, over
    <2> QED BY <1>1, <2>1 DEF Moves!Row, Moves!Destination
  <1> HIDE DEF edited
  <1> QED BY <1>2 DEF Moves!Kept, Moves!Held, Moves!Destination, edited

LEMMA ReadForUpdateKeeps ==
  ASSUME MovesIInv, Moves!Observe, NEW r \in Requests, NEW x \in Ids, Moves!ReadForUpdate(r, x)
  PROVE  MovesIInv'
  <1>1. PICK fields \in SUBSET Moves!Columns, given \in Moves!Row :
           /\ Moves!EditAccepted(transactions[x], fields, given)
           /\ moving' = [moving EXCEPT ![r] =
               [Moves!Idle EXCEPT
                  !.ids = {x}, !.fields = fields,
                  !.rows[x] = Moves!Kept(Moves!Edited(transactions[x], fields, given), fields,
                                   Moves!AsksForAccounts(fields, given)),
                  !.at = IF Moves!AsksForAccounts(fields, given) THEN "accounts" ELSE "update"]]
    BY DEF Moves!ReadForUpdate
  <1> DEFINE asks == Moves!AsksForAccounts(fields, given)
             kept == Moves!Kept(Moves!Edited(transactions[x], fields, given), fields, asks)
             h == [Moves!Idle EXCEPT !.ids = {x}, !.fields = fields, !.rows[x] = kept,
                               !.at = IF asks THEN "accounts" ELSE "update"]
  <1>2. moving' = [moving EXCEPT ![r] = h]
    BY <1>1
  <1>3. transactions[x] \in Moves!Row
    BY DEF MovesIInv, Moves!TypeOK, Moves!ReadForUpdate, Moves!Exists
  <1>4. /\ kept \in Moves!Held
        /\ "type" \in fields => kept.type \in Moves!Types
        /\ "category" \in fields => kept.category \in Moves!Categories
    BY <1>3, KeptIsHeld
  <1>5. /\ h.at \in {"accounts", "update"} /\ h.ids = {x} /\ h.fields = fields
        /\ h \in Moves!Holding /\ h.rows[x] = kept
    <2> HIDE DEF kept, asks
    <2>1. h \in Moves!Holding
      BY <1>4, IdleHolds DEF Moves!Idle, Moves!Holding
    <2> QED BY <2>1 DEF Moves!Idle
  <1> HIDE DEF h
  <1>6. MovesHoldingOK(h)
    BY <1>4, <1>5 DEF MovesHoldingOK
  <1>7. Fits(transactions[x], h, x)
    BY <1>1, <1>5, KeptFits
  <1>8. \A y \in Ids : h.ids = {y} => Fits(transactions[y], h, y)
    BY <1>5, <1>7
  <1> QED BY <1>2, <1>5, <1>6, <1>8, MovesRequestStep DEF Moves!ReadForUpdate

LEMMA CheckAccountsKeeps ==
  ASSUME MovesIInv, Moves!Observe, NEW r \in Requests, Moves!CheckAccounts(r)
  PROVE  MovesIInv'
  <1> DEFINE a == moving[r]
             h == [a EXCEPT !.at = "update"]
  <1>1. a \in Moves!Holding /\ a.at = "accounts" /\ MovesHoldingOK(a)
    BY DEF MovesIInv, Moves!TypeOK, Moves!CheckAccounts
  <1>2. CASE moving' = [moving EXCEPT ![r] = h]
    <2> HIDE DEF a
    <2>1. /\ h \in Moves!Holding /\ h.at = "update"
          /\ h.ids = a.ids /\ h.rows = a.rows /\ h.fields = a.fields
      BY <1>1 DEF Moves!Holding
    <2> HIDE DEF h
    <2>2. MovesHoldingOK(h)
      BY <1>1, <2>1 DEF MovesHoldingOK
    <2>3. Edits(r)
      BY <1>1 DEF Edits, a
    <2> QED BY <1>2, <2>1, <2>2, <2>3, MovesRequestStep DEF Moves!CheckAccounts, a
  <1>3. CASE moving' = [moving EXCEPT ![r] = Moves!Idle]
    BY <1>3, IdleHolds, MovesRequestStep DEF Moves!CheckAccounts
  <1> QED BY <1>2, <1>3 DEF Moves!CheckAccounts

\* The row an UPDATE writes.
LEMMA UpdateWrites ==
  ASSUME MovesIInv, NEW r \in Requests, NEW x \in Ids, Moves!UpdateRow(r, x), Moves!Exists(x)
  PROVE  LET row == Moves!Written(transactions[x], moving[r].fields, moving[r].rows[x]) IN
         /\ row \in Moves!Row
         /\ r \notin stale => Moves!CategoryMatchesType(row) \/ x \in raced
  <1> DEFINE a == moving[r]
             next == Moves!Overlay(transactions[x], a.fields, a.rows[x])
             row == Moves!Written(transactions[x], a.fields, a.rows[x])
  <1>1. transactions[x] \in Moves!Row /\ a \in Moves!Holding
    BY DEF MovesIInv, Moves!TypeOK, Moves!Exists
  <1>2. /\ "type" \in a.fields => a.rows[x].type \in Moves!Types
        /\ "category" \in a.fields => a.rows[x].category \in Moves!Categories
    BY DEF MovesIInv, MovesHoldingOK, Moves!UpdateRow
  <1>3. a.rows[x].account \in Moves!Destination /\ a.rows[x].toAccount \in Moves!Destination
    BY <1>1 DEF Moves!Holding, Moves!Held
  <1>4. row \in Moves!Row
    BY <1>1, <1>2, <1>3, OverlayIsRow DEF Moves!Written
  <1>5. row.type = next.type /\ row.category = next.category
    BY OverlayColumns DEF Moves!Written
  <1>6. ASSUME r \notin stale PROVE Moves!CategoryMatchesType(row) \/ x \in raced
    <2>1. Fits(transactions[x], a, x)
      BY <1>6 DEF MovesIInv, CopiesFit, Moves!UpdateRow, Moves!Editing
    <2>2. CASE a.fields \intersect {"type", "category"} # {}
      <3>1. Moves!CategoryMatchesType(next)
        BY <2>1, <2>2 DEF Fits
      <3> QED BY <1>5, <3>1 DEF Moves!CategoryMatchesType
    <2>3. CASE a.fields \intersect {"type", "category"} = {}
      <3>1. next.type = transactions[x].type /\ next.category = transactions[x].category
        BY <2>3, OverlayColumns
      <3>2. Moves!CategoryMatchesType(transactions[x]) \/ x \in raced
        BY DEF MovesIInv, Moves!TypesMatchCategories
      <3> QED BY <1>5, <3>1, <3>2 DEF Moves!CategoryMatchesType
    <2> QED BY <2>2, <2>3
  <1> QED BY <1>4, <1>6

LEMMA UpdateRowKeeps ==
  ASSUME MovesIInv, Moves!Observe, NEW r \in Requests, NEW x \in Ids, Moves!UpdateRow(r, x)
  PROVE  MovesIInv'
  <1> DEFINE row == Moves!Written(transactions[x], moving[r].fields, moving[r].rows[x])
  <1>1. UNCHANGED <<accounts, dependents>> /\ moving' = [moving EXCEPT ![r] = Moves!Idle]
    BY DEF Moves!UpdateRow
  <1>2. CASE UNCHANGED transactions
    <2>1. Moves!AccountsExist' /\ Moves!DestinationsAreOfTransfers'
      BY <1>1, <1>2
         DEF MovesIInv, Moves!AccountsExist, Moves!UserAccounts, Moves!DestinationsAreOfTransfers
    <2>2. \A y \in Ids : ~ Moves!Changed(y)
      BY <1>2 DEF Moves!Changed
    <2>3. /\ transactions' \in [Ids -> Moves!Row \union {Moves!NoRow}]
          /\ accounts' \in [Accounts -> {"none", "live", "removed"}]
          /\ dependents' \subseteq {"debt", "template"} \X Accounts
      BY <1>1, <1>2 DEF MovesIInv, Moves!TypeOK
    <2> HIDE DEF row
    <2> QED BY <1>1, <2>1, <2>2, <2>3, WritingStep
  <1>3. CASE ~ UNCHANGED transactions
    <2>1. /\ transactions' = [transactions EXCEPT ![x] = row]
          /\ Moves!Exists(x) /\ Moves!AccountKeys(row) /\ Moves!ToAccountCheck(row)
      BY <1>3 DEF Moves!UpdateRow
    <2>2. row \in Moves!Row /\ (r \notin stale => Moves!CategoryMatchesType(row) \/ x \in raced)
      BY <2>1, UpdateWrites
    <2> HIDE DEF row
    <2>3. \A y \in Ids : transactions'[y] = IF y = x THEN row ELSE transactions[y]
      BY <2>1 DEF MovesIInv, Moves!TypeOK
    <2>4. transactions' \in [Ids -> Moves!Row \union {Moves!NoRow}]
      BY <2>1, <2>2 DEF MovesIInv, Moves!TypeOK
    <2>5. Moves!AccountsExist'
      BY <1>1, <2>1, <2>3 DEF MovesIInv, Moves!AccountsExist, Moves!UserAccounts, Moves!AccountKeys
    <2>6. Moves!DestinationsAreOfTransfers'
      BY <2>1, <2>3
         DEF MovesIInv, Moves!DestinationsAreOfTransfers, Moves!ToAccountCheck, Moves!TransferAccounts
    <2>7. r \in stale => x \in Moves!RacedWrites
      <3>1. moving'[r].at = "idle"
        BY <1>1, IdleHolds DEF MovesIInv, Moves!TypeOK
      <3> QED BY <3>1 DEF Moves!RacedWrites, Moves!Editing, Moves!UpdateRow
    <2>8. Moves!CategoryMatchesType(row) \/ x \in raced \/ x \in Moves!RacedWrites
      BY <2>2, <2>7
    <2> QED BY <1>1, <2>3, <2>4, <2>5, <2>6, <2>8, WritingStep
               DEF MovesIInv, Moves!TypeOK, Moves!Changed
  <1> QED BY <1>2, <1>3

LEMMA RemoveTransactionKeeps ==
  ASSUME MovesIInv, Moves!Observe, NEW x \in Ids, Moves!RemoveTransaction(x)
  PROVE  MovesIInv'
  <1>1. /\ transactions' = [transactions EXCEPT ![x] = Moves!NoRow]
        /\ UNCHANGED <<accounts, dependents, moving>>
    BY DEF Moves!RemoveTransaction
  <1>2. \A y \in Ids : transactions'[y] = IF y = x THEN Moves!NoRow ELSE transactions[y]
    BY <1>1 DEF MovesIInv, Moves!TypeOK
  <1>3. Moves!AccountIds(Moves!NoRow) = {} /\ Moves!NoRow.toAccount = NoAccount
    BY DEF Moves!AccountIds, Moves!NoRow
  <1>4. transactions' \in [Ids -> Moves!Row \union {Moves!NoRow}]
    BY <1>1 DEF MovesIInv, Moves!TypeOK
  <1>5. Moves!AccountsExist'
    BY <1>1, <1>2, <1>3 DEF MovesIInv, Moves!AccountsExist, Moves!UserAccounts
  <1>6. Moves!DestinationsAreOfTransfers'
    BY <1>2, <1>3 DEF MovesIInv, Moves!DestinationsAreOfTransfers, Moves!TransferAccounts
  <1>7. \A y \in Ids : Moves!Exists(y)' => ~ Moves!Changed(y)
    BY <1>2 DEF Moves!Exists, Moves!Changed
  <1> QED BY <1>1, <1>4, <1>5, <1>6, <1>7, WritingStep DEF MovesIInv, Moves!TypeOK

(***************************************************************************)
(* AccountsService.                                                        *)
(***************************************************************************)
LEMMA CreateAccountKeeps ==
  ASSUME MovesIInv, Moves!Observe, NEW a \in Accounts, Moves!CreateAccount(a)
  PROVE  MovesIInv'
  <1>1. accounts' = [accounts EXCEPT ![a] = "live"] /\ UNCHANGED <<transactions, dependents, moving>>
    BY DEF Moves!CreateAccount
  <1>2. \A b \in Accounts : accounts'[b] \in {"live", accounts[b]}
    BY <1>1 DEF MovesIInv, Moves!TypeOK
  <1>3. Moves!AccountsExist'
    BY <1>1, <1>2
       DEF MovesIInv, Moves!TypeOK, Moves!AccountsExist, Moves!UserAccounts, Moves!AccountIds,
       Moves!Row, Moves!NoRow, Moves!Destination
  <1> QED BY <1>1, <1>2, <1>3, WritingStep
          DEF MovesIInv, Moves!TypeOK, Moves!DestinationsAreOfTransfers, Moves!Changed

LEMMA SaveAccountKeeps ==
  ASSUME MovesIInv, Moves!Observe, NEW r \in Requests, Moves!SaveAccount(r)
  PROVE  MovesIInv'
  <1>1. /\ accounts' = [accounts EXCEPT ![moving[r].account] = "live"]
        /\ UNCHANGED <<transactions, dependents>>
        /\ moving' = [moving EXCEPT ![r] = Moves!Idle]
    BY DEF Moves!SaveAccount
  <1>2. \A b \in Accounts : accounts'[b] \in {"live", accounts[b]}
    BY <1>1 DEF MovesIInv, Moves!TypeOK
  <1>3. Moves!AccountsExist'
    BY <1>1, <1>2
       DEF MovesIInv, Moves!TypeOK, Moves!AccountsExist, Moves!UserAccounts, Moves!AccountIds,
       Moves!Row, Moves!NoRow, Moves!Destination
  <1> QED BY <1>1, <1>2, <1>3, WritingStep
          DEF MovesIInv, Moves!TypeOK, Moves!DestinationsAreOfTransfers, Moves!Changed

\* Reading an account for an update, a removal, a debt or a recurring payment.
LEMMA AccountReadKeeps ==
  ASSUME MovesIInv, Moves!Observe, NEW r \in Requests, NEW a \in Accounts,
         \/ Moves!ReadAccount(r, a)
         \/ Moves!FindAccount(r, a)
         \/ \E kind \in {"debt", "template"} : Moves!CheckOwned(r, kind, a)
  PROVE  MovesIInv'
  <1>1. PICK h \in Moves!Holding :
           /\ h.at \in {"save", "usage", "attach"} /\ h.account = a
           /\ moving' = [moving EXCEPT ![r] = h]
    <2>1. CASE Moves!ReadAccount(r, a) \/ Moves!FindAccount(r, a)
      <3> DEFINE g(at) == [Moves!Idle EXCEPT !.at = at, !.account = a]
      <3>1. \A at \in {"save", "usage"} : g(at) \in Moves!Holding /\ g(at).at = at /\ g(at).account = a
        BY IdleHolds DEF Moves!Idle, Moves!Holding, Moves!Destination
      <3> QED BY <2>1, <3>1 DEF Moves!ReadAccount, Moves!FindAccount
    <2>2. CASE \E kind \in {"debt", "template"} : Moves!CheckOwned(r, kind, a)
      <3>1. PICK kind \in {"debt", "template"} :
               moving' = [moving EXCEPT ![r]
                 = [Moves!Idle EXCEPT !.at = "attach", !.account = a, !.kind = kind]]
        BY <2>2 DEF Moves!CheckOwned
      <3> DEFINE g == [Moves!Idle EXCEPT !.at = "attach", !.account = a, !.kind = kind]
      <3>2. g \in Moves!Holding /\ g.at = "attach" /\ g.account = a
        BY IdleHolds DEF Moves!Idle, Moves!Holding, Moves!Destination
      <3> QED BY <3>1, <3>2
    <2> QED BY <2>1, <2>2
  <1>3. MovesHoldingOK(h)
    BY <1>1 DEF MovesHoldingOK
  <1>4. accounts[a] = "live" /\ UNCHANGED Moves!tables
    BY DEF Moves!ReadAccount, Moves!FindAccount, Moves!CheckOwned
  <1> QED BY <1>1, <1>3, <1>4, MovesRequestStep

LEMMA CountUsageKeeps ==
  ASSUME MovesIInv, Moves!Observe, NEW r \in Requests, Moves!CountUsage(r)
  PROVE  MovesIInv'
  <1> DEFINE h == [moving[r] EXCEPT !.at = "delete"]
  <1>1. UNCHANGED Moves!tables
    BY DEF Moves!CountUsage
  <1>2. CASE moving' = [moving EXCEPT ![r] = Moves!Idle]
    BY <1>1, <1>2, IdleHolds, MovesRequestStep
  <1>3. CASE moving' = [moving EXCEPT ![r] = h] /\ ~ Moves!InUse(moving[r].account)
    <2>1. moving[r] \in Moves!Holding /\ moving[r].account \in Accounts
      BY DEF MovesIInv, Moves!TypeOK, MovesHoldingOK, Moves!CountUsage
    <2>2. h \in Moves!Holding /\ h.at = "delete" /\ h.account = moving[r].account
      BY <2>1 DEF Moves!Holding
    <2> HIDE DEF h
    <2>3. MovesHoldingOK(h)
      BY <2>1, <2>2 DEF MovesHoldingOK
    <2>4. <<"debt", h.account>> \notin dependents
      BY <1>3, <2>2 DEF Moves!InUse
    <2> QED BY <1>1, <1>3, <2>2, <2>3, <2>4, MovesRequestStep
  <1> QED BY <1>2, <1>3 DEF Moves!CountUsage

LEMMA DeleteAccountKeeps ==
  ASSUME MovesIInv, Moves!Observe, NEW r \in Requests, Moves!DeleteAccount(r)
  PROVE  MovesIInv'
  <1> DEFINE a == moving[r].account
  <1>1. /\ UNCHANGED <<transactions, dependents>> /\ moving' = [moving EXCEPT ![r] = Moves!Idle]
        /\ moving[r].at = "delete" /\ a \in Accounts
        /\ accounts' = IF Moves!Restricted(a) THEN accounts ELSE [accounts EXCEPT ![a] = "removed"]
    BY DEF Moves!DeleteAccount, MovesIInv, MovesHoldingOK
  <1>2. \A b \in Accounts : accounts'[b] = accounts[b] \/ (b = a /\ ~ Moves!Restricted(a))
    BY <1>1 DEF MovesIInv, Moves!TypeOK
  <1>3. accounts' \in [Accounts -> {"none", "live", "removed"}]
    BY <1>1 DEF MovesIInv, Moves!TypeOK
  <1>4. Moves!AccountsExist'
    BY <1>1, <1>2
       DEF MovesIInv, Moves!TypeOK, Moves!AccountsExist, Moves!UserAccounts, Moves!AccountIds,
       Moves!Row, Moves!NoRow, Moves!Destination, Moves!Restricted
  <1> QED BY <1>1, <1>2, <1>3, <1>4, WritingStep
          DEF MovesIInv, Moves!TypeOK, Moves!DestinationsAreOfTransfers, Moves!Changed

LEMMA AttachKeeps ==
  ASSUME MovesIInv, Moves!Observe, NEW r \in Requests, Moves!Attach(r)
  PROVE  MovesIInv'
  <1>1. /\ UNCHANGED <<transactions, accounts>> /\ moving' = [moving EXCEPT ![r] = Moves!Idle]
        /\ moving[r].at = "attach" /\ moving[r].account \in Accounts
        /\ dependents' \subseteq dependents \union {<<moving[r].kind, moving[r].account>>}
    BY DEF Moves!Attach, MovesIInv, MovesHoldingOK
  <1>2. moving[r].kind \in {"debt", "template"}
    BY DEF MovesIInv, Moves!TypeOK, Moves!Holding
  <1>3. dependents' \subseteq {"debt", "template"} \X Accounts
    BY <1>1, <1>2 DEF MovesIInv, Moves!TypeOK
  <1> QED BY <1>1, <1>3, WritingStep
          DEF MovesIInv, Moves!TypeOK, Moves!AccountsExist, Moves!UserAccounts,
          Moves!DestinationsAreOfTransfers, Moves!Changed

LEMMA DetachKeeps ==
  ASSUME MovesIInv, Moves!Observe, NEW d \in dependents, Moves!Detach(d)
  PROVE  MovesIInv'
  BY WritingStep
     DEF MovesIInv, Moves!TypeOK, Moves!AccountsExist, Moves!UserAccounts,
     Moves!DestinationsAreOfTransfers, Moves!Changed, Moves!Detach

LEMMA NextKeepsIInv == MovesIInv /\ [Moves!Next]_Moves!vars => MovesIInv'
  <1> SUFFICES ASSUME MovesIInv, [Moves!Next]_Moves!vars PROVE MovesIInv'
    OBVIOUS
  <1>1. CASE UNCHANGED Moves!vars
    BY <1>1 DEF Moves!vars, Moves!tables, MovesIInv, Moves!TypeOK, MovesHoldingOK,
       Moves!AccountsExist, Moves!UserAccounts,
                Moves!DestinationsAreOfTransfers, Moves!TypesMatchCategories, Moves!Exists,
                Moves!DebtsHaveAccount,
                CopiesFit, Moves!Editing, Fits, Moves!RacedAccounts, RacesAreKnown
  <1>2. CASE Moves!Next
    <2> USE <1>2 DEF Moves!Next
    <2>1. CASE \E r \in Requests : Moves!CheckRows(r) \/ Moves!InsertRows(r) \/ Moves!CheckAccounts(r)
      BY <2>1, CheckRowsKeeps, InsertRowsKeeps, CheckAccountsKeeps
    <2>2. CASE \E r \in Requests, x \in Ids : Moves!ReadForUpdate(r, x) \/ Moves!UpdateRow(r, x)
      BY <2>2, ReadForUpdateKeeps, UpdateRowKeeps
    <2>3. CASE \E r \in Requests : Moves!SaveAccount(r) \/ Moves!CountUsage(r)
            \/ Moves!DeleteAccount(r) \/ Moves!Attach(r)
      BY <2>3, SaveAccountKeeps, CountUsageKeeps, DeleteAccountKeeps, AttachKeeps
    <2>4. CASE \E r \in Requests, a \in Accounts :
                  \/ Moves!ReadAccount(r, a)
                  \/ Moves!FindAccount(r, a)
                  \/ \E kind \in {"debt", "template"} : Moves!CheckOwned(r, kind, a)
      BY <2>4, AccountReadKeeps
    <2>5. CASE \E x \in Ids : Moves!RemoveTransaction(x)
      BY <2>5, RemoveTransactionKeeps
    <2>6. CASE \E a \in Accounts : Moves!CreateAccount(a)
      BY <2>6, CreateAccountKeeps
    <2>7. CASE \E d \in dependents : Moves!Detach(d)
      BY <2>7, DetachKeeps
    <2> QED BY <2>1, <2>2, <2>3, <2>4, <2>5, <2>6, <2>7 DEF Moves!Step
  <1> QED BY <1>1, <1>2

(***************************************************************************)
(* An UPDATE keeps what it was not given: the only column it takes from    *)
(* its copy is the destination, which CopiesFit relates to the row.        *)
(***************************************************************************)
LEMMA OnlyUpdateRowEnds ==
  ASSUME MovesIInv, Moves!Step, NEW r \in Requests, NEW x \in Ids,
         moving[r].at = "update", moving[r].ids = {x}, moving'[r].at = "idle"
  PROVE  Moves!UpdateRow(r, x)
  <1> SUFFICES ASSUME ~ Moves!UpdateRow(r, x) PROVE moving'[r] = moving[r]
    OBVIOUS
  <1> USE DEF MovesIInv, Moves!TypeOK
  <1>1. CASE \E s \in Requests : Moves!CheckRows(s) \/ Moves!InsertRows(s) \/ Moves!CheckAccounts(s)
    BY <1>1 DEF Moves!CheckRows, Moves!InsertRows, Moves!CheckAccounts
  <1>2. CASE \E s \in Requests, y \in Ids : Moves!ReadForUpdate(s, y)
    BY <1>2 DEF Moves!ReadForUpdate
  <1>3. CASE \E s \in Requests, y \in Ids : Moves!UpdateRow(s, y)
    <2>1. PICK s \in Requests, y \in Ids : Moves!UpdateRow(s, y)
      BY <1>3
    <2>2. s # r
      BY <2>1 DEF Moves!UpdateRow
    <2> QED BY <2>1, <2>2 DEF Moves!UpdateRow
  <1>4. CASE \E s \in Requests : Moves!SaveAccount(s) \/ Moves!CountUsage(s)
          \/ Moves!DeleteAccount(s) \/ Moves!Attach(s)
    BY <1>4 DEF Moves!SaveAccount, Moves!CountUsage, Moves!DeleteAccount, Moves!Attach
  <1>5. CASE \E s \in Requests, a \in Accounts :
                \/ Moves!ReadAccount(s, a)
                \/ Moves!FindAccount(s, a)
                \/ \E kind \in {"debt", "template"} : Moves!CheckOwned(s, kind, a)
    BY <1>5 DEF Moves!ReadAccount, Moves!FindAccount, Moves!CheckOwned
  <1>6. CASE \/ \E y \in Ids : Moves!RemoveTransaction(y)
             \/ \E a \in Accounts : Moves!CreateAccount(a)
             \/ \E d \in dependents : Moves!Detach(d)
    BY <1>6 DEF Moves!RemoveTransaction, Moves!CreateAccount, Moves!Detach
  <1> QED BY <1>1, <1>2, <1>3, <1>4, <1>5, <1>6 DEF Moves!Step

LEMMA NextKeepsTheRest ==
  ASSUME MovesIInv, Moves!Next, NEW r \in Requests, NEW x \in Ids,
         moving[r].at = "update", moving[r].ids = {x}, moving'[r].at = "idle",
         NEW c \in Moves!Columns \ moving[r].fields
  PROVE  \/ transactions'[x][c] = transactions[x][c]
         \/ c = "toAccount" /\ transactions'[x].type # "transferencia"
         \/ r \in stale
  <1> DEFINE a == moving[r]
             row == Moves!Written(transactions[x], a.fields, a.rows[x])
             next == Moves!Overlay(transactions[x], a.fields, a.rows[x])
  <1>1. Moves!UpdateRow(r, x)
    BY OnlyUpdateRowEnds DEF Moves!Next
  <1>2. transactions'[x] \in {row, transactions[x]}
    BY <1>1 DEF Moves!UpdateRow, MovesIInv, Moves!TypeOK
  <1>3. c # "toAccount" => row[c] = transactions[x][c]
    BY DEF Moves!Written, Moves!Overlay
  <1>4. ASSUME c = "toAccount", r \notin stale
        PROVE  row.toAccount = transactions[x].toAccount \/ row.type # "transferencia"
    <2>1. Fits(transactions[x], a, x)
      BY <1>4 DEF MovesIInv, CopiesFit, Moves!Editing
    <2>2. row.toAccount = a.rows[x].toAccount /\ row.type = next.type
      BY OverlayColumns DEF Moves!Written
    <2>3. row.toAccount =
             IF next.type = "transferencia" THEN transactions[x].toAccount ELSE NoAccount
      BY <1>4, <2>1, <2>2 DEF Fits
    <2> QED BY <2>2, <2>3
  <1> HIDE DEF row, next
  <1> QED BY <1>2, <1>3, <1>4

(***************************************************************************)
(* Theorems.                                                               *)
(***************************************************************************)
\* The inductive invariant: besides the properties, what an update holds fits the row
\* that it read as long as nobody changed it, and whoever puts a debt on an account that
\* is being removed is known to race.
THEOREM TransactionsInvariant == Moves!Spec => []MovesIInv
  BY MovesInitIInv, NextKeepsIInv, PTL DEF Moves!Spec

\* A transaction has the type of its category and a destination only if it is a transfer,
\* under any interleaving of createBulk and of updates that give any of the columns
\* (transactions.service.ts:270), except for a category and a type that two overlapping
\* updates wrote.
THEOREM TransactionsRowsAreSound == Moves!Spec => []Moves!RowsAreSound
  <1>1. MovesIInv => Moves!RowsAreSound
    BY DEF MovesIInv, Moves!RowsAreSound
  <1> QED BY <1>1, TransactionsInvariant, PTL

\* The accounts of transactions exist whatever AccountsService.remove and the services
\* that write rows had checked (accounts.service.ts:95), and the account of a debt unless
\* it was being removed while the debt was being created.
THEOREM TransactionsAccountsStay == Moves!Spec => []Moves!AccountsStay
  <1>1. MovesIInv => Moves!AccountsStay
    BY DEF MovesIInv, Moves!AccountsStay
  <1> QED BY <1>1, TransactionsInvariant, PTL

\* An update that nobody overtook leaves the columns it was not given as they were,
\* except for the destination of what is no longer a transfer.
THEOREM TransactionsEditsKeepTheRest == Moves!Spec => Moves!EditsKeepTheRest
  <1>1. MovesIInv /\ [Moves!Next]_Moves!vars =>
          [\A r \in Requests, x \in Ids :
             moving[r].at = "update" /\ moving[r].ids = {x} /\ moving'[r].at = "idle" =>
                \A c \in Moves!Columns \ moving[r].fields :
                    \/ transactions'[x][c] = transactions[x][c]
                    \/ c = "toAccount" /\ transactions'[x].type # "transferencia"
                    \/ r \in stale]_Moves!vars
    BY NextKeepsTheRest
  <1> QED BY <1>1, TransactionsInvariant, PTL DEF Moves!Spec, Moves!EditsKeepTheRest

-----------------------------------------------------------------------------
(* One request at a time: what the history excuses is all of requests that overlap.   *)

\* While a request is between two statements, only it goes on.
MovesOneAtATime ==
    [][\A r \in Requests : moving[r].at # "idle" => moving'[r] # moving[r]]_Moves!vars

MovesOnlyOne ==
  /\ \A r, q \in Requests : moving[r].at # "idle" /\ moving[q].at # "idle" => r = q
  /\ stale = {}
  /\ raced = {}

LEMMA MovesStepOfOne ==
  ASSUME Moves!Step
  PROVE  moving' = moving \/ \E r \in Requests : \E h : moving' = [moving EXCEPT ![r] = h]
  <1>1. ASSUME NEW r \in Requests,
               \/ Moves!CheckRows(r) \/ Moves!InsertRows(r) \/ Moves!CheckAccounts(r)
               \/ \E x \in Ids : Moves!ReadForUpdate(r, x) \/ Moves!UpdateRow(r, x)
        PROVE  \E h : moving' = [moving EXCEPT ![r] = h]
    BY <1>1
    DEF Moves!CheckRows, Moves!InsertRows, Moves!CheckAccounts, Moves!ReadForUpdate,
        Moves!UpdateRow
  <1>2. ASSUME NEW r \in Requests,
               \/ Moves!SaveAccount(r) \/ Moves!CountUsage(r) \/ Moves!DeleteAccount(r)
               \/ Moves!Attach(r)
               \/ \E a \in Accounts :
                     \/ Moves!ReadAccount(r, a)
                     \/ Moves!FindAccount(r, a)
                     \/ \E kind \in {"debt", "template"} : Moves!CheckOwned(r, kind, a)
        PROVE  \E h : moving' = [moving EXCEPT ![r] = h]
    BY <1>2
    DEF Moves!SaveAccount, Moves!CountUsage, Moves!DeleteAccount, Moves!Attach,
        Moves!ReadAccount, Moves!FindAccount, Moves!CheckOwned
  <1>3. ASSUME \/ \E x \in Ids : Moves!RemoveTransaction(x)
               \/ \E a \in Accounts : Moves!CreateAccount(a)
               \/ \E d \in dependents : Moves!Detach(d)
        PROVE  moving' = moving
    BY <1>3 DEF Moves!RemoveTransaction, Moves!CreateAccount, Moves!Detach
  <1> QED BY <1>1, <1>2, <1>3 DEF Moves!Step

\* Whoever writes a transaction while a request is on its way is that request, and ends.
LEMMA WritersEnd ==
  ASSUME MovesIInv, Moves!Step, NEW r \in Requests, moving[r].at # "idle",
         moving'[r] # moving[r], transactions' # transactions
  PROVE  moving'[r].at = "idle"
  <1>1. \E q \in Requests : Moves!InsertRows(q) \/ \E x \in Ids : Moves!UpdateRow(q, x)
    BY DEF Moves!Step, Moves!CheckRows, Moves!CheckAccounts, Moves!ReadForUpdate, Moves!tables,
           Moves!SaveAccount, Moves!CountUsage, Moves!DeleteAccount, Moves!Attach,
           Moves!ReadAccount, Moves!FindAccount, Moves!CheckOwned, Moves!RemoveTransaction,
           Moves!CreateAccount, Moves!Detach
  <1>2. PICK q \in Requests : moving' = [moving EXCEPT ![q] = Moves!Idle]
    BY <1>1 DEF Moves!InsertRows, Moves!UpdateRow
  <1> QED BY <1>2, IdleHolds DEF MovesIInv, Moves!TypeOK

LEMMA MovesOnlyOneStays ==
  ASSUME MovesIInv, MovesOnlyOne, [Moves!Next]_Moves!vars,
         [\A r \in Requests : moving[r].at # "idle" => moving'[r] # moving[r]]_Moves!vars
  PROVE  MovesOnlyOne'
  <1>1. CASE UNCHANGED Moves!vars
    BY <1>1 DEF Moves!vars, Moves!tables, MovesOnlyOne
  <1>2. CASE Moves!Next /\ ~ UNCHANGED Moves!vars
    <2>1. /\ Moves!Observe
          /\ \A r \in Requests : moving[r].at # "idle" => moving'[r] # moving[r]
      BY <1>2 DEF Moves!Next
    <2>2. \A r, q \in Requests : r # q => moving'[r] = moving[r] \/ moving'[q] = moving[q]
      BY <1>2, MovesStepOfOne DEF Moves!Next, MovesIInv, Moves!TypeOK
    <2>3. \A r, q \in Requests : moving'[r].at # "idle" /\ moving'[q].at # "idle" => r = q
      BY <2>1, <2>2
    <2>4. stale' = {}
      <3> SUFFICES ASSUME NEW r \in stale' PROVE FALSE
        OBVIOUS
      <3>1. /\ r \in Requests /\ moving'[r].at \in {"accounts", "update"}
            /\ \E x \in Ids : Moves!Editing(r, x) /\ Moves!Changed(x)
        BY <2>1 DEF Moves!Observe, MovesOnlyOne
      <3>2. moving[r].at \in {"accounts", "update"} /\ transactions' # transactions
        BY <3>1 DEF Moves!Editing, Moves!Changed
      <3>3. moving'[r].at = "idle"
        BY <1>2, <2>1, <3>1, <3>2, WritersEnd DEF Moves!Next
      <3> QED BY <3>1, <3>3
    <2>5. raced' = {}
      <3>1. Moves!RacedWrites = {}
        BY DEF Moves!RacedWrites, MovesOnlyOne
      <3>2. Moves!RacedAccounts' = {}
        BY <2>3 DEF Moves!RacedAccounts
      <3> QED BY <2>1, <3>1, <3>2 DEF Moves!Observe, MovesOnlyOne
    <2> QED BY <2>3, <2>4, <2>5 DEF MovesOnlyOne
  <1> QED BY <1>1, <1>2

\* A transaction has the type of its category, and the account of a debt is live.
MovesAgree ==
  /\ \A x \in Ids : Moves!Exists(x) => Moves!CategoryMatchesType(transactions[x])
  /\ \A a \in Accounts : <<"debt", a>> \in dependents => accounts[a] = "live"

\* update, "La categoría debe ser del mismo tipo que la transacción", and remove, "si nada
\* depende de ella": requests that do not overlap keep both, through any sequence of them
\* and whatever columns each update gives.
THEOREM TransactionsAloneAgree == Moves!Spec /\ MovesOneAtATime => []MovesAgree
  <1>1. Moves!Init => MovesOnlyOne
    BY IdleHolds DEF Moves!Init, Moves!InitWith, MovesOnlyOne
  <1>2. MovesIInv /\ MovesOnlyOne => MovesAgree
    BY DEF MovesIInv, MovesOnlyOne, Moves!TypesMatchCategories, Moves!DebtsHaveAccount, MovesAgree
  <1> QED
    BY <1>1, <1>2, MovesOnlyOneStays, TransactionsInvariant, PTL DEF Moves!Spec, MovesOneAtATime

-----------------------------------------------------------------------------
(***************************************************************************)
(* The same of the instances: whatever the other parts do, what they do to *)
(* the variables of this one is nothing.                                   *)
(***************************************************************************)
LEMMA FilesStepsAreMoves ==
  /\ FilesInit => Moves!Init
  /\ [FilesNext]_<<part, vars, moved, migrated, filed>> => [Moves!Next]_Moves!vars
  <1>1. [x \in Ids |-> Moves!NoRow] \in [Ids -> {Moves!NoRow, Moves!OldRow}]
    OBVIOUS
  <1>2. FilesInit => Moves!Init
    BY <1>1 DEF FilesInit, UserInit, Moves!Init
  <1>3. UNCHANGED moved => UNCHANGED Moves!vars
    BY DEF moved, Moves!vars, Moves!tables
  <1> QED BY <1>2, <1>3 DEF FilesNext, UserNext

LEMMA FilesMoves == FilesSpec => Moves!Spec
  BY FilesStepsAreMoves, PTL DEF FilesSpec, Moves!Spec

\* TransactionsRowsAreSound, for the specification that is run.
THEOREM FilesRowsAreSound == FilesSpec => []RowsAreSound
  <1>1. Moves!RowsAreSound => RowsAreSound
    BY DEF RowsAreSound
  <1> QED BY <1>1, FilesMoves, TransactionsRowsAreSound, PTL

\* TransactionsAccountsStay, for the specification that is run.
THEOREM FilesAccountsStay == FilesSpec => []AccountsStay
  <1>1. Moves!AccountsStay => AccountsStay
    BY DEF AccountsStay
  <1> QED BY <1>1, FilesMoves, TransactionsAccountsStay, PTL

\* TransactionsEditsKeepTheRest, for the specification that is run.
THEOREM FilesEditsKeepTheRest == FilesSpec => EditsKeepTheRest
  BY FilesMoves, TransactionsEditsKeepTheRest DEF EditsKeepTheRest

(***************************************************************************)
(* Documents in the run.  In a behaviour about another part nothing        *)
(* happens to the documents, which their specification allows too.         *)
(***************************************************************************)
LEMMA FilesStepsAreOfDocuments ==
  /\ FilesInit => Files!Init
  /\ [FilesNext]_<<part, vars, moved, migrated, filed>> => [Files!Next]_Files!vars
  <1>1. FilesInit => Files!Init
    BY DEF FilesInit, Files!Init
  <1>2. UNCHANGED filed => UNCHANGED Files!vars
    BY DEF filed, Files!vars, Files!stores, Files!histories
  <1> QED BY <1>1, <1>2 DEF FilesNext

LEMMA FilesAreDocuments == FilesSpec => Files!Spec
  BY FilesStepsAreOfDocuments, PTL DEF FilesSpec, Files!Spec

\* The assumption of Documents, as the theorems of the instance name it.
LEMMA FilesConstants ==
  /\ OwnKeys \intersect (OtherKeys \union OldKeys) = {}
  /\ OtherKeys \intersect OldKeys = {}
  /\ Transactions # {}
  /\ DocumentIds # {} /\ Files!IsFiniteSet(DocumentIds)
  /\ MaxFiles \in Nat
  <1>1. Files!IsFiniteSet(DocumentIds)
    BY DocumentConstants DEF Files!IsFiniteSet, IsFiniteSet
  <1> QED BY <1>1, DocumentConstants

\* DocumentsStoresAgree, for the specification that is run: a listed file is in the
\* bucket, and a file that lost its last document is not, outside of what excused names.
THEOREM FilesStoresAgree == FilesSpec => []StoresAgree
  <1>1. Files!Spec => []Files!StoresAgree
    BY FilesConstants, Files!DocumentsStoresAgree
  <1>2. Files!StoresAgree => StoresAgree
    BY DEF StoresAgree
  <1> QED BY <1>1, <1>2, FilesAreDocuments, PTL

\* DocumentsLinksAreSound, for the specification that is run: a document is of a
\* transaction that exists, and a file is in it once, outside of what excused names.
THEOREM FilesLinksAreSound == FilesSpec => []LinksAreSound
  <1>1. Files!Spec => []Files!LinksAreSound
    BY FilesConstants, Files!DocumentsLinksAreSound
  <1>2. Files!LinksAreSound => LinksAreSound
    BY DEF LinksAreSound
  <1> QED BY <1>1, <1>2, FilesAreDocuments, PTL

\* DocumentsOtherUsersFilesStay, for the specification that is run: no step removes an
\* object of another user.
THEOREM FilesOtherUsersFilesStay == FilesSpec => OtherUsersFilesStay
  <1>1. Files!Spec => Files!OtherUsersFilesStay
    BY FilesConstants, Files!DocumentsOtherUsersFilesStay
  <1> QED BY <1>1, FilesAreDocuments DEF OtherUsersFilesStay

=============================================================================
