------------------------------ MODULE MCAccess ------------------------------
(* Instances for TLC of the two ways into an account that guesses could     *)
(* force, the codes of PasswordReset and the passwords of Login, and, beside *)
(* them, of Budgets.  They share no variable: a behaviour is one of one of   *)
(* them.                                                                     *)
EXTENDS PasswordReset, FiniteSets, TLC

CONSTANTS
    Logins,                                      \* requests of Login
    MaxFailed, LockTime, MaxTime, MaxPasswords,  \* of Login
    Ids, OtherIds, Own, Other, Months, DetailIds, MaxAmount, MaxFields, None  \* of Budgets

VARIABLES
    part,
    clock, users, user, password, logins, wrong, shared,    \* of Login
    categories, budgets, details, budgeting, late, excused  \* of Budgets

login == <<clock, users, user, password, logins, wrong, shared>>
planned == <<categories, budgets, details, budgeting, late, excused>>

Login == INSTANCE Login WITH Requests <- Logins, act <- logins
Plans == INSTANCE Budgets WITH act <- budgeting

\* Login: the requests in flight are finitely many, and the bounds are positive.
ASSUME LoginConstants ==
    /\ IsFiniteSet(Logins)
    /\ MaxFailed \in Nat \ {0} /\ LockTime \in Nat \ {0} /\ MaxTime \in Nat \ {0}
    /\ MaxPasswords \in Nat \ {0}

\* Budgets: the two users share no budget and no category, and null is none of them.
ASSUME BudgetConstants ==
    /\ Ids \intersect OtherIds = {} /\ Own \intersect Other = {} /\ Other # {}
    /\ IsFiniteSet(DetailIds) /\ DetailIds # {}
    /\ None \notin Ids \union OtherIds \union Own \union Other
    /\ MaxAmount \in Nat

\* Budgets: the user has one with two details, or two without details.
Few ==
    \/ \E b \in Ids : ~ Plans!Exists(b)
    \/ \A d \in DetailIds : details[d] = Plans!NoDetail

AccessInit ==
    /\ part \in {"reset", "login", "budgets"}
    /\ Init
    /\ Login!Init
    /\ Plans!Init

AccessNext ==
    \/ part = "reset" /\ Next /\ UNCHANGED <<part, login, planned>>
    \/ part = "login" /\ Login!Next /\ UNCHANGED <<part, vars, planned>>
    \/ part = "budgets" /\ Plans!Next /\ Few' /\ UNCHANGED <<part, vars, login>>

AccessSpec == AccessInit /\ [][AccessNext]_<<part, vars, login, planned>>

Symmetry ==
    Permutations(Requests) \union Permutations(Ids) \union Permutations(Own)
    \union Permutations(DetailIds)

\* Login: every variable has its type, and the counter never stays at the maximum; two
\* registrations that both find the email free leave one user (auth.service.ts:45);
\* while requests do not overlap, the counter counts the wrong passwords in a row; and
\* parallel guesses gain no more than an old copy of the counter each (l.183).
LoginInv ==
    /\ Login!TypeOK
    /\ Login!OneUserPerEmail
    /\ Login!CountsEachFailure
    /\ Login!WrongPasswordsBounded

\* Login: a lock lasts its time, or until a right password that was read before it or a
\* reset of the password.
LocksLast == Login!LocksLast

\* Budgets: every variable has its type; an automatic amount is the sum of its details
\* (budgets.service.ts:79); and there is one budget for a category and a month, also
\* when two are created at once (l.47).
BudgetsAddUp ==
    part = "budgets" =>
        /\ Plans!TypeOK
        /\ Plans!AmountIsTheSum
        /\ Plans!OneBudgetForAMonth

\* Budgets: the budgets of another user do not change, and none gets their categories.
BudgetsStayWithTheirUser == Plans!BudgetsStayWithTheirUser
=============================================================================
