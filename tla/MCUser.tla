------------------------------- MODULE MCUser -------------------------------
(* Instances of Sessions, and, beside them, of Transactions with the *)
(* accounts and of Migrations.  They share no variable: a behaviour is one   *)
(* of one of them.                                                           *)
EXTENDS Sessions, TLC

CONSTANTS
    Ids, Accounts, NoAccount, MaxRows, MaxFields, MaxDependents,  \* of Transactions
    FirstReversible                                               \* of Migrations

VARIABLES
    part,
    transactions, accounts, dependents, moving, stale, raced,   \* of Transactions
    deployed, applied, schema                                   \* of Migrations

moved == <<transactions, accounts, dependents, moving, stale, raced>>
migrated == <<deployed, applied, schema>>

Moves == INSTANCE Transactions WITH act <- moving
Tables == INSTANCE Migrations WITH version <- deployed

UserInit ==
    /\ part \in {"sessions", "transactions", "migrations"}
    /\ Init
    /\ part # "sessions" => ~ enabled
    /\ IF part = "transactions" THEN Moves!Init ELSE Moves!InitWith([x \in Ids |-> Moves!NoRow])
    /\ Tables!Init

UserNext ==
    \/ part = "sessions" /\ Next /\ UNCHANGED <<part, moved, migrated>>
    \/ part = "transactions" /\ Moves!Next /\ UNCHANGED <<part, vars, migrated>>
    \/ part = "migrations" /\ Tables!Next /\ UNCHANGED <<part, vars, moved>>

UserSpec == UserInit /\ [][UserNext]_<<part, vars, moved, migrated>>

\* Transactions: every variable has its type; only a transfer has a destination, which
\* is another account; and a category has the type of its transactions
\* (transactions.service.ts:270).
RowsAreSound == part = "transactions" => Moves!RowsAreSound

\* Transactions: the accounts of every transaction exist (accounts.service.ts:95), and so
\* does the account of a debt, unless both were written at once.
AccountsStay == part = "transactions" => Moves!AccountsStay

\* Transactions: an update leaves what it was not given as it was.
EditsKeepTheRest == Moves!EditsKeepTheRest

\* Migrations: the schema has columns and constraints of its own tables; the pending
\* migrations can be applied, whatever was reverted before; and reverting a recent one
\* brings back the schema from before it.
MigrationsRun ==
    part = "migrations" =>
        /\ Tables!TypeOK
        /\ Tables!RunsSucceed
        /\ Tables!RecentRevertsUndo

\* Migrations: with all of them applied, the tables are those of the entities.
EntitiesFit == part = "migrations" => Tables!EntitiesFit
=============================================================================
