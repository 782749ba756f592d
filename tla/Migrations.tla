------------------------------ MODULE Migrations ------------------------------
(***************************************************************************)
(* The life of a database: "migration:run" applies, in one transaction,    *)
(* the pending migrations that the deployed version has compiled, and      *)
(* "migration:revert" undoes the last one that was applied.  A newer       *)
(* version may be deployed, or an older one again.  The schema "finance"   *)
(* exists from the start, and "public" holds none of the tables.           *)
(*                                                                         *)
(* The entities are the tables that the program of the last version needs. *)
(***************************************************************************)
EXTENDS Schema

CONSTANT
    FirstReversible   \* the first migration from which on a revert restores the schema

VARIABLES
    version,  \* how many of the migrations the deployed version has
    applied,  \* how many of them the table migrations names
    schema    \* the tables, as facts

vars == <<version, applied, schema>>

Latest == Len(Scripts)

\* A relation of an entity (ManyToOne), with the rule that it states or AnyRule.
AnyRule == "any"
Relation(t, column, target, rule) == <<"relation", t, column, target, rule>>

UserRelation(t) == Relation(t, "user_id", "users", "CASCADE")

WaitingList ==
    Table("waiting_list", {"email"}, {"id", "created_at", "updated_at"}, {"description"})
    \union {Unique("waiting_list", "", {"email"})}

Transaction ==
    Table("transactions", {"user_id", "date", "type", "amount", "category_id"}, {"id"},
          {"category", "account_id", "to_account_id", "legacy_account", "description"})
    \union {UserRelation("transactions"), Relation("transactions", "category_id", "categories", "RESTRICT")}

Document ==
    Table("documents", {"name", "size", "bucket", "key_s3", "module", "ref_id"},
          {"id", "created_at", "updated_at"}, {})

User ==
    Table("users", {"name", "email", "password"},
          {"id", "twoFactorEnabled", "failedLoginAttempts", "tokenVersion"} \union Stamps, {"lockedUntil"})
    \union {Unique("users", "", {"email"})}

TwoFactorChallenge ==
    Table("two_factor_challenges", {"user_id", "purpose", "code_hash", "expires_at", "last_sent_at"},
          {"id", "attempts", "send_count", "created_at"}, {"token_hash", "payload", "used_at"})

PasswordReset ==
    Table("password_resets", {"user_id", "code_hash", "expires_at"}, {"id", "attempts", "created_at"},
          {"verified_at", "reset_token_hash", "reset_token_expires_at", "used_at"})

Category ==
    Table("categories", {"user_id", "name"}, {"id", "type", "isActive", "isDefault"} \union Stamps,
          {"icon", "color", "description", "parentId", "budgetLimit"})
    \union {UserRelation("categories"), Relation("categories", "parentId", "categories", AnyRule)}

AiUsage ==
    Table("ai_usage", {"user_id", "endpoint"},
          {"id", "calls", "input_tokens", "cached_tokens", "output_tokens", "cost_usd",
           "unpriced_calls", "created_at"}, {"model"})

BudgetDetail ==
    Table("budget_details", {"budgetId", "label"}, {"id", "sortOrder"} \union Stamps,
          {"description", "estimatedAmount"})
    \union {Relation("budget_details", "budgetId", "budgets", "CASCADE")}

Budget ==
    Table("budgets", {"categoryId", "amount", "year", "month"},
          {"id", "amountAutoCalculated", "period", "isActive"} \union Stamps, {})
    \union {Relation("budgets", "categoryId", "categories", AnyRule)}

Reminder ==
    Table("reminders", {"template_id", "scheduled_at"}, {"id", "status", "created_at"}, {"sent_at"})
    \union {Relation("reminders", "template_id", "transfer_templates", "CASCADE")}

TransferTemplate ==
    Table("transfer_templates",
          {"user_id", "from_account_id", "name", "payee_name", "day_of_month", "next_due_date"},
          {"id", "recurrence_type", "frequency", "is_active", "created_at", "updated_at"},
          {"description", "payee_account", "payee_bank", "last_amount", "custom_interval_days"})
    \union {UserRelation("transfer_templates"),
            Relation("transfer_templates", "from_account_id", "accounts", AnyRule)}

DebtPayment ==
    Table("debt_payments", {"debtId", "amount", "paidAt"}, {"id", "createdAt"}, {"transactionId"})
    \union {Relation("debt_payments", "debtId", "debts", "CASCADE")}

Debt ==
    Table("debts", {"user_id", "name", "payee", "totalAmount", "remainingAmount", "dueDate"},
          {"id", "isRecurring", "status"} \union Stamps,
          {"accountId", "notes", "recurrenceType", "recurrenceDay"})
    \union {UserRelation("debts")}

Account ==
    Table("accounts", {"user_id", "name"}, {"id", "balance", "isCredit", "isActive"} \union Stamps,
          {"icon", "color", "description", "creditLimit", "aprRate", "gracePeriodDays", "statementDay",
           "dueDay", "minPaymentPercent", "minPaymentAmount"})
    \union {UserRelation("accounts")}

AiRegisterJob ==
    Table("ai_register_jobs", {"user_id", "file_key", "file_name", "file_size", "mime_type"},
          {"id", "status", "created_at", "updated_at"},
          {"user_text", "error", "extracted_payload", "created_transaction_id"})

Entities ==
    UNION {WaitingList, Transaction, Document, User, TwoFactorChallenge, PasswordReset, Category,
           AiUsage, BudgetDetail, Budget, Reminder, TransferTemplate, DebtPayment, Debt, Account,
           AiRegisterJob}

(***************************************************************************)
(* The commands.                                                           *)
(***************************************************************************)
\* The schemas that the migrations after the first k leave, up to the n-th.
Pending(s, k, n) == Executed(s, FlattenSeq([i \in 1 .. n - k |-> Scripts[k + i].up]))

Init ==
    /\ version = 0
    /\ applied = 0
    /\ schema = {}

\* Another image is built and deployed.
Deploy(n) ==
    /\ n # version
    /\ version' = n
    /\ UNCHANGED <<applied, schema>>

\* npm run migration:run: all of the pending ones or none.
Run ==
    /\ applied < version
    /\ schema' \in Pending(schema, applied, version)
    /\ applied' = version
    /\ UNCHANGED version

\* npm run migration:revert: the last one applied, when this version has it.
Revert ==
    /\ applied \in 1 .. version
    /\ schema' \in Executed(schema, Scripts[applied].down)
    /\ applied' = applied - 1
    /\ UNCHANGED version

Next == (\E n \in 0 .. Latest : Deploy(n)) \/ Run \/ Revert

Spec == Init /\ [][Next]_vars

(***************************************************************************)
(* Properties.                                                             *)
(***************************************************************************)
\* A schema of columns of its tables, whose constraints are on columns that it has and
\* refer to tables that it has, each name once in a table.
TypeOK ==
    /\ version \in 0 .. Latest
    /\ applied \in 0 .. Latest
    /\ \A f \in schema : HasTable(schema, f[2])
    /\ \A k \in Keys(schema) : HasTable(schema, k[5]) /\ HasAll(schema, k[2], {k[4]})
    /\ \A f, g \in schema : Len(f) > 2 /\ Len(g) > 2 /\ f[2] = g[2] /\ f[3] = g[3] => f = g

\* The schema right after the first k migrations, when none was ever reverted.
Version(k) == CHOOSE s \in Pending({}, 0, k) : TRUE

\* Whatever was reverted before, the pending migrations can be applied: no CREATE, ADD
\* or RENAME finds what an earlier revert has left behind.
RunsSucceed == Pending(schema, applied, Latest) # {}

\* The facts of a schema without the names of its unique constraints: users is created
\* by three migrations under two of them.
Shape(s) == {IF f[1] = "unique" THEN Unique(f[2], "", f[4]) ELSE f : f \in s}

Fits(f) ==
    CASE f[1] = "table" -> f \in schema
      [] f[1] = "column" -> \/ f \in schema
                            \/ f[4] = "required" /\ <<"column", f[2], f[3], "default">> \in schema
      [] f[1] = "relation" -> \E k \in Keys(schema) : /\ <<k[2], k[4], k[5]>> = <<f[2], f[3], f[4]>>
                                                      /\ f[5] \in {AnyRule, k[6]}
      [] f[1] = "unique" -> f \in Shape(schema) \/ f \in WaitingList

\* With every migration applied, whatever came before, the tables are those of the
\* entities: every column, with the rows that may leave it out, no other column that a
\* row must hold, under every relation a foreign key with its rule, and what is unique,
\* except for the email of waiting_list: no migration makes it unique.
EntitiesFit ==
    applied = Latest =>
        /\ \A f \in Entities : Fits(f)
        /\ \A f \in schema : f[1] = "column" /\ f[4] = "required" => f \in Entities

\* Reverting a recent migration brings back the schema that there was before it.
RecentRevertsUndo == applied >= FirstReversible - 1 => Shape(schema) = Shape(Version(applied))
=============================================================================
