------------------------------- MODULE Schema -------------------------------
(***************************************************************************)
(* The statements of the migrations on the schema "finance", the tables    *)
(* that they create, and the tables that the entities of the program need. *)
(*                                                                         *)
(* A schema is a set of facts: its tables; their columns, with what a row  *)
(* must hold ("required": NOT NULL without DEFAULT, "default": NOT NULL    *)
(* with one, "optional": nullable); and their constraints.  Widths and     *)
(* indexes that constrain nothing are left out, and so are the primary     *)
(* keys, which are always the column id.                                   *)
(***************************************************************************)
EXTENDS Naturals, Sequences, SequencesExt

Columns(t, required, default, optional) ==
    {<<"column", t, c, "required">> : c \in required}
    \union {<<"column", t, c, "default">> : c \in default}
    \union {<<"column", t, c, "optional">> : c \in optional}

Table(t, required, default, optional) ==
    {<<"table", t>>} \union Columns(t, required, default, optional)

\* FOREIGN KEY (column) REFERENCES target(id) ON DELETE rule.
Key(t, name, column, target, rule) == <<"key", t, name, column, target, rule>>
Unique(t, name, columns) == <<"unique", t, name, columns>>
Check(t, name) == <<"check", t, name>>

\* Statements.  A "lenient" one says IF EXISTS or IF NOT EXISTS of what it adds or
\* removes; a "guarded" one asks information_schema for the table first.
Statement(do, t, what, mode) == [do |-> do, table |-> t, what |-> what, mode |-> mode]
Create(t, facts, mode) == Statement("create", t, facts, mode)
Drop(t, mode) == Statement("drop", t, {}, mode)
Add(t, facts, mode) == Statement("add", t, facts, mode)
Discard(t, names, mode) == Statement("remove", t, names, mode)
Rename(t, old, new) == Statement("rename", t, <<old, new>>, "strict")
Alter(t, facts) == Statement("alter", t, facts, "strict")
Uses(t, columns) == Statement("use", t, columns, "strict")
DropSchema == Statement("dropSchema", "", {}, "strict")

HasTable(s, t) == <<"table", t>> \in s

\* The columns and constraints of table t that have one of these names.
Called(s, t, names) == {f \in s : f[2] = t /\ Len(f) > 2 /\ f[3] \in names}
HasAll(s, t, names) == \A n \in names : Called(s, t, {n}) # {}
Names(facts) == {f[3] : f \in {g \in facts : Len(g) > 2}}

Keys(s) == {f \in s : f[1] = "key"}

\* The constraints of table t on one of these columns.
On(s, t, columns) == {f \in s : f[1] = "key" /\ f[2] = t /\ f[4] \in columns}
                     \union {f \in s : f[1] = "unique" /\ f[2] = t /\ f[4] \intersect columns # {}}

\* What a statement adds that is not there.
Missing(s, q) == {f \in q.what : Called(s, q.table, {f[3]}) = {}}

\* Foreign keys find their table.
Refers(s, facts) == \A k \in Keys(facts) : HasTable(s, k[5])

\* When PostgreSQL refuses statement q.
Fails(s, q) ==
    LET there == HasTable(s, q.table) IN
    CASE q.do = "create" -> IF there THEN q.mode = "strict"
                            ELSE ~Refers(s \union q.what, q.what)
      [] q.do = "drop" -> IF there
                          THEN q.mode # "cascade" /\ \E k \in Keys(s) : k[5] = q.table /\ k[2] # q.table
                          ELSE q.mode = "strict"
      [] q.do = "add" -> IF there
                         THEN \/ q.mode = "strict" /\ Missing(s, q) # q.what
                              \/ ~Refers(s, q.what)
                         ELSE q.mode # "guarded"
      [] q.do = "remove" -> IF there THEN q.mode = "strict" /\ ~HasAll(s, q.table, q.what)
                            ELSE q.mode # "guarded"
      [] q.do = "rename" -> ~HasAll(s, q.table, {q.what[1]}) \/ Called(s, q.table, {q.what[2]}) # {}
      [] q.do = "alter" -> ~HasAll(s, q.table, Names(q.what))
      [] q.do = "use" -> ~(there /\ HasAll(s, q.table, q.what))
      [] q.do = "dropSchema" -> s # {}

\* What it leaves of the schema otherwise.
After(s, q) ==
    LET there == HasTable(s, q.table) IN
    CASE ~there -> IF q.do = "create" THEN s \union q.what ELSE s
      [] there /\ q.do = "drop" -> {f \in s : f[2] # q.table} \ {k \in Keys(s) : k[5] = q.table}
      [] there /\ q.do = "add" -> s \union Missing(s, q)
      [] there /\ q.do = "remove" -> s \ (Called(s, q.table, q.what) \union On(s, q.table, q.what))
      [] there /\ q.do = "rename" ->
            {IF f \in Called(s, q.table, {q.what[1]}) THEN [f EXCEPT ![3] = q.what[2]] ELSE f : f \in s}
      [] there /\ q.do = "alter" -> (s \ Called(s, q.table, Names(q.what))) \union q.what
      [] OTHER -> s

\* The schemas that a script may leave: none when one of its statements fails.
Executed(s, script) ==
    FoldLeft(LAMBDA S, q : {After(x, q) : x \in {y \in S : ~Fails(y, q)}}, {s}, script)

(***************************************************************************)
(* The tables as the migrations create them.                               *)
(***************************************************************************)
Stamps == {"createdAt", "updatedAt"}

FirstTransactions ==
    Table("transactions", {"date", "type", "amount", "category", "account"}, {"id"}, {"description"})

FirstCategories ==
    Table("categories", {"name"}, {"id", "isActive", "isDefault", "type"} \union Stamps,
          {"icon", "color", "description", "budgetLimit", "parentId"})

ParentKey == Key("categories", "FK_9a6f051e66982b5f0318981bcaa", "parentId", "categories", "NO ACTION")

FirstAccounts ==
    Table("accounts", {"name"}, {"id", "isActive"} \union Stamps, {"icon", "color", "description"})

FirstDocuments ==
    Table("documents", {"name", "size", "bucket", "key_s3", "module"},
          {"id", "created_at", "updated_at"}, {})

FirstUsers(name) ==
    Table("users", {"name", "email", "password"}, {"id"} \union Stamps, {})
    \union {Unique("users", name, {"email"})}

(***************************************************************************)
(* The migrations, in the order of their timestamps.                       *)
(***************************************************************************)
AddCategoryType ==
    LET type == Columns("categories", {}, {"type"}, {})
    IN  [up |-> <<Add("categories", type, "guarded")>>,
         down |-> <<Discard("categories", {"type"}, "guarded")>>]

CreatePaymentPlannerTables ==
    [up |-> <<Create("debts",
                  Table("debts", {"name", "payee", "totalAmount", "remainingAmount", "dueDate"},
                        {"id", "status"} \union Stamps, {"notes"}), "strict"),
              Create("debt_payments",
                  Table("debt_payments", {"debtId", "amount", "paidAt"}, {"id", "createdAt"},
                        {"transactionId"})
                  \union {Key("debt_payments", "FK_debt_payments_debt", "debtId", "debts", "CASCADE")},
                  "strict")>>,
     down |-> <<Drop("debt_payments", "lenient"), Drop("debts", "lenient")>>]

Init1759125617618 ==
    [up |-> <<Create("transactions", FirstTransactions, "strict")>>,
     down |-> <<Drop("transactions", "strict")>>]

Init1759400932828 ==
    [up |-> <<Create("categories", FirstCategories, "strict"), Add("categories", {ParentKey}, "strict")>>,
     down |-> <<Discard("categories", {ParentKey[3]}, "strict"), Drop("categories", "strict")>>]

Init1759485537622 ==
    [up |-> <<Create("accounts", FirstAccounts, "strict")>>, down |-> <<Drop("accounts", "strict")>>]

Init1764824271452 ==
    [up |-> <<Add("transactions", Columns("transactions", {}, {}, {"files"}), "strict")>>,
     down |-> <<Discard("transactions", {"files"}, "strict")>>]

Init1765858404352 ==
    [up |-> <<Create("documents", FirstDocuments, "strict")>>, down |-> <<Drop("documents", "strict")>>]

Init1765859575559 ==
    [up |-> <<Add("documents", Columns("documents", {"ref_id"}, {}, {}), "strict")>>,
     down |-> <<Discard("documents", {"ref_id"}, "strict")>>]

\* The id changes its type: it goes and comes back.
Init1765859774198 ==
    LET change == <<Discard("transactions", {"id"}, "strict"),
                    Add("transactions", Columns("transactions", {}, {"id"}, {}), "strict")>>
    IN  [up |-> change, down |-> change]

Init1765967328751 ==
    [up |-> <<Discard("transactions", {"files"}, "lenient")>>,
     down |-> <<Add("transactions", Columns("transactions", {}, {}, {"files"}), "strict")>>]

CreateFinanceSchemaAndAccounts ==
    [up |-> <<Create("accounts", FirstAccounts, "lenient")>>,
     down |-> <<Drop("accounts", "lenient"), DropSchema>>]

CreateUsersTable ==
    [up |-> <<Create("users", FirstUsers("UQ_finance_users_email"), "lenient")>>,
     down |-> <<Drop("users", "lenient")>>]

Init1773624575759 ==
    [up |-> <<Create("transactions", FirstTransactions, "lenient"),
              Create("accounts", FirstAccounts, "lenient"),
              Create("categories", FirstCategories, "lenient"),
              Create("documents", FirstDocuments \union Columns("documents", {"ref_id"}, {}, {}), "lenient"),
              Discard("categories", {ParentKey[3]}, "lenient"),
              Add("categories", {ParentKey}, "strict")>>,
     down |-> <<Discard("categories", {ParentKey[3]}, "strict"), Drop("documents", "strict"),
                Drop("categories", "strict"), Drop("accounts", "strict"), Drop("transactions", "strict")>>]

Init1773626704216 ==
    [up |-> <<Create("users", FirstUsers("UQ_97672ac88f789774dd47f7c8be3"), "lenient")>>,
     down |-> <<Drop("users", "lenient")>>]

Init1773626958485 ==
    [up |-> <<Create("users", FirstUsers("UQ_97672ac88f789774dd47f7c8be3"), "lenient")>>,
     down |-> <<Drop("users", "lenient")>>]

AddRecurringToDebts ==
    LET columns == Columns("debts", {}, {"isRecurring"}, {"recurrenceType", "recurrenceDay"})
    IN  [up |-> <<Add("debts", columns, "lenient")>>,
         down |-> <<Discard("debts", Names(columns), "lenient")>>]

Init1773745696294 ==
    LET old == Key("debt_payments", "FK_debt_payments_debt", "debtId", "debts", "CASCADE")
        new == Key("debt_payments", "FK_d2a2d5006c00bb3998be54ec542", "debtId", "debts", "CASCADE")
    IN  [up |-> <<Discard("debt_payments", {old[3]}, "strict"), Add("debt_payments", {new}, "strict")>>,
         down |-> <<Discard("debt_payments", {new[3]}, "strict"), Add("debt_payments", {old}, "strict")>>]

CreateBudgetsTable ==
    LET month == Unique("budgets", "UQ_budgets_category_month", {"categoryId", "period", "year", "month"})
    IN  [up |-> <<Create("budgets",
                      Table("budgets", {"categoryId", "amount", "year", "month"},
                            {"id", "period", "isActive"} \union Stamps, {})
                      \union {Key("budgets", "FK_budgets_category", "categoryId", "categories", "CASCADE")},
                      "strict"),
                  Add("budgets", {month}, "strict")>>,
         down |-> <<Discard("budgets", {month[3]}, "guarded"), Drop("budgets", "lenient")>>]

AddBalanceToAccounts ==
    [up |-> <<Add("accounts", Columns("accounts", {}, {"balance"}, {}), "lenient")>>,
     down |-> <<Discard("accounts", {"balance"}, "lenient")>>]

AddIsCreditToAccounts ==
    [up |-> <<Add("accounts", Columns("accounts", {}, {"isCredit"}, {}), "guarded")>>,
     down |-> <<Discard("accounts", {"isCredit"}, "guarded")>>]

AddCreditCardFieldsToAccounts ==
    LET columns == Columns("accounts", {}, {}, {"creditLimit", "aprRate", "gracePeriodDays",
                           "statementDay", "dueDay", "minPaymentPercent", "minPaymentAmount"})
    IN  [up |-> <<Add("accounts", columns, "guarded")>>,
         down |-> <<Discard("accounts", Names(columns), "guarded")>>]

AddAccountIdToDebts ==
    [up |-> <<Add("debts", Columns("debts", {}, {}, {"accountId"}), "guarded")>>,
     down |-> <<Discard("debts", {"accountId"}, "guarded")>>]

CreateTransferTemplatesTable ==
    [up |-> <<Create("transfer_templates",
                  Table("transfer_templates",
                        {"user_id", "from_account_id", "name", "payee_name", "next_due_date"},
                        {"id", "recurrence_type", "frequency", "day_of_month", "is_active",
                         "created_at", "updated_at"},
                        {"payee_account", "payee_bank", "last_amount"})
                  \union {Key("transfer_templates", "fk_transfer_templates_user", "user_id", "users", "CASCADE"),
                          Key("transfer_templates", "fk_transfer_templates_account", "from_account_id",
                              "accounts", "NO ACTION")},
                  "lenient")>>,
     down |-> <<Drop("transfer_templates", "cascade")>>]

CreateRemindersTable ==
    [up |-> <<Create("reminders",
                  Table("reminders", {"template_id", "scheduled_at"}, {"id", "status", "created_at"}, {"sent_at"})
                  \union {Key("reminders", "fk_reminders_template", "template_id", "transfer_templates", "CASCADE")},
                  "lenient")>>,
     down |-> <<Drop("reminders", "cascade")>>]

AddCustomIntervalToTransferTemplates ==
    [up |-> <<Add("transfer_templates",
                  Columns("transfer_templates", {}, {}, {"custom_interval_days"}), "lenient")>>,
     down |-> <<Discard("transfer_templates", {"custom_interval_days"}, "lenient")>>]

\* The column comes nullable, every row gets the oldest user or goes, and then it is
\* NOT NULL.
UserColumn(t, key, mode) ==
    LET fk == Key(t, key, "user_id", "users", "CASCADE")
    IN  [up |-> <<Add(t, Columns(t, {}, {}, {"user_id"}), mode), Uses("users", {"createdAt"}),
                  Alter(t, Columns(t, {"user_id"}, {}, {})), Discard(t, {key}, "lenient"), Add(t, {fk}, "strict")>>,
         down |-> <<Discard(t, {key}, "lenient"), Discard(t, {"user_id"}, "lenient")>>]

AddUserIdToAccountsCategoriesTransactions ==
    LET accounts == UserColumn("accounts", "fk_accounts_user_id", "guarded")
        categories == UserColumn("categories", "fk_categories_user_id", "guarded")
        transactions == UserColumn("transactions", "fk_transactions_user_id", "guarded")
    IN  [up |-> accounts.up \o categories.up \o transactions.up,
         down |-> transactions.down \o categories.down \o accounts.down]

AddUserIdToDebts == UserColumn("debts", "fk_debts_user_id", "guarded")

CreateBudgetDetailsTable ==
    [up |-> <<Create("budget_details",
                  Table("budget_details", {"budgetId", "label"}, {"id", "sortOrder"} \union Stamps,
                        {"description", "estimatedAmount"})
                  \union {Key("budget_details", "FK_budget_details_budget", "budgetId", "budgets", "CASCADE")},
                  "lenient")>>,
     down |-> <<Drop("budget_details", "lenient")>>]

AddAmountAutoCalculatedToBudgets ==
    [up |-> <<Add("budgets", Columns("budgets", {}, {"amountAutoCalculated"}, {}), "lenient")>>,
     down |-> <<Discard("budgets", {"amountAutoCalculated"}, "lenient")>>]

CreateWaitingListTable ==
    [up |-> <<Create("waiting_list",
                  Table("waiting_list", {"email"}, {"id", "created_at", "updated_at"}, {"description"}),
                  "lenient")>>,
     down |-> <<Drop("waiting_list", "lenient")>>]

CreateAiRegisterJobsTable ==
    [up |-> <<Create("ai_register_jobs",
                  Table("ai_register_jobs", {"user_id", "file_key", "file_name", "file_size", "mime_type"},
                        {"id", "status", "created_at", "updated_at"},
                        {"user_text", "error", "extracted_payload", "created_transaction_id"}),
                  "lenient")>>,
     down |-> <<Drop("ai_register_jobs", "lenient")>>]

CreatePasswordResetsTable ==
    [up |-> <<Create("password_resets",
                  Table("password_resets", {"user_id", "code_hash", "expires_at"},
                        {"id", "attempts", "created_at"},
                        {"verified_at", "reset_token_hash", "reset_token_expires_at", "used_at"})
                  \union {Key("password_resets", "FK_finance_password_resets_user_id", "user_id", "users", "CASCADE")},
                  "lenient")>>,
     down |-> <<Drop("password_resets", "lenient")>>]

AddTwoFactorAuth ==
    [up |-> <<Add("users", Columns("users", {}, {"twoFactorEnabled"}, {}), "lenient"),
              Create("two_factor_challenges",
                  Table("two_factor_challenges",
                        {"user_id", "purpose", "code_hash", "expires_at", "last_sent_at"},
                        {"id", "attempts", "send_count", "created_at"}, {"token_hash", "used_at"})
                  \union {Key("two_factor_challenges", "FK_finance_two_factor_challenges_user_id",
                              "user_id", "users", "CASCADE")},
                  "lenient")>>,
     down |-> <<Drop("two_factor_challenges", "lenient"), Discard("users", {"twoFactorEnabled"}, "lenient")>>]

AddDescriptionToTransferTemplates ==
    [up |-> <<Add("transfer_templates", Columns("transfer_templates", {}, {}, {"description"}), "lenient")>>,
     down |-> <<Discard("transfer_templates", {"description"}, "lenient")>>]

\* Every row gets a category, by its text or a fallback, before the column is NOT NULL;
\* on the way back the text is filled in before it is NOT NULL again.
AddCategoryIdToTransactions ==
    LET t == "transactions" IN
    [up |-> <<Add(t, Columns(t, {}, {}, {"category_id"}), "lenient"),
              Uses(t, {"user_id", "category", "type", "description"}),
              Uses("categories", {"user_id", "name", "type", "isActive", "isDefault", "createdAt"}),
              Alter(t, Columns(t, {"category_id"}, {}, {})),
              Add(t, {Key(t, "FK_transactions_category", "category_id", "categories", "RESTRICT")}, "strict"),
              Alter(t, Columns(t, {}, {}, {"category"}))>>,
     down |-> <<Uses(t, {"category"}), Alter(t, Columns(t, {"category"}, {}, {})),
                Discard(t, {"FK_transactions_category"}, "lenient"), Discard(t, {"category_id"}, "lenient")>>]

AddLoginLockoutToUsers ==
    LET columns == Columns("users", {}, {"failedLoginAttempts"}, {"lockedUntil"})
    IN  [up |-> <<Add("users", columns, "lenient")>>, down |-> <<Discard("users", Names(columns), "lenient")>>]

CreateAiUsageTable ==
    [up |-> <<Create("ai_usage",
                  Table("ai_usage", {"user_id", "endpoint"},
                        {"id", "calls", "input_tokens", "cached_tokens", "output_tokens", "cost_usd",
                         "unpriced_calls", "created_at"}, {"model"})
                  \union {Key("ai_usage", "FK_finance_ai_usage_user_id", "user_id", "users", "CASCADE")},
                  "lenient")>>,
     down |-> <<Drop("ai_usage", "lenient")>>]

\* Mutant: the text does not become account again.
LinkTransactionsToAccountsMutant ==
    LET t == "transactions"
        fk == Key(t, "FK_finance_transactions_account_id", "account_id", "accounts", "RESTRICT")
        type == Check(t, "CHK_finance_transactions_type")
    IN  [up |-> <<Add(t, Columns(t, {}, {}, {"account_id"}), "lenient"), Uses(t, {"user_id", "account"}),
                  Uses("accounts", {"user_id", "name"}), Rename(t, "account", "legacy_account"),
                  Alter(t, Columns(t, {}, {}, {"legacy_account"})), Add(t, {fk}, "strict"),
                  Add(t, {type}, "strict")>>,
         down |-> <<Discard(t, {type[3]}, "lenient"), Discard(t, {fk[3]}, "lenient"),
                    Discard(t, {"account_id"}, "lenient")>>]

\* The text of the account becomes legacy_account, and on the way back account again.
LinkTransactionsToAccounts ==
    LET t == "transactions"
        fk == Key(t, "FK_finance_transactions_account_id", "account_id", "accounts", "RESTRICT")
        type == Check(t, "CHK_finance_transactions_type")
    IN  [up |-> <<Add(t, Columns(t, {}, {}, {"account_id"}), "lenient"), Uses(t, {"user_id", "account"}),
                  Uses("accounts", {"user_id", "name"}), Rename(t, "account", "legacy_account"),
                  Alter(t, Columns(t, {}, {}, {"legacy_account"})), Add(t, {fk}, "strict"),
                  Add(t, {type}, "strict")>>,
         down |-> <<Discard(t, {type[3]}, "lenient"), Discard(t, {fk[3]}, "lenient"),
                    Uses(t, {"account_id"}), Rename(t, "legacy_account", "account"),
                    Alter(t, Columns(t, {"account"}, {}, {})), Discard(t, {"account_id"}, "lenient")>>]

\* Mutants: a column of the entity is missing, or stays behind.
AddSessionSecurityMutant ==
    [up |-> <<Add("users", Columns("users", {}, {"tokenVersion"}, {}), "lenient")>>,
     down |-> <<Discard("users", {"tokenVersion"}, "lenient")>>]
AddSessionSecurityStaysMutant ==
    [up |-> <<Add("users", Columns("users", {}, {"tokenVersion"}, {}), "lenient"),
              Add("two_factor_challenges", Columns("two_factor_challenges", {}, {}, {"payload"}), "lenient")>>,
     down |-> <<Discard("users", {"tokenVersion"}, "lenient")>>]

AddSessionSecurity ==
    [up |-> <<Add("users", Columns("users", {}, {"tokenVersion"}, {}), "lenient"),
              Add("two_factor_challenges", Columns("two_factor_challenges", {}, {}, {"payload"}), "lenient")>>,
     down |-> <<Discard("two_factor_challenges", {"payload"}, "lenient"),
                Discard("users", {"tokenVersion"}, "lenient")>>]

AddTransferDestinationToTransactions ==
    LET t == "transactions"
        fk == Key(t, "FK_finance_transactions_to_account_id", "to_account_id", "accounts", "RESTRICT")
        destination == Check(t, "CHK_finance_transactions_to_account")
    IN  [up |-> <<Add(t, Columns(t, {}, {}, {"to_account_id"}), "lenient"), Add(t, {fk}, "strict"),
                  Uses(t, {"type", "account_id"}), Add(t, {destination}, "strict")>>,
         down |-> <<Discard(t, {destination[3]}, "lenient"), Discard(t, {fk[3]}, "lenient"),
                    Discard(t, {"to_account_id"}, "lenient")>>]

Scripts == <<
    AddCategoryType, CreatePaymentPlannerTables, Init1759125617618, Init1759400932828,
    Init1759485537622, Init1764824271452, Init1765858404352, Init1765859575559,
    Init1765859774198, Init1765967328751, CreateFinanceSchemaAndAccounts, CreateUsersTable,
    Init1773624575759, Init1773626704216, Init1773626958485, AddRecurringToDebts,
    Init1773745696294, CreateBudgetsTable, AddBalanceToAccounts, AddIsCreditToAccounts,
    AddCreditCardFieldsToAccounts, AddAccountIdToDebts, CreateTransferTemplatesTable,
    CreateRemindersTable, AddCustomIntervalToTransferTemplates,
    AddUserIdToAccountsCategoriesTransactions, AddUserIdToDebts, CreateBudgetDetailsTable,
    AddAmountAutoCalculatedToBudgets, CreateWaitingListTable, CreateAiRegisterJobsTable,
    CreatePasswordResetsTable, AddTwoFactorAuth, AddDescriptionToTransferTemplates,
    AddCategoryIdToTransactions, AddLoginLockoutToUsers, CreateAiUsageTable,
    LinkTransactionsToAccounts, AddSessionSecurity, AddTransferDestinationToTransactions >>

=============================================================================
