------------------------------ MODULE Startup ------------------------------
(***************************************************************************)
(* The start of the server (main.go, store/open.go, auth.NewAuth): tables  *)
(* and columns are made or added in the order of Open, the data of older   *)
(* versions is imported and brought up to date, then requests are served.  *)
(*                                                                         *)
(* Nothing surrounds the steps with a transaction: the process may stop    *)
(* between any two SQL statements, and the next start goes through all of  *)
(* them again.  A statement on a table that is not there ends the process. *)
(*                                                                         *)
(* Left out: types and defaults of columns, indexes, the lists of prices   *)
(* and plans that a new database gets.  Columns added together are one.    *)
(* The bank account of old settings is in module BankAccounts.             *)
(***************************************************************************)
EXTENDS Integers, Sequences, FiniteSets

CONSTANTS
    OldTasks,       \* the tasks of an old database, or of data.json
    Companies,      \* company names
    CompanyOf,      \* task -> its company_name, NoName when blank
    MaxStops        \* bound: how often the process stops

NoName == "no name"

ASSUME StartupAssumption ==
    /\ NoName \notin Companies
    /\ CompanyOf \in [OldTasks -> Companies \cup {NoName}]
    /\ MaxStops \in Nat

(* The columns of a CREATE TABLE are those a later step adds as well: where *)
(* the table exists, the statement does not add them.                      *)
Create(t, columns) == [op |-> "create", table |-> t, columns |-> columns]
Alter(t, column) == [op |-> "alter", table |-> t, columns |-> {column}]
Run(op, t, column) == [op |-> op, table |-> t, columns |-> {column}]

SchemaSteps ==
    << Create("customers", {}), Create("tasks", {"customer_id"}),
       Create("price_items", {}), Create("app_user", {}),
       Create("invoices", {}),
       Alter("app_user", "row 1") >>

UserSteps ==
    << Alter("app_user", "role"), Create("app_sub_users", {}),
       Alter("app_sub_users", "status"), Create("user_features", {}),
       Create("viewer_employees", {}) >>

SettingsSteps ==
    << Alter("invoices", "task_ids_json"),
       Create("app_settings", {"bank_account", "base_currency"}),
       Alter("app_settings", "bank_account"),
       Create("bank_accounts", {}), Alter("bank_accounts", "company_id") >>

CustomerSteps ==
    << Alter("customers", "status"), Alter("tasks", "customer_id") >>

ImportSteps ==
    << Run("import", "tasks", "customer_id"),
       Run("list", "tasks", "customer_id"),
       Run("link", "customers", "status") >>

ExpenseSteps ==
    << Create("expenses", {"account_code", "expense_date"}),
       Alter("expenses", "account_code"), Create("expense_codes", {}),
       Alter("expenses", "expense_date"),
       Run("date", "expenses", "expense_date"),
       Create("expense_vendors", {}), Alter("expenses", "vendor_id") >>

RateSteps ==
    << Alter("app_settings", "base_currency"),
       Alter("app_settings", "company_phone"),
       Create("exchange_rates", {}), Create("exchange_rate_watchlist", {}) >>

CompanySteps ==
    << Create("payroll_companies", {"owner_username"}),
       Alter("payroll_companies", "owner_username"),
       Run("own", "payroll_companies", "owner_username"),
       Alter("payroll_companies", "city") >>

PayrollSteps ==
    << Create("payroll_employees", {}), Create("payroll_periods", {}),
       Create("payroll_entries", {}), Create("payroll_earnings_codes", {}),
       Create("payroll_entry_earnings", {}),
       Alter("payroll_earnings_codes", "multiplier"),
       Create("payroll_company_rules", {}) >>

EmployeeSteps ==
    << Alter("payroll_employees", "vacation_balance"),
       Alter("payroll_entries", "payment_type"),
       Alter("payroll_employees", "address"),
       Create("payroll_rate_settings", {"provincial_json"}),
       Alter("payroll_rate_settings", "provincial_json"),
       Create("payroll_plans", {}) >>

YearEndSteps ==
    << Create("payroll_year_end_returns", {}), Create("payroll_t4_slips", {}),
       Create("payroll_t4_summary", {}),
       Create("payroll_year_end_audit_logs", {}) >>

RoeSteps ==
    << Alter("payroll_employees", "termination_date"),
       Create("payroll_roe", {}), Create("payroll_roe_audit_logs", {}),
       Create("payroll_year_locks", {}) >>

(* Open, then NewAuth.                                                     *)
Before == SchemaSteps \o UserSteps \o SettingsSteps
After ==
    ExpenseSteps \o RateSteps \o CompanySteps \o PayrollSteps
    \o EmployeeSteps \o YearEndSteps \o RoeSteps
    \o << Run("users", "app_user", "row 1") >>
ImportFirst == Before \o ImportSteps \o CustomerSteps \o After   \* mutant
Open == Before \o CustomerSteps \o ImportSteps \o After

Steps == 1 .. Len(Open)
Up == Len(Open) + 1

VARIABLES
    made,       \* the steps whose table or column the database has
    at,         \* the next step of the start; Up: requests are served
    stored,     \* the old tasks in the tasks table
    priced,     \* whether there are price items
    json,       \* whether data.json is there
    customers,  \* the names in the customers table, C0001 first
    customer,   \* task -> its customer's place in that table, 0: blank
    todo,       \* backfill: the tasks yet to be linked
    found,      \* backfill: nameToID, 0: not yet
    undated,    \* some expense has no date
    orphaned,   \* some payroll company has no owner
    admin,      \* app_user has a name
    late,       \* ... and got it after this start gave out the companies
    split,      \* history: companies a stop cut in two, or imported again
    stops

startVars == <<made, at, stored, priced, json, customers, customer, todo,
               found, undated, orphaned, admin, late, split, stops>>

schema == <<made>>
tasks == <<stored, priced, json, customer>>
backfill == <<customers, todo, found>>
others == <<undated, orphaned, admin, late>>

Step(i) == Open[i]
Everything == {i \in Steps : Step(i).op \in {"create", "alter"}}

(* What the first n steps made when they were the last ones there were.    *)
Version(n) == {i \in Everything : i <= n}

(* The step that makes a table, and those that add the columns.            *)
TableOf == [i \in Steps |->
    {j \in Steps : Step(j).op = "create" /\ Step(j).table = Step(i).table}]
ColumnsOf == [i \in Steps |->
    {j \in Steps : Step(j).op = "alter" /\ Step(j).table = Step(i).table
                      /\ Step(j).columns \subseteq Step(i).columns}]

Has(t) == \E i \in made : Step(i).op = "create" /\ Step(i).table = t
HasColumn(t, c) == \E i \in made : Step(i) = Alter(t, c)

StartInit ==
    /\ \E n \in 0 .. Len(Open) : made = Version(n)
    /\ at = 1
    /\ stored \in {{}, OldTasks}
    /\ stored # {} => Has("tasks")
    /\ priced = (stored # {})
    /\ json \in BOOLEAN
    /\ customers = << >>
    /\ customer = [t \in OldTasks |-> 0]
    /\ todo = {}
    /\ found = [n \in Companies |-> 0]
    /\ undated = (Has("expenses") /\ ~HasColumn("expenses", "expense_date"))
    /\ orphaned = (Has("payroll_companies")
                      /\ ~HasColumn("payroll_companies", "owner_username"))
    /\ admin \in BOOLEAN
    /\ admin => HasColumn("app_user", "row 1")
    /\ late = FALSE
    /\ split = {}
    /\ stops = 0

-----------------------------------------------------------------------------
(* The next step is one of this kind, and what it works on is there: the   *)
(* table, and the column that is read or written.  A row of app_user       *)
(* counts as a column.                                                     *)
IsAt(op) ==
    /\ at \in Steps
    /\ Step(at).op = op
    /\ op # "create" => TableOf[at] \subseteq made
    /\ op \notin {"create", "alter"} => ColumnsOf[at] \subseteq made
Next1 == at' = at + 1

CreateTable ==
    /\ IsAt("create")
    /\ made' = IF at \in made THEN made ELSE made \cup {at} \cup ColumnsOf[at]
    /\ Next1
    /\ UNCHANGED <<tasks, backfill, others, split, stops>>

(* The columns in PRAGMA table_info are skipped.                           *)
AddColumn ==
    /\ IsAt("alter")
    /\ made' = made \cup {at}
    /\ Next1
    /\ UNCHANGED <<tasks, backfill, others, split, stops>>

(* migrateLegacyJSON: one transaction, and only into an empty database.    *)
Imports == stored = {} /\ ~priced
MigrateLegacyJSON ==
    /\ IsAt("import")
    /\ priced' = TRUE
    /\ IF Imports /\ json
       THEN /\ stored' = OldTasks
            /\ customer' = [t \in OldTasks |-> 0]
            /\ split' = split \cup {n \in Companies :
                                       \E i \in DOMAIN customers : customers[i] = n}
       ELSE UNCHANGED <<stored, customer, split>>
    /\ Next1
    /\ UNCHANGED <<schema, json, backfill, others, stops>>

(* migrateCustomersBackfill reads the tasks without a customer ...         *)
Unlinked == {t \in stored : customer[t] = 0 /\ CompanyOf[t] # NoName}
OnlyOnce == IF customers = << >> THEN Unlinked ELSE {}      \* mutant
ToLink == Unlinked
ListUnlinked ==
    /\ IsAt("list")
    /\ todo' = ToLink
    /\ found' = [n \in Companies |-> 0]
    /\ Next1
    /\ UNCHANGED <<schema, tasks, customers, others, split, stops>>

(* ... and for each inserts a customer, when its name had none ...         *)
NewForEach(n) == TRUE                                       \* mutant
NeedsCustomer(n) == found[n] = 0
InsertCustomer(t) ==
    /\ IsAt("link")
    /\ t \in todo
    /\ NeedsCustomer(CompanyOf[t])
    /\ customers' = Append(customers, CompanyOf[t])
    /\ found' = [found EXCEPT ![CompanyOf[t]] = Len(customers) + 1]
    /\ UNCHANGED <<schema, at, tasks, todo, others, split, stops>>

(* ... and then links the task to it.                                      *)
LinkTask(t) ==
    /\ IsAt("link")
    /\ t \in todo
    /\ found[CompanyOf[t]] # 0
    /\ customer' = [customer EXCEPT ![t] = found[CompanyOf[t]]]
    /\ todo' = todo \ {t}
    /\ UNCHANGED <<schema, at, stored, priced, json, customers, found, others,
                   split, stops>>

BackfillDone ==
    /\ IsAt("link")
    /\ todo = {}
    /\ Next1
    /\ UNCHANGED <<schema, tasks, backfill, others, split, stops>>

(* Every start dates what has no date, from created_at.                    *)
DateExpenses ==
    /\ IsAt("date")
    /\ undated' = FALSE
    /\ Next1
    /\ UNCHANGED <<schema, tasks, backfill, orphaned, admin, late, split,
                   stops>>

(* Every start gives the companies without an owner to the administrator.  *)
OwnCompanies ==
    /\ IsAt("own")
    /\ orphaned' = (orphaned /\ ~admin)
    /\ Next1
    /\ UNCHANGED <<schema, tasks, backfill, undated, admin, late, split,
                   stops>>

(* NewAuth: users.json or AUTH_PASSWORD, which need not be there, make the *)
(* first user when there is none.                                          *)
FirstUser ==
    /\ IsAt("users")
    /\ \/ ~admin /\ admin' = TRUE /\ late' = TRUE
       \/ UNCHANGED <<admin, late>>
    /\ Next1
    /\ UNCHANGED <<schema, tasks, backfill, undated, orphaned, split, stops>>

Advance ==
    \/ CreateTable \/ AddColumn
    \/ MigrateLegacyJSON \/ ListUnlinked \/ BackfillDone
    \/ \E t \in OldTasks : InsertCustomer(t) \/ LinkTask(t)
    \/ DateExpenses \/ OwnCompanies \/ FirstUser

-----------------------------------------------------------------------------
(* Served: somebody sets up the first user, or deletes tasks and prices.   *)
Setup ==
    /\ at = Up /\ ~admin
    /\ admin' = TRUE /\ late' = TRUE
    /\ UNCHANGED <<schema, at, tasks, backfill, undated, orphaned, split,
                   stops>>

DeleteAll ==
    /\ at = Up /\ priced
    /\ stored' = {} /\ priced' = FALSE
    /\ customer' = [t \in OldTasks |-> 0]
    /\ UNCHANGED <<schema, at, json, backfill, others, split, stops>>

(* The companies with a new customer and tasks not yet linked to it.       *)
Cut == {CompanyOf[t] : t \in {u \in todo : found[CompanyOf[u]] # 0}}

Stop ==
    /\ stops < MaxStops
    /\ stops' = stops + 1
    /\ at' = 1
    /\ split' = split \cup Cut
    /\ todo' = {}
    /\ found' = [n \in Companies |-> 0]
    /\ late' = FALSE
    /\ UNCHANGED <<schema, tasks, customers, undated, orphaned, admin>>

StartNext == Advance \/ Setup \/ DeleteAll \/ Stop
StartFairness == WF_startVars(Advance)
StartSpec == StartInit /\ [][StartNext]_startVars /\ StartFairness

-----------------------------------------------------------------------------
StartTypeOK ==
    /\ made \subseteq Everything
    /\ at \in 1 .. Up
    /\ stored \subseteq OldTasks
    /\ priced \in BOOLEAN /\ json \in BOOLEAN
    /\ customers \in Seq(Companies)
    /\ customer \in [OldTasks -> 0 .. Len(customers)]
    /\ todo \subseteq stored
    /\ found \in [Companies -> 0 .. Len(customers)]
    /\ undated \in BOOLEAN /\ orphaned \in BOOLEAN
    /\ admin \in BOOLEAN /\ late \in BOOLEAN
    /\ split \subseteq Companies
    /\ stops \in Nat

(* A task is under a customer of its own company's name.                   *)
RightlyLinked(t) ==
    customer[t] # 0 => customers[customer[t]] = CompanyOf[t]

(* Whatever version the database is of, and however many starts were cut   *)
(* short: once requests are served, every table and column the code uses   *)
(* is there, every task with a company name is under a customer of that    *)
(* name, every expense has a date, and no payroll company is without an    *)
(* owner if the administrator was there when this start came to them       *)
(* (Open, open.go:93-288).                                                 *)
ServedReady ==
    at = Up =>
        /\ Everything \subseteq made
        /\ \A t \in stored : RightlyLinked(t)
                  /\ (CompanyOf[t] # NoName => customer[t] # 0)
        /\ ~undated
        /\ orphaned => ~admin \/ late

(* Tasks of one company name share one customer                            *)
(* (migrateCustomersBackfill, open.go:364), unless a start died between    *)
(* making the customer and linking the last of its tasks, or the tasks     *)
(* were imported again.                                                    *)
OneCustomerPerName ==
    \A i, j \in DOMAIN customers :
        i # j /\ customers[i] = customers[j] => customers[i] \in split

(* A start that is not stopped forever comes to serve requests, from any   *)
(* version: no step waits for a table or column that a later step makes.   *)
ComesUp == []<>(at = Up)
=============================================================================
