# SimpleTask: a verification project

TLA+ models of SimpleTask, the Go server for tasks, invoices and Canadian
payroll under `src/`, with the TLC runs that check them and the TLAPS proofs
about them. Paths below are relative to `src/`; `store/`, `api/` stand for
`internal/store/`, `internal/api/`.

## 1. The system

One process serves HTTP. Every request runs in its own goroutine and reaches
one SQLite database through one `Store` (`store/open.go`). Three facts decide
what can go wrong:

- **One mutex.** Most `Store` methods hold `Store.mu` from their first to their
  last statement, so a store method is atomic against the others. It is not
  reentrant.
- **One connection.** `SetMaxOpenConns(1)` (`store/open.go:102`): a statement
  outside the mutex is still atomic, but a method that keeps a result set open
  blocks every other statement.
- **Handlers are not atomic.** A handler calls several store methods and holds
  nothing in between; what it read may be stale when it writes. There are
  almost no SQL transactions, no foreign keys, and few UNIQUE constraints:
  the payroll tables have none beyond their primary keys.

### Components

| Component | State | Operations | What makes it correct |
|---|---|---|---|
| Payroll run (`store/payroll_periods.go`, `payroll_entries.go`, `payroll_earnings.go`, `api/payroll_run.go`) | periods (open, calculated, finalized), one entry per employee (draft, approved, calculated), extra earnings lines | open a period, fill and save entries, calculate, recalculate, finalize, delete, edit lines, override deductions | nobody is paid twice; a finalized period whose calculations are over stays; deductions belong to a computed pay; year-to-date figures count what the company paid before |
| Calculator (`internal/payroll/calculator`) | none: sums of the year come in, deductions go out | CPP, CPP2, EI, tax of one pay | the sums of a year depend on its earnings, not on how they were spread; annual maximums |
| Year-end T4 return (`store/payroll_year_end.go`) | return header, slips, summary, audit log | generate, regenerate, validate, finalize, contact | a finalized return is valid, consistent and immutable |
| Record of employment (`store/payroll_roe.go`) | ROE drafts and issued ROEs, serial numbers, audit log | generate, regenerate, edit, validate, issue | an issued ROE is immutable, one per employee, serials unique |
| Tasks, prices, invoices, expenses (`store/store.go`, `store/expenses.go`, `api/api.go`) | tasks and invoices with their status, what was paid, links between them | create, edit, delete, send, pay, synchronise prices | links stay whole; what is due is never understated; task status follows payment |
| Bank accounts and cheques (`store/bank_accounts.go`, `writecheque/`) | accounts, default account, cheque numbers | create, edit, delete, choose, take the next number | no number given out twice; the default exists and is the clerk's |
| Start and migrations (`main.go`, `store/open.go`) | tables, columns, data of older versions | some sixty steps, on every start | a start from any version, however often cut short, ends with everything in place |
| Exchange rates (`store/exchange_rates.go`, `exchange_watchlist.go`, `api/exchange_*.go`) | cached rates by day, the list of currencies | show the table, convert, edit the list | the rate of a day is kept once the day is over, unless someone asks for a day to come; a table is whole |
| Accounts and sessions (`internal/auth`) | administrator, users, a signing secret each | setup, register, log in, change and reset passwords, administer | one administrator; one account per name; an ended session stays ended |
| Employees, companies, customers, settings, vendors and codes | single rows | create, update, delete | mostly one statement each |
| Year lock (`store/payroll_year_lock.go`) | a flag | lock, unlock | none: no handler consults it |
| Reports, review, preview, mail, pages | none | read | none beyond locking |

`PROJECT.json` lists them all with their status, and under `hazards` each place
where an order of steps, a stale reading, a crash or a reused id matters.

### What is hard here

- A handler reads a status, releases the lock and writes another one by id
  (finalize, calculate, year-end finalize, ROE issue).
- Ids are "highest plus one": the id of a deleted last row is given out again
  while requests, earnings lines or other rows still refer to it.
- Rebuilding a return is a sequence of autocommitted statements: the process may
  die between any two of them.
- A calculation writes its results into the columns it reads its input from.
- The pages send whole rows, zero deductions included, over calculated ones.
- Payments, mailing and exchange rates do not take `Store.mu` at all: their
  statements fall between those of methods that do.
- Every start repeats all migrations on whatever the last one left.

## 2. Modules

| Module | Models |
|---|---|
| `PayrollRun` | the payroll run: 1 step per store method, requests with a program counter between them |
| `PeriodLifecycle` | abstract specification: the life of a pay period |
| `YearEnd` | the T4 return of one scope: 1 step per critical section, per SQL statement where a crash matters |
| `SealedDocument` | abstract specification: a form that is drafted at will, then sealed once and for all |
| `RecordOfEmployment` | the records of employment of one company: 1 step per critical section and per unlocked read |
| `Invoicing` | tasks, invoices, payments and expenses: 1 step per SQL statement |
| `BankAccounts` | bank accounts and cheque numbers: 1 step per SQL statement that writes |
| `Startup` | the start of the server on a database of any version: 1 step per table, column or row written |
| `ExchangeRates` | the cache of exchange rates: 1 step per read, fetch or transaction, and midnight |
| `Accounts` | accounts and sessions: 1 step per method of the user store |
| `Deductions` | CPP, CPP2 and EI of one employee over a year: 1 step per pay |
| `MCPayrollRun`, `MCYearEnd`, `MCRecordOfEmployment` | values of the constants for TLC |
| `MCOffice` | `BankAccounts`, `Startup`, `ExchangeRates`, `Accounts` and `Deductions` side by side, with their constants |
| `PayrollRunProofs`, `PayrollSerialProofs`, `YearEndProofs`, `RecordOfEmploymentProofs`, `InvoicingProofs`, `BankAccountsProofs`, `AccountsProofs`, `OfficeProofs` | theorems and proofs |

### PayrollRun

Variables are the tables: `status` and `company` (payroll_periods), `entries`
(payroll_entries), `lines` (payroll_entry_earnings), and `req`, what each request
in flight remembers between two store calls. `CreatePayrollPeriod` and
`DeletePayrollPeriod` are handlers that change the database under one lock. The
others are sequences: `PutStart PutEntry* PutEnd` (save entries), `InitStart
InitEntry* InitEnd` (drafts for all active employees), `FinalizeStart
FinalizeWrite`, `EarningsStart ReplaceEntryEarnings` and `OverrideStart
OverrideEntryDeductions` (the entry is read under one lock, and written, or its
lines are, under another), and for calculate and recalculate
`CalculateStart | RecalculateStart, CalculateList, (CalculateEntry
[CalculateVacation CalculateRefetch] CalculateSave)*, CalculateMark`, the loop
of `CalculatePeriod`.

Abstractions:
- The calculator's outcome is the gross pay it was computed from (`ded`; 0: never
  computed) and the set of periods its year-to-date figures sum (`ytd`), each
  with the company it was of; `company` is kept after a period is dropped, so
  that those are known. Two history fields are no columns: `base` (gross pay
  before lines were added) and a line's `for` (the employee it was entered
  for).
- All periods have a pay date in one calendar year; gross pays are cents, and
  positive (an entry of zero gross is calculated to zeros and is not told from
  one that was never computed).
- A bulk save names any employee, as the server accepts it: nothing compares the
  employee's company with the period's. Year-to-date figures of an employee who
  is also in another company's period count that period too, in whatever state it
  is; `YTDCountsPaidEarlierPeriods` is about the periods of the entry's company.
- A new period is open. The server would store a status sent in the body; the
  page sends none.
- Reads of one handler that follow each other without a write are one step.
- A client saves an entry with the status `keep` (none), or with `draft`,
  `approved` or `calculated`, which may be what the page read some time ago
  (`web/payments.html` and `web/salaries.html` send back what they loaded): the
  row may have become something else since. One sent back as calculated carries
  the deductions it was read with.
- The clerk's own deductions (`OverrideEntryDeductions`) count as computed for
  the gross pay they were entered beside.

Two specifications share the actions. `Spec` lets requests overlap at every
point where the code releases the lock. `SerialSpec` starts no request before
the last one ended: what one careful clerk does, and what the tests of the
repository do.

### YearEnd

Variables: `paid` and `profile` (the payroll and the employees the slips are
drawn from), `status`, `hash`, `slips`, `summary`, `log` (the tables of the
return) and `req`. `GenerateOrRegenerateDraft` takes the lock three times
(`ComputeSourceHash`, `AggregateT4`, and the rebuild); in the last section each
SQL statement is an action (`DeleteSlips`, `DeleteSummary`, `UpdateHeader`,
`InsertT4Slip`, `UpsertT4Summary`, `InsertAuditLog`) so that `Crash` can come
between two of them; `Locked` keeps all others out meanwhile, the unlocked reads
of other handlers do not concern this component. `YearEndFinalize` validates under one lock,
`FinalizeYearEndReturn` seals under the next.

A slip's boxes are one amount in cents, the sum of what the finalized periods
paid the employee, which may be zero; the validation compares totals with the
code's tolerance, about a cent for each slip and one more (`Tolerance`). The
source hash is the set of periods it is computed from; a SQL error
that leaves the process alive is not modelled.

### RecordOfEmployment

Variables: `paid` (the finalized payroll), `roes` (the table), `clock`
(`created_at` has seconds) and `req`. `GenerateROEDraft` is `ReadFinalPeriod |
NoFinalPeriod, ReadExisting | NoExisting | ExistingIssued, BuildROEPeriods,
ComputeROESourceHash`, then `InsertFirst` for an employee without a record or
`DeleteROE InsertAgain` for one with a draft. The readings of the final period,
the existing record and the source hash are outside the mutex; `Locked` (a
request between its DELETE and its INSERT) keeps out the steps that take it and
lets those readings pass. `IssueROE` is validated twice under locks of their own
(`RoeIssue`, `IssueValidate`) and written under a third. `Crash` may fall
anywhere. The history variable `overlapped` names the employees on whom two
requests were ever under way at once; the code does not keep it, three
properties are about the others.

Abstractions: periods are numbered in the order of their ends; block 15B is the
set of periods in it, without amounts; the blocks a clerk completes are one flag;
SIN, province and pay frequency are present; the source hash and the audit log
are written and never read back, and are left out.

### Invoicing

Variables: `tasks`, `invoices`, `expenses` (the tables), `taskSeq` (the counter
in memory), `lastInvoice`, `req`, and two history variables. Handlers that hold
`Store.mu` between statements are at a step in `Holding`; `MuFree` keeps out
those that take it. `UpdateTask UpdateTaskCore`, `CheckDelete DeleteTask`,
`ValidateInvoice (CreateInvoice MarkInvoiced* | InsertFails)` and
`DeleteInvoice RevertToDone*` are under the lock. `HandleInvoiceSend
(MarkInvoiceSent ReadSent MarkTaskSent* | SendFails)` and `AddInvoicePayment
ReadPaid MarkTaskPaid* SavePayment` are not: they come between any two steps.
`SyncPendingTasksForPriceID` with a task to write waits for the connection that
its own query holds: the process is `Hung` and no statement runs until a
restart. `Crash` loses the requests; the next start reads the highest task id
(`RebuildTaskSeq`). `overwritten` names the tasks an update wrote over while they
were paid, `disturbed` the invoices on which payments overlapped or died, `lost`
those of them on which a crash lost one; no code keeps them, and the properties
that hold only otherwise name them.

Abstractions: prices, texts and dates; an invoice has a total that is given; a
request that is refused before it wrote anything is left out. A new invoice is a
draft of which nothing is paid, and an edit of a task sends `Pending` or `Done`,
as the page does: the server checks neither the status nor the amount paid that
a client sends with an invoice, nor the status sent with a task.

### BankAccounts

Variables: `opened` and `number` (the table), `default` and `legacy` (the
settings), `starting` (the migration of the account in old settings), `call`
(the statement a method is about to run, with `Store.mu` held) and four history
variables. A method of two statements is two steps (`CreateBankAccount
CreateEnd`, `DeleteBankAccount DeleteEnd`, `SetDefaultBankAccount
SetDefaultEnd`, `IncrementDefaultChequeNumber IncrementEnd`, `MigrateInsert
MigrateDefault`), and `BankCrash` may come between them. A cheque number is a
number, 0 for a text without digits and `MaxNumber + 1` for one that is not a
64-bit number.

### Startup

`Open` is the sequence of steps of `store.Open` and `auth.NewAuth`: tables that
are created, columns that are added, and five steps on data (the import of
`data.json`, listing and linking tasks without a customer, dating expenses,
giving companies an owner, the first user). `made` says which tables and columns
there are; a database of an old version is one for which only a beginning of the
list ever ran. A step on data is possible only when the table and the column it
uses are there; the code would end the process otherwise. `Stop` may come
anywhere, within the backfill too. `Setup` and `DeleteAll` are what requests may
do before the next start. `split` is a history variable: the names that a stop
cut in two, or that were imported again.

### ExchangeRates

Variables: `base`, `watch`, `rate` (tables), `today` (the clock) and `reader`
(requests in flight, table or conversion). None of this code takes the mutex, so
each read is a step, and `SetBaseCurrency`, the list's handlers and `Midnight`
come between. A rate is what is known of its age: `final` when it was fetched
after its day was over, else `moving`. A request may be for a day to come, whose
rates the code saves like those of a day gone by, even when the service answers,
or the answer is saved, on the day itself; the history variable `ahead` names the
days that were asked for so. The service answers with the codes it knows or not
at all.

### Accounts

Variables: `primary` (app_user), `role`, `active`, `secret` (app_sub_users and
the administrator's secret), `drawn`, `cookies` and `visitor` (requests in
flight). A handler asks (`HandleSetup`, `HandleRegister`, `HandleLogin`,
`HandleChangePassword`, `ValidSessionInfo CheckRole`) and then acts
(`CreateFirstUser`, `RegisterUser`, `SetSessionCookie`, `ChangePasswordFor`,
`CreateUser`, `DeleteUser`, and up to three changes of a PUT, `SetUserRole`,
`SetUserStatus`, `AdminResetPassword`); others come in between. A secret is a
number never drawn before.

### Deductions

`Calculate` is `calculator.Calculate` on an entry with a base pay and one
earnings line, with the year-to-date sums of the pays before it. `CPP`, `CPP2`
and `EI` round as the code does, to a hundredth of a cent and then to a cent.
Amounts are exact; the code's floating-point sums are not. `eligible`, `fellBack`
and `small` are history variables. The reference is a closed form on the sums of
the year, within the rounding of each pay.

## 3. Runs

| Run | Checks | Bounds |
|---|---|---|
| `payroll_run` | `TypeOK`, `OneEntryPerEmployee`, `CalculatedWasPriced`, `SettledForGood`, `CalculatedDeductionsKept` of `Spec` | 1 employee, 2 requests to any endpoint, 2 period ids, 2 entry ids |
| `payroll_serial` | `OneUnfinishedPeriod`, `YTDCountsPaidEarlierPeriods`, `EntriesHavePeriod`, `FollowsLifecycle` of `SerialSpec` | 2 companies, an employee with vacation pay and a contractor, 3 period ids, 3 entry ids, the endpoints the pages call but those for lines and overrides |
| `year_end` | `TypeOK`, `FinalizedTotals`, `OneSlipPerEmployee`, `FinalizedOnce`, `FollowsSealing` | 2 employees, one without pay and one with 2 cents, 1 period that is finalized and dropped at will, 2 requests, 2 generations, crashes |
| `roe` | `TypeOK`, `NumbersDistinct`, `WorksOnOwnRoe`, `OneRoePerEmployee`, `IssuedIsValid`, `IssuedStaysUnlessOverlapped` | 2 employees, 2 requests, 1 period that is finalized and dropped at will, 2 seconds, 2 serial numbers, crashes |
| `invoicing` | `TypeOK`, `LinkedTasksExist`, `NeverUnderstated`, `BalanceExact`, `PaidInvoicePaidTasks`, `SettledTasksPaid` | 2 requests, 2 tasks, 1 invoice of total 2, 1 expense, payments of 1 and 2 up to 3, crashes |
| `office` | `OfficeTypeOK`; bank accounts: `NumbersGivenOnce`, `DefaultExists`, `DefaultKept`; start: `ServedReady`, `OneCustomerPerName`, `ComesUp`; exchange rates: `NoMovingRateKept`, `TableWhole`; accounts: `OneAccountPerName`, `PrimaryKept`, `EndedSessionsStayEnded`; deductions: `ContributionsFollowEarnings`, `PremiumsFollowEarnings` | 2 accounts, cheque numbers to 2 and beyond; 3 old tasks, one without a company, 1 company name, 2 stops; 2 requests, 2 currencies, 2 days; 2 users, 2 requests, 3 secrets; the rates of 2026, 12 pays of 0 or 9000 with or without a line |
| `payroll_unfinished` | `OneUnfinishedPeriod` fails for overlapping requests | finding |
| `payroll_regross` | `ApprovedHoldsBaseGross` fails | finding |
| `payroll_leftover` | `EarningsAreTheEntrysOwn` fails | finding |
| `year_end_validated` | `FinalizedIsValid` fails | finding |
| `roe_reissued` | `IssuedStays` fails | finding |
| `paid_task` | `PaidTaskStays` fails | finding |

The five parts of `office` share neither tables nor a lock. `part` is chosen at
the start and only that part moves, so a behaviour of `OfficeSpec` is a behaviour
of one of them; their product would only repeat each one's states.

### Fairness

Only where the process goes on by itself:

- `Invoicing`: weak fairness of `Step(r)`, the next statement of a request that
  has begun. Its handler is a goroutine that waits for nothing but the
  connection, which `database/sql` hands over in the order of asking. Nobody has
  to send a request, and nothing has to crash. `SettledTasksPaid`: once what was
  paid reaches the total, the tasks of the invoice become paid, however payments
  overlap on it and with mailing it; excepted are a hung process, an invoice on
  which a crash lost a payment (`lost`), a task an update wrote over and an
  invoice that was deleted.
- `Startup`: weak fairness of `Advance`. `Open` runs its steps one after the
  other and waits for nothing. `ComesUp`: a start that is not stopped for ever
  comes to serve requests. `MaxStops` bounds the stops.

All other properties are safety properties.

### Why the bounds are enough

The races of the payroll run are between two requests on one entry or one
period; ids are reused as soon as a period or entry is dropped, which 2 period
ids and 2 entry ids allow; a third request, employee or period adds no new kind
of step. The serial run has 3 periods so that year-to-date figures reach over a
paid period, and 2 companies so that opening a period of one must leave the
other's alone. In the year-end run two generations and a finalization overlap in
every order, with a payroll that changes in between and slips for zero, one or
two employees. In `roe` the two requests may be about one employee or about two,
whose records then compete for the id a DELETE has freed; two seconds let the
newest record be one or several; with one period block 15B is empty or not,
which is all that validation asks. In `invoicing` two payments may each be part
of the total, all of it or more than it, they overlap with each other, with
mailing and with every locked method, and the loops over linked tasks take zero,
one or two turns. In `office`, two numbers reach the end of the 64-bit numbers in
two steps; the backfill has two tasks of one name, so that a stop falls between
them, and a start from every version of the list; two days are one midnight; two
visitors and two names are what a race for a name needs; twelve monthly pays
cross every ceiling of the year in the middle of a pay.

Guards that are bounds of the model and not of the code: `MaxGross` and
`IdsLeft` in `PayrollRun`; `MaxLog` in `YearEnd`; `MaxClock` and `MaxSerial` in
`RecordOfEmployment`; `MaxTask`, `MaxInvoice`, `MaxExpense` and `MaxPaid` in
`Invoicing`; `MaxAccount` and `MaxNumber` in `BankAccounts`; `MaxStops` in
`Startup`; `LastDay` in `ExchangeRates`; `MaxSecrets` in `Accounts`; no more
than `perYear` pays in `Deductions`. Deadlock is checked by all runs but
`office`, where a part stops at its bound (no stop, secret or pay is left).

### Findings

- `payroll_unfinished`: finalize and calculate write the status by id without
  looking at it again (`api/payroll_run.go:235`, `store/payroll_entries.go:434`).
  A calculation in flight turns a period that was finalized meanwhile back to
  calculated after the next one was opened.
- `payroll_regross`: the calculated total, earnings lines included, overwrites
  the gross pay that the next calculation takes as its base
  (`store/payroll_entries.go:379`).
- `payroll_leftover`: dropping a period leaves the earnings lines of its entries
  (`store/payroll_periods.go:83`); a later entry that gets the id inherits them.
- `year_end_validated`: a regeneration between validation and finalization is
  sealed unvalidated (`store/payroll_year_end.go:190`).
- `roe_reissued`: a generation reads the status of the existing record without
  the lock (`store/payroll_roe.go:427`) and deletes it by id later
  (`store/payroll_roe.go:464`): a record issued in between is replaced by a draft.
- `paid_task`: `UpdateTask` looks at the status under the lock
  (`store/store.go:317`) and writes the row it read (`store/store.go:294`); a
  payment, which does not take the lock, marks the task paid in between, and the
  task goes back to what it was.

Seen while modelling, where the code does what no document promises or forbids
and a property excepts it:

- A regeneration that dies between deleting the slips and the summary leaves a
  summary that counts slips which are gone. When they added up to a cent at most,
  the return validates and can be finalized (`store/payroll_year_end.go:611`,
  `753`): `SlipsGone` in `FinalizedTotals`.
- A rate asked for a day to come is saved, on the day itself too when the answer
  comes after midnight, and a conversion does not fetch it again
  (`api/exchange_convert.go:94`): `ahead` in `NoMovingRateKept`.
- A pay of which nothing is insurable is charged EI on all of it
  (`payroll/calculator/calculator.go:75`): `fellBack` in `PremiumsFollowEarnings`.
  What is left of the insurable maximum is measured by the whole gross pay
  (line 198), so that a pay with an uninsurable part may be charged too little
  later: the property bounds EI from below only while every pay was insurable as
  a whole.
- A client may save an employee of another company into a period
  (`api/payroll_run.go:149`); the year-to-date figures then count both.

Seen while reading, not checked by a run: `RunYearEndReview` locks `Store.mu`
twice and hangs on every call (`store/payroll_year_end_review.go:48`); the EI
rate of 2026 is 1.64 % for the server (`calculator/rates.go:97`) and 1.63 % for
the stand-alone library (`payroll/rates.go:27`), whose maximum both use.

## 4. Proofs

TLC checks small instances; these theorems hold for every value of the
constants that satisfies the named assumptions, `MaxPeriod`, `MaxEntry` and the
number of requests included.

- **`PayrollRunProofs`** (`Spec`, any overlap). `KeyInv` is the inductive
  invariant: types, one entry per id and per period and employee, and
  `WorkHasPeriod`: a request past its start remembers a period. `PriceInv` adds
  that what a calculation carries to its save (`cur`) is priced. From them
  `TypeCorrect`, `NoDoublePay`, `CalculatedIsPriced`, `DeductionsStay`, and
  `SettledStays`: no step of any request moves a finalized period of which no
  calculation is under way, and none can begin on it (`RequestsKeepFinalized`,
  `NoLateCalculation`), unless a clerk recalculates it or deletes it by force.
  A calculation that was under way when the period was finalized does reopen it,
  and the next opening then drops it: `payroll_unfinished` and the guard of
  `Settled`.
- **`PayrollSerialProofs`** (`SerialSpec`). `SerialInv` says that at most one
  request is under way and that its period is there: `NoOrphanEntry`.
  `StageInv` adds what the handler that is under way knows of its period's
  status: `OneUnfinished` (without the recalculate endpoint, which reopens
  finalized periods) and `Implements`, the refinement of `PeriodLifecycle`
  (without recalculate and delete). `LifecycleInv` gives `AtMostOne` of that
  abstract lifecycle. `YTDInv` gives `YTDOfPaidPeriods`: the property says
  nothing of why an entry only counts earlier periods, so the invariant adds that
  a company's unfinished period is its newest (`NewestUnfinished`), and says the
  same of every entry whatever its status, in the table and in the copies a
  request carries (`Fine`, `FineRequest`). No employee need belong to the company
  of the period. The assumptions on the
  endpoints are needed: without them TLC finds counterexamples.
- **`YearEndProofs`** (any overlap and any crash). `SealInv`: between the
  statements of a section its holder is alone (`OneHolder`), a section that
  rebuilds found a draft, the section that finalizes has not yet logged. From it
  `LogEndsWithFinalize` and `Implements`, the refinement of `SealedDocument`.
  `RowsInv` adds how far the rows are at each statement of a rebuild
  (`RowsAt`), what a request still has to insert (`MadeAt`), that a summary has
  the totals of its slips or was left behind by a process that died after
  deleting them (`SummaryOK`), and that from validation to sealing the return
  stays one that may be filed (`MayFile`, `ValidatedOK`), but while it is rebuilt
  under the lock. From it `TypeCorrect`, `FiledTotals`, `OneSlip`. That a total is
  a number is proved by induction on the number of slips in its form over sets (a
  set of numbers that is not empty has a least one): the library's induction
  theorems take an operator, which the installed provers cannot instantiate.
- **`RecordOfEmploymentProofs`** (any overlap and any crash). `RowsInv`: one
  request at most is between DELETE and INSERT (`OneHolder`), the id it is about
  to insert is free (`InsertFree`), and any other id a request remembers names a
  record of its employee. From it `TypeCorrect`, `DistinctNumbers`, `OwnRoe`.
  `UndisturbedInv` adds, for each employee on whom no two requests overlapped,
  what the one request under way knows of the employee's records; from both
  `OneRoe`, `ValidWhenIssued`, `IssuedForGood`. The restriction is needed:
  `roe_reissued` is the counterexample without it.

- **`InvoicingProofs`** (any overlap and any crash). `Base`: types, one holder of
  `Store.mu`, and a request remembers what fits its step. `LinkInv` adds
  `SeqOK` (the counter is not below an id in use) and `Claims` (a task about to
  be deleted is linked to nothing, a task about to be linked exists): from it
  `LinkedTasksStay`. `PayInv` adds what a payment carries: `Covers` (its balance
  is not too small for what was paid when it read), `PaidSoFar` (tasks it has
  gone through are paid when it saves the invoice as paid) and `Exact` (alone on
  its invoice, it carries the exact balance): from it `NeverTooLittle`,
  `PaidTasksOfPaidInvoice`, `BalanceIsExact`.
- **`BankAccountsProofs`** (any crash). `BankInv`: types, a method is under way
  only when the server is up, and the account it is about to write is in the
  table (`Holder`), and the numbers given out by an account whose number never
  went down are not above it (`UpToNumber`): from it `ChequeNumbersUnique`,
  `DefaultStaysInTable`, `OnlyClerksChoose`.
- **`AccountsProofs`** (any overlap and restarts). `AccountsInv`: types, the
  other users' rows come after the setup (`RowsAfterSetup`), and every secret in
  an account or a cookie was drawn (`SecretsDrawn`), so that a new one differs:
  from it `NamesUnique`, `FirstSetupWins`, `EndedSessions`.
- **`OfficeProofs`**, in four parts.
  - Exchange rates (any readers, currencies, days). `RatesInv`: the day a
    request is about to save is not the one its clock showed, or it knows not to
    save (`NotOfToday`); it asked before the service answered, so that the rates
    it saves of a day gone by when it asked are final (`ReaderAsked`); the other
    days it may save had not begun and are known (`CameEarly`); of a table, the
    days it has gone through have their rates (`ReaderWhole`), which stays so
    because no rate leaves the cache. From it `OnlySettledRates` and
    `WholeTables`.
  - Start (any tasks, companies, stops). `OpenOrder` derives from the concrete
    list of steps what the proof needs of it: the order of the backfill, the
    import and the last steps, and that each is there. `StartInv`: the steps
    behind the present one have made their tables and columns (`MadeSoFar`), a
    customer found for a name has that name, the tasks still to be linked are
    those without a customer (`LinkedSoFar`), and a name that already has a
    customer, and was not cut in two by a stop, has it at hand or has no task
    left (`OnlySplitNamesAgain`). From it `ServesWhenReady`, which holds of every
    prefix of the list as the old version and of stops at every step, and
    `CustomersNotDoubled`.
  - Deductions (any pays, number of pays, codes and rates). `DedInv` bounds each
    sum from both sides by rate times what it is due on, to 50.5 hundredths of a
    cent per pay, unless it is at its maximum. For CPP the earnings themselves
    would not do: a pay below its share of the exemption contributes nothing, so
    the invariant says that some sum of bases fits (`CPPSum`), and that this sum
    is the earnings less the exemption only while every pay reached its share.
    From it `ContributionsOfTheYear` and `PremiumsOfTheYear`. They assume
    `PublishedRates`, which TLC evaluates: annual maxima are whole cents and the
    CPP rate is at most one half, as in `calculator/rates.go`. The rates of a year
    that an administrator saves (`store/payroll_settings.go:91`) are not checked
    by the code; for rates outside these bounds the theorems say nothing.
  - The five parts side by side: `OfficeTypes`, from the invariants of the five.

Every safety and action property of the passing runs is stated by a theorem. Only
model-checked: the liveness properties `SettledTasksPaid` and `ComesUp`, since
liveness under fairness is out of reach of the provers, and the counterexamples of
the six runs that expect a violation.

## 5. Not modelled

- **Reports, reviews, previews, mail, pages, deployment**: they read, format or
  send, and keep no state of their own.
- **Single rows** (companies, plans, vendors, codes, rate settings, the details
  of customers and settings): one statement each, under the lock or not; no two
  of them relate.
- **Year lock**: a flag that nothing consults.
- **Stand-alone `payroll` library**: arithmetic for the demo commands; the server
  does not call it. Income tax of the server's own calculator depends on one pay
  only, and on tables.
- **Amounts of block 15B** of a record of employment: the annual maximum is
  allotted by the year of the period's end and earlier earnings are summed by the
  year of the pay date (`store/payroll_roe.go:288`), so that a period which ends
  in one year and is paid in the next counts in both or in neither. The record's
  periods are modelled, their amounts are not.
- **Single SQL errors** (a full disk): the models have crashes, where the process
  dies, and the failures the code handles, not a statement that fails in a
  process that lives on.

Left open, because no document of the repository promises anything: two
calculations with an edit between them may leave gross pay and deductions of
different inputs (`store/payroll_entries.go:138`); a line saved while its entry is
calculated may be lost (`store/payroll_entries.go:370`); an employee hired while a
return is generated may have no slip (`store/payroll_year_end.go:630`); payroll
deleted after its return was finalized leaves the return as it was
(`store/payroll_periods.go:154`); a customer may be deactivated between the check
and the task (`api/api.go:108`); deleting one of two invoices that share a task,
or dying half way, leaves a task done that is still on an invoice, or invoiced
that is on none (`store/store.go:800`); after a deletion the number of the next
invoice may be taken, and no invoice can be made that month
(`store/store.go:705`, a step that may fail in `Invoicing`).
