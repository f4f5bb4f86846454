----------------------------- MODULE PayrollRun -----------------------------
(***************************************************************************)
(* The payroll run: pay periods, one payroll entry per employee, the       *)
(* additional earnings lines of an entry, and the HTTP handlers that work  *)
(* on them (internal/api/payroll_run.go, payroll_earnings.go) through the  *)
(* store (internal/store/payroll_periods.go, payroll_entries.go,           *)
(* payroll_earnings.go).                                                   *)
(*                                                                         *)
(* Every store method holds Store.mu from its first statement to its last, *)
(* so a store method is one step.  A handler that calls several store      *)
(* methods is a request with a program counter: other requests run between *)
(* its steps.  Adjacent reads of one handler are merged into one step.     *)
(*                                                                         *)
(* Amounts are cents, and positive.  The calculator's result is abstracted *)
(* to what it was computed from: `ded` is the gross the entry's deduction  *)
(* and net columns belong to (0: none were ever computed) and `ytd` the    *)
(* periods whose entries its year-to-date figures sum up, each with the    *)
(* company it belonged to.                                                 *)
(***************************************************************************)
EXTENDS Integers, FiniteSets

CONSTANTS
    Companies,       \* payroll companies
    Employees,       \* active payroll employees
    Employer,        \* the company each employee belongs to
    Contractors,     \* employees of member type 1 or 2: no deductions
    AutoVacation,    \* employees whose vacation pay is added every period
    VacationPct,     \* the company rule vacation_rate, in percent
    Requests,        \* HTTP requests in flight at the same time
    Endpoints,       \* the endpoints the clients call
    SavedStatuses,   \* statuses a client sends with an entry ("keep": none;
                     \* "calculated": a page that read the row calculated
                     \* sends it back so, with the deductions it read)
    Grosses,         \* gross pays a client saves; also what entries start with
    ExtraAmounts,    \* amounts of an additional earnings line
    MaxPeriod,       \* bound: highest period id
    MaxEntry,        \* bound: highest entry id
    MaxGross         \* bound: no recalculation of a higher gross pay

EndpointNames == {"create", "entries", "init", "calculate", "recalculate",
                  "finalize", "delete", "earnings", "override"}

PeriodStatus == {"none", "open", "calculated", "finalized"}
EntryStatus  == {"draft", "approved", "calculated", "finalized"}

ASSUME PayrollAssumption ==
    /\ Companies # {}
    /\ Employer \in [Employees -> Companies]
    /\ Contractors \subseteq Employees
    /\ AutoVacation \subseteq Employees
    /\ VacationPct \in Nat
    /\ Endpoints \subseteq EndpointNames
    /\ SavedStatuses \subseteq {"keep", "draft", "approved", "calculated"}
    /\ Grosses \subseteq Nat \ {0}
    /\ ExtraAmounts \subseteq Nat
    /\ MaxPeriod \in Nat /\ MaxEntry \in Nat /\ MaxGross \in Nat

PeriodIds == 1 .. MaxPeriod
EntryIds  == 1 .. MaxEntry

(* What year-to-date figures count: a period, and whose it was.            *)
Counted == [period: PeriodIds, company: Companies]

(* A row of payroll_entries.  `base` is no column: it records the gross    *)
(* pay last entered for the row, before any earnings line was added to it. *)
Entry == [id: Nat, period: PeriodIds, emp: Employees, status: EntryStatus,
          gross: Nat, base: Nat, ded: Nat, ytd: SUBSET Counted]

(* A row of payroll_entry_earnings.  `for` is no column: it records the    *)
(* employee the line was entered for.                                      *)
Line == [entry: Nat, code: {"extra", "VAC"}, amount: Nat, for: Employees]

VARIABLES
    status,    \* payroll_periods.status by id; "none": no such row
    company,   \* payroll_periods.company_id by id, kept after a deletion
    entries,   \* payroll_entries
    lines,     \* payroll_entry_earnings
    req        \* the requests in flight

vars == <<status, company, entries, lines, req>>

(* What a request holds between two of its store calls: the period it      *)
(* works on, the entries it still has to calculate, the employees it knows *)
(* (calculate) or still has to add (init), the entry it has read and works *)
(* on, the lines it read for that entry and its vacation pay.              *)
PCs == {"idle", "list", "entry", "vacation", "refetch", "save",
        "finalize", "put", "init", "earnings", "override"}
Request == [pc: PCs, period: PeriodIds \cup {0}, todo: SUBSET Entry,
            emps: SUBSET Employees, cur: SUBSET Entry, keep: SUBSET Line,
            vac: Nat]
Idle == [pc |-> "idle", period |-> 0, todo |-> {}, emps |-> {}, cur |-> {},
         keep |-> {}, vac |-> 0]

-----------------------------------------------------------------------------
(* The store's helpers.                                                    *)

(* nextPeriodID, nextEntryID: the highest id in use plus one.  The id of a *)
(* deleted last row is therefore given out again.                          *)
IsCountPlusOne(n, ids) == n = Cardinality(ids) + 1   \* mutant
IsNextId(n, ids) ==
    /\ \A m \in ids : m < n
    /\ n = 1 \/ n - 1 \in ids

Exists(p) == status[p] # "none"
(* Mutant: the status list of CreatePayrollPeriod's query is wrong.        *)
UnfinishedOpenOnly(p) == status[p] = "open"
Unfinished(p) == status[p] \notin {"none", "finalized"}
EntriesOf(p) == {e \in entries : e.period = p}
EntryFor(p, emp) == {e \in entries : e.period = p /\ e.emp = emp}
(* DELETE FROM payroll_entries WHERE period_id = ..., for each period.     *)
EntriesKept(ps) == entries                             \* mutant
EntriesWithout(ps) == {e \in entries : e.period \notin ps}
LinesOf(id) == {l \in lines : l.entry = id}

(* GetYTDBeforePeriod: the periods other than p, of any company, in which  *)
(* the employee has a calculated entry of a calculated or finalized period.*)
GetYTDBeforePeriod(emp, p) ==
    {[period |-> q, company |-> company[q]] :
        q \in {q \in PeriodIds \ {p} :
                /\ status[q] \in {"calculated", "finalized"}
                /\ \E e \in EntryFor(q, emp) :
                        e.status \in {"calculated", "finalized"}}}

(* EarningsGrossForEntry, over the at most one line of each code.          *)
AmountOf(ls, code) ==
    IF \E l \in ls : l.code = code
    THEN (CHOOSE l \in ls : l.code = code).amount ELSE 0
EarningsGrossForEntry(id) ==
    AmountOf(LinesOf(id), "extra") + AmountOf(LinesOf(id), "VAC")

(* The per-period vacation pay on a vacationable base, rounded to a cent.  *)
VacationPay(base) == (base * VacationPct + 50) \div 100

(* The UPDATE branch of UpsertPayrollEntry: a calculated entry keeps its   *)
(* deductions, whatever gross pay and status come with the row.            *)
MergedPlain(old, row) == [row EXCEPT !.id = old.id]    \* mutant
MergedDropsYTD(old, row) ==                            \* mutant
    [row EXCEPT !.id = old.id,
                !.ded = IF old.status \in {"calculated", "finalized"}
                        THEN old.ded ELSE row.ded]
Merged(old, row) ==
    LET done == old.status \in {"calculated", "finalized"}
    IN  [row EXCEPT !.id = old.id,
                    !.ded = IF done THEN old.ded ELSE row.ded,
                    !.ytd = IF done /\ row.ytd = {} THEN old.ytd ELSE row.ytd]

(* UpsertPayrollEntry: look the row up by period and employee, insert it   *)
(* under the next id or update it.                                         *)
UpsertPayrollEntry(row) ==
    IF EntryFor(row.period, row.emp) = {}
    THEN \E n \in EntryIds :
            /\ IsNextId(n, {e.id : e \in entries})
            /\ entries' = entries \cup {[row EXCEPT !.id = n]}
    ELSE \E old \in EntryFor(row.period, row.emp) :
            entries' = (entries \ {old}) \cup {Merged(old, row)}

(* The row a client or handleInitPeriodEntries sends: no year-to-date      *)
(* figures, and no deductions but from a page that read the row calculated *)
(* (web/salaries.html:494), however the row has changed since then.  An    *)
(* empty status (web/payments.html) keeps the one there is at the write.   *)
SentRowAsIs(p, emp, gross, st) ==                      \* mutant
    [id |-> 0, period |-> p, emp |-> emp, gross |-> gross, base |-> gross,
     ded |-> IF st = "calculated" THEN gross ELSE 0, ytd |-> {}, status |-> st]
SentRow(p, emp, gross, st) ==
    [id |-> 0, period |-> p, emp |-> emp, gross |-> gross, base |-> gross,
     ded |-> IF st = "calculated" THEN gross ELSE 0, ytd |-> {},
     status |-> IF st # "keep" THEN st
                ELSE IF \E e \in EntryFor(p, emp) : TRUE
                     THEN (CHOOSE e \in EntryFor(p, emp) : TRUE).status
                     ELSE "draft"]

-----------------------------------------------------------------------------
(* Handlers that make one change under one lock.                           *)

(* POST /periods.  CreatePayrollPeriod deletes the company's unfinished    *)
(* periods with their entries (their earnings lines stay) and opens a new  *)
(* one.  (The row takes the status of the body if it has one; the page     *)
(* sends none, and that is what is modelled.)                              *)
CreatePayrollPeriod(c) ==
    LET stale == {p \in PeriodIds : Unfinished(p) /\ company[p] = c}
        left  == {p \in PeriodIds : Exists(p)} \ stale
    IN  /\ "create" \in Endpoints
        /\ \E n \in PeriodIds :
            /\ IsNextId(n, left)
            /\ status' = [p \in PeriodIds |->
                            IF p = n THEN "open"
                            ELSE IF p \in stale THEN "none" ELSE status[p]]
            /\ company' = [company EXCEPT ![n] = c]
        /\ entries' = EntriesWithout(stale)
        /\ UNCHANGED <<lines, req>>

(* DELETE /periods/{id}: a finalized period goes only with force=true.     *)
DeletePayrollPeriod(p, force) ==
    /\ "delete" \in Endpoints
    /\ Exists(p)
    /\ status[p] = "finalized" => force
    /\ entries' = EntriesWithout({p})
    /\ status' = [status EXCEPT ![p] = "none"]
    /\ UNCHANGED <<company, lines, req>>

-----------------------------------------------------------------------------
(* /entries/{id}/earnings and /entries/{id}/override: the entry is looked  *)
(* up under one lock and written by its id under another; by then it may   *)
(* be gone, or another one may have its id.                                *)

GetPayrollEntry(r, e, pc) ==
    /\ req[r].pc = "idle"
    /\ req' = [req EXCEPT ![r] = [Idle EXCEPT !.pc = pc, !.period = e.period,
                                              !.cur = {e}]]
    /\ UNCHANGED <<status, company, entries, lines>>

EarningsStart(r, e) ==
    /\ "earnings" \in Endpoints
    /\ GetPayrollEntry(r, e, "earnings")

(* PUT: one transaction, whether the entry is still there or not.          *)
ReplaceEntryEarnings(r, amounts) ==
    /\ req[r].pc = "earnings"
    /\ \E e \in req[r].cur :
        lines' = (lines \ LinesOf(e.id)) \cup
                 {[entry |-> e.id, code |-> "extra", amount |-> a,
                   for |-> e.emp] : a \in amounts}
    /\ req' = [req EXCEPT ![r] = Idle]
    /\ UNCHANGED <<status, company, entries>>

OverrideStart(r, e) ==
    /\ "override" \in Endpoints
    /\ GetPayrollEntry(r, e, "override")

(* POST: the clerk's own deductions, whatever the status of the entry.     *)
OverrideEntryDeductions(r) ==
    /\ req[r].pc = "override"
    /\ \E e \in req[r].cur :
        entries' = {IF x.id = e.id THEN [x EXCEPT !.ded = x.gross] ELSE x :
                        x \in entries}
    /\ req' = [req EXCEPT ![r] = Idle]
    /\ UNCHANGED <<status, company, lines>>

-----------------------------------------------------------------------------
(* POST /periods/{id}/entries: the period is looked up once, then every    *)
(* row of the body is saved under a lock of its own, for whichever         *)
(* employee it names: nothing compares the employee's company.             *)

PutStart(r, p) ==
    /\ "entries" \in Endpoints
    /\ req[r].pc = "idle"
    /\ Exists(p)
    /\ req' = [req EXCEPT ![r] = [Idle EXCEPT !.pc = "put", !.period = p]]
    /\ UNCHANGED <<status, company, entries, lines>>

PutEntry(r, emp, gross, st) ==
    /\ req[r].pc = "put"
    /\ UpsertPayrollEntry(SentRow(req[r].period, emp, gross, st))
    /\ UNCHANGED <<status, company, lines, req>>

PutEnd(r) ==
    /\ req[r].pc = "put"
    /\ req' = [req EXCEPT ![r] = Idle]
    /\ UNCHANGED <<status, company, entries, lines>>

(* POST /init-entries: nothing to do when the period has entries; else a   *)
(* draft for every active employee, each saved under a lock of its own.    *)
IdsLeft ==   \* bound: an id is free for every employee
    \A e \in entries : e.id + Cardinality(Employees) <= MaxEntry

InitStart(r, p) ==
    /\ "init" \in Endpoints
    /\ IdsLeft
    /\ req[r].pc = "idle"
    /\ Exists(p)
    /\ EntriesOf(p) = {}
    /\ req' = [req EXCEPT ![r] =
                [Idle EXCEPT !.pc = "init", !.period = p,
                             !.emps = {e \in Employees :
                                         Employer[e] = company[p]}]]
    /\ UNCHANGED <<status, company, entries, lines>>

InitEntry(r) ==
    /\ req[r].pc = "init"
    /\ \E emp \in req[r].emps, gross \in Grosses :
        /\ UpsertPayrollEntry(SentRow(req[r].period, emp, gross, "draft"))
        /\ req' = [req EXCEPT ![r].emps = @ \ {emp}]
    /\ UNCHANGED <<status, company, lines>>

InitEnd(r) ==
    /\ req[r].pc = "init"
    /\ req[r].emps = {}
    /\ req' = [req EXCEPT ![r] = Idle]
    /\ UNCHANGED <<status, company, entries, lines>>

-----------------------------------------------------------------------------
(* POST /periods/{id}/calculate and /recalculate.                          *)

(* handlePeriodCalculate refuses a finalized period, at this read only.    *)
CalculateStartAny(r, p) ==                             \* mutant
    /\ "calculate" \in Endpoints
    /\ req[r].pc = "idle"
    /\ Exists(p)
    /\ req' = [req EXCEPT ![r] = [Idle EXCEPT !.pc = "list", !.period = p]]
    /\ UNCHANGED <<status, company, entries, lines>>
CalculateStart(r, p) ==
    /\ "calculate" \in Endpoints
    /\ req[r].pc = "idle"
    /\ Unfinished(p)
    /\ req' = [req EXCEPT ![r] = [Idle EXCEPT !.pc = "list", !.period = p]]
    /\ UNCHANGED <<status, company, entries, lines>>

(* handlePeriodRecalculate looks at no status.  RecalculatePeriod's UPDATE *)
(* runs outside Store.mu but is one statement.                             *)
RecalculateStart(r, p) ==
    /\ "recalculate" \in Endpoints
    /\ req[r].pc = "idle"
    /\ Exists(p)
    /\ \A e \in EntriesOf(p) : e.gross <= MaxGross
    /\ entries' = (entries \ EntriesOf(p)) \cup
                  {[e EXCEPT !.status = IF @ \in {"calculated", "finalized"}
                                        THEN "approved" ELSE @] :
                      e \in EntriesOf(p)}
    /\ req' = [req EXCEPT ![r] = [Idle EXCEPT !.pc = "list", !.period = p]]
    /\ UNCHANGED <<status, company, lines>>

(* CalculatePeriod reads the period, its entries and the employees of its  *)
(* company.  No period or no entries: done, nothing marked.  Only approved *)
(* entries will be saved.                                                  *)
CalculateList(r) ==
    LET p == req[r].period
    IN  /\ req[r].pc = "list"
        /\ req' = [req EXCEPT ![r] =
                    IF Exists(p) /\ EntriesOf(p) # {}
                    THEN [Idle EXCEPT !.pc = "entry", !.period = p,
                            !.todo = {e \in EntriesOf(p) :
                                        e.status = "approved"},
                            !.emps = {e \in Employees :
                                        Employer[e] = company[p]}]
                    ELSE Idle]
        /\ UNCHANGED <<status, company, entries, lines>>

(* The next approved entry: a contractor has no deductions; for the others *)
(* read the year-to-date figures and the earnings lines, and add vacation  *)
(* pay on base and extras when it applies.  Someone who is not in the list *)
(* of the company's employees counts as neither.                           *)
CalculateEntry(r) ==
    LET p == req[r].period
    IN  /\ req[r].pc = "entry"
        /\ \E e \in req[r].todo :
            LET ytd == GetYTDBeforePeriod(e.emp, p)
                vac == VacationPay(e.gross + AmountOf(LinesOf(e.id), "extra"))
                sum == e.gross + EarningsGrossForEntry(e.id)
                rest == [req[r] EXCEPT !.todo = @ \ {e}]
            IN  req' = [req EXCEPT ![r] =
                  CASE e.emp \in req[r].emps \cap Contractors ->
                         [rest EXCEPT !.pc = "save",
                            !.cur = {[e EXCEPT !.status = "calculated",
                                               !.ded = e.gross]}]
                    [] /\ e.emp \in (req[r].emps \cap AutoVacation)
                                       \ Contractors
                       /\ vac > 0 ->
                         [rest EXCEPT !.pc = "vacation", !.vac = vac,
                            !.cur = {[e EXCEPT !.ytd = ytd]},
                            !.keep = {l \in LinesOf(e.id) : l.code # "VAC"}]
                    [] OTHER ->
                         [rest EXCEPT !.pc = "save",
                            !.cur = {[e EXCEPT !.status = "calculated",
                                               !.gross = sum, !.ded = sum,
                                               !.ytd = ytd]}]]
        /\ UNCHANGED <<status, company, entries, lines>>

(* ReplaceEntryEarnings with the lines read before and the vacation line.  *)
CalculateVacation(r) ==
    /\ req[r].pc = "vacation"
    /\ \E e \in req[r].cur :
        lines' = (lines \ LinesOf(e.id)) \cup req[r].keep \cup
                 {[entry |-> e.id, code |-> "VAC", amount |-> req[r].vac,
                   for |-> e.emp]}
    /\ req' = [req EXCEPT ![r].pc = "refetch"]
    /\ UNCHANGED <<status, company, entries>>

(* The lines are read again after the vacation line was added.             *)
CalculateRefetch(r) ==
    /\ req[r].pc = "refetch"
    /\ \E e \in req[r].cur :
        LET sum == e.gross + EarningsGrossForEntry(e.id)
        IN  req' = [req EXCEPT ![r] =
                    [@ EXCEPT !.pc = "save", !.vac = 0, !.keep = {},
                              !.cur = {[e EXCEPT !.status = "calculated",
                                                 !.gross = sum,
                                                 !.ded = sum]}]]
    /\ UNCHANGED <<status, company, entries, lines>>

(* The calculated row is saved, computed from what was read above.         *)
CalculateSave(r) ==
    /\ req[r].pc = "save"
    /\ \E e \in req[r].cur : UpsertPayrollEntry(e)
    /\ req' = [req EXCEPT ![r] = [@ EXCEPT !.pc = "entry", !.cur = {}]]
    /\ UNCHANGED <<status, company, lines>>

(* UpdatePayrollPeriodStatus: whatever status the row has, if it is there. *)
UpdatePayrollPeriodStatus(p, st) ==
    status' = [status EXCEPT ![p] = IF Exists(p) THEN st ELSE "none"]

CalculateMark(r) ==
    /\ req[r].pc = "entry"
    /\ req[r].todo = {}
    /\ UpdatePayrollPeriodStatus(req[r].period, "calculated")
    /\ req' = [req EXCEPT ![r] = Idle]
    /\ UNCHANGED <<company, entries, lines>>

-----------------------------------------------------------------------------
(* POST /periods/{id}/finalize: the status is read under one lock and      *)
(* written under another; the entries are not looked at.                   *)

FinalizeStartAny(r, p) ==                              \* mutant
    /\ "finalize" \in Endpoints
    /\ req[r].pc = "idle"
    /\ Exists(p)
    /\ req' = [req EXCEPT ![r] = [Idle EXCEPT !.pc = "finalize",
                                              !.period = p]]
    /\ UNCHANGED <<status, company, entries, lines>>
FinalizeStart(r, p) ==
    /\ "finalize" \in Endpoints
    /\ req[r].pc = "idle"
    /\ status[p] = "calculated"
    /\ req' = [req EXCEPT ![r] = [Idle EXCEPT !.pc = "finalize",
                                              !.period = p]]
    /\ UNCHANGED <<status, company, entries, lines>>

FinalizeWrite(r) ==
    /\ req[r].pc = "finalize"
    /\ UpdatePayrollPeriodStatus(req[r].period, "finalized")
    /\ req' = [req EXCEPT ![r] = Idle]
    /\ UNCHANGED <<company, entries, lines>>

-----------------------------------------------------------------------------
(* An empty database; requests arrive one by one, in any number.           *)
Init ==
    /\ status = [p \in PeriodIds |-> "none"]
    /\ company \in [PeriodIds -> {CHOOSE c \in Companies : TRUE}]
    /\ entries = {}
    /\ lines = {}
    /\ req = [r \in Requests |-> Idle]

Store ==
    \/ \E c \in Companies : CreatePayrollPeriod(c)
    \/ \E p \in PeriodIds, force \in BOOLEAN : DeletePayrollPeriod(p, force)

Start(r) ==
    \/ \E p \in PeriodIds :
        \/ PutStart(r, p)
        \/ InitStart(r, p)
        \/ CalculateStart(r, p)
        \/ RecalculateStart(r, p)
        \/ FinalizeStart(r, p)
    \/ \E e \in entries : EarningsStart(r, e) \/ OverrideStart(r, e)

Continue(r) ==
    \/ \E amounts \in {{}} \cup {{a} : a \in ExtraAmounts} :
            ReplaceEntryEarnings(r, amounts)
    \/ OverrideEntryDeductions(r)
    \/ \E emp \in Employees, gross \in Grosses, st \in SavedStatuses :
            PutEntry(r, emp, gross, st)
    \/ PutEnd(r)
    \/ InitEntry(r)
    \/ InitEnd(r)
    \/ CalculateList(r)
    \/ CalculateEntry(r)
    \/ CalculateVacation(r)
    \/ CalculateRefetch(r)
    \/ CalculateSave(r)
    \/ CalculateMark(r)
    \/ FinalizeWrite(r)

Next == Store \/ \E r \in Requests : Start(r) \/ Continue(r)

Spec == Init /\ [][Next]_vars

(* One request at a time: none starts before the one in flight has ended.  *)
Quiet == \A r \in Requests : req[r].pc = "idle"
SerialNext ==
    \/ Quiet /\ Store
    \/ \E r \in Requests : \/ Quiet /\ Start(r)
                          \/ Continue(r)
SerialSpec == Init /\ [][SerialNext]_vars

-----------------------------------------------------------------------------
(* Properties of every interleaving of the handlers.                       *)

TypeOK ==
    /\ status \in [PeriodIds -> PeriodStatus]
    /\ company \in [PeriodIds -> Companies]
    /\ entries \subseteq Entry
    /\ lines \subseteq Line
    /\ req \in [Requests -> Request]

(* payroll_entries has no UNIQUE constraint on period and employee: only   *)
(* the lookup and the insert of UpsertPayrollEntry under one lock keep two *)
(* requests that fill the same period from paying an employee twice, and   *)
(* nextEntryID from giving one id to two rows.                             *)
OneEntryPerEmployee ==
    \A x, y \in entries :
        x.id = y.id \/ (x.period = y.period /\ x.emp = y.emp) => x = y

(* A finalized period is the record of a payment.  Once no calculation of  *)
(* it is under way any more, it is final: whatever overlaps, calculations  *)
(* are refused, opening the next period leaves it there, and it ends only  *)
(* when a clerk deletes it by force or asks to recalculate it.  (One that  *)
(* is under way when the period is finalized may still reopen it:          *)
(* OneUnfinishedPeriod.)                                                   *)
Calculating(r, p) ==
    /\ req[r].period = p
    /\ req[r].pc \in {"list", "entry", "vacation", "refetch", "save"}
Settled(p) ==
    status[p] = "finalized" /\ \A r \in Requests : ~ Calculating(r, p)
SettledForGood ==
    [][\A p \in PeriodIds :
        Settled(p) /\ ~ Settled(p)' =>
            \/ DeletePayrollPeriod(p, TRUE)
            \/ \E r \in Requests : RecalculateStart(r, p)]_vars

(* An entry shown as calculated has deductions that were computed for it,  *)
(* even when drafts, approvals and calculations of one entry overlap.      *)
CalculatedWasPriced ==
    \A e \in entries : e.status = "calculated" => e.ded > 0

(* A client's save (the salaries page saves every row, the payments page   *)
(* the payment type) carries no deductions; it must not erase those of an  *)
(* entry that is already calculated.                                       *)
CalculatedDeductionsKept ==
    [][\A x \in entries, y \in entries' :
        /\ x.id = y.id /\ x.emp = y.emp /\ x.period = y.period
        /\ x.status = "calculated"
        => y.ded > 0 /\ (y.ytd = {} => x.ytd = {})]_vars

-----------------------------------------------------------------------------
(* Properties that one request at a time keeps, and overlapping ones break.*)

(* "Enforce at most one unfinished period per company"                     *)
(* (payroll_periods.go:67).                                                *)
OneUnfinishedPeriod ==
    \A p, q \in PeriodIds :
        Unfinished(p) /\ Unfinished(q) /\ company[p] = company[q] => p = q

(* The year-to-date figures an entry is calculated with, which decide when *)
(* the annual CPP and EI maximums are reached, count of the company's own  *)
(* periods only those that were opened earlier and are paid for good.  Of  *)
(* an employee whom a client also saved in another company's period, they  *)
(* count that period too, in whatever state it is.                         *)
YTDCountsPaidEarlierPeriods ==
    \A e \in entries : e.status = "calculated" =>
        \A y \in e.ytd : y.company = company[e.period] =>
            y.period < e.period /\ status[y.period] = "finalized"

(* An entry belongs to a period that is there ("Delete entries first       *)
(* (foreign key)", payroll_periods.go:169): the periods dropped by         *)
(* CreatePayrollPeriod take their entries with them.                       *)
EntriesHavePeriod ==
    \A e \in entries : Exists(e.period)

(* Periods go through the stages of PeriodLifecycle and no others.         *)
Lifecycle == INSTANCE PeriodLifecycle WITH phase <- status, owner <- company
FollowsLifecycle == Lifecycle!Spec

-----------------------------------------------------------------------------
(* What the comments of the code say and the handlers do not keep.         *)

(* CalculatePeriod takes the gross pay of an approved entry as the "base   *)
(* gross" to add the earnings lines to (payroll_entries.go:343).           *)
ApprovedHoldsBaseGross ==
    \A e \in entries : e.status = "approved" => e.gross = e.base

(* The lines added to an entry's gross pay are "one payroll entry's        *)
(* additional earnings" (payroll_earnings.go:321): entered for it, not for *)
(* a deleted entry whose id it got.                                        *)
EarningsAreTheEntrysOwn ==
    \A e \in entries : \A l \in LinesOf(e.id) : l.for = e.emp
=============================================================================
