------------------------------- MODULE YearEnd -------------------------------
(***************************************************************************)
(* The T4 return of one company, payroll account and year: drafted from    *)
(* the finalized payroll, validated and finalized                          *)
(* (internal/store/payroll_year_end.go, internal/api/payroll_year_end.go). *)
(*                                                                         *)
(* Store methods hold Store.mu; GenerateOrRegenerateDraft holds it three   *)
(* times, and its last section runs one autocommitted SQL statement after  *)
(* another, no transaction: each is a step, so that the process can die    *)
(* between two of them.  UNIQUE(company, account, year) makes the return   *)
(* of a scope one row, kept here in one set of variables.                  *)
(*                                                                         *)
(* The boxes of a slip are abstracted to one amount in cents, which may be *)
(* zero, and the source hash to the set of periods it is computed from.    *)
(***************************************************************************)
EXTENDS Integers, Sequences, FiniteSets, FiniteSetsExt

CONSTANTS
    Employees,     \* people the company may employ
    Requests,      \* HTTP requests in flight at the same time
    Contacts,      \* contact names a clerk enters on the summary
    Amounts,       \* what an entry of an employee may pay, in cents
    MaxPeriod,     \* bound: pay periods of the year
    MaxLog         \* bound: generations that reach the audit log

ASSUME YearEndAssumption ==
    /\ IsFiniteSet(Employees) /\ Amounts \in [Employees -> SUBSET Nat]
    /\ MaxPeriod \in Nat /\ MaxLog \in Nat
ASSUME ContactAssumption == "" \notin Contacts     \* "": not yet entered

PeriodIds == 1 .. MaxPeriod
Profiles  == {"absent", "incomplete", "complete"}

(* Rows of payroll_entries, payroll_t4_slips and payroll_t4_summary.       *)
PayrollEntry == [period: PeriodIds, emp: Employees, amount: Nat]
Slip    == [emp: Employees, amount: Nat, complete: BOOLEAN]
Summary == [count: Nat, total: Nat, contact: Contacts \cup {""}]

VARIABLES
    paid,       \* the entries of the finalized periods of the year
    profile,    \* payroll_employees: no row, or with or without SIN, name..
    status,     \* payroll_year_end_returns.status; "none": no row
    hash,       \* payroll_year_end_returns.source_hash
    slips,      \* payroll_t4_slips of the return
    summary,    \* payroll_t4_summary of the return: no row or one
    log,        \* payroll_year_end_audit_logs: the actions, in id order
    req         \* the requests in flight

payroll == <<paid, profile>>
vars == <<paid, profile, status, hash, slips, summary, log, req>>

(* A request: the employees it loaded, the hash it read, the slips it      *)
(* makes, those it has still to insert and the action it will log.         *)
PCs == {"idle", "hash", "aggregate", "build", "summary_row", "header",
        "slips", "log", "finalize", "finalize_log"}
Request == [pc: PCs, emps: [Employees -> Profiles], hash: SUBSET PeriodIds,
            made: SUBSET Slip, todo: SUBSET Slip,
            action: {"generated", "regenerated"}]
NoProfiles == [e \in Employees |-> "absent"]
Idle == [pc |-> "idle", emps |-> NoProfiles, hash |-> {}, made |-> {},
         todo |-> {}, action |-> "generated"]

(* Store.mu is held between the statements of one critical section.        *)
Locked == \E r \in Requests :
    req[r].pc \in {"summary_row", "header", "slips", "log", "finalize_log"}

-----------------------------------------------------------------------------
Finalized == {x.period : x \in paid}

TotalOf(ss) == MapThenSumSet(LAMBDA s : s.amount, ss)

(* AggregateT4FromFinalizedPayroll: one row for each employee with entries *)
(* in finalized periods.                                                   *)
AnnualTotal(e) == TotalOf({x \in paid : x.emp = e})

(* The summary GenerateOrRegenerateDraft adds up from the slips it makes.  *)
SummaryNoContact(ss) ==                                \* mutant
    [count |-> Cardinality(ss), total |-> TotalOf(ss)]
SummaryOf(ss) ==
    [count |-> Cardinality(ss), total |-> TotalOf(ss), contact |-> ""]

(* ValidateYearEndReturn: slips counted by the summary, none incomplete,   *)
(* and totals that are the sum of the slips, but for 1.1 cents for each of *)
(* them and 1.1 more.                                                      *)
Tolerance == (11 * (Cardinality(slips) + 1)) \div 10
SlipsValid == (\A s \in slips : s.complete)
SummaryValid ==
    \E m \in summary : /\ m.count > 0
                       /\ m.total - TotalOf(slips) <= Tolerance
                       /\ TotalOf(slips) - m.total <= Tolerance
ValidateSlipsOnly == SlipsValid                        \* mutant
Validate == SlipsValid /\ SummaryValid

-----------------------------------------------------------------------------
(* The payroll the return is drawn from, changed by other handlers.        *)

FinalizePeriod(p, emps) ==
    /\ ~Locked
    /\ p \notin Finalized
    /\ \A e \in emps : profile[e] # "absent"
    /\ \E pay \in [emps -> UNION {Amounts[e] : e \in emps}] :
        /\ \A e \in emps : pay[e] \in Amounts[e]
        /\ paid' = paid \cup {[period |-> p, emp |-> e, amount |-> pay[e]] :
                                e \in emps}
    /\ UNCHANGED <<profile, status, hash, slips, summary, log, req>>

(* DELETE /periods/{id}?force=true.                                        *)
DeletePayrollPeriod(p) ==
    /\ ~Locked
    /\ p \in Finalized
    /\ paid' = {x \in paid : x.period # p}
    /\ UNCHANGED <<profile, status, hash, slips, summary, log, req>>

(* CreatePayrollEmployee, UpdatePayrollEmployee; nothing deletes one.      *)
SaveEmployee(e, st) ==
    /\ ~Locked
    /\ st \in Profiles \ {"absent", profile[e]}
    /\ profile' = [profile EXCEPT ![e] = st]
    /\ UNCHANGED <<paid, status, hash, slips, summary, log, req>>

-----------------------------------------------------------------------------
(* POST /api/payroll/year-end and /year-end/{id}/regenerate.  The employee *)
(* map is loaded before the payroll is read.                               *)

Generating == {r \in Requests :
                req[r].pc \notin {"idle", "finalize", "finalize_log"}}
Begin(r) ==
    /\ ~Locked
    /\ req[r].pc = "idle"
    /\ Len(log) + Cardinality(Generating) < MaxLog
    /\ req' = [req EXCEPT ![r] = [Idle EXCEPT !.pc = "hash",
                                              !.emps = profile]]
    /\ UNCHANGED <<payroll, status, hash, slips, summary, log>>

(* HasFinalizedPeriodsForYear.                                             *)
YearEndGenerate(r) == Finalized # {} /\ Begin(r)

(* The return is there and was not finalized when it was read.             *)
YearEndRegenerate(r) == status = "draft" /\ Begin(r)

ComputeSourceHash(r) ==
    /\ ~Locked
    /\ req[r].pc = "hash"
    /\ req' = [req EXCEPT ![r] = [@ EXCEPT !.pc = "aggregate",
                                           !.hash = Finalized]]
    /\ UNCHANGED <<payroll, status, hash, slips, summary, log>>

(* Employees that were not loaded are skipped; slips copy what was loaded. *)
AggregateT4(r) ==
    LET paidEmps == {e \in {x.emp : x \in paid} :
                        req[r].emps[e] # "absent"}
        slip(e) == [emp |-> e, amount |-> AnnualTotal(e),
                    complete |-> req[r].emps[e] = "complete"]
        made == {slip(e) : e \in paidEmps}
    IN  /\ ~Locked
        /\ req[r].pc = "aggregate"
        /\ req' = [req EXCEPT ![r] =
                    [@ EXCEPT !.pc = "build", !.emps = NoProfiles,
                              !.made = made, !.todo = made]]
        /\ UNCHANGED <<payroll, status, hash, slips, summary, log>>

(* The third critical section.  A finalized return is left alone; a new    *)
(* one gets its header; of a draft the slips are deleted first.            *)
BuildRefused(r) ==
    /\ ~Locked
    /\ req[r].pc = "build"
    /\ status = "finalized"
    /\ req' = [req EXCEPT ![r] = Idle]
    /\ UNCHANGED <<payroll, status, hash, slips, summary, log>>

BuildNew(r) ==
    /\ ~Locked
    /\ req[r].pc = "build"
    /\ status = "none"
    /\ status' = "draft"
    /\ hash' = req[r].hash
    /\ req' = [req EXCEPT ![r] = [@ EXCEPT !.pc = "slips", !.hash = {}]]
    /\ UNCHANGED <<payroll, slips, summary, log>>

Rebuild(r, left) ==
    /\ ~Locked
    /\ req[r].pc = "build"
    /\ slips' = left
    /\ req' = [req EXCEPT ![r] = [@ EXCEPT !.pc = "summary_row",
                                           !.action = "regenerated"]]
    /\ UNCHANGED <<payroll, status, hash, summary, log>>
DeleteSlipsAny(r) == status # "none" /\ Rebuild(r, {})       \* mutant
KeepSlips(r) == status = "draft" /\ Rebuild(r, slips)        \* mutant
DeleteSlips(r) == status = "draft" /\ Rebuild(r, {})

DeleteSummary(r) ==
    /\ req[r].pc = "summary_row"
    /\ summary' = {}
    /\ req' = [req EXCEPT ![r].pc = "header"]
    /\ UNCHANGED <<payroll, status, hash, slips, log>>

UpdateHeader(r) ==
    /\ req[r].pc = "header"
    /\ hash' = req[r].hash
    /\ req' = [req EXCEPT ![r] = [@ EXCEPT !.pc = "slips", !.hash = {}]]
    /\ UNCHANGED <<payroll, status, slips, summary, log>>

InsertT4Slip(r) ==
    /\ req[r].pc = "slips"
    /\ \E s \in req[r].todo :
        /\ slips' = slips \cup {s}
        /\ req' = [req EXCEPT ![r].todo = @ \ {s}]
    /\ UNCHANGED <<payroll, status, hash, summary, log>>

UpsertT4Summary(r) ==
    /\ req[r].pc = "slips"
    /\ req[r].todo = {}
    /\ summary' = {SummaryOf(req[r].made)}
    /\ req' = [req EXCEPT ![r] = [@ EXCEPT !.pc = "log", !.made = {}]]
    /\ UNCHANGED <<payroll, status, hash, slips, log>>

InsertAuditLog(r) ==
    /\ req[r].pc = "log"
    /\ log' = Append(log, req[r].action)
    /\ req' = [req EXCEPT ![r] = Idle]
    /\ UNCHANGED <<payroll, status, hash, slips, summary>>

-----------------------------------------------------------------------------
(* POST /year-end/{id}/finalize: validated under one lock, finalized under *)
(* the next, which looks at the status only.                               *)

YearEndFinalize(r) ==
    /\ ~Locked
    /\ req[r].pc = "idle"
    /\ status # "none"
    /\ Validate
    /\ req' = [req EXCEPT ![r] = [Idle EXCEPT !.pc = "finalize"]]
    /\ UNCHANGED <<payroll, status, hash, slips, summary, log>>

SetFinalized(r) ==
    /\ ~Locked
    /\ req[r].pc = "finalize"
    /\ status' = "finalized"
    /\ req' = [req EXCEPT ![r].pc = "finalize_log"]
    /\ UNCHANGED <<payroll, hash, slips, summary, log>>
FinalizeAgain(r) == SetFinalized(r)                          \* mutant
FinalizeYearEndReturn(r) == status = "draft" /\ SetFinalized(r)

FinalizeRefused(r) ==
    /\ ~Locked
    /\ req[r].pc = "finalize"
    /\ status = "finalized"
    /\ req' = [req EXCEPT ![r] = Idle]
    /\ UNCHANGED <<payroll, status, hash, slips, summary, log>>

FinalizeAuditLog(r) ==
    /\ req[r].pc = "finalize_log"
    /\ log' = Append(log, "finalized")
    /\ req' = [req EXCEPT ![r] = Idle]
    /\ UNCHANGED <<payroll, status, hash, slips, summary>>

(* PATCH /year-end/{id}/contact.                                           *)
UpdateT4SummaryContact(name) ==
    /\ ~Locked
    /\ status = "draft"
    /\ summary' = {[m EXCEPT !.contact = name] : m \in summary}
    /\ UNCHANGED <<payroll, status, hash, slips, log, req>>

(* The process dies and is started again.                                  *)
Crash ==
    /\ \E r \in Requests : req[r].pc # "idle"
    /\ req' = [r \in Requests |-> Idle]
    /\ UNCHANGED <<payroll, status, hash, slips, summary, log>>

-----------------------------------------------------------------------------
Init ==
    /\ paid = {}
    /\ profile = NoProfiles
    /\ status = "none"
    /\ hash = {} /\ slips = {} /\ summary = {} /\ log = <<>>
    /\ req = [r \in Requests |-> Idle]

Payroll ==
    \/ \E p \in PeriodIds, emps \in (SUBSET Employees) \ {{}} :
            FinalizePeriod(p, emps)
    \/ \E p \in PeriodIds : DeletePayrollPeriod(p)
    \/ \E e \in Employees, st \in Profiles : SaveEmployee(e, st)

Generate(r) ==
    \/ YearEndGenerate(r)
    \/ YearEndRegenerate(r)
    \/ ComputeSourceHash(r)
    \/ AggregateT4(r)
    \/ BuildRefused(r)
    \/ BuildNew(r)
    \/ DeleteSlips(r)
    \/ DeleteSummary(r)
    \/ UpdateHeader(r)
    \/ InsertT4Slip(r)
    \/ UpsertT4Summary(r)
    \/ InsertAuditLog(r)

Finalize(r) ==
    \/ YearEndFinalize(r)
    \/ FinalizeYearEndReturn(r)
    \/ FinalizeRefused(r)
    \/ FinalizeAuditLog(r)

Next ==
    \/ Payroll
    \/ \E r \in Requests : Generate(r) \/ Finalize(r)
    \/ \E name \in Contacts : UpdateT4SummaryContact(name)
    \/ Crash

Spec == Init /\ [][Next]_vars

-----------------------------------------------------------------------------
TypeOK ==
    /\ paid \subseteq PayrollEntry
    /\ profile \in [Employees -> Profiles]
    /\ status \in {"none", "draft", "finalized"}
    /\ hash \in SUBSET PeriodIds
    /\ slips \subseteq Slip
    /\ summary \subseteq Summary /\ Cardinality(summary) <= 1
    /\ log \in Seq({"generated", "regenerated", "finalized"})
    /\ req \in [Requests -> Request]

(* Once finalized, the return is what was filed: no generation that was    *)
(* already under way, contact edit or second finalization changes its      *)
(* slips, summary or source hash ("Returns error if the return is already  *)
(* finalized", payroll_year_end.go:564).                                   *)
Sealed == INSTANCE SealedDocument WITH
    phase <- IF status = "finalized" THEN "sealed" ELSE status,
    content <- <<hash, slips, summary>>
FollowsSealing == Sealed!Spec

(* A finalized return has a summary, and its totals are those of its slips *)
(* ("never independently calculated", payroll_year_end.go:682), although   *)
(* the process may die between the statements that write them and a        *)
(* generation may slip in between validation and finalization.  One case   *)
(* is let through: a process that died right after it deleted the slips    *)
(* left a summary of them, and what it adds up to, a cent at most, is      *)
(* within the tolerance of the validation.                                 *)
Matches(m) == m.count = Cardinality(slips) /\ m.total = TotalOf(slips)
SlipsGone(m) == slips = {} /\ m.count > 0 /\ m.total <= 1
FinalizedTotals ==
    status = "finalized" => \E m \in summary : Matches(m) \/ SlipsGone(m)

(* An employee has one slip however many generations overlap or are cut    *)
(* short.                                                                  *)
OneSlipPerEmployee == \A s, t \in slips : s.emp = t.emp => s = t

(* The audit log of a return tells one finalization, and nothing after it. *)
FinalizedOnce ==
    \A i \in 1 .. Len(log) :
        log[i] = "finalized" => i = Len(log) /\ status = "finalized"

(* "ValidateYearEndReturn checks all conditions required before            *)
(* finalizing" (payroll_year_end.go:732): what is finalized is valid.      *)
FinalizedIsValid == status = "finalized" => Validate
=============================================================================
