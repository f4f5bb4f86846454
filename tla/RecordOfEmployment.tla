------------------------- MODULE RecordOfEmployment -------------------------
(***************************************************************************)
(* Records of employment of one company: drafted from the finalized        *)
(* payroll, edited, regenerated and issued (internal/store/payroll_roe.go, *)
(* internal/api/payroll_roe.go).                                           *)
(*                                                                         *)
(* GenerateROEDraft reads the payroll, the existing record and the source  *)
(* hash without Store.mu and holds it only to build block 15B and to       *)
(* replace the row, a DELETE and an INSERT with no transaction around      *)
(* them.  Each access is a step; the unlocked ones may fall between the    *)
(* statements of another request's critical section.                       *)
(*                                                                         *)
(* A period is its place in the order of period ends, block 15B the set of *)
(* periods in it.  The blocks a clerk fills in are one flag.  Employees    *)
(* have the SIN, province and pay frequency validation asks for, and every *)
(* period pays something insurable.  Nothing reads the source hash and the *)
(* audit log back: what they hold is left out.                             *)
(***************************************************************************)
EXTENDS Integers, FiniteSets

CONSTANTS
    Employees,
    NoEmployee,     \* of a request that is not under way
    Termination,    \* employee -> last day, as a period; 0: none entered
    Lookback,       \* lookbackCount: pay periods that block 15B covers
    Requests,       \* HTTP requests in flight at the same time
    MaxPeriod,      \* bound: pay periods
    MaxClock,       \* bound: seconds
    MaxSerial       \* bound: serial numbers given out

ASSUME RoeAssumption ==
    /\ NoEmployee \notin Employees
    /\ Lookback \in Nat \ {0}
    /\ MaxPeriod \in Nat /\ MaxClock \in Nat /\ MaxSerial \in Nat

PeriodIds == 1 .. MaxPeriod

VARIABLES
    paid,        \* finalized periods: who has an entry in them
    roes,        \* payroll_roe
    clock,       \* time.Now(), in seconds as created_at keeps it
    req,         \* the requests in flight
    overlapped   \* history: employees on whom two requests ever overlapped

vars == <<paid, roes, clock, req, overlapped>>

Roe == [id: Nat \ {0}, emp: Employees, serial: Nat, issued: BOOLEAN,
        filled: BOOLEAN, block: SUBSET PeriodIds, created: 0 .. MaxClock]

(* A request: whose record it is about, the id it works on (0: none), the  *)
(* final period, block 15B and time it has read.                           *)
PCs == {"idle", "final", "existing", "periods", "hash", "write", "insert",
        "revalidate", "issue"}
Request == [pc: PCs, emp: Employees \cup {NoEmployee}, id: Nat,
            final: PeriodIds \cup {0}, block: SUBSET PeriodIds,
            now: 0 .. MaxClock]
Idle == [pc |-> "idle", emp |-> NoEmployee, id |-> 0, final |-> 0,
         block |-> {}, now |-> 0]

(* Between DELETE and INSERT the request keeps Store.mu.                   *)
Locked == \E r \in Requests : req[r].pc = "insert"

InFlight(e) == \E r \in Requests : req[r].emp = e

-----------------------------------------------------------------------------
RoesOf(e) == {x \in roes : x.emp = e}
PaidIn(e) == {p \in PeriodIds : e \in paid[p]}

(* The periods up to the employee's last day.                              *)
Worked(e) ==
    {p \in PaidIn(e) : Termination[e] = 0 \/ p <= Termination[e]}

(* ORDER BY created_at DESC LIMIT 1: any of the newest.                    *)
LatestOfAnyone(e) ==                                   \* mutant
    {x \in roes : \A y \in roes : y.created <= x.created}
LatestIssued(e) == {x \in RoesOf(e) : x.issued}        \* mutant
Latest(e) == {x \in RoesOf(e) : \A y \in RoesOf(e) : y.created <= x.created}

(* ORDER BY period_end DESC LIMIT n.                                       *)
Newest(ps, n) == {p \in ps : Cardinality({q \in ps : q > p}) < n}

(* One more than the highest of the numbers in use.                        *)
CountPlusOne(n, used) == n = Cardinality(used) + 1     \* mutant
IsNext(n, used) ==
    /\ \A m \in used : m < n
    /\ n = 1 \/ n - 1 \in used

(* The row GenerateROEDraft inserts: no reason code, so not yet complete.  *)
RowWithoutTime(r, id, serial) ==                       \* mutant
    [id |-> id, emp |-> req[r].emp, serial |-> serial, issued |-> FALSE,
     filled |-> FALSE, block |-> req[r].block]
DraftRow(r, id, serial) ==
    [id |-> id, emp |-> req[r].emp, serial |-> serial, issued |-> FALSE,
     filled |-> FALSE, block |-> req[r].block, created |-> req[r].now]

(* ValidateROE: the blocks are filled in and block 15C is above zero.      *)
ValidWithoutPay(x) == x.filled                         \* mutant
Valid(x) == x.filled /\ x.block # {}

-----------------------------------------------------------------------------
(* The payroll, changed by other handlers, and time.                       *)

FinalizePeriod(p, emps) ==
    /\ ~Locked
    /\ paid[p] = {} /\ emps # {}
    /\ paid' = [paid EXCEPT ![p] = emps]
    /\ UNCHANGED <<roes, clock, req, overlapped>>

DeletePayrollPeriod(p) ==
    /\ ~Locked
    /\ paid[p] # {}
    /\ paid' = [paid EXCEPT ![p] = {}]
    /\ UNCHANGED <<roes, clock, req, overlapped>>

Tick ==
    /\ clock < MaxClock
    /\ clock' = clock + 1
    /\ UNCHANGED <<paid, roes, req, overlapped>>

-----------------------------------------------------------------------------
(* A handler starts on the record of an employee.                          *)
Begin(r, e, pc, id) ==
    /\ ~Locked
    /\ req[r].pc = "idle"
    /\ req' = [req EXCEPT ![r] = [Idle EXCEPT !.pc = pc, !.emp = e, !.id = id]]
    /\ overlapped' = overlapped \cup (IF InFlight(e) THEN {e} ELSE {})
    /\ UNCHANGED <<paid, roes, clock>>

(* POST /api/payroll/roe.                                                  *)
RoeGenerate(r, e) == Begin(r, e, "final", 0)

(* POST /api/payroll/roe/{id}/regenerate: the record was found and was not *)
(* issued; from here on only its employee matters.                         *)
RoeRegenerate(r) ==
    \E x \in roes : ~x.issued /\ Begin(r, x.emp, "final", 0)

Advance(r, change) ==
    /\ req' = [req EXCEPT ![r] = change]
    /\ UNCHANGED <<paid, roes, clock, overlapped>>

(* Unlocked: the last finalized period, without one the request fails.     *)
ReadFinalPeriod(r) ==
    /\ req[r].pc = "final"
    /\ \E p \in Worked(req[r].emp) :
        /\ \A q \in Worked(req[r].emp) : q <= p
        /\ Advance(r, [req[r] EXCEPT !.pc = "existing", !.final = p])

NoFinalPeriod(r) ==
    /\ req[r].pc = "final"
    /\ Worked(req[r].emp) = {}
    /\ Advance(r, Idle)

(* Unlocked: the existing record, refused if it is issued.                 *)
ReadExisting(r) ==
    /\ req[r].pc = "existing"
    /\ \E x \in Latest(req[r].emp) :
        /\ ~x.issued
        /\ Advance(r, [req[r] EXCEPT !.pc = "periods", !.id = x.id])

NoExisting(r) ==
    /\ req[r].pc = "existing"
    /\ Latest(req[r].emp) = {}
    /\ Advance(r, [req[r] EXCEPT !.pc = "periods"])

ExistingIssued(r) ==
    /\ req[r].pc = "existing"
    /\ \E x \in Latest(req[r].emp) : x.issued
    /\ Advance(r, Idle)

BuildROEPeriods(r) ==
    LET upTo == {p \in PaidIn(req[r].emp) : p <= req[r].final}
    IN  /\ ~Locked
        /\ req[r].pc = "periods"
        /\ Advance(r, [req[r] EXCEPT !.pc = "hash", !.final = 0,
                                     !.block = Newest(upTo, Lookback)])

(* Unlocked, as is the reading of the clock that follows it.               *)
ComputeROESourceHash(r) ==
    /\ req[r].pc = "hash"
    /\ Advance(r, [req[r] EXCEPT !.pc = "write", !.now = clock])

(* The last critical section: the old row goes, the new one takes its id   *)
(* (or the next id) and the next serial number, up to the bound on them.   *)
DeleteROE(r) ==
    /\ ~Locked
    /\ req[r].pc = "write" /\ req[r].id # 0
    /\ roes' = {x \in roes : x.id # req[r].id}
    /\ req' = [req EXCEPT ![r].pc = "insert"]
    /\ UNCHANGED <<paid, clock, overlapped>>

InsertROE(r, id) ==
    \E n \in 1 .. MaxSerial :
        /\ IsNext(n, {x.serial : x \in roes})
        /\ roes' = roes \cup {DraftRow(r, id, n)}
        /\ req' = [req EXCEPT ![r] = Idle]
        /\ UNCHANGED <<paid, clock, overlapped>>

InsertFirst(r) ==
    /\ ~Locked
    /\ req[r].pc = "write" /\ req[r].id = 0
    /\ \E id \in 1 .. MaxSerial :
        /\ IsNext(id, {x.id : x \in roes})
        /\ InsertROE(r, id)

InsertAgain(r) == req[r].pc = "insert" /\ InsertROE(r, req[r].id)

-----------------------------------------------------------------------------
(* POST /roe/{id}/issue: validated by the handler, validated by IssueROE,  *)
(* each under a lock of its own, then issued unless it is already.         *)
RoeIssue(r) ==
    \E x \in roes : Valid(x) /\ Begin(r, x.emp, "revalidate", x.id)

IssueValidate(r) ==
    /\ ~Locked
    /\ req[r].pc = "revalidate"
    /\ \E x \in roes : x.id = req[r].id /\ Valid(x)
    /\ Advance(r, [req[r] EXCEPT !.pc = "issue"])

IssueInvalid(r) ==
    /\ ~Locked
    /\ req[r].pc = "revalidate"
    /\ \E x \in roes : x.id = req[r].id /\ ~Valid(x)
    /\ Advance(r, Idle)

IssueROE(r) ==
    /\ ~Locked
    /\ req[r].pc = "issue"
    /\ \E x \in roes :
        /\ x.id = req[r].id /\ ~x.issued
        /\ roes' = (roes \ {x}) \cup {[x EXCEPT !.issued = TRUE]}
    /\ req' = [req EXCEPT ![r] = Idle]
    /\ UNCHANGED <<paid, clock, overlapped>>

AlreadyIssued(r) ==
    /\ ~Locked
    /\ req[r].pc = "issue"
    /\ \E x \in roes : x.id = req[r].id /\ x.issued
    /\ Advance(r, Idle)

(* PATCH /roe/{id}: the blocks, complete or not, under one lock.           *)
SaveFields(x, filled) ==
    /\ ~Locked
    /\ roes' = (roes \ {x}) \cup {[x EXCEPT !.filled = filled]}
    /\ overlapped' =
        overlapped \cup (IF InFlight(x.emp) THEN {x.emp} ELSE {})
    /\ UNCHANGED <<paid, clock, req>>
UpdateAnyROE(x, filled) == SaveFields(x, filled)       \* mutant
UpdateROEFields(x, filled) == ~x.issued /\ SaveFields(x, filled)

(* The process dies and is started again.                                  *)
Crash ==
    /\ \E r \in Requests : req[r].pc # "idle"
    /\ req' = [r \in Requests |-> Idle]
    /\ UNCHANGED <<paid, roes, clock, overlapped>>

-----------------------------------------------------------------------------
Init ==
    /\ paid = [p \in PeriodIds |-> {}]
    /\ roes = {}
    /\ clock = 0
    /\ req = [r \in Requests |-> Idle]
    /\ overlapped = {}

Payroll ==
    \/ \E p \in PeriodIds, emps \in SUBSET Employees : FinalizePeriod(p, emps)
    \/ \E p \in PeriodIds : DeletePayrollPeriod(p)

Generate(r) ==
    \/ \E e \in Employees : RoeGenerate(r, e)
    \/ RoeRegenerate(r)
    \/ ReadFinalPeriod(r)
    \/ NoFinalPeriod(r)
    \/ ReadExisting(r)
    \/ NoExisting(r)
    \/ ExistingIssued(r)
    \/ BuildROEPeriods(r)
    \/ ComputeROESourceHash(r)
    \/ DeleteROE(r)
    \/ InsertFirst(r)
    \/ InsertAgain(r)

Issue(r) ==
    \/ RoeIssue(r)
    \/ IssueValidate(r)
    \/ IssueInvalid(r)
    \/ IssueROE(r)
    \/ AlreadyIssued(r)

Next ==
    \/ Payroll
    \/ Tick
    \/ \E r \in Requests : Generate(r) \/ Issue(r)
    \/ \E x \in roes, filled \in BOOLEAN : UpdateROEFields(x, filled)
    \/ Crash

Spec == Init /\ [][Next]_vars

-----------------------------------------------------------------------------
TypeOK ==
    /\ paid \in [PeriodIds -> SUBSET Employees]
    /\ roes \subseteq Roe
    /\ clock \in 0 .. MaxClock
    /\ req \in [Requests -> Request]
    /\ overlapped \subseteq Employees

(* No two records share an id or a serial number, whatever is generated at *)
(* the same time and however often a row is deleted and inserted again.    *)
NumbersDistinct ==
    \A x, y \in roes : x.id = y.id \/ x.serial = y.serial => x = y

(* The record that a generation deletes, or an issue seals, is still one   *)
(* of the employee it was read for: an id is never given to another while  *)
(* a request remembers it.                                                 *)
WorksOnOwnRoe ==
    \A r \in Requests :
        req[r].id # 0 /\ req[r].pc # "insert" =>
            \/ \E x \in roes : x.id = req[r].id /\ x.emp = req[r].emp
            \/ \E q \in Requests : /\ req[q].pc = "insert"
                                   /\ req[q].id = req[r].id
                                   /\ req[q].emp = req[r].emp

(* An issued record is immutable ("IssueROE locks a draft ROE",            *)
(* payroll_roe.go:585), as long as no two requests on one employee         *)
(* overlap; crashes and requests on other employees may.                   *)
IssuedStaysUnlessOverlapped ==
    [][\A x \in roes :
        x.issued /\ x.emp \notin overlapped' => x \in roes']_vars

(* Then an employee has at most one record, lost in a crash and generated  *)
(* again or not.                                                           *)
OneRoePerEmployee ==
    \A x, y \in roes : x.emp = y.emp /\ x.emp \notin overlapped => x = y

(* Then an issued record has passed validation as it stands ("Returns an   *)
(* error if validation fails", payroll_roe.go:585), although IssueROE      *)
(* validates and issues under different locks.                             *)
IssuedIsValid ==
    \A x \in roes :
        x.issued /\ x.emp \notin overlapped => x.filled /\ x.block # {}

(* "Issued ROEs cannot be regenerated" (payroll_roe.go:398): an issued     *)
(* record stays as it is.                                                  *)
IssuedStays == [][\A x \in roes : x.issued => x \in roes']_vars
=============================================================================
