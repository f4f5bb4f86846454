-------------------------- MODULE PayrollRunProofs --------------------------
(***************************************************************************)
(* Theorems about PayrollRun: what holds whatever the requests in flight   *)
(* do, for any number of companies, employees, requests, periods and       *)
(* entries.                                                                *)
(***************************************************************************)
EXTENDS PayrollRun, TLAPS

(* A request that has started works on a period id.                        *)
WorkHasPeriod ==
    \A r \in Requests : req[r].pc # "idle" => req[r].period \in PeriodIds

(* Inductive: an insertion has a fresh id and finds no row of its key.     *)
KeyInv == TypeOK /\ WorkHasPeriod /\ OneEntryPerEmployee

-----------------------------------------------------------------------------
(* Operators.                                                              *)

(* The amount found among earnings lines is a number of cents.             *)
LEMMA AmountOfType ==
    ASSUME NEW ls \in SUBSET Line, NEW code
    PROVE  AmountOf(ls, code) \in Nat
<1>1. CASE \E l \in ls : l.code = code
    <2>1. (CHOOSE l \in ls : l.code = code) \in ls
        BY <1>1
    <2>2. QED
        BY <1>1, <2>1 DEF AmountOf, Line
<1>2. CASE ~ \E l \in ls : l.code = code
    BY <1>2 DEF AmountOf
<1>3. QED
    BY <1>1, <1>2

(* So is the sum of an entry's earnings lines.                             *)
LEMMA EarningsType ==
    ASSUME NEW id, lines \subseteq Line
    PROVE  EarningsGrossForEntry(id) \in Nat
<1>1. LinesOf(id) \in SUBSET Line
    BY DEF LinesOf
<1>2. QED
    BY <1>1, AmountOfType DEF EarningsGrossForEntry

(* And the vacation pay on a number of cents.                              *)
LEMMA VacationPayType ==
    ASSUME NEW base \in Nat
    PROVE  VacationPay(base) \in Nat
<1>1. VacationPct \in Nat
    BY PayrollAssumption
<1>2. base * VacationPct \in Nat
    BY <1>1
<1>3. QED
    BY <1>2 DEF VacationPay

(* A row as a client sends it is an entry without an id of its own.        *)
LEMMA SentRowType ==
    ASSUME TypeOK, NEW p \in PeriodIds, NEW emp \in Employees,
           NEW gross \in Grosses, NEW st \in SavedStatuses \cup {"draft"}
    PROVE  /\ SentRow(p, emp, gross, st) \in Entry
           /\ SentRow(p, emp, gross, st).period = p
           /\ SentRow(p, emp, gross, st).emp = emp
<1>1. gross \in Nat /\ st \in {"keep", "draft", "approved", "calculated"}
    BY PayrollAssumption
<1>2. CASE st = "keep" /\ \E e \in EntryFor(p, emp) : TRUE
    <2>1. (CHOOSE e \in EntryFor(p, emp) : TRUE) \in EntryFor(p, emp)
        BY <1>2
    <2>2. (CHOOSE e \in EntryFor(p, emp) : TRUE).status \in EntryStatus
        BY <2>1 DEF TypeOK, EntryFor, Entry
    <2>3. QED
        BY <1>1, <1>2, <2>2 DEF SentRow, Entry
<1>3. CASE ~ (st = "keep" /\ \E e \in EntryFor(p, emp) : TRUE)
    BY <1>1, <1>3 DEF SentRow, Entry, EntryStatus
<1>4. QED
    BY <1>2, <1>3

(* The year-to-date figures count periods of known companies.              *)
LEMMA YTDType ==
    ASSUME TypeOK, NEW emp, NEW p
    PROVE  GetYTDBeforePeriod(emp, p) \in SUBSET Counted
BY DEF TypeOK, GetYTDBeforePeriod, Counted

(* Updating a row keeps its id and takes the other key columns as sent.    *)
LEMMA MergedType ==
    ASSUME NEW old \in Entry, NEW row \in Entry
    PROVE  /\ Merged(old, row) \in Entry
           /\ Merged(old, row).id = old.id
           /\ Merged(old, row).period = row.period
           /\ Merged(old, row).emp = row.emp
BY DEF Merged, Entry

(* UpsertPayrollEntry keeps the table well typed, ids unique and one entry *)
(* for each employee and period.                                           *)
LEMMA UpsertKeepsKeys ==
    ASSUME TypeOK, OneEntryPerEmployee, NEW row \in Entry,
           UpsertPayrollEntry(row)
    PROVE  entries' \subseteq Entry /\ OneEntryPerEmployee'
<1>1. CASE EntryFor(row.period, row.emp) = {}
    <2>1. PICK n \in EntryIds :
            /\ IsNextId(n, {e.id : e \in entries})
            /\ entries' = entries \cup {[row EXCEPT !.id = n]}
        BY <1>1 DEF UpsertPayrollEntry
    <2>2. /\ [row EXCEPT !.id = n] \in Entry
          /\ [row EXCEPT !.id = n].id = n
          /\ [row EXCEPT !.id = n].period = row.period
          /\ [row EXCEPT !.id = n].emp = row.emp
        BY DEF Entry, EntryIds
    <2>3. \A e \in entries : e.id < n
        BY <2>1 DEF IsNextId
    <2>4. \A e \in entries : e.id # n
        BY <2>3 DEF TypeOK, Entry, EntryIds
    <2>5. \A e \in entries : ~ (e.period = row.period /\ e.emp = row.emp)
        BY <1>1 DEF EntryFor
    <2> DEFINE new == [row EXCEPT !.id = n]
    <2>6. entries' = entries \cup {new} /\ new \in Entry
        BY <2>1, <2>2
    <2>7. \A e \in entries :
            e.id # new.id /\ ~ (e.period = new.period /\ e.emp = new.emp)
        BY <2>2, <2>4, <2>5
    <2> HIDE DEF new
    <2>8. QED
        BY <2>6, <2>7 DEF TypeOK, OneEntryPerEmployee
<1>2. CASE EntryFor(row.period, row.emp) # {}
    <2>1. PICK old \in EntryFor(row.period, row.emp) :
            entries' = (entries \ {old}) \cup {Merged(old, row)}
        BY <1>2 DEF UpsertPayrollEntry
    <2>2. old \in entries /\ old.period = row.period /\ old.emp = row.emp
        BY DEF EntryFor
    <2>3. old \in Entry
        BY <2>2 DEF TypeOK
    <2>4. /\ Merged(old, row) \in Entry
          /\ Merged(old, row).id = old.id
          /\ Merged(old, row).period = old.period
          /\ Merged(old, row).emp = old.emp
        BY <2>2, <2>3, MergedType
    <2>5. QED
        BY <2>1, <2>2, <2>4 DEF TypeOK, OneEntryPerEmployee
<1>3. QED
    BY <1>1, <1>2
-----------------------------------------------------------------------------
(* The key invariant.                                                      *)

LEMMA KeyInvInit == Init => KeyInv
<1> SUFFICES ASSUME Init PROVE KeyInv
    OBVIOUS
<1>1. company \in [PeriodIds -> Companies]
    <2>1. (CHOOSE c \in Companies : TRUE) \in Companies
        BY PayrollAssumption
    <2>2. QED
        BY <2>1 DEF Init
<1>2. Idle \in Request
    BY DEF Idle, Request, PCs
<1>3. QED
    BY <1>1, <1>2 DEF Init, KeyInv, TypeOK, WorkHasPeriod,
        OneEntryPerEmployee, PeriodStatus, Idle

(* Storing a well-typed request keeps the requests well typed.             *)
LEMMA SetRequest ==
    ASSUME TypeOK, WorkHasPeriod, NEW r \in Requests, NEW w \in Request,
           w.pc = "idle" \/ w.period \in PeriodIds,
           req' = [req EXCEPT ![r] = w]
    PROVE  req' \in [Requests -> Request] /\ WorkHasPeriod'
BY DEF TypeOK, WorkHasPeriod

LEMMA StoreKeepsKeys == KeyInv /\ Store => KeyInv'
<1> SUFFICES ASSUME KeyInv, Store PROVE KeyInv'
    OBVIOUS
<1> USE DEF KeyInv
<1>1. ASSUME NEW c \in Companies, CreatePayrollPeriod(c) PROVE KeyInv'
    <2>1. entries' \subseteq entries
        BY <1>1 DEF CreatePayrollPeriod, EntriesWithout
    <2>2. /\ status' \in [PeriodIds -> PeriodStatus]
          /\ company' \in [PeriodIds -> Companies]
        BY <1>1 DEF CreatePayrollPeriod, TypeOK, PeriodStatus
    <2>3. UNCHANGED <<lines, req>>
        BY <1>1 DEF CreatePayrollPeriod
    <2>4. QED
        BY <2>1, <2>2, <2>3 DEF TypeOK, WorkHasPeriod, OneEntryPerEmployee
<1>2. ASSUME NEW p \in PeriodIds, NEW force \in BOOLEAN,
             DeletePayrollPeriod(p, force)
      PROVE  KeyInv'
    <2>1. entries' \subseteq entries
        BY <1>2 DEF DeletePayrollPeriod, EntriesWithout
    <2>2. /\ status' \in [PeriodIds -> PeriodStatus]
          /\ UNCHANGED <<company, lines, req>>
        BY <1>2 DEF DeletePayrollPeriod, TypeOK, PeriodStatus
    <2>3. QED
        BY <2>1, <2>2 DEF TypeOK, WorkHasPeriod, OneEntryPerEmployee
<1>3. QED
    BY <1>1, <1>2 DEF Store

(* Looking an entry up changes no table, and remembers an entry.           *)
LEMMA GetEntryKeepsKeys ==
    ASSUME KeyInv, NEW r \in Requests, NEW e \in entries,
           NEW pc \in {"earnings", "override"}, GetPayrollEntry(r, e, pc)
    PROVE  KeyInv'
<1> DEFINE work == [Idle EXCEPT !.pc = pc, !.period = e.period, !.cur = {e}]
<1>1. e \in Entry /\ e.period \in PeriodIds
    BY DEF KeyInv, TypeOK, Entry
<1>2. work \in Request /\ work.period \in PeriodIds
    BY <1>1 DEF Request, Idle, PCs
<1>3. req' = [req EXCEPT ![r] = work]
    BY DEF GetPayrollEntry
<1> HIDE DEF work
<1>4. req' \in [Requests -> Request] /\ WorkHasPeriod'
    BY <1>2, <1>3, SetRequest DEF KeyInv
<1>5. QED
    BY <1>4 DEF GetPayrollEntry, KeyInv, TypeOK, OneEntryPerEmployee

LEMMA PeriodStartKeepsKeys ==
    ASSUME KeyInv, NEW r \in Requests, NEW p \in PeriodIds,
           \/ PutStart(r, p) \/ InitStart(r, p) \/ CalculateStart(r, p)
           \/ RecalculateStart(r, p) \/ FinalizeStart(r, p)
    PROVE  KeyInv'
<1> USE DEF KeyInv
<1> DEFINE work(pc) == [Idle EXCEPT !.pc = pc, !.period = p]
           init(emps) == [Idle EXCEPT !.pc = "init", !.period = p,
                                      !.emps = emps]
<1>2. \A pc \in PCs :
        work(pc) \in Request /\ work(pc).period \in PeriodIds
    BY DEF Request, Idle
<1>3. \A emps \in SUBSET Employees :
        init(emps) \in Request /\ init(emps).period \in PeriodIds
    BY DEF Request, Idle, PCs
<1>4. {"put", "list", "finalize"} \subseteq PCs
    BY DEF PCs
<1>6. CASE PutStart(r, p)
    <2>1. req' \in [Requests -> Request] /\ WorkHasPeriod'
        BY <1>2, <1>4, <1>6, SetRequest DEF PutStart
    <2>2. QED
        BY <2>1, <1>6 DEF PutStart, TypeOK, OneEntryPerEmployee
<1>7. CASE InitStart(r, p)
    <2> DEFINE emps == {e \in Employees : Employer[e] = company[p]}
    <2>1. req' = [req EXCEPT ![r] = init(emps)]
        BY <1>7 DEF InitStart
    <2>2. emps \in SUBSET Employees
        OBVIOUS
    <2> HIDE DEF emps, init
    <2>3. req' \in [Requests -> Request] /\ WorkHasPeriod'
        BY <1>3, <2>1, <2>2, SetRequest
    <2>4. QED
        BY <2>3, <1>7 DEF InitStart, TypeOK, OneEntryPerEmployee
<1>8. CASE CalculateStart(r, p)
    <2>1. req' \in [Requests -> Request] /\ WorkHasPeriod'
        BY <1>2, <1>4, <1>8, SetRequest DEF CalculateStart
    <2>2. QED
        BY <2>1, <1>8 DEF CalculateStart, TypeOK, OneEntryPerEmployee
<1>9. CASE RecalculateStart(r, p)
    <2>1. req' \in [Requests -> Request] /\ WorkHasPeriod'
        BY <1>2, <1>4, <1>9, SetRequest DEF RecalculateStart
    <2> DEFINE reset(e) ==
            [e EXCEPT !.status = IF @ \in {"calculated", "finalized"}
                                 THEN "approved" ELSE @]
    <2>2. \A e \in entries :
            /\ reset(e) \in Entry
            /\ reset(e).id = e.id
            /\ reset(e).period = e.period
            /\ reset(e).emp = e.emp
        BY DEF TypeOK, Entry, EntryStatus
    <2>3. entries' = (entries \ EntriesOf(p)) \cup
                     {reset(e) : e \in EntriesOf(p)}
        BY <1>9 DEF RecalculateStart
    <2>4. EntriesOf(p) \subseteq entries
        BY DEF EntriesOf
    <2> HIDE DEF reset
    <2>5. entries' \subseteq Entry
        BY <2>2, <2>3, <2>4 DEF TypeOK
    <2>6. \A y \in entries' : \E x \in entries :
            /\ y = IF x \in EntriesOf(p) THEN reset(x) ELSE x
            /\ y.id = x.id /\ y.period = x.period /\ y.emp = x.emp
        BY <2>2, <2>3, <2>4
    <2>7. OneEntryPerEmployee'
        BY <2>6 DEF OneEntryPerEmployee
    <2>8. QED
        BY <2>1, <2>5, <2>7, <1>9 DEF RecalculateStart, TypeOK
<1>10. CASE FinalizeStart(r, p)
    <2>1. req' \in [Requests -> Request] /\ WorkHasPeriod'
        BY <1>2, <1>4, <1>10, SetRequest DEF FinalizeStart
    <2>2. QED
        BY <2>1, <1>10 DEF FinalizeStart, TypeOK, OneEntryPerEmployee
<1>11. QED
    BY <1>6, <1>7, <1>8, <1>9, <1>10

LEMMA StartKeepsKeys ==
    ASSUME KeyInv, NEW r \in Requests, Start(r) PROVE KeyInv'
<1>1. CASE \E e \in entries : EarningsStart(r, e) \/ OverrideStart(r, e)
    BY <1>1, GetEntryKeepsKeys DEF EarningsStart, OverrideStart
<1>2. CASE \E p \in PeriodIds :
            \/ PutStart(r, p) \/ InitStart(r, p) \/ CalculateStart(r, p)
            \/ RecalculateStart(r, p) \/ FinalizeStart(r, p)
    BY <1>2, PeriodStartKeepsKeys
<1>3. QED
    BY <1>1, <1>2 DEF Start

(* Pricing an entry keeps it well typed, and its key.                      *)
LEMMA PricedType ==
    ASSUME NEW e \in Entry, NEW g \in Nat, NEW y \in SUBSET Counted
    PROVE  /\ [e EXCEPT !.status = "calculated", !.ded = g] \in Entry
           /\ [e EXCEPT !.status = "calculated", !.gross = g, !.ded = g]
                \in Entry
           /\ [e EXCEPT !.status = "calculated", !.gross = g, !.ded = g,
                        !.ytd = y] \in Entry
<1>1. "calculated" \in EntryStatus
    BY DEF EntryStatus
<1>2. QED
    BY <1>1 DEF Entry

(* What CalculateEntry keeps for its next store call is well typed.        *)
LEMMA CalculateEntryWork ==
    ASSUME TypeOK, WorkHasPeriod, NEW r \in Requests, CalculateEntry(r)
    PROVE  req' \in [Requests -> Request] /\ WorkHasPeriod'
<1> DEFINE p == req[r].period
           ytd(e) == GetYTDBeforePeriod(e.emp, p)
           vac(e) == VacationPay(e.gross + AmountOf(LinesOf(e.id), "extra"))
           sum(e) == e.gross + EarningsGrossForEntry(e.id)
           rest(e) == [req[r] EXCEPT !.todo = @ \ {e}]
           free(e) == [rest(e) EXCEPT !.pc = "save",
                        !.cur = {[e EXCEPT !.status = "calculated",
                                           !.ded = e.gross]}]
           add(e) == [rest(e) EXCEPT !.pc = "vacation", !.vac = vac(e),
                        !.cur = {[e EXCEPT !.ytd = ytd(e)]},
                        !.keep = {l \in LinesOf(e.id) : l.code # "VAC"}]
           priced(e) == [rest(e) EXCEPT !.pc = "save",
                        !.cur = {[e EXCEPT !.status = "calculated",
                                           !.gross = sum(e),
                                           !.ded = sum(e), !.ytd = ytd(e)]}]
<1>1. PICK e \in req[r].todo :
        \/ req' = [req EXCEPT ![r] = free(e)]
        \/ req' = [req EXCEPT ![r] = add(e)]
        \/ req' = [req EXCEPT ![r] = priced(e)]
    BY DEF CalculateEntry
<1>2. req[r] \in Request /\ p \in PeriodIds
    BY DEF CalculateEntry, TypeOK, WorkHasPeriod
<1>3. e \in Entry
    BY <1>2 DEF Request
<1>4. LinesOf(e.id) \in SUBSET Line
    BY DEF LinesOf, TypeOK
<1>5. sum(e) \in Nat
    BY <1>3, EarningsType DEF Entry, TypeOK
<1>6. vac(e) \in Nat
    <2>1. e.gross + AmountOf(LinesOf(e.id), "extra") \in Nat
        BY <1>3, <1>4, AmountOfType DEF Entry
    <2>2. QED
        BY <2>1, VacationPayType
<1>7. ytd(e) \in SUBSET Counted
    BY YTDType
<1>8. rest(e) \in Request /\ rest(e).period \in PeriodIds
    BY <1>2 DEF Request
<1> HIDE DEF p, ytd, vac, sum, rest
<1>9. free(e) \in Request /\ free(e).period \in PeriodIds
    <2>1. [e EXCEPT !.status = "calculated", !.ded = e.gross] \in Entry
        BY <1>3, PricedType DEF Entry
    <2>2. QED
        BY <2>1, <1>8 DEF Request, PCs
<1>10. add(e) \in Request /\ add(e).period \in PeriodIds
    BY <1>3, <1>4, <1>6, <1>7, <1>8 DEF Request, PCs, Entry
<1>11. priced(e) \in Request /\ priced(e).period \in PeriodIds
    <2>1. [e EXCEPT !.status = "calculated", !.gross = sum(e),
                    !.ded = sum(e), !.ytd = ytd(e)] \in Entry
        BY <1>3, <1>5, <1>7, PricedType
    <2>2. QED
        BY <2>1, <1>8 DEF Request, PCs
<1> HIDE DEF free, add, priced
<1>12. QED
    BY <1>1, <1>9, <1>10, <1>11, SetRequest

LEMMA ContinueKeepsKeys ==
    ASSUME KeyInv, NEW r \in Requests, Continue(r) PROVE KeyInv'
<1> USE DEF KeyInv
<1>1. req[r] \in Request /\ Idle \in Request /\ Idle.pc = "idle"
    BY DEF TypeOK, Idle, Request, PCs
<1>2. ASSUME NEW emp \in Employees, NEW gross \in Grosses,
             NEW st \in SavedStatuses, PutEntry(r, emp, gross, st)
      PROVE  KeyInv'
    <2>1. req[r].period \in PeriodIds
        BY <1>2 DEF PutEntry, WorkHasPeriod
    <2>2. SentRow(req[r].period, emp, gross, st) \in Entry
        BY <2>1, SentRowType
    <2>3. entries' \subseteq Entry /\ OneEntryPerEmployee'
        BY <1>2, <2>2, UpsertKeepsKeys DEF PutEntry
    <2>4. QED
        BY <1>2, <2>3 DEF PutEntry, TypeOK, WorkHasPeriod
<1>3. CASE PutEnd(r)
    <2>1. req' \in [Requests -> Request] /\ WorkHasPeriod'
        BY <1>1, <1>3, SetRequest DEF PutEnd
    <2>2. QED
        BY <1>3, <2>1 DEF PutEnd, TypeOK, OneEntryPerEmployee
<1>4. CASE InitEntry(r)
    <2>1. PICK emp \in req[r].emps, gross \in Grosses :
            /\ UpsertPayrollEntry(SentRow(req[r].period, emp, gross, "draft"))
            /\ req' = [req EXCEPT ![r].emps = @ \ {emp}]
        BY <1>4 DEF InitEntry
    <2>2. req[r].period \in PeriodIds /\ emp \in Employees
        BY <1>1, <1>4 DEF InitEntry, WorkHasPeriod, Request
    <2>3. SentRow(req[r].period, emp, gross, "draft") \in Entry
        BY <2>2, SentRowType
    <2>4. entries' \subseteq Entry /\ OneEntryPerEmployee'
        BY <2>1, <2>3, UpsertKeepsKeys
    <2>5. req' \in [Requests -> Request] /\ WorkHasPeriod'
        BY <2>1, <2>2 DEF TypeOK, WorkHasPeriod, Request
    <2>6. QED
        BY <1>4, <2>4, <2>5 DEF InitEntry, TypeOK
<1>5. CASE InitEnd(r)
    <2>1. req' \in [Requests -> Request] /\ WorkHasPeriod'
        BY <1>1, <1>5, SetRequest DEF InitEnd
    <2>2. QED
        BY <1>5, <2>1 DEF InitEnd, TypeOK, OneEntryPerEmployee
<1>6. CASE CalculateList(r)
    <2>1. req[r].period \in PeriodIds
        BY <1>6 DEF CalculateList, WorkHasPeriod
    <2> DEFINE todo == {e \in EntriesOf(req[r].period) :
                            e.status = "approved"}
               emps == {e \in Employees :
                            Employer[e] = company[req[r].period]}
               work == [Idle EXCEPT !.pc = "entry", !.period = req[r].period,
                                    !.todo = todo, !.emps = emps]
    <2>2. todo \in SUBSET Entry /\ emps \in SUBSET Employees
        BY DEF EntriesOf, TypeOK
    <2>3. work \in Request /\ work.period \in PeriodIds
        BY <2>1, <2>2 DEF Request, Idle, PCs
    <2>4. \/ req' = [req EXCEPT ![r] = work]
          \/ req' = [req EXCEPT ![r] = Idle]
        BY <1>6 DEF CalculateList
    <2> HIDE DEF work
    <2>5. req' \in [Requests -> Request] /\ WorkHasPeriod'
        BY <1>1, <2>3, <2>4, SetRequest
    <2>6. QED
        BY <1>6, <2>5 DEF CalculateList, TypeOK, OneEntryPerEmployee
<1>7. CASE CalculateEntry(r)
    <2>1. req' \in [Requests -> Request] /\ WorkHasPeriod'
        BY <1>7, CalculateEntryWork
    <2>2. QED
        BY <1>7, <2>1 DEF CalculateEntry, TypeOK, OneEntryPerEmployee
<1>8. CASE CalculateVacation(r)
    <2>1. PICK e \in req[r].cur :
            lines' = (lines \ LinesOf(e.id)) \cup req[r].keep \cup
                     {[entry |-> e.id, code |-> "VAC", amount |-> req[r].vac,
                       for |-> e.emp]}
        BY <1>8 DEF CalculateVacation
    <2>2. lines' \subseteq Line
        <3>1. [entry |-> e.id, code |-> "VAC", amount |-> req[r].vac,
               for |-> e.emp] \in Line
            BY <1>1 DEF Request, Entry, Line
        <3>2. req[r].keep \subseteq Line /\ lines \subseteq Line
            BY <1>1 DEF Request, TypeOK
        <3>3. QED
            BY <2>1, <3>1, <3>2
    <2>3. req' \in [Requests -> Request] /\ WorkHasPeriod'
        BY <1>8 DEF CalculateVacation, TypeOK, WorkHasPeriod, Request, PCs
    <2>4. QED
        BY <1>8, <2>2, <2>3 DEF CalculateVacation, TypeOK,
            OneEntryPerEmployee
<1>9. CASE CalculateRefetch(r)
    <2>1. req' \in [Requests -> Request] /\ WorkHasPeriod'
        <3> DEFINE sum(e) == e.gross + EarningsGrossForEntry(e.id)
               work(e) == [req[r] EXCEPT !.pc = "save", !.vac = 0, !.keep = {},
                            !.cur = {[e EXCEPT !.status = "calculated",
                                               !.gross = sum(e),
                                               !.ded = sum(e)]}]
        <3>1. PICK e \in req[r].cur : req' = [req EXCEPT ![r] = work(e)]
            BY <1>9 DEF CalculateRefetch
        <3>2. e \in Entry /\ sum(e) \in Nat
            BY <1>1, EarningsType DEF Request, TypeOK, Entry
        <3> HIDE DEF sum
        <3>3. [e EXCEPT !.status = "calculated", !.gross = sum(e),
                        !.ded = sum(e)] \in Entry
            BY <3>2, PricedType
        <3>4. req[r].period \in PeriodIds
            BY <1>9 DEF CalculateRefetch, WorkHasPeriod
        <3>5. work(e) \in Request /\ work(e).period \in PeriodIds
            BY <1>1, <3>3, <3>4 DEF Request, PCs
        <3> HIDE DEF work
        <3>6. QED
            BY <3>1, <3>5, SetRequest
    <2>2. QED
        BY <1>9, <2>1 DEF CalculateRefetch, TypeOK, OneEntryPerEmployee
<1>10. CASE CalculateSave(r)
    <2>1. PICK e \in req[r].cur : UpsertPayrollEntry(e)
        BY <1>10 DEF CalculateSave
    <2>2. e \in Entry
        BY <1>1 DEF Request
    <2>3. entries' \subseteq Entry /\ OneEntryPerEmployee'
        BY <2>1, <2>2, UpsertKeepsKeys
    <2>4. req' \in [Requests -> Request] /\ WorkHasPeriod'
        BY <1>10 DEF CalculateSave, TypeOK, WorkHasPeriod, Request, PCs
    <2>5. QED
        BY <1>10, <2>3, <2>4 DEF CalculateSave, TypeOK
<1>11. CASE CalculateMark(r)
    <2>1. req' \in [Requests -> Request] /\ WorkHasPeriod'
        BY <1>1, <1>11, SetRequest DEF CalculateMark
    <2>2. status' \in [PeriodIds -> PeriodStatus]
        BY <1>11 DEF CalculateMark, UpdatePayrollPeriodStatus, TypeOK,
            PeriodStatus
    <2>3. QED
        BY <1>11, <2>1, <2>2 DEF CalculateMark, TypeOK, OneEntryPerEmployee
<1>12. CASE FinalizeWrite(r)
    <2>1. req' \in [Requests -> Request] /\ WorkHasPeriod'
        BY <1>1, <1>12, SetRequest DEF FinalizeWrite
    <2>2. status' \in [PeriodIds -> PeriodStatus]
        BY <1>12 DEF FinalizeWrite, UpdatePayrollPeriodStatus, TypeOK,
            PeriodStatus
    <2>3. QED
        BY <1>12, <2>1, <2>2 DEF FinalizeWrite, TypeOK, OneEntryPerEmployee
<1>13. ASSUME NEW amounts \in SUBSET ExtraAmounts,
              ReplaceEntryEarnings(r, amounts)
       PROVE  KeyInv'
    <2>1. PICK e \in req[r].cur :
            lines' = (lines \ LinesOf(e.id)) \cup
                     {[entry |-> e.id, code |-> "extra", amount |-> a,
                       for |-> e.emp] : a \in amounts}
        BY <1>13 DEF ReplaceEntryEarnings
    <2>2. e \in Entry
        BY <1>1 DEF Request
    <2>3. \A a \in amounts :
            [entry |-> e.id, code |-> "extra", amount |-> a, for |-> e.emp]
                \in Line
        BY <2>2, PayrollAssumption DEF Entry, Line
    <2>4. lines' \subseteq Line
        BY <2>1, <2>3 DEF TypeOK
    <2>5. req' \in [Requests -> Request] /\ WorkHasPeriod'
        BY <1>1, <1>13, SetRequest DEF ReplaceEntryEarnings
    <2>6. QED
        BY <1>13, <2>4, <2>5 DEF ReplaceEntryEarnings, TypeOK,
            OneEntryPerEmployee
<1>14. CASE OverrideEntryDeductions(r)
    <2>1. PICK e \in req[r].cur :
            entries' = {IF x.id = e.id THEN [x EXCEPT !.ded = x.gross] ELSE x :
                            x \in entries}
        BY <1>14 DEF OverrideEntryDeductions
    <2> DEFINE new(x) == IF x.id = e.id THEN [x EXCEPT !.ded = x.gross] ELSE x
    <2>2. \A x \in entries : /\ new(x) \in Entry
                             /\ new(x).id = x.id
                             /\ new(x).period = x.period
                             /\ new(x).emp = x.emp
        BY DEF TypeOK, Entry
    <2>3. entries' = {new(x) : x \in entries}
        BY <2>1
    <2> HIDE DEF new
    <2>4. entries' \subseteq Entry
        BY <2>2, <2>3
    <2>5. OneEntryPerEmployee'
        BY <2>2, <2>3 DEF OneEntryPerEmployee
    <2>6. req' \in [Requests -> Request] /\ WorkHasPeriod'
        BY <1>1, <1>14, SetRequest DEF OverrideEntryDeductions
    <2>7. QED
        BY <1>14, <2>4, <2>5, <2>6 DEF OverrideEntryDeductions, TypeOK
<1>15. \A amounts \in {{}} \cup {{a} : a \in ExtraAmounts} :
        amounts \in SUBSET ExtraAmounts
    OBVIOUS
<1>16. QED
    BY <1>2, <1>3, <1>4, <1>5, <1>6, <1>7, <1>8, <1>9, <1>10, <1>11, <1>12,
        <1>13, <1>14, <1>15
        DEF Continue

(* Every store call keeps entry ids unique and one entry per employee and  *)
(* period (UpsertPayrollEntry's lookup and insert under one lock).         *)
LEMMA KeyInvNext == KeyInv /\ [Next]_vars => KeyInv'
<1> SUFFICES ASSUME KeyInv, [Next]_vars PROVE KeyInv'
    OBVIOUS
<1>1. CASE Next
    BY <1>1, StoreKeepsKeys, StartKeepsKeys, ContinueKeepsKeys DEF Next
<1>2. CASE UNCHANGED vars
    BY <1>2 DEF vars, KeyInv, TypeOK, WorkHasPeriod, OneEntryPerEmployee
<1>3. QED
    BY <1>1, <1>2

(* Type correctness of every interleaving.                                 *)
THEOREM TypeCorrect == Spec => []TypeOK
<1>1. KeyInv => TypeOK
    BY DEF KeyInv
<1>2. QED
    BY <1>1, KeyInvInit, KeyInvNext, PTL DEF Spec

(* However requests that fill, edit and calculate a period overlap, no     *)
(* employee gets two entries in it and no two entries share an id.         *)
THEOREM NoDoublePay == Spec => []OneEntryPerEmployee
<1>1. KeyInv => OneEntryPerEmployee
    BY DEF KeyInv
<1>2. QED
    BY <1>1, KeyInvInit, KeyInvNext, PTL DEF Spec

-----------------------------------------------------------------------------
(* What a step makes of a request.                                         *)

(* Where a request may go: it stays idle or keeps its period.              *)
LEMMA ContinueMoves ==
    ASSUME KeyInv, NEW r \in Requests, Continue(r)
    PROVE  /\ \A q \in Requests \ {r} : req'[q] = req[q]
           /\ req[r].pc # "idle"
           /\ \/ req'[r].pc = "idle"
              \/ /\ req'[r].period = req[r].period
                 /\ req'[r].pc \in {"put", "init"} /\ req'[r].pc = req[r].pc
              \/ /\ req'[r].period = req[r].period
                 /\ req[r].pc \in {"list", "entry", "vacation", "refetch",
                                   "save"}
                 /\ req'[r].pc \in {"entry", "vacation", "refetch", "save"}
<1>1. req \in [Requests -> Request] /\ req[r] \in Request
    BY DEF KeyInv, TypeOK
<1>2. CASE \E emp \in Employees, gross \in Grosses, st \in SavedStatuses :
            PutEntry(r, emp, gross, st)
    BY <1>2 DEF PutEntry
<1>3. CASE \/ PutEnd(r) \/ InitEnd(r) \/ CalculateMark(r) \/ FinalizeWrite(r)
           \/ OverrideEntryDeductions(r)
           \/ \E amounts \in {{}} \cup {{a} : a \in ExtraAmounts} :
                    ReplaceEntryEarnings(r, amounts)
    BY <1>1, <1>3 DEF PutEnd, InitEnd, CalculateMark, FinalizeWrite, Idle,
        OverrideEntryDeductions, ReplaceEntryEarnings
<1>4. CASE InitEntry(r)
    BY <1>1, <1>4 DEF InitEntry, Request
<1>5. CASE CalculateList(r)
    BY <1>1, <1>5 DEF CalculateList, Idle
<1>6. CASE CalculateEntry(r)
    BY <1>1, <1>6 DEF CalculateEntry, Request
<1>7. CASE CalculateVacation(r)
    BY <1>1, <1>7 DEF CalculateVacation, Request
<1>8. CASE CalculateRefetch(r)
    <2>1. PICK w : /\ req' = [req EXCEPT ![r] = [req[r] EXCEPT !.pc = "save",
                                !.vac = 0, !.keep = {}, !.cur = w]]
                   /\ req[r].pc = "refetch"
        BY <1>8 DEF CalculateRefetch
    <2>2. QED
        BY <1>1, <2>1 DEF Request
<1>9. CASE CalculateSave(r)
    BY <1>1, <1>9 DEF CalculateSave, Request
<1>10. QED
    BY <1>2, <1>3, <1>4, <1>5, <1>6, <1>7, <1>8, <1>9 DEF Continue

LEMMA StartMoves ==
    ASSUME KeyInv, NEW r \in Requests, Start(r)
    PROVE  /\ \A q \in Requests \ {r} : req'[q] = req[q]
           /\ req'[r].period \in PeriodIds
           /\ req'[r].todo = {}
           /\ UNCHANGED <<status, company, lines>>
           /\ \/ /\ Exists(req'[r].period) /\ req'[r].cur = {}
                 /\ \/ req'[r].pc \in {"put", "init"}
                    \/ req'[r].pc = "list" /\ Unfinished(req'[r].period)
                    \/ req'[r].pc = "list" /\ "recalculate" \in Endpoints
                    \/ /\ req'[r].pc = "finalize"
                       /\ status[req'[r].period] = "calculated"
              \/ /\ req'[r].pc \in {"earnings", "override"}
                 /\ req'[r].emps = {}
                 /\ \E e \in entries : /\ req'[r].cur = {e}
                                       /\ req'[r].period = e.period
<1>1. req \in [Requests -> Request]
    BY DEF KeyInv, TypeOK
<1>2. CASE \E e \in entries : EarningsStart(r, e) \/ OverrideStart(r, e)
    <2>1. PICK e \in entries, pc \in {"earnings", "override"} :
            GetPayrollEntry(r, e, pc)
        BY <1>2 DEF EarningsStart, OverrideStart
    <2>2. e.period \in PeriodIds
        BY DEF KeyInv, TypeOK, Entry
    <2>3. req'[r] = [Idle EXCEPT !.pc = pc, !.period = e.period, !.cur = {e}]
        BY <1>1, <2>1 DEF GetPayrollEntry
    <2>4. /\ req'[r].pc = pc /\ req'[r].period = e.period
          /\ req'[r].cur = {e} /\ req'[r].todo = {} /\ req'[r].emps = {}
        BY <2>3 DEF Idle
    <2>5. QED
        BY <1>1, <2>1, <2>2, <2>4 DEF GetPayrollEntry
<1>3. ASSUME NEW p \in PeriodIds, PutStart(r, p)
      PROVE  /\ req'[r] = [Idle EXCEPT !.pc = "put", !.period = p]
             /\ Exists(p)
    BY <1>1, <1>3 DEF PutStart
<1>4. ASSUME NEW p \in PeriodIds, InitStart(r, p)
      PROVE  /\ \E emps : req'[r] = [Idle EXCEPT !.pc = "init", !.period = p,
                                                !.emps = emps]
             /\ Exists(p)
    BY <1>1, <1>4 DEF InitStart
<1>5. ASSUME NEW p \in PeriodIds, CalculateStart(r, p)
      PROVE  /\ req'[r] = [Idle EXCEPT !.pc = "list", !.period = p]
             /\ Unfinished(p) /\ Exists(p)
    BY <1>1, <1>5 DEF CalculateStart, Unfinished, Exists
<1>6. ASSUME NEW p \in PeriodIds, RecalculateStart(r, p)
      PROVE  /\ req'[r] = [Idle EXCEPT !.pc = "list", !.period = p]
             /\ "recalculate" \in Endpoints /\ Exists(p)
    BY <1>1, <1>6 DEF RecalculateStart
<1>7. ASSUME NEW p \in PeriodIds, FinalizeStart(r, p)
      PROVE  /\ req'[r] = [Idle EXCEPT !.pc = "finalize", !.period = p]
             /\ status[p] = "calculated" /\ Exists(p)
    BY <1>1, <1>7 DEF FinalizeStart, Exists
<1>8. CASE \E p \in PeriodIds :
            \/ PutStart(r, p) \/ InitStart(r, p) \/ CalculateStart(r, p)
            \/ RecalculateStart(r, p) \/ FinalizeStart(r, p)
    <2>1. PICK p \in PeriodIds :
            \/ PutStart(r, p) \/ InitStart(r, p) \/ CalculateStart(r, p)
            \/ RecalculateStart(r, p) \/ FinalizeStart(r, p)
        BY <1>8
    <2>2. /\ \A q \in Requests \ {r} : req'[q] = req[q]
          /\ UNCHANGED <<status, company, lines>>
        BY <1>1, <2>1 DEF PutStart, InitStart, CalculateStart,
            RecalculateStart, FinalizeStart
    <2> DEFINE Begun ==
            /\ req'[r].period = p /\ req'[r].todo = {} /\ req'[r].cur = {}
            /\ \/ req'[r].pc \in {"put", "init"}
               \/ req'[r].pc = "list" /\ Unfinished(p)
               \/ req'[r].pc = "list" /\ "recalculate" \in Endpoints
               \/ req'[r].pc = "finalize" /\ status[p] = "calculated"
            /\ Exists(p)
    <2>3. ASSUME PutStart(r, p) PROVE Begun
        BY <1>3, <2>3 DEF Idle
    <2>4. ASSUME InitStart(r, p) PROVE Begun
        BY <1>4, <2>4 DEF Idle
    <2>5. ASSUME CalculateStart(r, p) PROVE Begun
        BY <1>5, <2>5 DEF Idle
    <2>6. ASSUME RecalculateStart(r, p) PROVE Begun
        BY <1>6, <2>6 DEF Idle
    <2>7. ASSUME FinalizeStart(r, p) PROVE Begun
        BY <1>7, <2>7 DEF Idle
    <2>8. Begun
        BY <2>1, <2>3, <2>4, <2>5, <2>6, <2>7
    <2>9. QED
        BY <2>2, <2>8
<1>9. QED
    BY <1>2, <1>8 DEF Start

-----------------------------------------------------------------------------
(* A settled period.                                                       *)

(* The id of a new period is above those of all the periods that           *)
(* CreatePayrollPeriod keeps, and it keeps the finalized ones.             *)
LEMMA StoreKeepsFinalized ==
    ASSUME TypeOK, Store, NEW p \in PeriodIds, status[p] = "finalized",
           ~ DeletePayrollPeriod(p, TRUE)
    PROVE  status'[p] = "finalized"
<1>1. ASSUME NEW c \in Companies, CreatePayrollPeriod(c)
      PROVE  status'[p] = "finalized"
    <2> DEFINE stale == {q \in PeriodIds : Unfinished(q) /\ company[q] = c}
               left  == {q \in PeriodIds : Exists(q)} \ stale
    <2>1. PICK n \in PeriodIds :
            /\ IsNextId(n, left)
            /\ status' = [q \in PeriodIds |->
                            IF q = n THEN "open"
                            ELSE IF q \in stale THEN "none" ELSE status[q]]
        BY <1>1 DEF CreatePayrollPeriod
    <2>2. p \in left
        BY DEF Exists, Unfinished
    <2>3. p < n
        BY <2>1, <2>2 DEF IsNextId
    <2>4. p # n /\ p \notin stale
        BY <2>2, <2>3 DEF PeriodIds
    <2>5. QED
        BY <2>1, <2>4
<1>2. ASSUME NEW q \in PeriodIds, NEW force \in BOOLEAN,
             DeletePayrollPeriod(q, force)
      PROVE  status'[p] = "finalized"
    <2>1. CASE q = p
        <3>1. force = TRUE
            BY <1>2, <2>1 DEF DeletePayrollPeriod
        <3>2. QED
            BY <1>2, <2>1, <3>1
    <2>2. CASE q # p
        BY <1>2, <2>2 DEF DeletePayrollPeriod, TypeOK
    <2>3. QED
        BY <2>1, <2>2
<1>3. QED
    BY <1>1, <1>2 DEF Store

(* No handler but create and delete drops a period or opens it anew.       *)
LEMMA RequestsKeepFinalized ==
    ASSUME TypeOK, NEW r \in Requests, Start(r) \/ Continue(r),
           NEW p \in PeriodIds, status[p] = "finalized",
           ~ Calculating(r, p)
    PROVE  status'[p] = "finalized"
<1>1. Start(r) => UNCHANGED status
    BY DEF Start, PutStart, InitStart, CalculateStart, RecalculateStart,
        FinalizeStart, EarningsStart, OverrideStart, GetPayrollEntry
<1>2. CASE CalculateMark(r)
    <2>1. req[r].period # p
        BY <1>2 DEF CalculateMark, Calculating
    <2>2. QED
        BY <1>2, <2>1 DEF CalculateMark, UpdatePayrollPeriodStatus, TypeOK
<1>3. CASE FinalizeWrite(r)
    BY <1>3 DEF FinalizeWrite, UpdatePayrollPeriodStatus, TypeOK, Exists
<1>4. Continue(r) => UNCHANGED status \/ CalculateMark(r) \/ FinalizeWrite(r)
    BY DEF Continue, PutEntry, PutEnd, InitEntry, InitEnd, CalculateList,
        CalculateEntry, CalculateVacation, CalculateRefetch, CalculateSave,
        ReplaceEntryEarnings, OverrideEntryDeductions
<1>5. QED
    BY <1>1, <1>2, <1>3, <1>4

(* A calculation of a finalized period does not begin: it was under way    *)
(* before, or is a recalculation.                                          *)
LEMMA NoLateCalculation ==
    ASSUME KeyInv, NEW r \in Requests, Start(r) \/ Continue(r),
           NEW p \in PeriodIds, status[p] = "finalized",
           ~ RecalculateStart(r, p), ~ Calculating(r, p)
    PROVE  ~ (req'[r].period = p /\
              req'[r].pc \in {"list", "entry", "vacation", "refetch", "save"})
<1>1. req \in [Requests -> Request] /\ req[r] \in Request
    BY DEF KeyInv, TypeOK
<1>2. ASSUME NEW q \in PeriodIds, RecalculateStart(r, q)
      PROVE  req'[r].period # p
    BY <1>1, <1>2 DEF RecalculateStart, Idle
<1>3. ASSUME NEW q \in PeriodIds, CalculateStart(r, q)
      PROVE  req'[r].period # p
    BY <1>1, <1>3 DEF CalculateStart, Unfinished, Idle
<1>4. ASSUME NEW q \in PeriodIds,
             PutStart(r, q) \/ InitStart(r, q) \/ FinalizeStart(r, q)
      PROVE  req'[r].pc \in {"put", "init", "finalize"}
    <2>1. CASE PutStart(r, q)
        BY <1>1, <2>1 DEF PutStart, Idle
    <2>2. CASE InitStart(r, q)
        BY <1>1, <2>2 DEF InitStart, Idle
    <2>3. CASE FinalizeStart(r, q)
        BY <1>1, <2>3 DEF FinalizeStart, Idle
    <2>4. QED
        BY <1>4, <2>1, <2>2, <2>3
<1>5. ASSUME NEW e \in entries, EarningsStart(r, e) \/ OverrideStart(r, e)
      PROVE  req'[r].pc \in {"earnings", "override"}
    BY <1>1, <1>5 DEF EarningsStart, OverrideStart, GetPayrollEntry, Idle
<1>6. CASE Start(r)
    BY <1>2, <1>3, <1>4, <1>5, <1>6 DEF Start
<1>7. CASE Continue(r)
    BY <1>7, ContinueMoves DEF Calculating
<1>8. QED
    BY <1>6, <1>7

(* Once its calculations are over, a finalized period ends only when a     *)
(* clerk deletes it by force or recalculates it: what no order of the      *)
(* handlers' steps can undo.                                               *)
THEOREM SettledStays == Spec => SettledForGood
<1> DEFINE Kept == \A p \in PeriodIds :
        Settled(p) /\ ~ Settled(p)' =>
            \/ DeletePayrollPeriod(p, TRUE)
            \/ \E r \in Requests : RecalculateStart(r, p)
<1>1. KeyInv /\ [Next]_vars => [Kept]_vars
    <2> SUFFICES ASSUME KeyInv, Next, NEW p \in PeriodIds, Settled(p),
                        ~ DeletePayrollPeriod(p, TRUE),
                        \A r \in Requests : ~ RecalculateStart(r, p)
                 PROVE  Settled(p)'
        OBVIOUS
    <2>1. TypeOK /\ WorkHasPeriod /\ status[p] = "finalized"
        BY DEF KeyInv, Settled
    <2>2. CASE Store
        <3>1. status'[p] = "finalized"
            BY <2>1, <2>2, StoreKeepsFinalized
        <3>2. UNCHANGED req
            BY <2>2 DEF Store, CreatePayrollPeriod, DeletePayrollPeriod
        <3>3. QED
            BY <3>1, <3>2 DEF Settled, Calculating
    <2>3. ASSUME NEW r \in Requests, Start(r) \/ Continue(r)
          PROVE  Settled(p)'
        <3>1. status'[p] = "finalized"
            BY <2>1, <2>3, RequestsKeepFinalized DEF Settled
        <3>2. ~ (req'[r].period = p /\ req'[r].pc \in
                    {"list", "entry", "vacation", "refetch", "save"})
            BY <2>1, <2>3, NoLateCalculation DEF Settled
        <3>3. \A q \in Requests \ {r} : req'[q] = req[q]
            BY <2>3, StartMoves, ContinueMoves
        <3>4. QED
            BY <3>1, <3>2, <3>3 DEF Settled, Calculating
    <2>4. QED
        BY <2>2, <2>3 DEF Next
<1>2. Spec => []KeyInv
    BY KeyInvInit, KeyInvNext, PTL DEF Spec
<1>3. QED
    BY <1>1, <1>2, PTL DEF Spec, SettledForGood

-----------------------------------------------------------------------------
(* Calculated entries are priced.                                          *)

Done(e) == e.status \in {"calculated", "finalized"}

(* A row that may be saved: with a gross pay, and with deductions when it  *)
(* says it is calculated.                                                  *)
Priced(e) == e.gross > 0 /\ (Done(e) => e.ded > 0)

(* Inductive: a request only prices entries that have a gross pay, and     *)
(* only saves what it has priced.                                          *)
PricedInv ==
    /\ \A e \in entries : Priced(e)
    /\ \A r \in Requests :
        /\ \A e \in req[r].todo \cup req[r].cur : e.gross > 0
        /\ req[r].pc = "save" => \A e \in req[r].cur : Priced(e)

PriceInv == KeyInv /\ PricedInv

LEMMA PriceInvInit == Init => PricedInv
BY DEF Init, PricedInv, Idle

(* Saving a priced row keeps the table priced: an update of a calculated   *)
(* entry keeps the deductions it has.                                      *)
LEMMA UpsertKeepsPrices ==
    ASSUME KeyInv, \A e \in entries : Priced(e), NEW row \in Entry,
           row.gross > 0,
           Done(row) => \/ row.ded > 0
                        \/ \E e \in EntryFor(row.period, row.emp) : Done(e),
           UpsertPayrollEntry(row)
    PROVE  \A e \in entries' : Priced(e)
<1>1. CASE EntryFor(row.period, row.emp) = {}
    <2>1. PICK n \in EntryIds :
            entries' = entries \cup {[row EXCEPT !.id = n]}
        BY <1>1 DEF UpsertPayrollEntry
    <2>2. Priced([row EXCEPT !.id = n])
        BY <1>1 DEF Priced, Done, Entry
    <2>3. QED
        BY <2>1, <2>2
<1>2. CASE EntryFor(row.period, row.emp) # {}
    <2>1. PICK old \in EntryFor(row.period, row.emp) :
            entries' = (entries \ {old}) \cup {Merged(old, row)}
        BY <1>2 DEF UpsertPayrollEntry
    <2>2. old \in Entry /\ Priced(old)
        BY DEF KeyInv, TypeOK, EntryFor
    <2>3. \A e \in EntryFor(row.period, row.emp) : e = old
        BY DEF EntryFor, KeyInv, OneEntryPerEmployee
    <2>4. /\ Merged(old, row).gross = row.gross
          /\ Merged(old, row).status = row.status
          /\ Merged(old, row).ded = IF Done(old) THEN old.ded ELSE row.ded
        BY DEF Merged, Entry, Done
    <2>5. Priced(Merged(old, row))
        BY <2>2, <2>3, <2>4 DEF Priced, Done
    <2>6. QED
        BY <2>1, <2>5
<1>3. QED
    BY <1>1, <1>2

(* A client's row that claims to be calculated brings deductions, or the   *)
(* entry is calculated.                                                    *)
LEMMA SentRowPriced ==
    ASSUME KeyInv, NEW p \in PeriodIds, NEW emp \in Employees,
           NEW gross \in Grosses, NEW st \in SavedStatuses \cup {"draft"}
    PROVE  /\ SentRow(p, emp, gross, st).gross > 0
           /\ Done(SentRow(p, emp, gross, st)) =>
                \/ SentRow(p, emp, gross, st).ded > 0
                \/ \E e \in EntryFor(p, emp) : Done(e)
<1>1. gross > 0 /\ st \in {"keep", "draft", "approved", "calculated"}
    BY PayrollAssumption
<1>2. SentRow(p, emp, gross, st).gross > 0
    BY <1>1 DEF SentRow
<1>3. CASE st = "keep" /\ \E e \in EntryFor(p, emp) : TRUE
    <2> DEFINE old == CHOOSE e \in EntryFor(p, emp) : TRUE
    <2>1. old \in EntryFor(p, emp)
        BY <1>3
    <2>2. SentRow(p, emp, gross, st).status = old.status
        BY <1>3 DEF SentRow
    <2>3. QED
        BY <1>2, <2>1, <2>2 DEF Done
<1>4. CASE ~ (st = "keep" /\ \E e \in EntryFor(p, emp) : TRUE)
    <2>1. \/ SentRow(p, emp, gross, st).status \in {"draft", "approved"}
          \/ SentRow(p, emp, gross, st).ded > 0
        BY <1>1, <1>4 DEF SentRow
    <2>2. QED
        BY <1>2, <2>1 DEF Done
<1>5. QED
    BY <1>3, <1>4

LEMMA StoreKeepsPrices == PriceInv /\ Store => PricedInv'
<1> SUFFICES ASSUME PriceInv, Store PROVE PricedInv'
    OBVIOUS
<1>1. entries' \subseteq entries /\ UNCHANGED req
    BY DEF Store, CreatePayrollPeriod, DeletePayrollPeriod, EntriesWithout
<1>2. QED
    BY <1>1 DEF PriceInv, PricedInv

LEMMA StartKeepsPrices ==
    ASSUME PriceInv, NEW r \in Requests, Start(r) PROVE PricedInv'
<1>1. /\ \A q \in Requests \ {r} : req'[q] = req[q]
      /\ req'[r].todo = {} /\ req'[r].pc # "save"
      /\ \A e \in req'[r].cur : e \in entries
    BY StartMoves DEF PriceInv
<1>2. \A e \in entries : e \in Entry /\ Priced(e)
    BY DEF PriceInv, KeyInv, TypeOK, PricedInv
<1>3. \A q \in Requests :
        /\ \A e \in req'[q].todo \cup req'[q].cur : e.gross > 0
        /\ req'[q].pc = "save" => \A e \in req'[q].cur : Priced(e)
    BY <1>1, <1>2 DEF PriceInv, PricedInv, Priced
<1>4. ASSUME NEW p \in PeriodIds, RecalculateStart(r, p) PROVE PricedInv'
    <2> DEFINE reset(e) ==
            [e EXCEPT !.status = IF @ \in {"calculated", "finalized"}
                                 THEN "approved" ELSE @]
    <2>1. \A e \in entries : Priced(reset(e))
        BY <1>2 DEF Priced, Done, Entry
    <2>2. entries' = (entries \ EntriesOf(p)) \cup
                     {reset(e) : e \in EntriesOf(p)}
        BY <1>4 DEF RecalculateStart
    <2>3. EntriesOf(p) \subseteq entries
        BY DEF EntriesOf
    <2> HIDE DEF reset
    <2>4. \A e \in entries' : Priced(e)
        BY <1>2, <2>1, <2>2, <2>3
    <2>5. QED
        BY <1>3, <2>4 DEF PricedInv
<1>5. CASE UNCHANGED entries
    BY <1>2, <1>3, <1>5 DEF PricedInv
<1>6. QED
    BY <1>4, <1>5 DEF Start, PutStart, InitStart, CalculateStart,
        FinalizeStart, EarningsStart, OverrideStart, GetPayrollEntry

(* CalculateEntry prices the entry it took, or keeps it with the gross pay *)
(* it had until its vacation line is written.                              *)
LEMMA CalculateEntryPrices ==
    ASSUME KeyInv, PricedInv, NEW r \in Requests, CalculateEntry(r)
    PROVE  PricedInv'
<1> DEFINE p == req[r].period
           ytd(e) == GetYTDBeforePeriod(e.emp, p)
           vac(e) == VacationPay(e.gross + AmountOf(LinesOf(e.id), "extra"))
           sum(e) == e.gross + EarningsGrossForEntry(e.id)
           free(e) == [e EXCEPT !.status = "calculated", !.ded = e.gross]
           wait(e) == [e EXCEPT !.ytd = ytd(e)]
           full(e) == [e EXCEPT !.status = "calculated", !.gross = sum(e),
                                !.ded = sum(e), !.ytd = ytd(e)]
           rest(e) == [req[r] EXCEPT !.todo = @ \ {e}]
           keep(e) == {l \in LinesOf(e.id) : l.code # "VAC"}
           work1(e) == [rest(e) EXCEPT !.pc = "save", !.cur = {free(e)}]
           work2(e) == [rest(e) EXCEPT !.pc = "vacation", !.vac = vac(e),
                            !.cur = {wait(e)}, !.keep = keep(e)]
           work3(e) == [rest(e) EXCEPT !.pc = "save", !.cur = {full(e)}]
           Fine(w) == /\ \A e \in w.todo \cup w.cur : e.gross > 0
                      /\ w.pc = "save" => \A e \in w.cur : Priced(e)
<1>1. PICK e \in req[r].todo :
        \/ req' = [req EXCEPT ![r] = work1(e)]
        \/ req' = [req EXCEPT ![r] = work2(e)]
        \/ req' = [req EXCEPT ![r] = work3(e)]
    BY DEF CalculateEntry
<1>2. /\ req \in [Requests -> Request] /\ req[r] \in Request
      /\ \A q \in Requests : Fine(req[q])
      /\ e \in Entry /\ e.gross > 0
    BY DEF KeyInv, TypeOK, PricedInv, Request
<1>3. sum(e) \in Nat /\ sum(e) > 0
    BY <1>2, EarningsType DEF Entry, KeyInv, TypeOK
<1>4. /\ rest(e) \in Request
      /\ \A x \in rest(e).todo : x.gross > 0
    BY <1>2 DEF Request
<1> HIDE DEF p, ytd, vac, sum, keep, rest
<1>5. free(e).gross > 0 /\ Priced(free(e))
    BY <1>2 DEF Priced, Entry
<1>6. wait(e).gross > 0
    BY <1>2 DEF Entry
<1>7. full(e).gross > 0 /\ Priced(full(e))
    BY <1>2, <1>3 DEF Priced, Entry
<1> HIDE DEF free, wait, full
<1>8. Fine(work1(e)) /\ Fine(work2(e)) /\ Fine(work3(e))
    BY <1>4, <1>5, <1>6, <1>7 DEF Request
<1> HIDE DEF work1, work2, work3
<1>9. \A q \in Requests : Fine(req'[q])
    BY <1>1, <1>2, <1>8
<1>10. UNCHANGED entries
    BY DEF CalculateEntry
<1>11. QED
    BY <1>9, <1>10 DEF PricedInv

LEMMA ContinueKeepsPrices ==
    ASSUME PriceInv, NEW r \in Requests, Continue(r) PROVE PricedInv'
<1> DEFINE Fine(w) ==
        /\ \A e \in w.todo \cup w.cur : e.gross > 0
        /\ w.pc = "save" => \A e \in w.cur : Priced(e)
<1>1. /\ req \in [Requests -> Request] /\ req[r] \in Request
      /\ \A e \in entries : e \in Entry /\ Priced(e)
      /\ \A q \in Requests : Fine(req[q])
      /\ KeyInv
    BY DEF PriceInv, KeyInv, TypeOK, PricedInv
(* It is enough that the rows and the request that moved are fine.         *)
<1>2. ASSUME \A e \in entries' : Priced(e), NEW w, Fine(w),
             req' = [req EXCEPT ![r] = w]
      PROVE  PricedInv'
    <2>1. \A q \in Requests : Fine(req'[q])
        BY <1>1, <1>2
    <2>2. QED
        BY <1>2, <2>1 DEF PricedInv
<1>3. Fine(Idle)
    BY DEF Idle
<1>4. ASSUME NEW emp \in Employees, NEW gross \in Grosses,
             NEW st \in SavedStatuses, PutEntry(r, emp, gross, st)
      PROVE  PricedInv'
    <2> DEFINE row == SentRow(req[r].period, emp, gross, st)
    <2>1. req[r].period \in PeriodIds
        BY <1>1, <1>4 DEF PutEntry, KeyInv, WorkHasPeriod
    <2>2. /\ row \in Entry /\ row.period = req[r].period /\ row.emp = emp
          /\ row.gross > 0
          /\ Done(row) => \/ row.ded > 0
                          \/ \E e \in EntryFor(req[r].period, emp) : Done(e)
        BY <1>1, <2>1, SentRowType, SentRowPriced DEF KeyInv
    <2>3. UpsertPayrollEntry(row)
        BY <1>4 DEF PutEntry
    <2> HIDE DEF row
    <2>4. \A e \in entries' : Priced(e)
        BY <1>1, <2>2, <2>3, UpsertKeepsPrices
    <2>5. QED
        BY <1>1, <1>4, <2>4 DEF PutEntry, PricedInv
<1>5. CASE InitEntry(r)
    <2>1. PICK emp \in req[r].emps, gross \in Grosses :
            /\ UpsertPayrollEntry(SentRow(req[r].period, emp, gross, "draft"))
            /\ req' = [req EXCEPT ![r].emps = @ \ {emp}]
        BY <1>5 DEF InitEntry
    <2> DEFINE row == SentRow(req[r].period, emp, gross, "draft")
    <2>2. req[r].period \in PeriodIds /\ emp \in Employees
        BY <1>1, <1>5 DEF InitEntry, KeyInv, WorkHasPeriod, Request
    <2>3. /\ row \in Entry /\ row.period = req[r].period /\ row.emp = emp
          /\ row.gross > 0
          /\ Done(row) => \/ row.ded > 0
                          \/ \E e \in EntryFor(req[r].period, emp) : Done(e)
        BY <1>1, <2>2, SentRowType, SentRowPriced DEF KeyInv
    <2>4. UpsertPayrollEntry(row)
        BY <2>1
    <2> HIDE DEF row
    <2>5. \A e \in entries' : Priced(e)
        BY <1>1, <2>3, <2>4, UpsertKeepsPrices
    <2>6. Fine([req[r] EXCEPT !.emps = @ \ {emp}])
        BY <1>1 DEF Request
    <2>7. req' = [req EXCEPT ![r] = [req[r] EXCEPT !.emps = @ \ {emp}]]
        BY <2>1
    <2>8. QED
        BY <1>2, <2>5, <2>6, <2>7
<1>6. CASE \/ PutEnd(r) \/ InitEnd(r) \/ CalculateMark(r) \/ FinalizeWrite(r)
           \/ \E amounts \in {{}} \cup {{a} : a \in ExtraAmounts} :
                    ReplaceEntryEarnings(r, amounts)
    <2>1. req' = [req EXCEPT ![r] = Idle] /\ UNCHANGED entries
        BY <1>6 DEF PutEnd, InitEnd, CalculateMark, FinalizeWrite,
            ReplaceEntryEarnings
    <2>2. QED
        BY <1>1, <1>2, <1>3, <2>1
<1>7. CASE CalculateList(r)
    <2> DEFINE todo == {e \in EntriesOf(req[r].period) :
                            e.status = "approved"}
               emps == {e \in Employees :
                            Employer[e] = company[req[r].period]}
               work == [Idle EXCEPT !.pc = "entry", !.period = req[r].period,
                                    !.todo = todo, !.emps = emps]
    <2>1. \A e \in todo : e.gross > 0
        BY <1>1 DEF EntriesOf, Priced
    <2>2. Fine(work)
        BY <2>1 DEF Idle
    <2>3. \/ req' = [req EXCEPT ![r] = work]
          \/ req' = [req EXCEPT ![r] = Idle]
        BY <1>7 DEF CalculateList
    <2>4. UNCHANGED entries
        BY <1>7 DEF CalculateList
    <2> HIDE DEF work, Fine
    <2>5. QED
        BY <1>1, <1>2, <1>3, <2>2, <2>3, <2>4
<1>8. CASE CalculateEntry(r)
    BY <1>8, CalculateEntryPrices DEF PriceInv
<1>9. CASE CalculateVacation(r)
    <2>1. Fine([req[r] EXCEPT !.pc = "refetch"])
        BY <1>1 DEF Request
    <2>2. req' = [req EXCEPT ![r] = [req[r] EXCEPT !.pc = "refetch"]]
        BY <1>9 DEF CalculateVacation
    <2>3. QED
        BY <1>1, <1>2, <1>9, <2>1, <2>2 DEF CalculateVacation
<1>10. CASE CalculateRefetch(r)
    <2> DEFINE sum(e) == e.gross + EarningsGrossForEntry(e.id)
               new(e) == [e EXCEPT !.status = "calculated",
                                   !.gross = sum(e), !.ded = sum(e)]
               work(e) == [req[r] EXCEPT !.pc = "save", !.vac = 0,
                            !.keep = {}, !.cur = {new(e)}]
    <2>1. PICK e \in req[r].cur : req' = [req EXCEPT ![r] = work(e)]
        BY <1>10 DEF CalculateRefetch
    <2>2. e \in Entry /\ e.gross > 0 /\ EarningsGrossForEntry(e.id) \in Nat
        BY <1>1, EarningsType DEF KeyInv, TypeOK, Request
    <2>3. sum(e) > 0
        BY <2>2 DEF Entry
    <2> HIDE DEF sum
    <2>4. new(e).gross > 0 /\ Priced(new(e))
        BY <2>2, <2>3 DEF Priced, Entry
    <2> HIDE DEF new
    <2>5. Fine(work(e))
        BY <1>1, <2>4 DEF Request
    <2> HIDE DEF work
    <2>6. QED
        BY <1>1, <1>2, <1>10, <2>1, <2>5 DEF CalculateRefetch
<1>11. CASE CalculateSave(r)
    <2>1. PICK e \in req[r].cur : UpsertPayrollEntry(e)
        BY <1>11 DEF CalculateSave
    <2>2. e \in Entry /\ e.gross > 0 /\ (Done(e) => e.ded > 0)
        BY <1>1, <1>11 DEF CalculateSave, Request, Priced
    <2>3. \A x \in entries' : Priced(x)
        BY <1>1, <2>1, <2>2, UpsertKeepsPrices
    <2>4. Fine([req[r] EXCEPT !.pc = "entry", !.cur = {}])
        BY <1>1 DEF Request
    <2>5. \A q \in Requests : Fine(req'[q])
        BY <1>1, <1>11, <2>4 DEF CalculateSave, Request
    <2>6. QED
        BY <2>3, <2>5 DEF PricedInv
<1>12. CASE OverrideEntryDeductions(r)
    <2>1. PICK e \in req[r].cur :
            entries' = {IF x.id = e.id THEN [x EXCEPT !.ded = x.gross] ELSE x :
                            x \in entries}
        BY <1>12 DEF OverrideEntryDeductions
    <2>2. \A x \in entries : Priced([x EXCEPT !.ded = x.gross])
        BY <1>1 DEF Priced, Done, Entry
    <2>3. \A x \in entries' : Priced(x)
        BY <1>1, <2>1, <2>2
    <2>4. req' = [req EXCEPT ![r] = Idle]
        BY <1>12 DEF OverrideEntryDeductions
    <2>5. QED
        BY <1>2, <1>3, <2>3, <2>4
<1>13. QED
    BY <1>4, <1>5, <1>6, <1>7, <1>8, <1>9, <1>10, <1>11, <1>12 DEF Continue

LEMMA PriceInvNext == PriceInv /\ [Next]_vars => PriceInv'
<1> SUFFICES ASSUME PriceInv, [Next]_vars PROVE PriceInv'
    OBVIOUS
<1>1. KeyInv'
    BY KeyInvNext DEF PriceInv
<1>2. CASE Next
    BY <1>1, <1>2, StoreKeepsPrices, StartKeepsPrices, ContinueKeepsPrices
        DEF Next, PriceInv
<1>3. CASE UNCHANGED vars
    BY <1>1, <1>3 DEF vars, PriceInv, PricedInv
<1>4. QED
    BY <1>2, <1>3

LEMMA AlwaysPriced == Spec => []PriceInv
<1>1. Init => PriceInv
    BY KeyInvInit, PriceInvInit DEF PriceInv
<1>2. QED
    BY <1>1, PriceInvNext, PTL DEF Spec

(* Whatever drafts, approvals, saves and calculations overlap, an entry    *)
(* marked calculated carries computed deductions.                          *)
THEOREM CalculatedIsPriced == Spec => []CalculatedWasPriced
<1>1. PriceInv => CalculatedWasPriced
    BY DEF PriceInv, PricedInv, Priced, Done, CalculatedWasPriced
<1>2. QED
    BY <1>1, AlwaysPriced, PTL

(* What a step makes of a calculated row: its deductions stay, and so do   *)
(* its year-to-date figures unless the step brings new ones.               *)
Keeps(x, y) ==
    x.id = y.id /\ x.emp = y.emp /\ x.period = y.period
        /\ x.status = "calculated"
    => y.ded > 0 /\ (y.ytd = {} => x.ytd = {})

LEMMA UpsertKeepsDeductions ==
    ASSUME PriceInv, NEW row \in Entry, UpsertPayrollEntry(row),
           NEW x \in entries, NEW y \in entries'
    PROVE  Keeps(x, y)
<1>1. CASE y \in entries
    BY <1>1 DEF Keeps, PriceInv, KeyInv, OneEntryPerEmployee, PricedInv,
        Priced, Done
<1>2. CASE y \notin entries /\ EntryFor(row.period, row.emp) = {}
    <2>1. PICK n \in EntryIds :
            /\ IsNextId(n, {e.id : e \in entries})
            /\ entries' = entries \cup {[row EXCEPT !.id = n]}
        BY <1>2 DEF UpsertPayrollEntry
    <2>2. x.id < n /\ x.id \in Nat
        BY <2>1 DEF IsNextId, PriceInv, KeyInv, TypeOK, Entry
    <2>3. y.id = n
        BY <1>2, <2>1 DEF Entry
    <2>4. x.id # y.id
        BY <2>2, <2>3
    <2>5. QED
        BY <2>4 DEF Keeps
<1>3. CASE y \notin entries /\ EntryFor(row.period, row.emp) # {}
    <2>1. PICK old \in EntryFor(row.period, row.emp) :
            entries' = (entries \ {old}) \cup {Merged(old, row)}
        BY <1>3 DEF UpsertPayrollEntry
    <2>2. old \in entries /\ old \in Entry
        BY DEF EntryFor, PriceInv, KeyInv, TypeOK
    <2>3. y = Merged(old, row) /\ y.id = old.id
        BY <1>3, <2>1, <2>2, MergedType
    <2>4. x.id = y.id => x = old
        BY <2>2, <2>3 DEF PriceInv, KeyInv, OneEntryPerEmployee
    <2>5. Done(old) => /\ Merged(old, row).ded = old.ded
                       /\ Merged(old, row).ytd =
                            IF row.ytd = {} THEN old.ytd ELSE row.ytd
        BY <2>2 DEF Merged, Entry, Done
    <2>6. Priced(old)
        BY <2>2 DEF PriceInv, PricedInv
    <2>7. QED
        BY <2>3, <2>4, <2>5, <2>6 DEF Keeps, Priced, Done
<1>4. QED
    BY <1>1, <1>2, <1>3

(* The steps other than UpsertPayrollEntry that touch the entries.         *)
LEMMA OthersKeepDeductions ==
    ASSUME PriceInv, NEW x \in entries, NEW y \in entries',
           \/ entries' \subseteq entries
           \/ \E r \in Requests : OverrideEntryDeductions(r)
           \/ \E r \in Requests, p \in PeriodIds : RecalculateStart(r, p)
    PROVE  Keeps(x, y)
<1> DEFINE reset(e) ==
        [e EXCEPT !.status = IF @ \in {"calculated", "finalized"}
                             THEN "approved" ELSE @]
<1>1. /\ Priced(x)
      /\ \A e \in entries : e \in Entry /\ Priced(e) /\ (e.id = x.id => e = x)
    BY DEF PriceInv, KeyInv, TypeOK, PricedInv, OneEntryPerEmployee
<1>2. CASE entries' \subseteq entries
    BY <1>1, <1>2 DEF Keeps, Priced, Done
<1>3. CASE \E r \in Requests : OverrideEntryDeductions(r)
    <2>1. PICK r \in Requests : OverrideEntryDeductions(r)
        BY <1>3
    <2>2. PICK e \in req[r].cur :
            entries' = {IF z.id = e.id THEN [z EXCEPT !.ded = z.gross] ELSE z :
                            z \in entries}
        BY <2>1 DEF OverrideEntryDeductions
    <2> DEFINE new(z) == [z EXCEPT !.ded = z.gross]
    <2>3. \A z \in entries :
            new(z).id = z.id /\ new(z).ded > 0 /\ new(z).ytd = z.ytd
        BY <1>1 DEF Entry, Priced
    <2>4. y \in entries \/ \E z \in entries : y = new(z)
        BY <2>2
    <2> HIDE DEF new
    <2>5. QED
        BY <1>1, <2>3, <2>4 DEF Keeps, Priced, Done
<1>4. CASE \E r \in Requests, p \in PeriodIds : RecalculateStart(r, p)
    <2>1. PICK p \in PeriodIds :
            entries' = (entries \ EntriesOf(p)) \cup
                       {reset(e) : e \in EntriesOf(p)}
        BY <1>4 DEF RecalculateStart
    <2>2. \A e \in entries :
            reset(e).id = e.id /\ reset(e).ded = e.ded /\ reset(e).ytd = e.ytd
        BY <1>1 DEF Entry
    <2> HIDE DEF reset
    <2>3. EntriesOf(p) \subseteq entries
        BY DEF EntriesOf
    <2>4. y \in entries \/ \E e \in entries : y = reset(e)
        BY <2>1, <2>3
    <2>5. QED
        BY <1>1, <2>2, <2>4 DEF Keeps, Priced, Done
<1>5. QED
    BY <1>2, <1>3, <1>4

(* No request, in whatever order the requests overlap, erases the computed *)
(* deductions of a calculated entry.                                       *)
THEOREM DeductionsStay == Spec => CalculatedDeductionsKept
<1> DEFINE Kept == \A x \in entries, y \in entries' :
        /\ x.id = y.id /\ x.emp = y.emp /\ x.period = y.period
        /\ x.status = "calculated"
        => y.ded > 0 /\ (y.ytd = {} => x.ytd = {})
<1>1. PriceInv /\ [Next]_vars => [Kept]_vars
    <2> SUFFICES ASSUME PriceInv, Next, NEW x \in entries, NEW y \in entries'
                 PROVE  Keeps(x, y)
        BY DEF Keeps
    <2>1. CASE Store
        <3>1. entries' \subseteq entries
            BY <2>1 DEF Store, CreatePayrollPeriod, DeletePayrollPeriod,
                EntriesWithout
        <3>2. QED
            BY <3>1, OthersKeepDeductions
    <2>2. ASSUME NEW r \in Requests, Start(r) PROVE Keeps(x, y)
        <3>1. \/ entries' \subseteq entries
              \/ \E p \in PeriodIds : RecalculateStart(r, p)
            BY <2>2 DEF Start, PutStart, InitStart, CalculateStart,
                FinalizeStart, EarningsStart, OverrideStart, GetPayrollEntry
        <3>2. QED
            BY <3>1, OthersKeepDeductions
    <2>3. ASSUME NEW r \in Requests, Continue(r) PROVE Keeps(x, y)
        <3>1. KeyInv /\ TypeOK /\ req[r] \in Request
            BY DEF PriceInv, KeyInv, TypeOK
        <3>2. CASE \E emp \in Employees, gross \in Grosses,
                      st \in SavedStatuses : PutEntry(r, emp, gross, st)
            <4>1. PICK emp \in Employees, gross \in Grosses,
                       st \in SavedStatuses : PutEntry(r, emp, gross, st)
                BY <3>2
            <4>2. SentRow(req[r].period, emp, gross, st) \in Entry
                BY <3>1, <4>1, SentRowType DEF PutEntry, KeyInv, WorkHasPeriod
            <4>3. QED
                BY <4>1, <4>2, UpsertKeepsDeductions DEF PutEntry
        <3>3. CASE InitEntry(r)
            <4>1. PICK emp \in req[r].emps, gross \in Grosses :
                    UpsertPayrollEntry(
                        SentRow(req[r].period, emp, gross, "draft"))
                BY <3>3 DEF InitEntry
            <4>2. SentRow(req[r].period, emp, gross, "draft") \in Entry
                BY <3>1, <3>3, SentRowType
                    DEF InitEntry, KeyInv, WorkHasPeriod, Request
            <4>3. QED
                BY <4>1, <4>2, UpsertKeepsDeductions
        <3>4. CASE CalculateSave(r)
            <4>1. PICK e \in req[r].cur : UpsertPayrollEntry(e)
                BY <3>4 DEF CalculateSave
            <4>2. QED
                BY <3>1, <4>1, UpsertKeepsDeductions DEF Request
        <3>5. CASE UNCHANGED entries \/ OverrideEntryDeductions(r)
            BY <3>5, OthersKeepDeductions
        <3>6. QED
            BY <2>3, <3>2, <3>3, <3>4, <3>5 DEF Continue,
                ReplaceEntryEarnings, PutEnd, InitEnd, CalculateList, CalculateEntry, CalculateVacation,
                CalculateRefetch, CalculateMark, FinalizeWrite
    <2>4. QED
        BY <2>1, <2>2, <2>3 DEF Next
<1>2. QED
    BY <1>1, AlwaysPriced, PTL DEF Spec, CalculatedDeductionsKept
=============================================================================
