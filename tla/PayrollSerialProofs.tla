------------------------- MODULE PayrollSerialProofs -------------------------
(***************************************************************************)
(* Theorems about SerialSpec, the payroll run with one request at a time:  *)
(* entries always belong to a period, a company has one unfinished period, *)
(* the periods go through the stages of PeriodLifecycle, and year-to-date  *)
(* figures count paid periods only.                                        *)
(***************************************************************************)
EXTENDS PayrollRunProofs

(* One request is under way, and what it checked when it started still     *)
(* holds.                                                                  *)
OneBusy ==
    \A q, r \in Requests :
        req[q].pc # "idle" /\ req[r].pc # "idle" => q = r
BusyHasPeriod ==
    \A r \in Requests : req[r].pc # "idle" => Exists(req[r].period)
WorksOnPeriod ==
    \A r \in Requests : \A e \in req[r].todo \cup req[r].cur :
        e.period = req[r].period

SerialInv ==
    KeyInv /\ OneBusy /\ BusyHasPeriod /\ WorksOnPeriod /\ EntriesHavePeriod

(* What calculate and finalize read of their period when they started.     *)
StageHolds ==
    \A r \in Requests :
        /\ req[r].pc \in {"list", "entry", "vacation", "refetch", "save"}
                => Unfinished(req[r].period)
        /\ req[r].pc = "finalize" => status[req[r].period] = "calculated"

LEMMA SerialIsNext == SerialNext => Next
BY DEF SerialNext, Next

LEMMA SerialInvInit == Init => SerialInv
BY KeyInvInit DEF Init, SerialInv, OneBusy, BusyHasPeriod,
    WorksOnPeriod, EntriesHavePeriod, Idle

(* An upsert adds no entry to a period that has none of its rows, except   *)
(* to the period of the row it saves.                                      *)
LEMMA UpsertPeriods ==
    ASSUME TypeOK, NEW row \in Entry, UpsertPayrollEntry(row)
    PROVE  \A e \in entries' : e \in entries \/ e.period = row.period
<1>1. CASE EntryFor(row.period, row.emp) = {}
    BY <1>1 DEF UpsertPayrollEntry, Entry
<1>2. CASE EntryFor(row.period, row.emp) # {}
    <2>1. PICK old \in EntryFor(row.period, row.emp) :
            entries' = (entries \ {old}) \cup {Merged(old, row)}
        BY <1>2 DEF UpsertPayrollEntry
    <2>2. old \in Entry
        BY DEF TypeOK, EntryFor
    <2>3. QED
        BY <2>1, <2>2, MergedType
<1>3. QED
    BY <1>1, <1>2

(* The entries a request has listed and works on are those of its period.  *)
LEMMA ContinueWorks ==
    ASSUME KeyInv, WorksOnPeriod, NEW r \in Requests, Continue(r)
    PROVE  \A e \in req'[r].todo \cup req'[r].cur : e.period = req'[r].period
<1>1. /\ req \in [Requests -> Request] /\ req[r] \in Request
      /\ \A e \in req[r].todo \cup req[r].cur :
            e \in Entry /\ e.period = req[r].period
    BY DEF KeyInv, TypeOK, WorksOnPeriod, Request
<1>2. CASE \E emp \in Employees, gross \in Grosses, st \in SavedStatuses :
            PutEntry(r, emp, gross, st)
    BY <1>1, <1>2 DEF PutEntry
<1>3. CASE \/ PutEnd(r) \/ InitEnd(r) \/ CalculateMark(r) \/ FinalizeWrite(r)
           \/ OverrideEntryDeductions(r)
           \/ \E amounts \in {{}} \cup {{a} : a \in ExtraAmounts} :
                    ReplaceEntryEarnings(r, amounts)
    BY <1>1, <1>3 DEF PutEnd, InitEnd, CalculateMark, FinalizeWrite, Idle,
        OverrideEntryDeductions, ReplaceEntryEarnings
<1>4. CASE InitEntry(r)
    BY <1>1, <1>4 DEF InitEntry, Request
<1>5. CASE CalculateList(r)
    <2>1. \/ req'[r] = Idle
          \/ /\ req'[r].period = req[r].period /\ req'[r].cur = {}
             /\ req'[r].todo \subseteq EntriesOf(req[r].period)
        BY <1>1, <1>5 DEF CalculateList, Idle
    <2>2. QED
        BY <2>1 DEF EntriesOf, Idle
<1>6. CASE CalculateEntry(r)
    <2> DEFINE
        ytd(e) == GetYTDBeforePeriod(e.emp, req[r].period)
        vac(e) == VacationPay(e.gross + AmountOf(LinesOf(e.id), "extra"))
        sum(e) == e.gross + EarningsGrossForEntry(e.id)
        free(e) == [e EXCEPT !.status = "calculated", !.ded = e.gross]
        wait(e) == [e EXCEPT !.ytd = ytd(e)]
        full(e) == [e EXCEPT !.status = "calculated", !.gross = sum(e),
                             !.ded = sum(e), !.ytd = ytd(e)]
        rest(e) == [req[r] EXCEPT !.todo = @ \ {e}]
        keep(e) == {l \in LinesOf(e.id) : l.code # "VAC"}
    <2>1. PICK e \in req[r].todo :
            \/ req' = [req EXCEPT ![r] =
                    [rest(e) EXCEPT !.pc = "save", !.cur = {free(e)}]]
            \/ req' = [req EXCEPT ![r] =
                    [rest(e) EXCEPT !.pc = "vacation", !.vac = vac(e),
                                    !.cur = {wait(e)}, !.keep = keep(e)]]
            \/ req' = [req EXCEPT ![r] =
                    [rest(e) EXCEPT !.pc = "save", !.cur = {full(e)}]]
        BY <1>6 DEF CalculateEntry
    <2>2. e \in Entry /\ e.period = req[r].period
        BY <1>1
    <2> HIDE DEF ytd, vac, sum, keep
    <2>3. /\ free(e).period = e.period
          /\ wait(e).period = e.period
          /\ full(e).period = e.period
        BY <2>2 DEF Entry
    <2> HIDE DEF free, wait, full
    <2>4. req'[r].period = req[r].period
        BY <1>1, <2>1 DEF Request
    <2>5. rest(e).todo = req[r].todo \ {e} /\ rest(e) \in Request
        BY <1>1 DEF Request
    <2> HIDE DEF rest
    <2>6. req'[r].todo = req[r].todo \ {e}
        BY <1>1, <2>1, <2>5 DEF Request
    <2>7. \/ req'[r].cur = {free(e)}
          \/ req'[r].cur = {wait(e)}
          \/ req'[r].cur = {full(e)}
        BY <1>1, <2>1, <2>5 DEF Request
    <2>8. QED
        BY <1>1, <2>2, <2>3, <2>4, <2>6, <2>7
<1>7. CASE CalculateVacation(r)
    BY <1>1, <1>7 DEF CalculateVacation, Request
<1>8. CASE CalculateRefetch(r)
    <2>1. PICK e \in req[r].cur :
            \E g : req' = [req EXCEPT ![r] =
                [req[r] EXCEPT !.pc = "save", !.vac = 0, !.keep = {},
                    !.cur = {[e EXCEPT !.status = "calculated",
                                       !.gross = g, !.ded = g]}]]
        BY <1>8 DEF CalculateRefetch
    <2>2. PICK g : req' = [req EXCEPT ![r] =
                [req[r] EXCEPT !.pc = "save", !.vac = 0, !.keep = {},
                    !.cur = {[e EXCEPT !.status = "calculated",
                                       !.gross = g, !.ded = g]}]]
        BY <2>1
    <2>3. [e EXCEPT !.status = "calculated", !.gross = g, !.ded = g].period
            = req[r].period
        BY <1>1 DEF Entry
    <2>4. /\ req'[r].period = req[r].period /\ req'[r].todo = req[r].todo
          /\ \A x \in req'[r].cur : x.period = req[r].period
        BY <1>1, <2>2, <2>3 DEF Request
    <2>5. QED
        BY <1>1, <2>4
<1>9. CASE CalculateSave(r)
    BY <1>1, <1>9 DEF CalculateSave, Request
<1>10. QED
    BY <1>2, <1>3, <1>4, <1>5, <1>6, <1>7, <1>8, <1>9 DEF Continue

(* A handler saves entries of its own period only, and no period goes.     *)
LEMMA ContinueEntries ==
    ASSUME SerialInv, NEW r \in Requests, Continue(r)
    PROVE  /\ \A e \in entries' :
                \/ \E x \in entries : x.period = e.period
                \/ e.period = req[r].period
           /\ \A p \in PeriodIds : Exists(p)' <=> Exists(p)
<1>1. KeyInv /\ TypeOK /\ req[r] \in Request
    BY DEF SerialInv, KeyInv, TypeOK
<1>2. \A p \in PeriodIds : Exists(p)' <=> Exists(p)
    <2>1. CASE CalculateMark(r) \/ FinalizeWrite(r)
        BY <1>1, <2>1 DEF CalculateMark, FinalizeWrite,
            UpdatePayrollPeriodStatus, Exists, TypeOK
    <2>2. CASE UNCHANGED status
        BY <2>2 DEF Exists
    <2>3. QED
        BY <2>1, <2>2 DEF Continue, PutEntry, PutEnd, InitEntry, InitEnd,
            CalculateList, CalculateEntry, CalculateVacation,
            CalculateRefetch, CalculateSave, ReplaceEntryEarnings,
            OverrideEntryDeductions
<1>3. CASE UNCHANGED entries
    BY <1>2, <1>3
<1>4. CASE \E row \in Entry : /\ UpsertPayrollEntry(row)
                              /\ row.period = req[r].period
    BY <1>1, <1>2, <1>4, UpsertPeriods
<1>5. CASE \E emp \in Employees, gross \in Grosses, st \in SavedStatuses :
            PutEntry(r, emp, gross, st)
    <2>1. PICK emp \in Employees, gross \in Grosses, st \in SavedStatuses :
            PutEntry(r, emp, gross, st)
        BY <1>5
    <2>2. SentRow(req[r].period, emp, gross, st) \in Entry
        BY <1>1, <2>1, SentRowType DEF PutEntry, KeyInv, WorkHasPeriod
    <2>3. SentRow(req[r].period, emp, gross, st).period = req[r].period
        BY DEF SentRow
    <2>4. QED
        BY <1>4, <2>1, <2>2, <2>3 DEF PutEntry
<1>6. CASE InitEntry(r)
    <2>1. PICK emp \in req[r].emps, gross \in Grosses :
            UpsertPayrollEntry(SentRow(req[r].period, emp, gross, "draft"))
        BY <1>6 DEF InitEntry
    <2>2. SentRow(req[r].period, emp, gross, "draft") \in Entry
        BY <1>1, <1>6, SentRowType
            DEF InitEntry, KeyInv, WorkHasPeriod, Request
    <2>3. SentRow(req[r].period, emp, gross, "draft").period = req[r].period
        BY DEF SentRow
    <2>4. QED
        BY <1>4, <2>1, <2>2, <2>3
<1>7. CASE CalculateSave(r)
    <2>1. PICK e \in req[r].cur : UpsertPayrollEntry(e)
        BY <1>7 DEF CalculateSave
    <2>2. e \in Entry /\ e.period = req[r].period
        BY <1>1 DEF Request, SerialInv, WorksOnPeriod
    <2>3. QED
        BY <1>4, <2>1, <2>2
<1>8. CASE OverrideEntryDeductions(r)
    <2>1. \A e \in entries' : \E x \in entries :
                e = x \/ e = [x EXCEPT !.ded = x.gross]
        BY <1>8 DEF OverrideEntryDeductions
    <2>2. \A x \in entries : [x EXCEPT !.ded = x.gross].period = x.period
        BY <1>1 DEF TypeOK, Entry
    <2>3. QED
        BY <1>2, <2>1, <2>2
<1>9. QED
    BY <1>3, <1>5, <1>6, <1>7, <1>8 DEF Continue, PutEnd, InitEnd,
        CalculateList, CalculateEntry, CalculateVacation, CalculateRefetch,
        CalculateMark, FinalizeWrite, ReplaceEntryEarnings

LEMMA StoreKeepsEntryPeriods ==
    ASSUME SerialInv, Store PROVE EntriesHavePeriod' /\ UNCHANGED req
<1>1. ASSUME NEW c \in Companies, CreatePayrollPeriod(c)
      PROVE  EntriesHavePeriod'
    <2> DEFINE stale == {q \in PeriodIds : Unfinished(q) /\ company[q] = c}
    <2>1. PICK n \in PeriodIds :
            status' = [q \in PeriodIds |->
                        IF q = n THEN "open"
                        ELSE IF q \in stale THEN "none" ELSE status[q]]
        BY <1>1 DEF CreatePayrollPeriod
    <2>2. entries' = EntriesWithout(stale)
        BY <1>1 DEF CreatePayrollPeriod
    <2>3. \A e \in entries' : /\ e \in entries /\ e.period \in PeriodIds
                              /\ e.period \notin stale
        BY <2>2 DEF EntriesWithout, SerialInv, KeyInv, TypeOK, Entry
    <2> HIDE DEF stale
    <2>4. QED
        BY <2>1, <2>3 DEF EntriesHavePeriod, Exists, SerialInv
<1>2. ASSUME NEW p \in PeriodIds, NEW force \in BOOLEAN,
             DeletePayrollPeriod(p, force)
      PROVE  EntriesHavePeriod'
    <2>1. \A e \in entries' : /\ e \in entries /\ e.period \in PeriodIds
                              /\ e.period # p
        BY <1>2 DEF DeletePayrollPeriod, EntriesWithout, SerialInv, KeyInv,
            TypeOK, Entry
    <2>2. QED
        BY <1>2, <2>1 DEF DeletePayrollPeriod, EntriesHavePeriod, Exists,
            SerialInv, KeyInv, TypeOK
<1>3. UNCHANGED req
    BY DEF Store, CreatePayrollPeriod, DeletePayrollPeriod
<1>4. QED
    BY <1>1, <1>2, <1>3 DEF Store

LEMMA SerialInvNext == SerialInv /\ [SerialNext]_vars => SerialInv'
<1> SUFFICES ASSUME SerialInv, [SerialNext]_vars PROVE SerialInv'
    OBVIOUS
<1>1. KeyInv'
    BY KeyInvNext, SerialIsNext DEF SerialInv
<1>2. CASE UNCHANGED vars
    BY <1>1, <1>2 DEF vars, SerialInv, OneBusy, BusyHasPeriod,
        WorksOnPeriod, EntriesHavePeriod, Exists
<1>3. CASE Quiet /\ Store
    <2>1. EntriesHavePeriod' /\ UNCHANGED req
        BY <1>3, StoreKeepsEntryPeriods
    <2>2. QED
        BY <1>1, <1>3, <2>1 DEF Quiet, SerialInv, OneBusy, BusyHasPeriod,
            WorksOnPeriod
<1>4. ASSUME NEW r \in Requests, Quiet, Start(r) PROVE SerialInv'
    <2>1. /\ \A q \in Requests \ {r} : req'[q] = req[q]
          /\ req'[r].todo = {} /\ UNCHANGED status
          /\ \/ Exists(req'[r].period) /\ req'[r].cur = {}
             \/ \E e \in entries : /\ req'[r].cur = {e}
                                   /\ req'[r].period = e.period
        BY <1>4, StartMoves DEF SerialInv
    <2>2. /\ Exists(req'[r].period)
          /\ \A e \in req'[r].cur : e.period = req'[r].period
        BY <2>1 DEF SerialInv, EntriesHavePeriod
    <2>3. OneBusy' /\ BusyHasPeriod' /\ WorksOnPeriod'
        BY <1>4, <2>2, <2>1 DEF Quiet, OneBusy, BusyHasPeriod,
            WorksOnPeriod, Exists, SerialInv
    <2>4. \A e \in entries' : \E x \in entries : x.period = e.period
        <3>1. CASE UNCHANGED entries
            BY <3>1
        <3>2. CASE \E p \in PeriodIds : RecalculateStart(r, p)
            <4>1. \A e \in entries : e \in Entry
                BY DEF SerialInv, KeyInv, TypeOK
            <4>2. QED
                BY <3>2, <4>1 DEF RecalculateStart, EntriesOf, Entry
        <3>3. QED
            BY <1>4, <3>1, <3>2 DEF Start, PutStart, InitStart,
                CalculateStart, FinalizeStart, EarningsStart, OverrideStart,
                GetPayrollEntry
    <2>5. EntriesHavePeriod'
        BY <2>1, <2>4 DEF EntriesHavePeriod, Exists, SerialInv
    <2>6. QED
        BY <1>1, <2>3, <2>5 DEF SerialInv
<1>5. ASSUME NEW r \in Requests, Continue(r) PROVE SerialInv'
    <2>1. /\ \A q \in Requests \ {r} : req'[q] = req[q]
          /\ req[r].pc # "idle"
          /\ req'[r].pc = "idle" \/ req'[r].period = req[r].period
        BY <1>5, ContinueMoves DEF SerialInv
    <2>2. /\ \A e \in entries' :
                \/ \E x \in entries : x.period = e.period
                \/ e.period = req[r].period
          /\ \A p \in PeriodIds : Exists(p)' <=> Exists(p)
        BY <1>5, ContinueEntries
    <2>3. req[r].period \in PeriodIds /\ Exists(req[r].period)
        BY <2>1 DEF SerialInv, KeyInv, WorkHasPeriod, BusyHasPeriod
    <2>4. OneBusy'
        BY <2>1 DEF SerialInv, OneBusy
    <2>5. \A q \in Requests \ {r} : req[q].pc = "idle"
        BY <2>1 DEF SerialInv, OneBusy
    <2>6. BusyHasPeriod'
        <3>1. ASSUME NEW q \in Requests, req'[q].pc # "idle"
              PROVE  status'[req'[q].period] # "none"
            <4>1. q = r
                BY <2>1, <2>5, <3>1
            <4>2. req'[r].period = req[r].period
                BY <2>1, <3>1, <4>1
            <4>3. status'[req[r].period] # "none"
                BY <2>2, <2>3 DEF Exists
            <4>4. QED
                BY <4>1, <4>2, <4>3
        <3>2. QED
            BY <3>1 DEF BusyHasPeriod, Exists
    <2>7. WorksOnPeriod'
        BY <1>5, <2>1, ContinueWorks DEF SerialInv, WorksOnPeriod
    <2>8. EntriesHavePeriod'
        <3>1. ASSUME NEW e \in entries'
              PROVE  status'[e.period] # "none"
            <4>1. Exists(e.period) /\ e.period \in PeriodIds
                BY <2>2, <2>3
                    DEF SerialInv, EntriesHavePeriod, KeyInv, TypeOK, Entry
            <4>2. QED
                BY <2>2, <4>1 DEF Exists
        <3>2. QED
            BY <3>1 DEF EntriesHavePeriod, Exists
    <2>9. QED
        BY <1>1, <2>4, <2>6, <2>7, <2>8 DEF SerialInv
<1>6. QED
    BY <1>2, <1>3, <1>4, <1>5 DEF SerialNext

(* With one request at a time no entry outlives its period: neither opening *)
(* a period, which drops the unfinished ones, nor a deletion leaves rows.   *)
THEOREM NoOrphanEntry == SerialSpec => []EntriesHavePeriod
<1>1. SerialInv => EntriesHavePeriod
    BY DEF SerialInv
<1>2. QED
    BY <1>1, SerialInvInit, SerialInvNext, PTL DEF SerialSpec

-----------------------------------------------------------------------------
(* The stages of a period.  The pages under web/ never call /recalculate,  *)
(* which looks at no status.                                               *)

StageInv == SerialInv /\ StageHolds /\ OneUnfinishedPeriod

(* Only calculate's and finalize's last store calls change a status.       *)
LEMMA ContinueStages ==
    ASSUME StageInv, NEW r \in Requests, Continue(r)
    PROVE  /\ UNCHANGED company
           /\ \/ UNCHANGED status
              \/ /\ Unfinished(req[r].period)
                 /\ status' = [status EXCEPT ![req[r].period] = "calculated"]
                 /\ req'[r].pc = "idle"
              \/ /\ status[req[r].period] = "calculated"
                 /\ status' = [status EXCEPT ![req[r].period] = "finalized"]
                 /\ req'[r].pc = "idle"
<1>1. req \in [Requests -> Request]
    BY DEF StageInv, SerialInv, KeyInv, TypeOK
<1>2. CASE CalculateMark(r)
    <2>1. Unfinished(req[r].period) /\ Exists(req[r].period)
        BY <1>2 DEF CalculateMark, StageInv, StageHolds, Unfinished, Exists
    <2>2. QED
        BY <1>1, <1>2, <2>1 DEF CalculateMark, UpdatePayrollPeriodStatus,
            Idle
<1>3. CASE FinalizeWrite(r)
    <2>1. status[req[r].period] = "calculated" /\ Exists(req[r].period)
        BY <1>3 DEF FinalizeWrite, StageInv, StageHolds, Exists
    <2>2. QED
        BY <1>1, <1>3, <2>1 DEF FinalizeWrite, UpdatePayrollPeriodStatus,
            Idle
<1>4. QED
    BY <1>2, <1>3 DEF Continue, PutEntry, PutEnd, InitEntry, InitEnd,
        CalculateList, CalculateEntry, CalculateVacation, CalculateRefetch,
        CalculateSave, ReplaceEntryEarnings, OverrideEntryDeductions

(* Opening a period drops the company's unfinished ones.                   *)
LEMMA CreateOpens ==
    ASSUME TypeOK, NEW c \in Companies, CreatePayrollPeriod(c)
    PROVE  \E n \in PeriodIds :
            /\ status[n] = "none" \/ (Unfinished(n) /\ company[n] = c)
            /\ status' = [q \in PeriodIds |->
                            IF q = n THEN "open"
                            ELSE IF Unfinished(q) /\ company[q] = c
                                 THEN "none" ELSE status[q]]
            /\ company' = [company EXCEPT ![n] = c]
<1> DEFINE stale == {q \in PeriodIds : Unfinished(q) /\ company[q] = c}
           left  == {q \in PeriodIds : Exists(q)} \ stale
<1>1. PICK n \in PeriodIds :
        /\ IsNextId(n, left)
        /\ status' = [q \in PeriodIds |->
                        IF q = n THEN "open"
                        ELSE IF q \in stale THEN "none" ELSE status[q]]
        /\ company' = [company EXCEPT ![n] = c]
    BY DEF CreatePayrollPeriod
<1>2. n \notin left
    <2>1. ~ (n < n)
        BY DEF PeriodIds
    <2>2. QED
        BY <1>1, <2>1 DEF IsNextId
<1>3. status[n] = "none" \/ (Unfinished(n) /\ company[n] = c)
    BY <1>2 DEF Exists
<1>4. \A q \in PeriodIds :
        q \in stale <=> Unfinished(q) /\ company[q] = c
    OBVIOUS
<1> HIDE DEF stale
<1>5. status' = [q \in PeriodIds |->
                    IF q = n THEN "open"
                    ELSE IF Unfinished(q) /\ company[q] = c
                         THEN "none" ELSE status[q]]
    BY <1>1, <1>4
<1>6. QED
    BY <1>1, <1>3, <1>5

LEMMA StoreKeepsStages ==
    ASSUME StageInv, Quiet, Store PROVE StageHolds' /\ OneUnfinishedPeriod'
<1>1. TypeOK /\ OneUnfinishedPeriod
    BY DEF StageInv, SerialInv, KeyInv
<1>2. StageHolds'
    BY StoreKeepsEntryPeriods DEF StageInv, StageHolds, Quiet
<1>3. CASE \E c \in Companies : CreatePayrollPeriod(c)
    <2>1. PICK c \in Companies, n \in PeriodIds :
            /\ status' = [q \in PeriodIds |->
                            IF q = n THEN "open"
                            ELSE IF Unfinished(q) /\ company[q] = c
                                 THEN "none" ELSE status[q]]
            /\ company' = [company EXCEPT ![n] = c]
        BY <1>1, <1>3, CreateOpens
    <2>2. ASSUME NEW p \in PeriodIds, NEW q \in PeriodIds,
                 status'[p] \notin {"none", "finalized"},
                 status'[q] \notin {"none", "finalized"},
                 company'[p] = company'[q]
          PROVE  p = q
        <3>1. \A x \in PeriodIds : x # n /\ status'[x] \notin {"none", "finalized"}
                => Unfinished(x) /\ company[x] # c /\ company'[x] = company[x]
            BY <1>1, <2>1 DEF Unfinished, TypeOK
        <3>2. company'[n] = c
            BY <1>1, <2>1 DEF TypeOK
        <3>3. QED
            BY <1>1, <2>2, <3>1, <3>2 DEF OneUnfinishedPeriod
    <2>3. QED
        BY <1>2, <2>2 DEF OneUnfinishedPeriod, Unfinished
<1>4. CASE \E p \in PeriodIds, force \in BOOLEAN :
            DeletePayrollPeriod(p, force)
    BY <1>1, <1>2, <1>4 DEF DeletePayrollPeriod, OneUnfinishedPeriod,
        Unfinished, TypeOK
<1>5. CASE UNCHANGED <<status, company>>
    BY <1>1, <1>2, <1>5 DEF OneUnfinishedPeriod, Unfinished
<1>6. QED
    BY <1>3, <1>4, <1>5
        DEF Store, ReplaceEntryEarnings, OverrideEntryDeductions

LEMMA StageInvNext ==
    ASSUME "recalculate" \notin Endpoints, StageInv, [SerialNext]_vars
    PROVE  StageInv'
<1>1. SerialInv'
    BY SerialInvNext DEF StageInv
<1>2. CASE UNCHANGED vars
    BY <1>1, <1>2 DEF vars, StageInv, StageHolds, OneUnfinishedPeriod,
        Unfinished
<1>3. CASE Quiet /\ Store
    BY <1>1, <1>3, StoreKeepsStages DEF StageInv
<1>4. ASSUME NEW r \in Requests, Quiet, Start(r) PROVE StageInv'
    <2>1. /\ \A q \in Requests \ {r} : req'[q] = req[q]
          /\ UNCHANGED <<status, company>>
          /\ \/ req'[r].pc \in {"put", "init", "earnings", "override"}
             \/ req'[r].pc = "list" /\ Unfinished(req'[r].period)
             \/ /\ req'[r].pc = "finalize"
                /\ status[req'[r].period] = "calculated"
        BY <1>4, StartMoves DEF StageInv, SerialInv
    <2>2. StageHolds'
        BY <1>4, <2>1 DEF Quiet, StageHolds, Unfinished
    <2>3. OneUnfinishedPeriod'
        BY <2>1 DEF StageInv, OneUnfinishedPeriod, Unfinished
    <2>4. QED
        BY <1>1, <2>2, <2>3 DEF StageInv
<1>5. ASSUME NEW r \in Requests, Continue(r) PROVE StageInv'
    <2>1. /\ UNCHANGED company
          /\ \/ UNCHANGED status
             \/ /\ Unfinished(req[r].period)
                /\ status' = [status EXCEPT ![req[r].period] = "calculated"]
                /\ req'[r].pc = "idle"
             \/ /\ status[req[r].period] = "calculated"
                /\ status' = [status EXCEPT ![req[r].period] = "finalized"]
                /\ req'[r].pc = "idle"
        BY <1>5, ContinueStages
    <2>2. status \in [PeriodIds -> PeriodStatus]
        BY DEF StageInv, SerialInv, KeyInv, TypeOK
    <2>3. OneUnfinishedPeriod'
        BY <2>1, <2>2 DEF StageInv, OneUnfinishedPeriod, Unfinished
    <2>4. /\ \A q \in Requests \ {r} : req'[q].pc = "idle"
          /\ \/ req'[r].pc = "idle"
             \/ /\ req'[r].period = req[r].period
                /\ req'[r].pc \in {"put", "init"}
             \/ /\ req'[r].period = req[r].period
                /\ req[r].pc \in {"list", "entry", "vacation", "refetch",
                                  "save"}
                /\ req'[r].pc \in {"entry", "vacation", "refetch", "save"}
        BY <1>5, ContinueMoves DEF StageInv, SerialInv, OneBusy
    <2>5. StageHolds'
        <3>1. CASE req'[r].pc = "idle"
            BY <2>4, <3>1 DEF StageHolds
        <3>2. CASE req'[r].pc # "idle"
            <4>1. UNCHANGED status
                BY <2>1, <3>2
            <4>2. QED
                BY <2>4, <3>2, <4>1 DEF StageInv, StageHolds, Unfinished
        <3>3. QED
            BY <3>1, <3>2
    <2>6. QED
        BY <1>1, <2>3, <2>5 DEF StageInv
<1>6. QED
    BY <1>2, <1>3, <1>4, <1>5 DEF SerialNext

LEMMA AlwaysStaged ==
    ASSUME "recalculate" \notin Endpoints PROVE SerialSpec => []StageInv
<1>1. Init => StageInv
    BY SerialInvInit DEF Init, StageInv, StageHolds, OneUnfinishedPeriod,
        Unfinished, Idle
<1>2. StageInv /\ [SerialNext]_vars => StageInv'
    BY StageInvNext
<1>3. QED
    BY <1>1, <1>2, PTL DEF SerialSpec

(* "Enforce at most one unfinished period per company" holds as long as    *)
(* requests do not overlap.                                                *)
THEOREM OneUnfinished ==
    ASSUME "recalculate" \notin Endpoints
    PROVE  SerialSpec => []OneUnfinishedPeriod
<1>1. StageInv => OneUnfinishedPeriod
    BY DEF StageInv
<1>2. QED
    BY <1>1, AlwaysStaged, PTL

(* The handlers, run one at a time, implement PeriodLifecycle: opening a   *)
(* period, marking it calculated and finalizing it are its steps, and      *)
(* everything else leaves its state alone.                                 *)
THEOREM Implements ==
    ASSUME Endpoints \cap {"recalculate", "delete"} = {}
    PROVE  SerialSpec => FollowsLifecycle
<1>1. Init => Lifecycle!Init
    <2>1. (CHOOSE c \in Companies : TRUE) \in Companies
        BY PayrollAssumption
    <2>2. QED
        BY <2>1 DEF Init, Lifecycle!Init
<1>2. StageInv /\ [SerialNext]_vars => [Lifecycle!Next]_(Lifecycle!vars)
    <2> SUFFICES ASSUME StageInv, [SerialNext]_vars,
                        ~ UNCHANGED <<status, company>>
                 PROVE  Lifecycle!Next
        BY DEF Lifecycle!vars
    <2>1. status \in [PeriodIds -> PeriodStatus] /\ TypeOK
        BY DEF StageInv, SerialInv, KeyInv, TypeOK
    <2>2. \A p \in PeriodIds : Unfinished(p) => Lifecycle!Unfinished(p)
        BY <2>1 DEF Unfinished, Lifecycle!Unfinished, PeriodStatus
    <2>3. \A p \in PeriodIds : Lifecycle!Unfinished(p) => Unfinished(p)
        BY DEF Unfinished, Lifecycle!Unfinished
    <2>4. CASE Store
        <3>1. PICK c \in Companies : CreatePayrollPeriod(c)
            BY <2>4 DEF Store, DeletePayrollPeriod, ReplaceEntryEarnings,
                OverrideEntryDeductions
        <3>2. PICK n \in PeriodIds :
                /\ status[n] = "none" \/ (Unfinished(n) /\ company[n] = c)
                /\ status' = [q \in PeriodIds |->
                                IF q = n THEN "open"
                                ELSE IF Unfinished(q) /\ company[q] = c
                                     THEN "none" ELSE status[q]]
                /\ company' = [company EXCEPT ![n] = c]
            BY <2>1, <3>1, CreateOpens
        <3>3. status' = [q \in PeriodIds |->
                            IF q = n THEN "open"
                            ELSE IF Lifecycle!Unfinished(q) /\ company[q] = c
                                 THEN "none" ELSE status[q]]
            BY <2>2, <2>3, <3>2
        <3>4. Lifecycle!Open(n, c)
            BY <2>2, <3>2, <3>3 DEF Lifecycle!Open
        <3>5. QED
            BY <3>4 DEF Lifecycle!Next
    <2>5. ASSUME NEW r \in Requests, Start(r) PROVE FALSE
        BY <2>5, StartMoves DEF StageInv, SerialInv
    <2>6. ASSUME NEW r \in Requests, Continue(r) PROVE Lifecycle!Next
        <3>1. req[r].period \in PeriodIds
            BY <2>6, ContinueMoves
                DEF StageInv, SerialInv, KeyInv, WorkHasPeriod
        <3>2. Lifecycle!Calculate(req[r].period)
                \/ Lifecycle!Finalize(req[r].period)
            BY <2>2, <2>6, <3>1, ContinueStages
                DEF Lifecycle!Calculate, Lifecycle!Finalize
        <3>3. QED
            BY <3>1, <3>2 DEF Lifecycle!Next
    <2>7. QED
        BY <2>4, <2>5, <2>6 DEF SerialNext, vars
<1>3. SerialSpec => []StageInv
    BY AlwaysStaged
<1>4. QED
    BY <1>1, <1>2, <1>3, PTL
        DEF SerialSpec, FollowsLifecycle, Lifecycle!Spec

-----------------------------------------------------------------------------
(* What the stages of a pay period guarantee by themselves.                *)
LifecycleInv == Lifecycle!TypeOK /\ Lifecycle!AtMostOneUnfinished

(* Opening replaces the company's unfinished period; calculating and       *)
(* finalizing never make a finished one unfinished.                        *)
LEMMA LifecycleInvNext ==
    ASSUME LifecycleInv, [Lifecycle!Next]_(Lifecycle!vars)
    PROVE  LifecycleInv'
<1> USE DEF LifecycleInv, Lifecycle!TypeOK
<1>1. ASSUME NEW p \in PeriodIds, NEW c \in Companies, Lifecycle!Open(p, c)
      PROVE  LifecycleInv'
    <2>1. Lifecycle!TypeOK'
        BY <1>1 DEF Lifecycle!Open
    <2>2. Lifecycle!AtMostOneUnfinished'
        BY <1>1 DEF Lifecycle!Open, Lifecycle!AtMostOneUnfinished,
            Lifecycle!Unfinished
    <2>3. QED
        BY <2>1, <2>2
<1>2. ASSUME NEW p \in PeriodIds, Lifecycle!Calculate(p) \/ Lifecycle!Finalize(p)
      PROVE  LifecycleInv'
    <2>1. Lifecycle!TypeOK'
        BY <1>2 DEF Lifecycle!Calculate, Lifecycle!Finalize
    <2>2. Lifecycle!AtMostOneUnfinished'
        BY <1>2 DEF Lifecycle!Calculate, Lifecycle!Finalize,
            Lifecycle!AtMostOneUnfinished, Lifecycle!Unfinished
    <2>3. QED
        BY <2>1, <2>2
<1>3. CASE UNCHANGED Lifecycle!vars
    BY <1>3 DEF Lifecycle!vars, Lifecycle!AtMostOneUnfinished,
        Lifecycle!Unfinished
<1>4. QED
    BY <1>1, <1>2, <1>3 DEF Lifecycle!Next

(* PeriodLifecycle keeps a company to one unfinished period, whatever      *)
(* implements it.                                                          *)
THEOREM AtMostOne == FollowsLifecycle => []Lifecycle!AtMostOneUnfinished
<1>1. Lifecycle!Init => LifecycleInv
    BY DEF LifecycleInv, Lifecycle!Init, Lifecycle!TypeOK,
        Lifecycle!AtMostOneUnfinished, Lifecycle!Unfinished
<1>2. LifecycleInv => Lifecycle!AtMostOneUnfinished
    BY DEF LifecycleInv
<1>3. QED
    BY <1>1, <1>2, LifecycleInvNext, PTL DEF FollowsLifecycle, Lifecycle!Spec

-----------------------------------------------------------------------------
(* Year-to-date figures.  Inductive: of a company's periods the unfinished *)
(* one is the newest; so the others of the company that GetYTDBeforePeriod *)
(* counts are earlier and finalized, and stay so.  The same holds of the   *)
(* copies a request works on, and no copy outlives its request.            *)

Fine(e) ==
    \A y \in e.ytd : y.company = company[e.period] =>
        y.period < e.period /\ status[y.period] = "finalized"

FineRequest(w) ==
    /\ \A e \in w.todo \cup w.cur : Fine(e)
    /\ w.pc = "idle" => w = Idle

NewestUnfinished ==
    \A p, q \in PeriodIds :
        Unfinished(p) /\ Exists(q) /\ company[q] = company[p] => q <= p

YTDInv ==
    /\ \A e \in entries : Fine(e)
    /\ \A r \in Requests : FineRequest(req[r])
    /\ NewestUnfinished

(* What is finalized stays so, and periods with entries keep their company. *)
LEMMA FineStays ==
    ASSUME NEW e \in Entry, Fine(e),
           \A q \in PeriodIds :
                status[q] = "finalized" => status'[q] = "finalized",
           company'[e.period] = company[e.period]
    PROVE  Fine(e)'
BY DEF Fine, Entry, Counted

(* The figures that are computed: what they count of the company is one of *)
(* its other periods, and not the unfinished one.                          *)
LEMMA YTDIsPaidEarlier ==
    ASSUME StageInv, YTDInv, NEW e \in Entry, Unfinished(e.period)
    PROVE  \A y \in GetYTDBeforePeriod(e.emp, e.period) :
                y.company = company[e.period] =>
                    y.period < e.period /\ status[y.period] = "finalized"
<1> SUFFICES ASSUME NEW y \in GetYTDBeforePeriod(e.emp, e.period),
                    y.company = company[e.period]
             PROVE  y.period < e.period /\ status[y.period] = "finalized"
    OBVIOUS
<1> DEFINE q == y.period
<1>1. /\ q \in PeriodIds /\ q # e.period
      /\ status[q] \in {"calculated", "finalized"}
      /\ y.company = company[q]
    BY DEF GetYTDBeforePeriod
<1> HIDE DEF q
<1>2. company[q] = company[e.period]
    BY <1>1
<1>3. e.period \in PeriodIds /\ q \in Nat /\ e.period \in Nat
    BY <1>1 DEF Entry, PeriodIds
<1>4. q <= e.period
    BY <1>1, <1>2, <1>3 DEF YTDInv, NewestUnfinished, Exists
<1>5. status[q] = "finalized"
    <2>1. SUFFICES ASSUME status[q] = "calculated" PROVE FALSE
        BY <1>1
    <2>2. Unfinished(q)
        BY <2>1 DEF Unfinished
    <2>3. QED
        BY <1>1, <1>2, <1>3, <2>2 DEF StageInv, OneUnfinishedPeriod
<1>6. QED
    BY <1>1, <1>3, <1>4, <1>5 DEF q

(* Saving a row keeps the figures of the table right: an update takes the  *)
(* figures of the row or leaves those that were there.                     *)
LEMMA UpsertKeepsFine ==
    ASSUME TypeOK, \A e \in entries : Fine(e), NEW row \in Entry, Fine(row),
           UpsertPayrollEntry(row)
    PROVE  \A e \in entries' : Fine(e)
<1>1. CASE EntryFor(row.period, row.emp) = {}
    <2>1. PICK n \in EntryIds :
            entries' = entries \cup {[row EXCEPT !.id = n]}
        BY <1>1 DEF UpsertPayrollEntry
    <2>2. Fine([row EXCEPT !.id = n])
        BY DEF Fine, Entry
    <2>3. QED
        BY <2>1, <2>2
<1>2. CASE EntryFor(row.period, row.emp) # {}
    <2>1. PICK old \in EntryFor(row.period, row.emp) :
            entries' = (entries \ {old}) \cup {Merged(old, row)}
        BY <1>2 DEF UpsertPayrollEntry
    <2>2. /\ old \in Entry /\ Fine(old)
          /\ old.period = row.period /\ old.emp = row.emp
        BY DEF TypeOK, EntryFor
    <2>3. Merged(old, row).ytd \in {old.ytd, row.ytd}
        BY <2>2 DEF Merged, Entry
    <2>4. Fine(Merged(old, row))
        BY <2>2, <2>3, MergedType DEF Fine
    <2>5. QED
        BY <2>1, <2>4
<1>3. QED
    BY <1>1, <1>2

(* The copies of a calculation that goes on.                               *)
LEMMA CalculateEntryFine ==
    ASSUME StageInv, YTDInv, NEW r \in Requests, CalculateEntry(r)
    PROVE  /\ \A e \in req'[r].todo \cup req'[r].cur : Fine(e)
           /\ req'[r].pc # "idle"
<1>1. /\ req \in [Requests -> Request] /\ req[r] \in Request
      /\ \A e \in req[r].todo :
            e \in Entry /\ e.period = req[r].period /\ Fine(e)
      /\ Unfinished(req[r].period)
    BY DEF StageInv, SerialInv, KeyInv, TypeOK, WorksOnPeriod, Request,
        StageHolds, YTDInv, FineRequest, CalculateEntry
<1> DEFINE
    ytd(e) == GetYTDBeforePeriod(e.emp, req[r].period)
    vac(e) == VacationPay(e.gross + AmountOf(LinesOf(e.id), "extra"))
    sum(e) == e.gross + EarningsGrossForEntry(e.id)
    free(e) == [e EXCEPT !.status = "calculated", !.ded = e.gross]
    wait(e) == [e EXCEPT !.ytd = ytd(e)]
    full(e) == [e EXCEPT !.status = "calculated", !.gross = sum(e),
                         !.ded = sum(e), !.ytd = ytd(e)]
    rest(e) == [req[r] EXCEPT !.todo = @ \ {e}]
    keep(e) == {l \in LinesOf(e.id) : l.code # "VAC"}
<1>2. PICK e \in req[r].todo :
        \/ req' = [req EXCEPT ![r] =
                [rest(e) EXCEPT !.pc = "save", !.cur = {free(e)}]]
        \/ req' = [req EXCEPT ![r] =
                [rest(e) EXCEPT !.pc = "vacation", !.vac = vac(e),
                                !.cur = {wait(e)}, !.keep = keep(e)]]
        \/ req' = [req EXCEPT ![r] =
                [rest(e) EXCEPT !.pc = "save", !.cur = {full(e)}]]
    BY DEF CalculateEntry
<1>3. e \in Entry /\ e.period = req[r].period /\ Fine(e)
    BY <1>1
<1>4. \A y \in ytd(e) : y.company = company[e.period] =>
        y.period < e.period /\ status[y.period] = "finalized"
    BY <1>1, <1>3, YTDIsPaidEarlier
<1> HIDE DEF ytd, vac, sum, keep
<1>5. Fine(free(e)) /\ Fine(wait(e)) /\ Fine(full(e))
    <2>1. /\ free(e).ytd = e.ytd /\ wait(e).ytd = ytd(e) /\ full(e).ytd = ytd(e)
          /\ free(e).period = e.period /\ wait(e).period = e.period
          /\ full(e).period = e.period
        BY <1>3 DEF Entry
    <2> HIDE DEF free, wait, full
    <2>2. QED
        BY <1>3, <1>4, <2>1 DEF Fine
<1> HIDE DEF free, wait, full
<1>6. rest(e).todo = req[r].todo \ {e} /\ rest(e) \in Request
    BY <1>1 DEF Request
<1> HIDE DEF rest
<1>7. req'[r].todo = req[r].todo \ {e} /\ req'[r].pc \in {"save", "vacation"}
    <2>1. req'[r].todo = req[r].todo \ {e}
        BY <1>1, <1>2, <1>6 DEF Request
    <2>2. req'[r].pc \in {"save", "vacation"}
        BY <1>1, <1>2, <1>6 DEF Request
    <2>3. QED
        BY <2>1, <2>2
<1>8. req'[r].cur \in {{free(e)}, {wait(e)}, {full(e)}}
    BY <1>1, <1>2, <1>6 DEF Request
<1>9. QED
    BY <1>1, <1>5, <1>7, <1>8

LEMMA ContinueFine ==
    ASSUME StageInv, YTDInv, NEW r \in Requests, Continue(r)
    PROVE  /\ \A e \in req'[r].todo \cup req'[r].cur : Fine(e)
           /\ req'[r].pc = "idle" => req'[r] = Idle
<1>1. /\ req \in [Requests -> Request] /\ req[r] \in Request
      /\ \A e \in req[r].todo \cup req[r].cur : e \in Entry /\ Fine(e)
      /\ \A e \in entries : Fine(e)
    BY DEF StageInv, SerialInv, KeyInv, TypeOK, Request, YTDInv, FineRequest
<1>2. CASE \E emp \in Employees, gross \in Grosses, st \in SavedStatuses :
            PutEntry(r, emp, gross, st)
    BY <1>1, <1>2 DEF PutEntry
<1>3. CASE \/ PutEnd(r) \/ InitEnd(r) \/ CalculateMark(r) \/ FinalizeWrite(r)
           \/ OverrideEntryDeductions(r)
           \/ \E amounts \in {{}} \cup {{a} : a \in ExtraAmounts} :
                    ReplaceEntryEarnings(r, amounts)
    BY <1>1, <1>3 DEF PutEnd, InitEnd, CalculateMark, FinalizeWrite, Idle,
        OverrideEntryDeductions, ReplaceEntryEarnings
<1>4. CASE InitEntry(r)
    BY <1>1, <1>4 DEF InitEntry, Request
<1>5. CASE CalculateList(r)
    <2>1. \/ req'[r] = Idle
          \/ /\ req'[r].cur = {} /\ req'[r].todo \subseteq entries
             /\ req'[r].pc = "entry"
        BY <1>1, <1>5 DEF CalculateList, Idle, EntriesOf
    <2>2. QED
        BY <1>1, <2>1 DEF Idle
<1>6. CASE CalculateEntry(r)
    BY <1>1, <1>6, CalculateEntryFine
<1>7. CASE CalculateVacation(r)
    BY <1>1, <1>7 DEF CalculateVacation, Request
<1>8. CASE CalculateRefetch(r)
    <2>1. PICK e \in req[r].cur :
            \E g : req' = [req EXCEPT ![r] =
                [req[r] EXCEPT !.pc = "save", !.vac = 0, !.keep = {},
                    !.cur = {[e EXCEPT !.status = "calculated",
                                       !.gross = g, !.ded = g]}]]
        BY <1>8 DEF CalculateRefetch
    <2>2. PICK g : req' = [req EXCEPT ![r] =
                [req[r] EXCEPT !.pc = "save", !.vac = 0, !.keep = {},
                    !.cur = {[e EXCEPT !.status = "calculated",
                                       !.gross = g, !.ded = g]}]]
        BY <2>1
    <2>3. Fine([e EXCEPT !.status = "calculated", !.gross = g, !.ded = g])
        BY <1>1 DEF Entry, Fine
    <2>4. /\ req'[r].period = req[r].period /\ req'[r].todo = req[r].todo
          /\ req'[r].pc = "save"
          /\ \A x \in req'[r].cur : Fine(x)
        BY <1>1, <2>2, <2>3 DEF Request
    <2>5. QED
        BY <1>1, <2>4
<1>9. CASE CalculateSave(r)
    BY <1>1, <1>9 DEF CalculateSave, Request
<1>10. QED
    BY <1>2, <1>3, <1>4, <1>5, <1>6, <1>7, <1>8, <1>9 DEF Continue

(* A saved row is a client's, without figures, or a copy that is right.    *)
LEMMA ContinueEntriesFine ==
    ASSUME StageInv, YTDInv, NEW r \in Requests, Continue(r)
    PROVE  \A e \in entries' : Fine(e)
<1>1. /\ TypeOK /\ req[r] \in Request /\ \A e \in entries : Fine(e)
      /\ \A e \in req[r].cur : Fine(e)
    BY DEF StageInv, SerialInv, KeyInv, TypeOK, YTDInv, FineRequest
<1>2. req[r].period \in PeriodIds
    BY ContinueMoves DEF StageInv, SerialInv, KeyInv, WorkHasPeriod
<1>3. ASSUME NEW emp \in Employees, NEW gross \in Grosses,
             NEW st \in SavedStatuses \cup {"draft"},
             UpsertPayrollEntry(SentRow(req[r].period, emp, gross, st))
      PROVE  \A e \in entries' : Fine(e)
    <2> DEFINE row == SentRow(req[r].period, emp, gross, st)
    <2>1. /\ row \in Entry /\ row.period = req[r].period /\ row.emp = emp
        BY <1>1, <1>2, SentRowType
    <2>2. row.ytd = {}
        BY DEF SentRow
    <2>3. Fine(row)
        BY <2>2 DEF Fine
    <2> HIDE DEF row
    <2>4. UpsertPayrollEntry(row)
        BY <1>3 DEF row
    <2>5. QED
        BY <1>1, <2>1, <2>3, <2>4, UpsertKeepsFine
<1>4. CASE \E emp \in Employees, gross \in Grosses, st \in SavedStatuses :
            PutEntry(r, emp, gross, st)
    BY <1>3, <1>4 DEF PutEntry
<1>5. CASE InitEntry(r)
    <2>1. PICK emp \in req[r].emps, gross \in Grosses :
            UpsertPayrollEntry(SentRow(req[r].period, emp, gross, "draft"))
        BY <1>5 DEF InitEntry
    <2>2. emp \in Employees
        BY <1>1 DEF Request
    <2>3. QED
        BY <1>3, <2>1, <2>2
<1>6. CASE CalculateSave(r)
    <2>1. PICK e \in req[r].cur : UpsertPayrollEntry(e)
        BY <1>6 DEF CalculateSave
    <2>2. e \in Entry /\ Fine(e)
        BY <1>1 DEF Request
    <2>3. QED
        BY <1>1, <2>1, <2>2, UpsertKeepsFine
<1>7. CASE OverrideEntryDeductions(r)
    <2>1. \A e \in entries' : \E x \in entries :
                e = x \/ e = [x EXCEPT !.ded = x.gross]
        BY <1>7 DEF OverrideEntryDeductions
    <2>2. \A x \in entries : Fine([x EXCEPT !.ded = x.gross])
        BY <1>1 DEF TypeOK, Entry, Fine
    <2>3. QED
        BY <1>1, <2>1, <2>2
<1>8. CASE UNCHANGED entries
    BY <1>1, <1>8
<1>9. QED
    BY <1>4, <1>5, <1>6, <1>7, <1>8 DEF Continue, PutEnd, InitEnd,
        CalculateList, CalculateEntry, CalculateVacation, CalculateRefetch,
        CalculateMark, FinalizeWrite, ReplaceEntryEarnings

(* Opening a period: it is newer than those that are left, and those that  *)
(* are dropped take their entries with them.                               *)
LEMMA CreateFine ==
    ASSUME StageInv, YTDInv, Quiet, NEW c \in Companies, CreatePayrollPeriod(c)
    PROVE  YTDInv'
<1> DEFINE stale == {q \in PeriodIds : Unfinished(q) /\ company[q] = c}
           left  == {q \in PeriodIds : Exists(q)} \ stale
<1>1. PICK n \in PeriodIds :
        /\ IsNextId(n, left)
        /\ status' = [q \in PeriodIds |->
                        IF q = n THEN "open"
                        ELSE IF q \in stale THEN "none" ELSE status[q]]
        /\ company' = [company EXCEPT ![n] = c]
    BY DEF CreatePayrollPeriod
<1>2. /\ entries' = {e \in entries : e.period \notin stale}
      /\ UNCHANGED req
    BY DEF CreatePayrollPeriod, EntriesWithout
<1>3. \A q \in PeriodIds : q \in stale <=> Unfinished(q) /\ company[q] = c
    OBVIOUS
<1>4. \A q \in left : q < n
    BY <1>1 DEF IsNextId
<1>5. \A q \in PeriodIds : Exists(q) => q \in left \/ q \in stale
    OBVIOUS
<1>6. stale \subseteq PeriodIds /\ left \subseteq PeriodIds /\ left \cap stale = {}
    OBVIOUS
<1> HIDE DEF stale, left
<1>7. n \notin left
    <2>1. ~ (n < n)
        BY DEF PeriodIds
    <2>2. QED
        BY <1>4, <2>1
<1>8. \A q \in PeriodIds :
        status[q] = "finalized" => status'[q] = "finalized" /\ q # n
    BY <1>1, <1>3, <1>5, <1>7 DEF Exists, Unfinished
<1>9. TypeOK
    BY DEF StageInv, SerialInv, KeyInv
<1>10. \A e \in entries' : Fine(e)'
    <2>1. SUFFICES ASSUME NEW e \in entries, e.period \notin stale
                   PROVE  Fine(e)'
        BY <1>2
    <2>2. e \in Entry /\ Fine(e) /\ e.period \in PeriodIds /\ Exists(e.period)
        BY <1>9 DEF TypeOK, Entry, YTDInv, StageInv, SerialInv,
            EntriesHavePeriod
    <2>3. e.period # n
        BY <1>5, <1>7, <2>1, <2>2
    <2>4. company'[e.period] = company[e.period]
        BY <1>1, <1>9, <2>2, <2>3 DEF TypeOK
    <2>5. QED
        BY <1>8, <2>2, <2>4, FineStays
<1>11. \A r \in Requests : FineRequest(req[r])'
    <2>1. \A r \in Requests : req[r] = Idle
        BY DEF Quiet, YTDInv, FineRequest
    <2>2. QED
        BY <1>2, <2>1 DEF FineRequest, Idle
<1>12. NewestUnfinished'
    <2>1. SUFFICES ASSUME NEW p \in PeriodIds, NEW q \in PeriodIds,
                          status'[p] \notin {"none", "finalized"},
                          status'[q] # "none", company'[q] = company'[p]
                   PROVE  q <= p
        BY DEF NewestUnfinished, Unfinished, Exists
    <2>2. company'[n] = c
          /\ \A x \in PeriodIds : x # n => company'[x] = company[x]
        BY <1>1, <1>9 DEF TypeOK
    <2>3. \A x \in PeriodIds : x # n /\ status'[x] # "none" =>
            x \in left /\ x \notin stale /\ status'[x] = status[x]
        BY <1>1, <1>5 DEF Exists
    <2>4. p \in Nat /\ q \in Nat /\ n \in Nat
        BY DEF PeriodIds
    <2>5. CASE p = n
        BY <1>4, <2>1, <2>3, <2>4, <2>5
    <2>6. CASE p # n
        <3>1. Unfinished(p) /\ company[p] # c /\ company'[p] = company[p]
            BY <1>3, <2>1, <2>2, <2>3, <2>6 DEF Unfinished
        <3>2. q # n
            BY <2>1, <2>2, <3>1
        <3>3. Exists(q) /\ company[q] = company[p]
            BY <2>1, <2>2, <2>3, <3>1, <3>2 DEF Exists
        <3>4. QED
            BY <3>1, <3>3 DEF YTDInv, NewestUnfinished
    <2>7. QED
        BY <2>5, <2>6
<1>13. QED
    BY <1>10, <1>11, <1>12 DEF YTDInv

LEMMA StoreFine ==
    ASSUME "delete" \notin Endpoints, StageInv, YTDInv, Quiet, Store
    PROVE  YTDInv'
BY CreateFine DEF Store, DeletePayrollPeriod

LEMMA StartFine ==
    ASSUME "recalculate" \notin Endpoints, StageInv, YTDInv,
           NEW r \in Requests, Start(r)
    PROVE  YTDInv'
<1>1. /\ \A q \in Requests \ {r} : req'[q] = req[q]
      /\ req'[r].todo = {} /\ req'[r].cur \subseteq entries
      /\ req'[r].pc # "idle"
      /\ UNCHANGED <<status, company>>
    BY StartMoves DEF StageInv, SerialInv
<1>2. UNCHANGED entries
    BY DEF Start, PutStart, InitStart, CalculateStart, RecalculateStart,
        FinalizeStart, EarningsStart, OverrideStart, GetPayrollEntry
<1>3. \A q \in Requests : FineRequest(req[q])'
    <2>1. FineRequest(req[r])'
        BY <1>1 DEF YTDInv, FineRequest, Fine
    <2>2. ASSUME NEW q \in Requests \ {r} PROVE FineRequest(req[q])'
        BY <1>1 DEF YTDInv, FineRequest, Fine
    <2>3. QED
        BY <2>1, <2>2
<1>4. QED
    BY <1>1, <1>2, <1>3 DEF YTDInv, Fine, NewestUnfinished, Unfinished,
        Exists

LEMMA ContinueKeepsFine ==
    ASSUME StageInv, YTDInv, StageInv', NEW r \in Requests, Continue(r)
    PROVE  YTDInv'
<1>1. /\ TypeOK /\ TypeOK' /\ req' \in [Requests -> Request]
    BY DEF StageInv, SerialInv, KeyInv, TypeOK
<1>2. /\ UNCHANGED company
      /\ \A q \in Requests \ {r} : req'[q] = req[q]
      /\ \A q \in Requests \ {r} : req[q].pc = "idle"
    BY ContinueStages, ContinueMoves DEF StageInv, SerialInv, OneBusy
<1>3. \A q \in PeriodIds : /\ status[q] = "finalized" => status'[q] = "finalized"
                           /\ Unfinished(q)' => Unfinished(q)
                           /\ Exists(q)' => Exists(q)
    <2>1. status \in [PeriodIds -> PeriodStatus]
        BY <1>1 DEF TypeOK
    <2>2. \/ UNCHANGED status
          \/ /\ Unfinished(req[r].period)
             /\ status' = [status EXCEPT ![req[r].period] = "calculated"]
          \/ /\ status[req[r].period] = "calculated"
             /\ status' = [status EXCEPT ![req[r].period] = "finalized"]
        BY ContinueStages
    <2>3. QED
        BY <2>1, <2>2 DEF Unfinished, Exists
<1>4. \A e \in entries' : e \in Entry /\ Fine(e)'
    <2>1. ASSUME NEW e \in entries' PROVE e \in Entry /\ Fine(e)
        BY <1>1, ContinueEntriesFine DEF TypeOK
    <2>2. QED
        BY <1>2, <1>3, <2>1, FineStays
<1>5. \A e \in req'[r].todo \cup req'[r].cur : Fine(e)'
    <2>1. ASSUME NEW e \in req'[r].todo \cup req'[r].cur
          PROVE  e \in Entry /\ Fine(e)
        BY <1>1, ContinueFine DEF Request
    <2>2. QED
        BY <1>2, <1>3, <2>1, FineStays
<1>6. \A q \in Requests : FineRequest(req[q])'
    <2>1. FineRequest(req[r])'
        BY <1>2, <1>5, ContinueFine DEF FineRequest
    <2>2. ASSUME NEW q \in Requests \ {r} PROVE FineRequest(req[q])'
        <3>1. req[q] = Idle /\ req'[q] = Idle
            BY <1>2 DEF YTDInv, FineRequest
        <3>2. QED
            BY <3>1 DEF FineRequest, Idle
    <2>3. QED
        BY <2>1, <2>2
<1>7. NewestUnfinished'
    BY <1>2, <1>3 DEF YTDInv, NewestUnfinished
<1>8. QED
    BY <1>4, <1>6, <1>7 DEF YTDInv

LEMMA YTDInvNext ==
    ASSUME Endpoints \cap {"recalculate", "delete"} = {}
    PROVE  StageInv /\ YTDInv /\ StageInv' /\ [SerialNext]_vars => YTDInv'
<1> SUFFICES ASSUME StageInv, YTDInv, StageInv', [SerialNext]_vars
             PROVE  YTDInv'
    OBVIOUS
<1>1. CASE UNCHANGED vars
    BY <1>1 DEF vars, YTDInv, Fine, FineRequest, NewestUnfinished,
        Unfinished, Exists
<1>2. CASE Quiet /\ Store
    BY <1>2, StoreFine
<1>3. ASSUME NEW r \in Requests, Start(r) PROVE YTDInv'
    BY <1>3, StartFine
<1>4. ASSUME NEW r \in Requests, Continue(r) PROVE YTDInv'
    BY <1>4, ContinueKeepsFine
<1>5. QED
    BY <1>1, <1>2, <1>3, <1>4 DEF SerialNext

(* With one request at a time, the year-to-date figures of an entry count, *)
(* of the company's own periods, only those that were opened earlier and   *)
(* are paid for good, whoever a client saves an entry for.  The pages      *)
(* under web/ neither recalculate nor delete.                              *)
THEOREM YTDOfPaidPeriods ==
    ASSUME Endpoints \cap {"recalculate", "delete"} = {}
    PROVE  SerialSpec => []YTDCountsPaidEarlierPeriods
<1>1. Init => YTDInv
    BY DEF Init, YTDInv, FineRequest, NewestUnfinished, Unfinished, Idle
<1>2. StageInv /\ YTDInv /\ StageInv' /\ [SerialNext]_vars => YTDInv'
    BY YTDInvNext
<1>3. YTDInv => YTDCountsPaidEarlierPeriods
    BY DEF YTDInv, Fine, YTDCountsPaidEarlierPeriods
<1>4. SerialSpec => []StageInv
    BY AlwaysStaged
<1>5. QED
    BY <1>1, <1>2, <1>3, <1>4, PTL DEF SerialSpec
=============================================================================
