---------------------- MODULE RecordOfEmploymentProofs ----------------------
(***************************************************************************)
(* Theorems about RecordOfEmployment, for any number of employees,         *)
(* requests and periods, any overlap and any crash.                        *)
(***************************************************************************)
EXTENDS RecordOfEmployment, TLAPS

(* Store.mu: at most one request is between its DELETE and its INSERT.     *)
OneHolder ==
    \A q, r \in Requests :
        req[q].pc = "insert" /\ req[r].pc = "insert" => q = r

(* Meanwhile the id it is going to insert is free.                         *)
InsertFree ==
    \A r \in Requests :
        req[r].pc = "insert" =>
            req[r].id # 0 /\ \A x \in roes : x.id # req[r].id

HasEmployee ==
    \A r \in Requests :
        /\ req[r].pc = "idle" => req[r] = Idle
        /\ req[r].pc # "idle" => req[r].emp \in Employees

(* Inductive.                                                              *)
RowsInv ==
    /\ clock \in 0 .. MaxClock
    /\ req \in [Requests -> Request] /\ roes \subseteq Roe
    /\ OneHolder /\ InsertFree /\ HasEmployee
    /\ NumbersDistinct /\ WorksOnOwnRoe

-----------------------------------------------------------------------------
LEMMA IdleType == Idle \in Request /\ Idle.pc = "idle" /\ Idle.id = 0
BY RoeAssumption DEF Idle, Request, PCs

(* A step that writes no row: the request goes on with an id it already    *)
(* had, or with that of a row of its employee.                             *)
LEMMA QuietStep ==
    ASSUME RowsInv, NEW r \in Requests, NEW w \in Request,
           req' = [req EXCEPT ![r] = w], UNCHANGED <<roes, clock>>,
           req[r].pc # "insert", w.pc # "insert",
           w = Idle \/ (w.pc # "idle" /\ w.emp \in Employees),
           \/ w.id = 0
           \/ \E x \in roes : x.id = w.id /\ x.emp = w.emp
           \/ w.id = req[r].id /\ w.emp = req[r].emp
    PROVE  RowsInv'
<1>1. /\ req' \in [Requests -> Request] /\ req'[r] = w
      /\ \A q \in Requests \ {r} : req'[q] = req[q]
    BY DEF RowsInv
<1>2. OneHolder' /\ InsertFree'
    BY <1>1 DEF RowsInv, OneHolder, InsertFree
<1>3. HasEmployee'
    BY <1>1, IdleType DEF RowsInv, HasEmployee
<1>4. WorksOnOwnRoe'
    <2> SUFFICES ASSUME NEW q \in Requests,
                        req'[q].id # 0, req'[q].pc # "insert"
                 PROVE  \/ \E x \in roes : /\ x.id = req'[q].id
                                           /\ x.emp = req'[q].emp
                        \/ \E h \in Requests : /\ req'[h].pc = "insert"
                                               /\ req'[h].id = req'[q].id
                                               /\ req'[h].emp = req'[q].emp
        BY DEF WorksOnOwnRoe
    <2>1. \/ \E x \in roes : x.id = req'[q].id /\ x.emp = req'[q].emp
          \/ \E h \in Requests : /\ req[h].pc = "insert"
                                 /\ req[h].id = req'[q].id
                                 /\ req[h].emp = req'[q].emp
        BY <1>1 DEF RowsInv, WorksOnOwnRoe
    <2>2. \A h \in Requests : req[h].pc = "insert" => req'[h] = req[h]
        BY <1>1
    <2>3. QED
        BY <2>1, <2>2
<1>5. QED
    BY <1>1, <1>2, <1>3, <1>4 DEF RowsInv, NumbersDistinct

(* Issuing or editing writes a row of the same id, serial and employee,    *)
(* and ends the request if there is one.                                   *)
LEMMA RewriteStep ==
    ASSUME RowsInv, ~Locked, NEW x \in roes, NEW y \in Roe,
           y.id = x.id, y.serial = x.serial, y.emp = x.emp,
           roes' = (roes \ {x}) \cup {y}, UNCHANGED clock,
           \/ req' = req
           \/ \E r \in Requests : req' = [req EXCEPT ![r] = Idle],
           Idle \in Request
    PROVE  RowsInv'
<1>1. /\ req' \in [Requests -> Request]
      /\ \A q \in Requests : req'[q] = req[q] \/ req'[q] = Idle
    BY DEF RowsInv
<1>2. \A q \in Requests : req'[q].pc # "insert"
    BY <1>1 DEF Locked, Idle
<1>3. OneHolder' /\ InsertFree' /\ HasEmployee'
    <2>1. OneHolder' /\ InsertFree'
        BY <1>2 DEF OneHolder, InsertFree
    <2>2. HasEmployee'
        BY <1>1 DEF RowsInv, HasEmployee, Idle
    <2>3. QED
        BY <2>1, <2>2
<1>4. roes' \subseteq Roe
    BY DEF RowsInv
<1>5. NumbersDistinct'
    BY DEF RowsInv, NumbersDistinct
<1>6. WorksOnOwnRoe'
    <2> SUFFICES ASSUME NEW q \in Requests, req'[q].id # 0
                 PROVE  \E z \in roes' : /\ z.id = req'[q].id
                                         /\ z.emp = req'[q].emp
        BY DEF WorksOnOwnRoe
    <2>1. req'[q] = req[q]
        BY <1>1 DEF Idle
    <2>2. PICK z \in roes : z.id = req[q].id /\ z.emp = req[q].emp
        BY <1>2, <2>1 DEF RowsInv, WorksOnOwnRoe, Locked
    <2>3. CASE z = x
        BY <2>1, <2>2, <2>3
    <2>4. CASE z # x
        BY <2>1, <2>2, <2>4
    <2>5. QED
        BY <2>3, <2>4
<1>7. QED
    BY <1>1, <1>3, <1>4, <1>5, <1>6 DEF RowsInv

(* A new row takes a serial number above all others and an id no row has.  *)
LEMMA InsertStep ==
    ASSUME RowsInv, NEW r \in Requests, NEW id \in Nat \ {0}, InsertROE(r, id),
           req[r].pc # "idle", \A x \in roes : x.id # id,
           \/ ~Locked
           \/ req[r].pc = "insert" /\ id = req[r].id,
           Idle \in Request
    PROVE  RowsInv'
<1>1. PICK n \in 1 .. MaxSerial :
        /\ IsNext(n, {x.serial : x \in roes})
        /\ roes' = roes \cup {DraftRow(r, id, n)}
        /\ req' = [req EXCEPT ![r] = Idle]
    BY DEF InsertROE
<1> DEFINE y == DraftRow(r, id, n)
<1>2. /\ y \in Roe /\ y.id = id /\ y.serial = n /\ y.emp = req[r].emp
    <2>1. n \in Nat
        BY RoeAssumption
    <2>2. QED
        BY <2>1 DEF DraftRow, Roe, RowsInv, Request, HasEmployee
<1>3. \A x \in roes : x.serial < n /\ x.serial \in Nat
    BY <1>1 DEF IsNext, RowsInv, Roe
<1>4. NumbersDistinct'
    <2>1. \A x \in roes : x.serial # y.serial /\ x.id # y.id
        BY <1>2, <1>3, RoeAssumption
    <2>2. roes' = roes \cup {y}
        BY <1>1
    <2>3. QED
        BY <2>1, <2>2 DEF RowsInv, NumbersDistinct
<1>5. /\ req' \in [Requests -> Request] /\ req'[r] = Idle
      /\ \A q \in Requests \ {r} : req'[q] = req[q]
    BY <1>1 DEF RowsInv
<1>6. \A q \in Requests : req'[q].pc # "insert"
    BY <1>5 DEF RowsInv, OneHolder, Locked, Idle
<1>7. /\ OneHolder' /\ InsertFree'
      /\ HasEmployee'
    <2>1. OneHolder' /\ InsertFree'
        BY <1>6 DEF OneHolder, InsertFree
    <2>2. HasEmployee'
        BY <1>5 DEF RowsInv, HasEmployee, Idle
    <2>3. QED
        BY <2>1, <2>2
<1>8. WorksOnOwnRoe'
    <2> SUFFICES ASSUME NEW q \in Requests, req'[q].id # 0
                 PROVE  \E z \in roes' : /\ z.id = req'[q].id
                                         /\ z.emp = req'[q].emp
        BY DEF WorksOnOwnRoe
    <2>1. req'[q] = req[q] /\ q # r
        BY <1>5 DEF Idle
    <2>2. \/ \E z \in roes : z.id = req[q].id /\ z.emp = req[q].emp
          \/ \E h \in Requests : /\ req[h].pc = "insert"
                                 /\ req[h].id = req[q].id
                                 /\ req[h].emp = req[q].emp
        BY <1>6, <2>1 DEF RowsInv, WorksOnOwnRoe
    <2>3. \A h \in Requests : req[h].pc = "insert" => h = r /\ id = req[r].id
        BY DEF RowsInv, OneHolder, Locked
    <2>4. roes' = roes \cup {y}
        BY <1>1
    <2>5. QED
        BY <1>2, <2>1, <2>2, <2>3, <2>4
<1>9. roes' \subseteq Roe /\ clock' = clock
    BY <1>1, <1>2 DEF RowsInv, InsertROE
<1>10. QED
    BY <1>4, <1>5, <1>7, <1>8, <1>9 DEF RowsInv

-----------------------------------------------------------------------------
LEMMA RowsInvInit == Init => RowsInv
<1> SUFFICES ASSUME Init PROVE RowsInv
    OBVIOUS
<1>1. \A r \in Requests : req[r] = Idle
    BY DEF Init
<1>2. req \in [Requests -> Request]
    BY IdleType DEF Init
<1>3. OneHolder /\ InsertFree /\ HasEmployee /\ WorksOnOwnRoe
    BY <1>1, IdleType DEF OneHolder, InsertFree, HasEmployee, WorksOnOwnRoe
<1>4. clock \in 0 .. MaxClock
    BY RoeAssumption DEF Init
<1>5. QED
    BY <1>2, <1>3, <1>4 DEF Init, RowsInv, NumbersDistinct

(* Starting a request on an employee, with no id or a row's.               *)
LEMMA BeginRows ==
    ASSUME RowsInv, NEW r \in Requests, NEW e \in Employees,
           NEW pc \in PCs \ {"idle", "insert"}, NEW id \in Nat,
           id = 0 \/ \E x \in roes : x.id = id /\ x.emp = e,
           Begin(r, e, pc, id)
    PROVE  RowsInv'
<1> DEFINE w == [Idle EXCEPT !.pc = pc, !.emp = e, !.id = id]
<1>1. /\ w \in Request /\ w.pc = pc /\ w.emp = e /\ w.id = id
    <2> DEFINE v(i) == [i EXCEPT !.pc = pc, !.emp = e, !.id = id]
    <2>1. \A i \in Request : /\ v(i) \in Request /\ v(i).pc = pc
                             /\ v(i).emp = e /\ v(i).id = id
        BY DEF Request
    <2>2. QED
        BY <2>1, IdleType
<1>2. /\ req[r].pc = "idle" /\ roes' = roes
      /\ req' = [req EXCEPT ![r] = w] /\ UNCHANGED clock
    BY DEF Begin
<1> HIDE DEF w
<1>3. QED
    BY <1>1, <1>2, QuietStep

(* A request under way that goes on with the id it has.                    *)
LEMMA AdvanceRows ==
    ASSUME RowsInv, NEW r \in Requests, NEW w \in Request, Advance(r, w),
           req[r].pc \notin {"idle", "insert"},
           \/ w = Idle
           \/ /\ w.pc \notin {"idle", "insert"} /\ w.emp = req[r].emp
              /\ \/ w.id = req[r].id
                 \/ \E x \in RoesOf(req[r].emp) : x.id = w.id
    PROVE  RowsInv'
<1>1. req[r].emp \in Employees
    BY DEF RowsInv, HasEmployee
<1>2. req' = [req EXCEPT ![r] = w] /\ UNCHANGED <<roes, clock>>
    BY DEF Advance
<1>3. w.pc # "insert"
    BY IdleType
<1>4. w = Idle \/ (w.pc # "idle" /\ w.emp \in Employees)
    BY <1>1
<1>5. \/ w.id = 0
      \/ \E x \in roes : x.id = w.id /\ x.emp = w.emp
      \/ w.id = req[r].id /\ w.emp = req[r].emp
    BY IdleType DEF RoesOf
<1>6. QED
    BY <1>2, <1>3, <1>4, <1>5, QuietStep

LEMMA DeleteRows ==
    ASSUME RowsInv, NEW r \in Requests, DeleteROE(r)
    PROVE  RowsInv'
<1> DEFINE w == [req[r] EXCEPT !.pc = "insert"]
<1>1. /\ w \in Request /\ w.pc = "insert" /\ w.emp = req[r].emp
      /\ w.id = req[r].id
    BY DEF RowsInv, Request, PCs
<1>2. /\ req' \in [Requests -> Request] /\ req'[r] = w
      /\ \A q \in Requests \ {r} : req'[q] = req[q]
    BY <1>1 DEF RowsInv, DeleteROE
<1> HIDE DEF w
<1>3. /\ \A q \in Requests : req[q].pc # "insert"
      /\ req[r].pc = "write" /\ req[r].id # 0
      /\ roes' = {x \in roes : x.id # req[r].id}
    BY DEF DeleteROE, Locked
<1>4. OneHolder'
    BY <1>2, <1>3 DEF OneHolder
<1>5. InsertFree'
    BY <1>1, <1>2, <1>3 DEF InsertFree
<1>6. HasEmployee'
    BY <1>1, <1>2, <1>3 DEF RowsInv, HasEmployee
<1>7. NumbersDistinct'
    BY <1>3 DEF RowsInv, NumbersDistinct
<1>8. PICK own \in roes : own.id = req[r].id /\ own.emp = req[r].emp
    BY <1>3 DEF RowsInv, WorksOnOwnRoe
<1>9. WorksOnOwnRoe'
    <2> SUFFICES ASSUME NEW q \in Requests,
                        req'[q].id # 0, req'[q].pc # "insert"
                 PROVE  \/ \E x \in roes' : /\ x.id = req'[q].id
                                            /\ x.emp = req'[q].emp
                        \/ \E h \in Requests : /\ req'[h].pc = "insert"
                                               /\ req'[h].id = req'[q].id
                                               /\ req'[h].emp = req'[q].emp
        BY DEF WorksOnOwnRoe
    <2>1. q # r /\ req'[q] = req[q]
        BY <1>1, <1>2
    <2>2. PICK x \in roes : x.id = req[q].id /\ x.emp = req[q].emp
        BY <1>3, <2>1 DEF RowsInv, WorksOnOwnRoe
    <2>3. CASE x.id = req[r].id
        <3>1. x = own
            BY <1>8, <2>3 DEF RowsInv, NumbersDistinct
        <3>2. QED
            BY <1>1, <1>2, <1>8, <2>1, <2>2, <3>1
    <2>4. CASE x.id # req[r].id
        BY <1>3, <2>1, <2>2, <2>4
    <2>5. QED
        BY <2>3, <2>4
<1>10. roes' \subseteq Roe /\ clock' = clock
    BY <1>3 DEF RowsInv, DeleteROE
<1>11. QED
    BY <1>2, <1>4, <1>5, <1>6, <1>7, <1>9, <1>10 DEF RowsInv

LEMMA GenerateRows ==
    ASSUME RowsInv, NEW r \in Requests, Generate(r)
    PROVE  RowsInv'
<1>1. req[r] \in Request
    BY DEF RowsInv
<1>2. CASE \E e \in Employees : RoeGenerate(r, e)
    BY <1>2, BeginRows DEF RoeGenerate, PCs
<1>3. CASE RoeRegenerate(r)
    <2>1. PICK x \in roes : Begin(r, x.emp, "final", 0)
        BY <1>3 DEF RoeRegenerate
    <2>2. x.emp \in Employees
        BY DEF RowsInv, Roe
    <2>3. QED
        BY <2>1, <2>2, BeginRows DEF PCs
<1>4. CASE ReadFinalPeriod(r)
    <2>1. PICK p \in Worked(req[r].emp) :
            Advance(r, [req[r] EXCEPT !.pc = "existing", !.final = p])
        BY <1>4 DEF ReadFinalPeriod
    <2>2. p \in PeriodIds
        BY DEF Worked, PaidIn
    <2> DEFINE w == [req[r] EXCEPT !.pc = "existing", !.final = p]
    <2>3. /\ w \in Request /\ w.pc = "existing" /\ w.emp = req[r].emp
          /\ w.id = req[r].id
        BY <1>1, <2>2 DEF Request, PCs
    <2>4. req[r].pc = "final" /\ Advance(r, w)
        BY <1>4, <2>1 DEF ReadFinalPeriod
    <2> HIDE DEF w
    <2>5. QED
        BY <2>3, <2>4, AdvanceRows
<1>5. CASE NoFinalPeriod(r)
    BY <1>5, IdleType, AdvanceRows DEF NoFinalPeriod
<1>6. CASE ReadExisting(r)
    <2>1. PICK x \in Latest(req[r].emp) :
            Advance(r, [req[r] EXCEPT !.pc = "periods", !.id = x.id])
        BY <1>6 DEF ReadExisting
    <2>2. x \in RoesOf(req[r].emp) /\ x.id \in Nat
        BY DEF Latest, RoesOf, RowsInv, Roe
    <2> DEFINE w == [req[r] EXCEPT !.pc = "periods", !.id = x.id]
    <2>3. /\ w \in Request /\ w.pc = "periods" /\ w.emp = req[r].emp
          /\ w.id = x.id
        BY <1>1, <2>2 DEF Request, PCs
    <2>4. req[r].pc = "existing" /\ Advance(r, w)
        BY <1>6, <2>1 DEF ReadExisting
    <2> HIDE DEF w
    <2>5. QED
        BY <2>2, <2>3, <2>4, AdvanceRows
<1>7. CASE NoExisting(r)
    <2> DEFINE w == [req[r] EXCEPT !.pc = "periods"]
    <2>1. /\ w \in Request /\ w.pc = "periods" /\ w.emp = req[r].emp
          /\ w.id = req[r].id
        BY <1>1 DEF Request, PCs
    <2>2. req[r].pc = "existing" /\ Advance(r, w)
        BY <1>7 DEF NoExisting
    <2> HIDE DEF w
    <2>3. QED
        BY <2>1, <2>2, AdvanceRows
<1>8. CASE ExistingIssued(r)
    BY <1>8, IdleType, AdvanceRows DEF ExistingIssued
<1>9. CASE BuildROEPeriods(r)
    <2> DEFINE ps == Newest({p \in PaidIn(req[r].emp) : p <= req[r].final},
                            Lookback)
               w == [req[r] EXCEPT !.pc = "hash", !.final = 0, !.block = ps]
    <2>1. ps \subseteq PeriodIds
        BY DEF Newest, PaidIn
    <2>2. req[r].pc = "periods" /\ Advance(r, w)
        BY <1>9 DEF BuildROEPeriods
    <2> HIDE DEF ps
    <2>3. /\ w \in Request /\ w.pc = "hash" /\ w.emp = req[r].emp
          /\ w.id = req[r].id
        BY <1>1, <2>1 DEF Request, PCs
    <2> HIDE DEF w
    <2>4. QED
        BY <2>2, <2>3, AdvanceRows
<1>10. CASE ComputeROESourceHash(r)
    <2> DEFINE w == [req[r] EXCEPT !.pc = "write", !.now = clock]
    <2>1. /\ w \in Request /\ w.pc = "write" /\ w.emp = req[r].emp
          /\ w.id = req[r].id
        BY <1>1 DEF RowsInv, Request, PCs
    <2>2. req[r].pc = "hash" /\ Advance(r, w)
        BY <1>10 DEF ComputeROESourceHash
    <2> HIDE DEF w
    <2>3. QED
        BY <2>1, <2>2, AdvanceRows
<1>11. CASE DeleteROE(r)
    BY <1>11, DeleteRows
<1>12. CASE InsertFirst(r)
    <2>1. PICK id \in 1 .. MaxSerial :
            IsNext(id, {x.id : x \in roes}) /\ InsertROE(r, id)
        BY <1>12 DEF InsertFirst
    <2>2. id \in Nat \ {0} /\ \A x \in roes : x.id < id /\ x.id \in Nat
        BY <2>1, RoeAssumption DEF IsNext, RowsInv, Roe
    <2>3. \A x \in roes : x.id # id
        BY <2>2
    <2>4. ~Locked /\ req[r].pc = "write"
        BY <1>12 DEF InsertFirst
    <2>5. QED
        BY <2>1, <2>2, <2>3, <2>4, IdleType, InsertStep
<1>13. CASE InsertAgain(r)
    <2>1. /\ req[r].pc = "insert" /\ InsertROE(r, req[r].id)
          /\ req[r].id \in Nat \ {0}
        BY <1>1, <1>13 DEF InsertAgain, Request, RowsInv, InsertFree
    <2>2. \A x \in roes : x.id # req[r].id
        BY <2>1 DEF RowsInv, InsertFree
    <2>3. QED
        BY <2>1, <2>2, IdleType, InsertStep
<1>14. QED
    BY <1>2, <1>3, <1>4, <1>5, <1>6, <1>7, <1>8, <1>9, <1>10, <1>11, <1>12,
       <1>13 DEF Generate

(* Saving a row under the lock: the row keeps its id, serial and employee. *)
LEMMA IssueRows ==
    ASSUME RowsInv, NEW r \in Requests, Issue(r)
    PROVE  RowsInv'
<1>1. req[r] \in Request
    BY DEF RowsInv
<1>2. CASE RoeIssue(r)
    <2>1. PICK x \in roes : Begin(r, x.emp, "revalidate", x.id)
        BY <1>2 DEF RoeIssue
    <2>2. x.emp \in Employees /\ x.id \in Nat
        BY DEF RowsInv, Roe
    <2>3. QED
        BY <2>1, <2>2, BeginRows DEF PCs
<1>3. CASE IssueValidate(r)
    <2> DEFINE w == [req[r] EXCEPT !.pc = "issue"]
    <2>1. /\ w \in Request /\ w.pc = "issue" /\ w.emp = req[r].emp
          /\ w.id = req[r].id
        BY <1>1 DEF Request, PCs
    <2>2. req[r].pc = "revalidate" /\ Advance(r, w)
        BY <1>3 DEF IssueValidate
    <2> HIDE DEF w
    <2>3. QED
        BY <2>1, <2>2, AdvanceRows
<1>4. CASE IssueInvalid(r)
    BY <1>4, IdleType, AdvanceRows DEF IssueInvalid
<1>5. CASE IssueROE(r)
    <2>1. PICK x \in roes : roes' = (roes \ {x}) \cup
                                {[x EXCEPT !.issued = TRUE]}
        BY <1>5 DEF IssueROE
    <2> DEFINE y == [x EXCEPT !.issued = TRUE]
    <2>2. /\ y \in Roe /\ y.id = x.id /\ y.serial = x.serial
          /\ y.emp = x.emp
        BY DEF RowsInv, Roe
    <2>3. ~Locked /\ req' = [req EXCEPT ![r] = Idle] /\ UNCHANGED clock
        BY <1>5 DEF IssueROE
    <2>4. roes' = (roes \ {x}) \cup {y}
        BY <2>1
    <2> HIDE DEF y
    <2>5. QED
        BY <2>2, <2>3, <2>4, IdleType, RewriteStep
<1>6. CASE AlreadyIssued(r)
    BY <1>6, IdleType, AdvanceRows DEF AlreadyIssued
<1>7. QED
    BY <1>2, <1>3, <1>4, <1>5, <1>6 DEF Issue

LEMMA SaveRows ==
    ASSUME RowsInv, NEW x \in roes, NEW filled \in BOOLEAN,
           UpdateROEFields(x, filled)
    PROVE  RowsInv'
<1> DEFINE y == [x EXCEPT !.filled = filled]
<1>1. /\ y \in Roe /\ y.id = x.id /\ y.serial = x.serial
      /\ y.emp = x.emp
    BY DEF RowsInv, Roe
<1>2. /\ ~Locked /\ req' = req /\ UNCHANGED clock
      /\ roes' = (roes \ {x}) \cup {y}
    BY DEF UpdateROEFields, SaveFields
<1> HIDE DEF y
<1>3. QED
    BY <1>1, <1>2, IdleType, RewriteStep

LEMMA CrashRows ==
    ASSUME RowsInv, Crash
    PROVE  RowsInv'
<1>1. /\ req' \in [Requests -> Request] /\ \A q \in Requests : req'[q] = Idle
      /\ UNCHANGED <<roes, clock>>
    BY IdleType DEF Crash
<1>2. OneHolder' /\ InsertFree' /\ HasEmployee' /\ WorksOnOwnRoe'
    BY <1>1, IdleType DEF OneHolder, InsertFree, HasEmployee, WorksOnOwnRoe
<1>3. QED
    BY <1>1, <1>2 DEF RowsInv, NumbersDistinct

LEMMA SameRows ==
    ASSUME RowsInv, UNCHANGED <<roes, req>>, clock' \in 0 .. MaxClock
    PROVE  RowsInv'
BY DEF RowsInv, OneHolder, InsertFree, HasEmployee, NumbersDistinct,
       WorksOnOwnRoe

LEMMA RowsInvNext == RowsInv /\ [Next]_vars => RowsInv'
<1> SUFFICES ASSUME RowsInv, [Next]_vars PROVE RowsInv'
    OBVIOUS
<1>1. CASE Payroll
    BY <1>1, SameRows
       DEF Payroll, FinalizePeriod, DeletePayrollPeriod, RowsInv
<1>2. CASE Tick
    <2>1. clock' \in 0 .. MaxClock
        BY <1>2, RoeAssumption DEF Tick, RowsInv
    <2>2. QED
        BY <1>2, <2>1, SameRows DEF Tick
<1>3. ASSUME NEW r \in Requests, Generate(r)
      PROVE  RowsInv'
    BY <1>3, GenerateRows
<1>4. ASSUME NEW r \in Requests, Issue(r)
      PROVE  RowsInv'
    BY <1>4, IssueRows
<1>5. ASSUME NEW x \in roes, NEW filled \in BOOLEAN,
             UpdateROEFields(x, filled)
      PROVE  RowsInv'
    BY <1>5, SaveRows
<1>6. CASE Crash
    BY <1>6, CrashRows
<1>7. CASE UNCHANGED vars
    BY <1>7, SameRows DEF vars, RowsInv
<1>8. QED
    BY <1>1, <1>2, <1>3, <1>4, <1>5, <1>6, <1>7 DEF Next

LEMMA RowsInvAlways == Spec => []RowsInv
BY RowsInvInit, RowsInvNext, PTL DEF Spec

-----------------------------------------------------------------------------
(* Ids and serial numbers of records stay distinct: the next number is     *)
(* taken and inserted under one lock (GenerateROEDraft).                   *)
THEOREM DistinctNumbers == Spec => []NumbersDistinct
<1>1. RowsInv => NumbersDistinct
    BY DEF RowsInv
<1>2. QED
    BY <1>1, RowsInvAlways, PTL

(* A generation or an issue works on a record of the employee it read.     *)
THEOREM OwnRoe == Spec => []WorksOnOwnRoe
<1>1. RowsInv => WorksOnOwnRoe
    BY DEF RowsInv
<1>2. QED
    BY <1>1, RowsInvAlways, PTL

-----------------------------------------------------------------------------
(* What holds of an employee on whom no two requests overlapped: one       *)
(* record at most, and the request under way, if any, knows of it.         *)
Undisturbed(e) ==
    /\ \A q, r \in Requests : req[q].emp = e /\ req[r].emp = e => q = r
    /\ \A x, y \in RoesOf(e) : x = y
    /\ \A x \in RoesOf(e) : x.issued => Valid(x)
    /\ \A r \in Requests : req[r].emp = e =>
        /\ req[r].pc \in {"periods", "hash", "write"} =>
            /\ req[r].id = 0 => RoesOf(e) = {}
            /\ \A x \in RoesOf(e) : ~x.issued
        /\ req[r].pc = "insert" => RoesOf(e) = {}
        /\ req[r].pc = "issue" => \A x \in RoesOf(e) : Valid(x)

UndisturbedInv == \A e \in Employees \ overlapped : Undisturbed(e)

(* Nothing of the employee's changes, but that its request may end.        *)
LEMMA Elsewhere ==
    ASSUME NEW e \in Employees, Undisturbed(e), RoesOf(e)' = RoesOf(e),
           \A r \in Requests : req'[r].emp = e => req'[r] = req[r]
    PROVE  Undisturbed(e)'
BY DEF Undisturbed, Valid

(* The row a request under way remembers, when nobody is at the rows.      *)
LEMMA OwnRow ==
    ASSUME RowsInv, ~Locked, NEW r \in Requests, NEW x \in roes,
           x.id = req[r].id
    PROVE  x.emp = req[r].emp
<1>1. req[r].id # 0 /\ req[r].pc # "insert"
    BY DEF RowsInv, Roe, Locked
<1>2. PICK z \in roes : z.id = req[r].id /\ z.emp = req[r].emp
    BY <1>1 DEF RowsInv, WorksOnOwnRoe, Locked
<1>3. QED
    BY <1>2 DEF RowsInv, NumbersDistinct

LEMMA BeginUndisturbed ==
    ASSUME RowsInv, NEW r \in Requests, NEW d \in Employees, NEW id,
           NEW pc \in {"final", "revalidate"}, Begin(r, d, pc, id),
           NEW e \in Employees \ overlapped', Undisturbed(e)
    PROVE  Undisturbed(e)'
<1> DEFINE w == [Idle EXCEPT !.pc = pc, !.emp = d, !.id = id]
<1>1. w.emp = d /\ w.pc = pc
    BY DEF Idle
<1>2. req' = [req EXCEPT ![r] = w] /\ roes' = roes
    BY DEF Begin
<1> HIDE DEF w
<1>3. /\ req'[r] = w /\ \A q \in Requests \ {r} : req'[q] = req[q]
      /\ RoesOf(e)' = RoesOf(e)
    BY <1>2 DEF RowsInv, RoesOf
<1>4. CASE d = e
    <2>1. \A q \in Requests : req[q].emp # e
        BY <1>4 DEF Begin, InFlight
    <2>2. \A q \in Requests : req'[q].emp = e => q = r
        BY <1>3, <2>1
    <2>3. QED
        BY <1>1, <1>3, <2>2 DEF Undisturbed, Valid
<1>5. CASE d # e
    BY <1>1, <1>3, <1>5, Elsewhere
<1>6. QED
    BY <1>4, <1>5

LEMMA AdvanceUndisturbed ==
    ASSUME RowsInv, NEW r \in Requests, NEW w, Advance(r, w),
           w = Idle \/ w.emp = req[r].emp,
           NEW e \in Employees, Undisturbed(e),
           w.emp = e =>
            /\ w.pc \in {"periods", "hash", "write"} =>
                /\ w.id = 0 => RoesOf(e) = {}
                /\ \A x \in RoesOf(e) : ~x.issued
            /\ w.pc # "insert"
            /\ w.pc = "issue" => \A x \in RoesOf(e) : Valid(x)
    PROVE  Undisturbed(e)'
<1>1. /\ req'[r] = w /\ \A q \in Requests \ {r} : req'[q] = req[q]
      /\ RoesOf(e)' = RoesOf(e)
    BY DEF Advance, RowsInv, RoesOf
<1>2. Idle.emp # e
    BY RoeAssumption DEF Idle
<1>3. CASE w.emp = e
    <2>1. req[r].emp = e
        BY <1>2, <1>3
    <2>2. \A q \in Requests : req'[q].emp = e => q = r
        BY <1>1, <2>1 DEF Undisturbed
    <2>3. QED
        BY <1>1, <1>3, <2>2 DEF Undisturbed, Valid
<1>4. CASE w.emp # e
    BY <1>1, <1>4, Elsewhere
<1>5. QED
    BY <1>3, <1>4

LEMMA DeleteUndisturbed ==
    ASSUME RowsInv, NEW r \in Requests, DeleteROE(r),
           NEW e \in Employees, Undisturbed(e)
    PROVE  Undisturbed(e)'
<1> DEFINE w == [req[r] EXCEPT !.pc = "insert"]
<1>1. w.pc = "insert" /\ w.emp = req[r].emp
    BY DEF RowsInv, Request
<1>2. /\ ~Locked /\ req[r].pc = "write" /\ req[r].id # 0
      /\ req' = [req EXCEPT ![r] = w]
      /\ roes' = {x \in roes : x.id # req[r].id}
    BY DEF DeleteROE, RowsInv
<1> HIDE DEF w
<1>3. req'[r] = w /\ \A q \in Requests \ {r} : req'[q] = req[q]
    BY <1>2 DEF RowsInv
<1>4. CASE req[r].emp = e
    <2>1. PICK own \in roes : own.id = req[r].id /\ own.emp = e
        BY <1>2, <1>4 DEF RowsInv, WorksOnOwnRoe, Locked
    <2>2. RoesOf(e)' = {}
        BY <1>2, <2>1 DEF Undisturbed, RoesOf
    <2>3. \A q \in Requests : req'[q].emp = e => q = r
        BY <1>3, <1>4 DEF Undisturbed
    <2>4. QED
        BY <1>1, <1>3, <2>2, <2>3 DEF Undisturbed
<1>5. CASE req[r].emp # e
    <2>1. RoesOf(e)' = RoesOf(e)
        BY <1>2, <1>5, OwnRow DEF RoesOf
    <2>2. QED
        BY <1>1, <1>3, <1>5, <2>1, Elsewhere
<1>6. QED
    BY <1>4, <1>5

LEMMA InsertUndisturbed ==
    ASSUME RowsInv, NEW r \in Requests, NEW id, InsertROE(r, id),
           \/ req[r].pc = "insert"
           \/ req[r].pc = "write" /\ req[r].id = 0,
           NEW e \in Employees, Undisturbed(e)
    PROVE  Undisturbed(e)'
<1>1. PICK n \in 1 .. MaxSerial :
        /\ roes' = roes \cup {DraftRow(r, id, n)}
        /\ req' = [req EXCEPT ![r] = Idle]
    BY DEF InsertROE
<1> DEFINE y == DraftRow(r, id, n)
<1>2. y.emp = req[r].emp /\ y.issued = FALSE
    BY DEF DraftRow
<1>3. req'[r] = Idle /\ \A q \in Requests \ {r} : req'[q] = req[q]
    BY <1>1 DEF RowsInv
<1>4. Idle.emp # e
    BY RoeAssumption DEF Idle
<1>5. roes' = roes \cup {y}
    BY <1>1
<1> HIDE DEF y
<1>6. CASE req[r].emp = e
    <2>1. RoesOf(e) = {}
        BY <1>6 DEF Undisturbed
    <2>2. RoesOf(e)' = {y}
        BY <1>2, <1>5, <1>6, <2>1 DEF RoesOf
    <2>3. \A q \in Requests : req'[q].emp # e
        BY <1>3, <1>4, <1>6 DEF Undisturbed
    <2>4. QED
        BY <1>2, <2>2, <2>3 DEF Undisturbed
<1>7. CASE req[r].emp # e
    <2>1. RoesOf(e)' = RoesOf(e)
        BY <1>2, <1>5, <1>7 DEF RoesOf
    <2>2. QED
        BY <1>3, <1>4, <2>1, Elsewhere
<1>8. QED
    BY <1>6, <1>7

LEMMA GenerateUndisturbed ==
    ASSUME RowsInv, NEW r \in Requests, Generate(r),
           NEW e \in Employees \ overlapped', Undisturbed(e)
    PROVE  Undisturbed(e)'
<1>1. req[r] \in Request
    BY DEF RowsInv
<1>2. Idle.pc = "idle" /\ Idle.emp # e
    BY RoeAssumption DEF Idle
<1>3. CASE \E d \in Employees : RoeGenerate(r, d)
    BY <1>3, BeginUndisturbed DEF RoeGenerate
<1>4. CASE RoeRegenerate(r)
    <2>1. PICK x \in roes : Begin(r, x.emp, "final", 0)
        BY <1>4 DEF RoeRegenerate
    <2>2. x.emp \in Employees
        BY DEF RowsInv, Roe
    <2>3. QED
        BY <2>1, <2>2, BeginUndisturbed
<1>5. CASE ReadFinalPeriod(r)
    <2>1. PICK p \in Worked(req[r].emp) :
            Advance(r, [req[r] EXCEPT !.pc = "existing", !.final = p])
        BY <1>5 DEF ReadFinalPeriod
    <2> DEFINE w == [req[r] EXCEPT !.pc = "existing", !.final = p]
    <2>2. w.pc = "existing" /\ w.emp = req[r].emp
        BY <1>1 DEF Request
    <2>3. Advance(r, w)
        BY <2>1
    <2> HIDE DEF w
    <2>4. QED
        BY <2>2, <2>3, AdvanceUndisturbed
<1>6. CASE NoFinalPeriod(r)
    BY <1>2, <1>6, AdvanceUndisturbed DEF NoFinalPeriod
<1>7. CASE ReadExisting(r)
    <2>1. PICK x \in Latest(req[r].emp) :
            ~x.issued /\ Advance(r, [req[r] EXCEPT !.pc = "periods",
                                                   !.id = x.id])
        BY <1>7 DEF ReadExisting
    <2>2. x \in RoesOf(req[r].emp) /\ x.id # 0
        BY DEF Latest, RoesOf, RowsInv, Roe
    <2> DEFINE w == [req[r] EXCEPT !.pc = "periods", !.id = x.id]
    <2>3. w.pc = "periods" /\ w.emp = req[r].emp /\ w.id = x.id
        BY <1>1 DEF Request
    <2>4. Advance(r, w)
        BY <2>1
    <2> HIDE DEF w
    <2>5. w.emp = e => \A y \in RoesOf(e) : ~y.issued
        BY <2>1, <2>2, <2>3 DEF Undisturbed
    <2>6. QED
        BY <2>2, <2>3, <2>4, <2>5, AdvanceUndisturbed
<1>8. CASE NoExisting(r)
    <2> DEFINE w == [req[r] EXCEPT !.pc = "periods"]
    <2>1. w.pc = "periods" /\ w.emp = req[r].emp
        BY <1>1 DEF Request
    <2>2. Latest(req[r].emp) = {} /\ Advance(r, w)
        BY <1>8 DEF NoExisting
    <2> HIDE DEF w
    <2>3. w.emp = e => RoesOf(e) = {}
        <3> SUFFICES ASSUME req[r].emp = e, NEW x \in RoesOf(e) PROVE FALSE
            BY <2>1
        <3>1. \A y \in RoesOf(e) : y.created <= x.created
            BY DEF Undisturbed, RoesOf, RowsInv, Roe
        <3>2. QED
            BY <2>2, <3>1 DEF Latest
    <2>4. QED
        BY <2>1, <2>2, <2>3, AdvanceUndisturbed
<1>9. CASE ExistingIssued(r)
    BY <1>2, <1>9, AdvanceUndisturbed DEF ExistingIssued
<1>10. CASE BuildROEPeriods(r)
    <2> DEFINE ps == Newest({p \in PaidIn(req[r].emp) : p <= req[r].final},
                            Lookback)
               w == [req[r] EXCEPT !.pc = "hash", !.final = 0, !.block = ps]
    <2>1. req[r].pc = "periods" /\ Advance(r, w)
        BY <1>10 DEF BuildROEPeriods
    <2> HIDE DEF ps
    <2>2. w.pc = "hash" /\ w.emp = req[r].emp /\ w.id = req[r].id
        BY <1>1 DEF Request
    <2> HIDE DEF w
    <2>3. req[r].emp = e => /\ req[r].id = 0 => RoesOf(e) = {}
                            /\ \A x \in RoesOf(e) : ~x.issued
        BY <2>1 DEF Undisturbed
    <2>4. QED
        BY <2>1, <2>2, <2>3, AdvanceUndisturbed
<1>11. CASE ComputeROESourceHash(r)
    <2> DEFINE w == [req[r] EXCEPT !.pc = "write", !.now = clock]
    <2>1. req[r].pc = "hash" /\ Advance(r, w)
        BY <1>11 DEF ComputeROESourceHash
    <2>2. w.pc = "write" /\ w.emp = req[r].emp /\ w.id = req[r].id
        BY <1>1 DEF Request
    <2> HIDE DEF w
    <2>3. req[r].emp = e => /\ req[r].id = 0 => RoesOf(e) = {}
                            /\ \A x \in RoesOf(e) : ~x.issued
        BY <2>1 DEF Undisturbed
    <2>4. QED
        BY <2>1, <2>2, <2>3, AdvanceUndisturbed
<1>12. CASE DeleteROE(r)
    BY <1>12, DeleteUndisturbed
<1>13. CASE InsertFirst(r)
    BY <1>13, InsertUndisturbed DEF InsertFirst
<1>14. CASE InsertAgain(r)
    BY <1>14, InsertUndisturbed DEF InsertAgain
<1>15. QED
    BY <1>3, <1>4, <1>5, <1>6, <1>7, <1>8, <1>9, <1>10, <1>11, <1>12, <1>13,
       <1>14 DEF Generate

LEMMA IssueUndisturbed ==
    ASSUME RowsInv, NEW r \in Requests, Issue(r),
           NEW e \in Employees \ overlapped', Undisturbed(e)
    PROVE  Undisturbed(e)'
<1>1. req[r] \in Request
    BY DEF RowsInv
<1>2. Idle.pc = "idle" /\ Idle.emp # e
    BY RoeAssumption DEF Idle
<1>3. CASE RoeIssue(r)
    <2>1. PICK x \in roes : Begin(r, x.emp, "revalidate", x.id)
        BY <1>3 DEF RoeIssue
    <2>2. x.emp \in Employees
        BY DEF RowsInv, Roe
    <2>3. QED
        BY <2>1, <2>2, BeginUndisturbed
<1>4. CASE IssueValidate(r)
    <2> DEFINE w == [req[r] EXCEPT !.pc = "issue"]
    <2>1. PICK x \in roes : x.id = req[r].id /\ Valid(x)
        BY <1>4 DEF IssueValidate
    <2>2. w.pc = "issue" /\ w.emp = req[r].emp
        BY <1>1 DEF Request
    <2>3. ~Locked /\ Advance(r, w)
        BY <1>4 DEF IssueValidate
    <2> HIDE DEF w
    <2>4. req[r].emp = e => \A y \in RoesOf(e) : y = x
        BY <2>1, <2>3, OwnRow DEF Undisturbed, RoesOf
    <2>5. QED
        BY <2>1, <2>2, <2>3, <2>4, AdvanceUndisturbed
<1>5. CASE IssueInvalid(r)
    BY <1>2, <1>5, AdvanceUndisturbed DEF IssueInvalid
<1>6. CASE IssueROE(r)
    <2>1. PICK x \in roes :
            /\ x.id = req[r].id
            /\ roes' = (roes \ {x}) \cup {[x EXCEPT !.issued = TRUE]}
        BY <1>6 DEF IssueROE
    <2> DEFINE y == [x EXCEPT !.issued = TRUE]
    <2>2. /\ y.emp = x.emp /\ y.filled = x.filled /\ y.block = x.block
        BY DEF RowsInv, Roe
    <2>3. /\ ~Locked /\ req[r].pc = "issue"
          /\ req' = [req EXCEPT ![r] = Idle]
        BY <1>6 DEF IssueROE
    <2>4. roes' = (roes \ {x}) \cup {y}
        BY <2>1
    <2> HIDE DEF y
    <2>5. /\ req'[r] = Idle
          /\ \A q \in Requests \ {r} : req'[q] = req[q]
        BY <2>3 DEF RowsInv
    <2>6. x.emp = req[r].emp
        BY <2>1, <2>3, OwnRow
    <2>7. CASE req[r].emp = e
        <3>1. RoesOf(e) = {x} /\ Valid(x)
            BY <2>3, <2>6, <2>7 DEF Undisturbed, RoesOf
        <3>2. RoesOf(e)' = {y}
            BY <2>2, <2>4, <2>6, <2>7, <3>1 DEF RoesOf
        <3>3. Valid(y)
            BY <2>2, <3>1 DEF Valid
        <3>4. \A q \in Requests : req'[q].emp # e
            BY <1>2, <2>5, <2>7 DEF Undisturbed
        <3>5. QED
            BY <3>2, <3>3, <3>4 DEF Undisturbed, Valid
    <2>8. CASE req[r].emp # e
        <3>1. RoesOf(e)' = RoesOf(e)
            BY <2>2, <2>4, <2>6, <2>8 DEF RoesOf
        <3>2. QED
            BY <1>2, <2>5, <3>1, Elsewhere
    <2>9. QED
        BY <2>7, <2>8
<1>7. CASE AlreadyIssued(r)
    BY <1>2, <1>7, AdvanceUndisturbed DEF AlreadyIssued
<1>8. QED
    BY <1>3, <1>4, <1>5, <1>6, <1>7 DEF Issue

LEMMA SaveUndisturbed ==
    ASSUME RowsInv, NEW x \in roes, NEW filled \in BOOLEAN,
           UpdateROEFields(x, filled),
           NEW e \in Employees \ overlapped', Undisturbed(e)
    PROVE  Undisturbed(e)'
<1> DEFINE y == [x EXCEPT !.filled = filled]
<1>1. y.emp = x.emp /\ y.issued = x.issued
    BY DEF RowsInv, Roe
<1>2. /\ ~x.issued /\ req' = req /\ roes' = (roes \ {x}) \cup {y}
      /\ x.emp = e => ~InFlight(e)
    BY DEF UpdateROEFields, SaveFields
<1> HIDE DEF y
<1>3. CASE x.emp = e
    <2>1. RoesOf(e) = {x}
        BY <1>3 DEF Undisturbed, RoesOf
    <2>2. RoesOf(e)' = {y}
        BY <1>1, <1>2, <1>3, <2>1 DEF RoesOf
    <2>3. \A q \in Requests : req'[q].emp # e
        BY <1>2, <1>3 DEF InFlight
    <2>4. QED
        BY <1>1, <1>2, <2>2, <2>3 DEF Undisturbed
<1>4. CASE x.emp # e
    <2>1. RoesOf(e)' = RoesOf(e)
        BY <1>1, <1>2, <1>4 DEF RoesOf
    <2>2. QED
        BY <1>2, <2>1, Elsewhere
<1>5. QED
    BY <1>3, <1>4

LEMMA UndisturbedInvInit == Init => UndisturbedInv
<1> SUFFICES ASSUME Init, NEW e \in Employees PROVE Undisturbed(e)
    BY DEF UndisturbedInv
<1>1. Idle.emp # e
    BY RoeAssumption DEF Idle
<1>2. \A r \in Requests : req[r].emp # e
    BY <1>1 DEF Init
<1>3. QED
    BY <1>2 DEF Init, Undisturbed, RoesOf

LEMMA OverlapsGrow ==
    ASSUME RowsInv, [Next]_vars PROVE overlapped \subseteq overlapped'
BY DEF Next, vars, Payroll, FinalizePeriod, DeletePayrollPeriod, Tick,
       Generate, Issue, RoeGenerate, RoeRegenerate, Begin, ReadFinalPeriod,
       NoFinalPeriod, ReadExisting, NoExisting, ExistingIssued,
       BuildROEPeriods, ComputeROESourceHash, Advance, DeleteROE, InsertFirst,
       InsertAgain, InsertROE, RoeIssue, IssueValidate, IssueInvalid, IssueROE,
       AlreadyIssued, UpdateROEFields, SaveFields, Crash

LEMMA UndisturbedInvNext ==
    RowsInv /\ UndisturbedInv /\ [Next]_vars => UndisturbedInv'
<1> SUFFICES ASSUME RowsInv, UndisturbedInv, [Next]_vars,
                    NEW e \in Employees \ overlapped'
             PROVE  Undisturbed(e)'
    BY DEF UndisturbedInv
<1>1. Undisturbed(e)
    BY OverlapsGrow DEF UndisturbedInv
<1>2. CASE UNCHANGED <<roes, req>>
    BY <1>1, <1>2, Elsewhere DEF RoesOf
<1>3. ASSUME NEW r \in Requests, Generate(r) PROVE Undisturbed(e)'
    BY <1>1, <1>3, GenerateUndisturbed
<1>4. ASSUME NEW r \in Requests, Issue(r) PROVE Undisturbed(e)'
    BY <1>1, <1>4, IssueUndisturbed
<1>5. ASSUME NEW x \in roes, NEW filled \in BOOLEAN,
             UpdateROEFields(x, filled)
      PROVE  Undisturbed(e)'
    BY <1>1, <1>5, SaveUndisturbed
<1>6. CASE Crash
    <2>1. \A r \in Requests : req'[r] = Idle
        BY <1>6 DEF Crash
    <2>2. Idle.emp # e /\ RoesOf(e)' = RoesOf(e)
        BY <1>6, RoeAssumption DEF Idle, Crash, RoesOf
    <2>3. QED
        BY <1>1, <2>1, <2>2, Elsewhere
<1>7. CASE Payroll \/ Tick
    BY <1>2, <1>7 DEF Payroll, FinalizePeriod, DeletePayrollPeriod, Tick
<1>8. CASE UNCHANGED vars
    BY <1>2, <1>8 DEF vars
<1>9. QED
    BY <1>3, <1>4, <1>5, <1>6, <1>7, <1>8 DEF Next

LEMMA BothAlways == Spec => [](RowsInv /\ UndisturbedInv)
<1>1. Init => RowsInv /\ UndisturbedInv
    BY RowsInvInit, UndisturbedInvInit
<1>2. RowsInv /\ UndisturbedInv /\ [Next]_vars => (RowsInv /\ UndisturbedInv)'
    BY RowsInvNext, UndisturbedInvNext
<1>3. QED
    BY <1>1, <1>2, PTL DEF Spec

-----------------------------------------------------------------------------
(* Where no two requests on an employee overlapped, the employee has one   *)
(* record at most, wherever the process died.                              *)
THEOREM OneRoe == Spec => []OneRoePerEmployee
<1>1. RowsInv /\ UndisturbedInv => OneRoePerEmployee
    BY DEF RowsInv, Roe, UndisturbedInv, Undisturbed, OneRoePerEmployee, RoesOf
<1>2. QED
    BY <1>1, BothAlways, PTL

(* There, what IssueROE issued is what its validation saw.                 *)
THEOREM ValidWhenIssued == Spec => []IssuedIsValid
<1>1. RowsInv /\ UndisturbedInv => IssuedIsValid
    BY DEF RowsInv, Roe, UndisturbedInv, Undisturbed, IssuedIsValid, RoesOf,
           Valid
<1>2. QED
    BY <1>1, BothAlways, PTL

(* An issued record is written by no other step than the issue itself, and *)
(* deleted by none: the row a generation deletes is its employee's draft.  *)
LEMMA IssuedRowStays ==
    ASSUME RowsInv, UndisturbedInv, [Next]_vars,
           NEW x \in roes, x.issued, x.emp \notin overlapped'
    PROVE  x \in roes'
<1>1. x.emp \in Employees
    BY DEF RowsInv, Roe
<1>2. Undisturbed(x.emp)
    BY <1>1, OverlapsGrow DEF UndisturbedInv
<1>3. ASSUME NEW r \in Requests, DeleteROE(r) PROVE x \in roes'
    <2>1. ~Locked /\ req[r].pc = "write"
          /\ roes' = {y \in roes : y.id # req[r].id}
        BY <1>3 DEF DeleteROE
    <2>2. x.id = req[r].id => req[r].emp = x.emp
        BY <2>1, OwnRow
    <2>3. x.id # req[r].id
        BY <1>2, <2>1, <2>2 DEF Undisturbed, RoesOf
    <2>4. QED
        BY <2>1, <2>3
<1>4. ASSUME NEW r \in Requests, IssueROE(r) PROVE x \in roes'
    <2>1. PICK y \in roes :
            ~y.issued /\ roes' = (roes \ {y}) \cup {[y EXCEPT !.issued = TRUE]}
        BY <1>4 DEF IssueROE
    <2>2. QED
        BY <2>1
<1>5. ASSUME NEW y \in roes, NEW filled \in BOOLEAN, UpdateROEFields(y, filled)
      PROVE  x \in roes'
    BY <1>5 DEF UpdateROEFields, SaveFields
<1>6. ASSUME NEW r \in Requests, InsertFirst(r) \/ InsertAgain(r)
      PROVE  x \in roes'
    BY <1>6 DEF InsertFirst, InsertAgain, InsertROE
<1>7. CASE roes' = roes
    BY <1>7
<1>8. QED
    BY <1>3, <1>4, <1>5, <1>6, <1>7
    DEF Next, vars, Payroll, FinalizePeriod, DeletePayrollPeriod, Tick,
        Generate, Issue, RoeGenerate, RoeRegenerate, Begin, ReadFinalPeriod,
        NoFinalPeriod, ReadExisting, NoExisting, ExistingIssued,
        BuildROEPeriods, ComputeROESourceHash, Advance, RoeIssue,
        IssueValidate, IssueInvalid, AlreadyIssued, Crash

(* Where no two requests on an employee overlapped, an issued record is    *)
(* never changed, deleted or regenerated, wherever the process died.       *)
THEOREM IssuedForGood == Spec => IssuedStaysUnlessOverlapped
<1>1. RowsInv /\ UndisturbedInv /\ [Next]_vars =>
        [\A x \in roes :
            x.issued /\ x.emp \notin overlapped' => x \in roes']_vars
    BY IssuedRowStays
<1>2. QED
    BY <1>1, BothAlways, PTL DEF Spec, IssuedStaysUnlessOverlapped

-----------------------------------------------------------------------------
(* The rows, the requests and what they remember are of their types.       *)
THEOREM TypeCorrect == Spec => []TypeOK
<1> DEFINE Others == /\ paid \in [PeriodIds -> SUBSET Employees]
                     /\ overlapped \subseteq Employees
<1>1. Init => Others
    BY DEF Init
<1>2. RowsInv /\ Others /\ [Next]_vars => Others'
    <2> SUFFICES ASSUME RowsInv, Others, [Next]_vars PROVE Others'
        OBVIOUS
    <2>1. \A x \in roes : x.emp \in Employees
        BY DEF RowsInv, Roe
    <2>2. CASE Payroll
        BY <2>2 DEF Payroll, FinalizePeriod, DeletePayrollPeriod
    <2>3. ASSUME NEW r \in Requests, Generate(r) PROVE Others'
        BY <2>1, <2>3
        DEF Generate, RoeGenerate, RoeRegenerate, Begin, ReadFinalPeriod,
            NoFinalPeriod, ReadExisting, NoExisting, ExistingIssued,
            BuildROEPeriods, ComputeROESourceHash, Advance, DeleteROE,
            InsertFirst, InsertAgain, InsertROE
    <2>4. ASSUME NEW r \in Requests, Issue(r) PROVE Others'
        BY <2>1, <2>4 DEF Issue, RoeIssue, Begin, IssueValidate, IssueInvalid,
                          IssueROE, AlreadyIssued, Advance
    <2>5. CASE \E x \in roes, filled \in BOOLEAN : UpdateROEFields(x, filled)
        BY <2>1, <2>5 DEF UpdateROEFields, SaveFields
    <2>6. CASE Tick \/ Crash \/ UNCHANGED vars
        BY <2>6 DEF Tick, Crash, vars
    <2>7. QED
        BY <2>2, <2>3, <2>4, <2>5, <2>6 DEF Next
<1>3. RowsInv /\ Others => TypeOK
    BY DEF RowsInv, TypeOK
<1>4. QED
    BY <1>1, <1>2, <1>3, RowsInvAlways, PTL DEF Spec
=============================================================================
