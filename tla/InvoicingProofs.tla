-------------------------- MODULE InvoicingProofs --------------------------
(***************************************************************************)
(* Theorems about Invoicing, for any number of requests, tasks, invoices   *)
(* and payments, overlapping as they may, and any crashes.                 *)
(***************************************************************************)
EXTENDS Invoicing, TLAPS

(* What a step does to the request that takes it.                          *)
LEMMA Moved ==
    ASSUME req \in [Requests -> Request], NEW r \in Requests,
           NEW x \in Request, req' = [req EXCEPT ![r] = x]
    PROVE  /\ req' \in [Requests -> Request]
           /\ req'[r] = x
           /\ \A q \in Requests \ {r} : req'[q] = req[q]
OBVIOUS

LEMMA IdleIsRequest == Idle \in Request /\ Idle.pc = "idle" /\ Idle.inv = 0
BY DEF Idle, Request, PCs, Statuses

(* A request that goes on to its next linked task.                         *)
GoesOn(r, t, pc) ==
    LET x == req[r]
        y == req'[r]
    IN  /\ y.left = x.left \ {t}
        /\ y.pc = IF x.left = {t} THEN pc ELSE x.pc
        /\ y.inv = x.inv /\ y.total = x.total /\ y.flag = x.flag

LEMMA LinkedMoves ==
    ASSUME req \in [Requests -> Request], NEW r \in Requests,
           NEW t \in req[r].left, NEW pc \in PCs, Linked(r, t, pc)
    PROVE  /\ req' \in [Requests -> Request]
           /\ \A q \in Requests \ {r} : req'[q] = req[q]
           /\ \/ pc = "idle" /\ req'[r] = Idle
              \/ GoesOn(r, t, pc)
<1> DEFINE y == [req[r] EXCEPT !.left = @ \ {t},
                   !.pc = IF req[r].left = {t} THEN pc ELSE @]
<1>1. CASE req[r].left = {t} /\ pc = "idle"
    <2>1. req' = [req EXCEPT ![r] = Idle]
        BY <1>1 DEF Linked, Return, Go
    <2>2. QED
        BY <1>1, <2>1, IdleIsRequest
<1>2. CASE ~(req[r].left = {t} /\ pc = "idle")
    <2>1. req' = [req EXCEPT ![r] = y]
        BY <1>2 DEF Linked, Go
    <2>2. req[r] \in Request
        OBVIOUS
    <2>3. /\ y \in Request
          /\ y.left = req[r].left \ {t}
          /\ y.pc = IF req[r].left = {t} THEN pc ELSE req[r].pc
          /\ y.inv = req[r].inv
          /\ y.total = req[r].total /\ y.flag = req[r].flag
        BY <2>2 DEF Request
    <2>4. /\ req' \in [Requests -> Request] /\ req'[r] = y
          /\ \A q \in Requests \ {r} : req'[q] = req[q]
        BY <2>1, <2>3, Moved
    <2>5. QED
        BY <2>3, <2>4 DEF GoesOn
<1>3. QED
    BY <1>1, <1>2

-----------------------------------------------------------------------------
(* Types.                                                                  *)
TablesOK ==
    /\ tasks \in [TaskIds -> Statuses \cup {"none"}]
    /\ taskSeq \in 0 .. MaxTask
    /\ invoices \in [InvoiceIds -> Invoice]
    /\ lastInvoice \in 0 .. MaxInvoice
    /\ expenses \in [ExpenseIds -> 0 .. MaxTask]
    /\ overwritten \subseteq TaskIds
    /\ disturbed \subseteq InvoiceIds
    /\ lost \subseteq InvoiceIds

LEMMA TypeParts == TypeOK <=> TablesOK /\ req \in [Requests -> Request]
BY DEF TypeOK, TablesOK

LEMMA StatusSet ==
    ASSUME TablesOK, NEW t, NEW s \in Statuses, NEW from, SetStatus(t, s, from)
    PROVE  /\ tasks' \in [TaskIds -> Statuses \cup {"none"}]
           /\ \A u \in TaskIds \ {t} : tasks'[u] = tasks[u]
           /\ t \in TaskIds => tasks'[t] = IF tasks[t] \in from THEN s ELSE tasks[t]
BY DEF TablesOK, SetStatus

-----------------------------------------------------------------------------
(* What each action does to its request.  Only r moves:                    *)
OnlyMoves(r) ==
    /\ req' \in [Requests -> Request]
    /\ \A q \in Requests \ {r} : req'[q] = req[q]

Returns(r) == OnlyMoves(r) /\ req'[r] = Idle
Keeps(r, pc) ==
    /\ OnlyMoves(r)
    /\ req'[r].pc = pc /\ req'[r].inv = req[r].inv
    /\ req'[r].left = req[r].left

LEMMA ReturnMoves ==
    ASSUME TypeOK, NEW r \in Requests, Return(r) PROVE Returns(r)
BY IdleIsRequest DEF TypeOK, Return, Go, Returns, OnlyMoves

LEMMA UpdateTaskMoves ==
    ASSUME TypeOK, NEW r \in Requests, NEW t \in TaskIds,
           NEW s \in {"Pending", "Done"}, NEW edit \in BOOLEAN,
           UpdateTask(r, t, s, edit)
    PROVE  /\ OnlyMoves(r) /\ req'[r].pc = "putWrite" /\ req'[r].task = t
           /\ req'[r].inv = 0
<1> DEFINE st == IF tasks[t] \in {"Done", "Sent"} THEN tasks[t] ELSE s
           x == [Idle EXCEPT !.pc = "putWrite", !.task = t, !.status = st]
<1>1. st \in Statuses
    BY DEF Statuses
<1>2. x \in Request /\ x.pc = "putWrite" /\ x.task = t /\ x.inv = 0
    BY <1>1, IdleIsRequest DEF Request, PCs, Idle
<1>3. req' = [req EXCEPT ![r] = x]
    BY DEF UpdateTask, Go
<1>4. QED
    BY <1>2, <1>3, Moved DEF OnlyMoves, TypeOK

LEMMA CheckDeleteMoves ==
    ASSUME TypeOK, NEW r \in Requests, NEW t \in TaskIds, CheckDelete(r, t)
    PROVE  /\ OnlyMoves(r) /\ req'[r].pc = "deleteTask" /\ req'[r].task = t
           /\ req'[r].inv = 0
<1> DEFINE x == [Idle EXCEPT !.pc = "deleteTask", !.task = t]
<1>1. x \in Request /\ x.pc = "deleteTask" /\ x.task = t /\ x.inv = 0
    BY IdleIsRequest DEF Request, PCs, Idle
<1>2. req' = [req EXCEPT ![r] = x]
    BY DEF CheckDelete, Go
<1>3. QED
    BY <1>1, <1>2, Moved DEF OnlyMoves, TypeOK

LEMMA SyncMoves ==
    ASSUME TypeOK, NEW r \in Requests, SyncPendingTasksForPriceID(r)
    PROVE  OnlyMoves(r) /\ req'[r].pc = "hung" /\ req'[r].inv = 0
<1> DEFINE x == [Idle EXCEPT !.pc = "hung"]
<1>1. x \in Request /\ x.pc = "hung" /\ x.inv = 0
    BY IdleIsRequest DEF Request, PCs, Idle
<1>2. req' = [req EXCEPT ![r] = x]
    BY DEF SyncPendingTasksForPriceID, Go
<1>3. QED
    BY <1>1, <1>2, Moved DEF OnlyMoves, TypeOK

LEMMA ValidateMoves ==
    ASSUME TypeOK, NEW r \in Requests, NEW ts \in SUBSET TaskIds,
           NEW total \in Totals, ValidateInvoice(r, ts, total)
    PROVE  /\ OnlyMoves(r) /\ req'[r].pc = "insertInvoice"
           /\ req'[r].left = ts /\ req'[r].inv = 0
<1> DEFINE x == [Idle EXCEPT !.pc = "insertInvoice", !.left = ts,
                             !.total = total]
<1>1. /\ x \in Request /\ x.pc = "insertInvoice" /\ x.left = ts
      /\ x.inv = 0
    BY IdleIsRequest, InvoicingAssumption DEF Request, PCs, Idle
<1>2. req' = [req EXCEPT ![r] = x]
    BY DEF ValidateInvoice, Go
<1>3. QED
    BY <1>1, <1>2, Moved DEF OnlyMoves, TypeOK

LEMMA CreateInvoiceMoves ==
    ASSUME TypeOK, NEW r \in Requests, CreateInvoice(r)
    PROVE  Keeps(r, "markInvoiced")
<1> DEFINE x == [req[r] EXCEPT !.pc = "markInvoiced"]
<1>1. /\ x \in Request /\ x.pc = "markInvoiced" /\ x.inv = req[r].inv
      /\ x.left = req[r].left
    BY DEF Request, PCs, TypeOK
<1>2. req' = [req EXCEPT ![r] = x]
    BY DEF CreateInvoice, Go
<1>3. QED
    BY <1>1, <1>2, Moved DEF OnlyMoves, TypeOK, Keeps

LEMMA DeleteInvoiceMoves ==
    ASSUME TypeOK, NEW r \in Requests, NEW i \in InvoiceIds,
           DeleteInvoice(r, i)
    PROVE  OnlyMoves(r) /\ req'[r].pc = "revert" /\ req'[r].inv = 0
<1> DEFINE x == [Idle EXCEPT !.pc = "revert", !.left = invoices[i].tasks]
<1>1. invoices[i].tasks \subseteq TaskIds
    BY DEF TypeOK, Invoice
<1>2. x \in Request /\ x.pc = "revert" /\ x.inv = 0
    BY <1>1, IdleIsRequest DEF Request, PCs, Idle
<1>3. req' = [req EXCEPT ![r] = x]
    BY DEF DeleteInvoice, Go
<1>4. QED
    BY <1>2, <1>3, Moved DEF OnlyMoves, TypeOK

LEMMA SendMoves ==
    ASSUME TypeOK, NEW r \in Requests, NEW i \in InvoiceIds,
           HandleInvoiceSend(r, i)
    PROVE  OnlyMoves(r) /\ req'[r].pc = "mail" /\ req'[r].inv = i
<1> DEFINE x == [Idle EXCEPT !.pc = "mail", !.inv = i]
<1>1. x \in Request /\ x.pc = "mail" /\ x.inv = i
    BY IdleIsRequest DEF Request, PCs, Idle
<1>2. req' = [req EXCEPT ![r] = x]
    BY DEF HandleInvoiceSend, Go
<1>3. QED
    BY <1>1, <1>2, Moved DEF OnlyMoves, TypeOK

LEMMA MarkSentMoves ==
    ASSUME TypeOK, NEW r \in Requests, MarkInvoiceSent(r)
    PROVE  Keeps(r, "sentRead")
<1> DEFINE x == [req[r] EXCEPT !.pc = "sentRead"]
<1>1. /\ x \in Request /\ x.pc = "sentRead" /\ x.inv = req[r].inv
      /\ x.left = req[r].left
    BY DEF Request, PCs, TypeOK
<1>2. req' = [req EXCEPT ![r] = x]
    BY DEF MarkInvoiceSent, Go
<1>3. QED
    BY <1>1, <1>2, Moved DEF OnlyMoves, TypeOK, Keeps

-----------------------------------------------------------------------------
(* Store.mu has one holder, and what a request remembers is what it found. *)
Selling == {"mail", "sentRead", "sentTasks", "payRead", "payTasks", "paySave"}
Mutex == \A q, r \in Requests :
            req[q].pc \in Holding /\ req[r].pc \in Holding => q = r
Fits(x) == /\ x.pc \in {"putWrite", "deleteTask"} => x.task \in TaskIds
           /\ x.pc = "insertInvoice" => lastInvoice < MaxInvoice
           /\ x.pc \in Selling => x.inv \in InvoiceIds
Base == TypeOK /\ Mutex /\ \A r \in Requests : Fits(req[r])

LEMMA ReadSentMoves ==
    ASSUME Base, NEW r \in Requests, ReadSent(r)
    PROVE  \/ Returns(r)
           \/ /\ OnlyMoves(r) /\ req'[r].pc = "sentTasks"
              /\ req'[r].inv = req[r].inv /\ InvoiceExists(req[r].inv)
<1>0. TypeOK /\ req[r].inv \in InvoiceIds
    BY DEF Base, Fits, Selling, ReadSent, At
<1>1. CASE InvoiceExists(req[r].inv)
    <2> DEFINE x == [req[r] EXCEPT !.pc = "sentTasks",
                                   !.left = invoices[req[r].inv].tasks]
    <2>1. invoices[req[r].inv].tasks \subseteq TaskIds
        BY <1>0 DEF TypeOK, Invoice
    <2>2. req[r] \in Request
        BY <1>0 DEF TypeOK
    <2>3. x \in Request /\ x.pc = "sentTasks" /\ x.inv = req[r].inv
        BY <2>1, <2>2 DEF Request, PCs
    <2>4. req' = [req EXCEPT ![r] = x]
        BY <1>1 DEF ReadSent, Go
    <2>5. QED
        BY <1>0, <1>1, <2>3, <2>4, Moved DEF OnlyMoves, TypeOK
<1>2. CASE ~InvoiceExists(req[r].inv)
    BY <1>0, <1>2, ReturnMoves DEF ReadSent
<1>3. QED
    BY <1>1, <1>2

LEMMA AddPaymentMoves ==
    ASSUME TypeOK, NEW r \in Requests, NEW i \in InvoiceIds, NEW a \in Amounts,
           AddInvoicePayment(r, i, a)
    PROVE  OnlyMoves(r) /\ req'[r].pc = "payRead" /\ req'[r].inv = i
<1> DEFINE x == [Idle EXCEPT !.pc = "payRead", !.inv = i]
<1>1. x \in Request /\ x.pc = "payRead" /\ x.inv = i
    BY IdleIsRequest DEF Request, PCs, Idle
<1>2. req' = [req EXCEPT ![r] = x]
    BY DEF AddInvoicePayment, Go
<1>3. QED
    BY <1>1, <1>2, Moved DEF OnlyMoves, TypeOK

LEMMA BalanceType ==
    ASSUME NEW x \in Invoice PROVE BalanceDue(x) \in Nat /\ FullyPaid(x) \in BOOLEAN
BY DEF Invoice, BalanceDue, FullyPaid

(* What a payment carries after it has read the invoice.                   *)
HasRead(r) ==
    LET x == invoices[req[r].inv]
        y == req'[r]
    IN  /\ y.pc = "payTasks" /\ y.inv = req[r].inv
        /\ y.left = x.tasks /\ y.total = BalanceDue(x)
        /\ y.flag = FullyPaid(x)

LEMMA ReadPaidMoves ==
    ASSUME Base, NEW r \in Requests, ReadPaid(r)
    PROVE  \/ Returns(r) /\ ~InvoiceExists(req[r].inv)
           \/ OnlyMoves(r) /\ HasRead(r) /\ InvoiceExists(req[r].inv)
<1> DEFINE i == req[r].inv
<1>0. TypeOK /\ i \in InvoiceIds
    BY DEF Base, Fits, Selling, ReadPaid, At
<1>1. CASE InvoiceExists(i)
    <2> DEFINE x == [req[r] EXCEPT !.pc = "payTasks", !.left = invoices[i].tasks,
                        !.flag = FullyPaid(invoices[i]),
                        !.total = BalanceDue(invoices[i])]
    <2>1. invoices[i] \in Invoice /\ invoices[i].tasks \subseteq TaskIds
        BY <1>0 DEF TypeOK, Invoice
    <2>2. req[r] \in Request
        BY <1>0 DEF TypeOK
    <2>3. /\ x \in Request /\ x.pc = "payTasks" /\ x.inv = i
          /\ x.left = invoices[i].tasks /\ x.flag = FullyPaid(invoices[i])
          /\ x.total = BalanceDue(invoices[i])
        BY <2>1, <2>2, BalanceType DEF Request, PCs
    <2>4. req' = [req EXCEPT ![r] = x]
        BY <1>1 DEF ReadPaid, Go, InvoiceExists
    <2>5. OnlyMoves(r) /\ req'[r] = x
        BY <1>0, <2>3, <2>4, Moved DEF OnlyMoves, TypeOK
    <2>6. QED
        BY <1>1, <2>3, <2>5 DEF HasRead
<1>2. CASE ~InvoiceExists(i)
    BY <1>0, <1>2, ReturnMoves DEF ReadPaid, InvoiceExists
<1>3. QED
    BY <1>1, <1>2

(* The steps on linked tasks.                                              *)
LEMMA TaskMoves ==
    ASSUME TypeOK, NEW r \in Requests, NEW t \in req[r].left
    PROVE  /\ MarkInvoiced(r, t) => Returns(r) \/ (OnlyMoves(r) /\ GoesOn(r, t, "idle"))
           /\ RevertToDone(r, t) => Returns(r) \/ (OnlyMoves(r) /\ GoesOn(r, t, "idle"))
           /\ MarkTaskSent(r, t) => Returns(r) \/ (OnlyMoves(r) /\ GoesOn(r, t, "idle"))
           /\ MarkTaskPaid(r, t) => OnlyMoves(r) /\ GoesOn(r, t, "paySave")
<1>1. "idle" \in PCs /\ "paySave" \in PCs
    BY DEF PCs
<1>2. Linked(r, t, "idle") => Returns(r) \/ (OnlyMoves(r) /\ GoesOn(r, t, "idle"))
    BY <1>1, LinkedMoves DEF TypeOK, OnlyMoves, Returns
<1>3. Linked(r, t, "paySave") => OnlyMoves(r) /\ GoesOn(r, t, "paySave")
    BY <1>1, LinkedMoves DEF TypeOK, OnlyMoves
<1>4. QED
    BY <1>2, <1>3 DEF MarkInvoiced, RevertToDone, MarkTaskSent, MarkTaskPaid
-----------------------------------------------------------------------------
(* Base holds in every state.                                              *)
LEMMA BaseInit == Init => Base
<1>1. Init => TypeOK
    <2>1. NoInvoice \in Invoice
        BY DEF NoInvoice, Invoice
    <2>2. QED
        BY <2>1, IdleIsRequest, InvoicingAssumption DEF Init, TypeOK
<1>2. ASSUME Init PROVE Mutex /\ \A r \in Requests : Fits(req[r])
    <2>1. \A r \in Requests : req[r] = Idle
        BY <1>2 DEF Init
    <2>2. QED
        BY <2>1, IdleIsRequest DEF Mutex, Fits, Holding, Selling
<1>3. QED
    BY <1>1, <1>2 DEF Base

LEMMA BaseStep ==
    ASSUME Base, NEW r \in Requests, OnlyMoves(r), TablesOK',
           lastInvoice' = lastInvoice, Fits(req'[r]),
           req'[r].pc \in Holding => MuFree \/ req[r].pc \in Holding
    PROVE  Base'
<1>1. TypeOK'
    BY DEF TablesOK, TypeOK, OnlyMoves, history
<1>2. Mutex'
    <2> SUFFICES ASSUME NEW p \in Requests, NEW q \in Requests,
                        req'[p].pc \in Holding, req'[q].pc \in Holding
                 PROVE  p = q
        BY DEF Mutex
    <2>1. \A o \in Requests : o # r => req'[o].pc = req[o].pc
        BY DEF OnlyMoves
    <2>2. QED
        BY <2>1 DEF Base, Mutex, MuFree
<1>3. \A q \in Requests : Fits(req[q])'
    BY DEF Base, Fits, OnlyMoves
<1>4. QED
    BY <1>1, <1>2, <1>3 DEF Base

(* A request that returns, or that neither takes the lock nor changes what *)
(* it works on.                                                            *)
LEMMA BaseKept ==
    ASSUME Base, NEW r \in Requests, OnlyMoves(r), TablesOK',
           lastInvoice' = lastInvoice,
           \/ req'[r] = Idle
           \/ /\ req'[r].inv = req[r].inv
              /\ req'[r].pc \in {"markInvoiced", "revert"} => req[r].pc = req'[r].pc
              /\ req'[r].pc \in Selling => req[r].pc \in Selling
              /\ req'[r].pc \notin {"putWrite", "deleteTask",
                                    "insertInvoice", "hung"}
    PROVE  Base'
<1>1. CASE req'[r] = Idle
    <2>1. req'[r].pc = "idle"
        BY <1>1, IdleIsRequest
    <2>2. Fits(req'[r]) /\ req'[r].pc \notin Holding
        BY <2>1 DEF Fits, Selling, Holding
    <2>3. QED
        BY <2>2, BaseStep
<1>2. CASE req'[r] # Idle
    <2>1. Fits(req[r])
        BY DEF Base
    <2>2. Fits(req'[r])
        BY <1>2, <2>1 DEF Fits
    <2>3. req'[r].pc \in Holding => req[r].pc \in Holding
        BY <1>2 DEF Holding
    <2>4. QED
        BY <2>2, <2>3, BaseStep
<1>3. QED
    BY <1>1, <1>2


(* What a payment leaves of the row.                                       *)
LEMMA AddedParts ==
    ASSUME NEW x \in Invoice, NEW a \in Nat
    PROVE  /\ Added(x, a) \in Invoice
           /\ Added(x, a).paid = x.paid + a
           /\ Added(x, a).total = x.total /\ Added(x, a).balance = x.balance
           /\ Added(x, a).status = x.status /\ Added(x, a).tasks = x.tasks
<1>1. x.paid \in Nat
    BY DEF Invoice
<1>2. x.paid + a \in Nat
    BY <1>1
<1>3. QED
    BY <1>2 DEF Added, Invoice

LEMMA SavedParts ==
    ASSUME NEW x \in Invoice, NEW b \in Nat, NEW f \in BOOLEAN
    PROVE  /\ Saved(x, b, f) \in Invoice
           /\ Saved(x, b, f).paid = x.paid
           /\ Saved(x, b, f).total = x.total /\ Saved(x, b, f).balance = b
           /\ Saved(x, b, f).tasks = x.tasks
           /\ Saved(x, b, f).status = IF f THEN "Paid" ELSE "Sent"
BY DEF Saved, Invoice

(* The actions, one lemma for those of a kind.                             *)
LEMMA BaseSingle ==
    ASSUME Base,
           \/ \E s \in {"Pending", "Done"} : CreateTask(s)
           \/ \E e \in ExpenseIds, t \in TaskIds :
                 CreateExpense(e, t) \/ UpdateExpense(e, t)
    PROVE  Base'
<1>0. /\ tasks \in [TaskIds -> Statuses \cup {"none"}]
      /\ taskSeq \in 0 .. MaxTask
      /\ expenses \in [ExpenseIds -> 0 .. MaxTask]
      /\ MaxTask \in Nat
    BY InvoicingAssumption DEF Base, TypeOK
<1>1. UNCHANGED <<req, invoices, lastInvoice, history>>
    BY DEF CreateTask, CreateExpense, UpdateExpense, history
<1>2. ASSUME NEW s \in {"Pending", "Done"}, CreateTask(s)
      PROVE  /\ tasks' \in [TaskIds -> Statuses \cup {"none"}]
             /\ taskSeq' \in 0 .. MaxTask /\ expenses' = expenses
    <2>1. s \in Statuses
        BY DEF Statuses
    <2>2. tasks' \in [TaskIds -> Statuses \cup {"none"}]
        BY <1>0, <1>2, <2>1 DEF CreateTask
    <2>3. taskSeq' \in 0 .. MaxTask /\ expenses' = expenses
        BY <1>0, <1>2 DEF CreateTask
    <2>4. QED
        BY <2>2, <2>3
<1>3. ASSUME NEW e \in ExpenseIds, NEW t \in TaskIds,
             CreateExpense(e, t) \/ UpdateExpense(e, t)
      PROVE  /\ expenses' \in [ExpenseIds -> 0 .. MaxTask]
             /\ tasks' = tasks /\ taskSeq' = taskSeq
    <2>1. t \in 0 .. MaxTask
        BY <1>0 DEF TaskIds
    <2>2. QED
        BY <1>0, <1>3, <2>1 DEF CreateExpense, UpdateExpense
<1>4. TypeOK'
    BY <1>0, <1>1, <1>2, <1>3 DEF Base, TypeOK, history
<1>5. Mutex' /\ \A r \in Requests : Fits(req[r])'
    BY <1>1 DEF Base, Mutex, Fits
<1>6. QED
    BY <1>4, <1>5 DEF Base

LEMMA BaseBegin ==
    ASSUME Base, NEW r \in Requests,
           \/ HandleTaskByID(r) \/ HandlePrices(r) \/ HandleInvoices(r)
           \/ \E i \in InvoiceIds :
                 \/ DeleteInvoice(r, i) \/ HandleInvoiceSend(r, i)
                 \/ HandleInvoicePayment(r, i)
    PROVE  Base'
<1> USE DEF Base
<1>1. ASSUME NEW t \in TaskIds, CheckDelete(r, t) PROVE Base'
    <2>1. MuFree /\ TablesOK' /\ lastInvoice' = lastInvoice
        BY <1>1, TypeParts DEF CheckDelete, TablesOK, tables, history
    <2>2. Fits(req'[r]) /\ OnlyMoves(r)
        BY <1>1, CheckDeleteMoves DEF Fits, Selling
    <2>3. QED
        BY <2>1, <2>2, BaseStep
<1>2. ASSUME NEW t \in TaskIds, NEW s \in {"Pending", "Done"},
             NEW edit \in BOOLEAN, UpdateTask(r, t, s, edit)
      PROVE  Base'
    <2>1. MuFree /\ TablesOK' /\ lastInvoice' = lastInvoice
        BY <1>2, TypeParts DEF UpdateTask, TablesOK, tables, history
    <2>2. Fits(req'[r]) /\ OnlyMoves(r)
        BY <1>2, UpdateTaskMoves DEF Fits, Selling
    <2>3. QED
        BY <2>1, <2>2, BaseStep
<1>3. ASSUME SyncPendingTasksForPriceID(r) PROVE Base'
    <2>1. MuFree /\ TablesOK' /\ lastInvoice' = lastInvoice
        BY <1>3, TypeParts DEF SyncPendingTasksForPriceID, TablesOK, tables, history
    <2>2. Fits(req'[r]) /\ OnlyMoves(r)
        BY <1>3, SyncMoves DEF Fits, Selling
    <2>3. QED
        BY <2>1, <2>2, BaseStep
<1>4. ASSUME NEW ts \in SUBSET TaskIds, NEW total \in Totals,
             ValidateInvoice(r, ts, total)
      PROVE  Base'
    <2>1. MuFree /\ TablesOK' /\ lastInvoice' = lastInvoice
        BY <1>4, TypeParts DEF ValidateInvoice, TablesOK, tables, history
    <2>2. Fits(req'[r]) /\ OnlyMoves(r)
        BY <1>4, ValidateMoves DEF Fits, Selling, ValidateInvoice
    <2>3. QED
        BY <2>1, <2>2, BaseStep
<1>5. ASSUME NEW i \in InvoiceIds, DeleteInvoice(r, i) PROVE Base'
    <2>1. NoInvoice \in Invoice
        BY DEF NoInvoice, Invoice
    <2>2. MuFree /\ TablesOK' /\ lastInvoice' = lastInvoice
        BY <1>5, <2>1, TypeParts DEF DeleteInvoice, TablesOK, history
    <2>3. Fits(req'[r]) /\ OnlyMoves(r)
        BY <1>5, DeleteInvoiceMoves DEF Fits, Selling
    <2>4. QED
        BY <2>2, <2>3, BaseStep
<1>6. ASSUME NEW i \in InvoiceIds, HandleInvoiceSend(r, i) PROVE Base'
    <2>1. TablesOK' /\ lastInvoice' = lastInvoice
        BY <1>6, TypeParts DEF HandleInvoiceSend, TablesOK, tables, history
    <2>2. Fits(req'[r]) /\ OnlyMoves(r) /\ req'[r].pc \notin Holding
        BY <1>6, SendMoves DEF Fits, Selling, Holding
    <2>3. QED
        BY <2>1, <2>2, BaseStep
<1>7. ASSUME NEW i \in InvoiceIds, NEW a \in Amounts,
             AddInvoicePayment(r, i, a)
      PROVE  Base'
    <2>1. Added(invoices[i], a) \in Invoice
        BY AddedParts, InvoicingAssumption DEF TypeOK
    <2>2. TablesOK' /\ lastInvoice' = lastInvoice
        BY <1>7, <2>1, TypeParts DEF AddInvoicePayment, TablesOK
    <2>3. Fits(req'[r]) /\ OnlyMoves(r) /\ req'[r].pc \notin Holding
        BY <1>7, AddPaymentMoves DEF Fits, Selling, Holding
    <2>4. QED
        BY <2>2, <2>3, BaseStep
<1>8. QED
    BY <1>1, <1>2, <1>3, <1>4, <1>5, <1>6, <1>7
    DEF HandleTaskByID, HandlePrices, HandleInvoices, HandleInvoicePayment


LEMMA BaseCreateInvoice ==
    ASSUME Base, NEW r \in Requests, CreateInvoice(r) PROVE Base'
<1>1. Keeps(r, "markInvoiced")
    BY CreateInvoiceMoves DEF Base
<1>2. At(r, "insertInvoice") /\ lastInvoice' = lastInvoice + 1
    BY DEF CreateInvoice
<1>3. lastInvoice < MaxInvoice
    BY <1>2 DEF Base, Fits, At
<1>4. TypeOK'
    <2>1. req[r].left \in SUBSET TaskIds /\ req[r].total \in Nat
        BY DEF Base, TypeOK, Request
    <2>2. [status |-> "Draft", tasks |-> req[r].left, total |-> req[r].total,
           paid |-> 0, balance |-> req[r].total] \in Invoice
        BY <2>1 DEF Invoice
    <2>3. invoices' \in [InvoiceIds -> Invoice]
        BY <2>2 DEF CreateInvoice, Base, TypeOK
    <2>4. lastInvoice' \in 0 .. MaxInvoice
        BY <1>2, <1>3, InvoicingAssumption DEF Base, TypeOK
    <2>5. QED
        BY <1>1, <2>3, <2>4
        DEF CreateInvoice, Base, TypeOK, Keeps, OnlyMoves, history
<1>5. Mutex'
    BY <1>1, <1>2 DEF Base, Mutex, Keeps, OnlyMoves, At, Holding
<1>6. ASSUME NEW q \in Requests PROVE Fits(req[q])'
    <2>1. req'[q].pc # "insertInvoice"
        BY <1>1, <1>2 DEF Base, Mutex, Keeps, OnlyMoves, At, Holding
    <2>2. q # r => req'[q] = req[q] /\ Fits(req[q])
        BY <1>1 DEF Base, Keeps, OnlyMoves
    <2>3. QED
        BY <1>1, <2>1, <2>2 DEF Fits, Keeps, Selling
<1>7. QED
    BY <1>4, <1>5, <1>6 DEF Base

LEMMA BaseWrite ==
    ASSUME Base, NEW r \in Requests,
           \/ UpdateTaskCore(r) \/ DeleteTask(r) \/ InsertFails(r)
           \/ SendFails(r) \/ SavePayment(r)
    PROVE  Base'
<1>1. TypeOK /\ req[r] \in Request /\ Fits(req[r])
    BY DEF Base, TypeOK
<1>2. Return(r)
    BY DEF UpdateTaskCore, DeleteTask, InsertFails, SendFails, SavePayment
<1>3. OnlyMoves(r) /\ req'[r] = Idle
    BY <1>1, <1>2, ReturnMoves DEF Returns
<1>4. tasks' \in [TaskIds -> Statuses \cup {"none"}]
    BY <1>1 DEF TypeOK, UpdateTaskCore, DeleteTask, InsertFails, SendFails,
                SavePayment, tables, Request
<1>5. invoices' \in [InvoiceIds -> Invoice]
    <2>1. CASE SavePayment(r) /\ InvoiceExists(req[r].inv)
        <3>1. req[r].inv \in InvoiceIds
            BY <1>1, <2>1 DEF Fits, SavePayment, At, Selling
        <3>2. Saved(invoices[req[r].inv], req[r].total, req[r].flag) \in Invoice
            BY <1>1, <3>1, SavedParts DEF TypeOK, Request
        <3>3. QED
            BY <1>1, <2>1, <3>1, <3>2 DEF SavePayment, TypeOK
    <2>2. CASE ~(SavePayment(r) /\ InvoiceExists(req[r].inv))
        BY <1>1, <2>2 DEF TypeOK, UpdateTaskCore, DeleteTask, InsertFails,
                          SendFails, SavePayment, tables
    <2>3. QED
        BY <2>1, <2>2
<1>6. overwritten' \subseteq TaskIds
    BY <1>1 DEF TypeOK, UpdateTaskCore, DeleteTask, InsertFails, SendFails,
                SavePayment, Fits, At, history
<1>7. UNCHANGED <<taskSeq, lastInvoice, expenses, disturbed, lost>>
    BY DEF UpdateTaskCore, DeleteTask, InsertFails, SendFails, SavePayment,
           tables, history
<1>8. TablesOK'
    BY <1>1, <1>4, <1>5, <1>6, <1>7 DEF TypeOK, TablesOK
<1>9. QED
    BY <1>3, <1>7, <1>8, BaseKept

LEMMA BaseRead ==
    ASSUME Base, NEW r \in Requests,
           MarkInvoiceSent(r) \/ ReadSent(r) \/ ReadPaid(r)
    PROVE  Base'
<1>1. TypeOK /\ Fits(req[r])
    BY DEF Base
<1>2. req[r].pc \in Selling /\ req[r].inv \in InvoiceIds
    BY <1>1 DEF MarkInvoiceSent, ReadSent, ReadPaid, At, Selling, Fits
<1>3. TablesOK' /\ lastInvoice' = lastInvoice
    <2>1. [invoices[req[r].inv] EXCEPT !.status = "Sent"] \in Invoice
        BY <1>1, <1>2 DEF Invoice, TypeOK
    <2>2. invoices' \in [InvoiceIds -> Invoice]
        BY <1>1, <1>2, <2>1
        DEF MarkInvoiceSent, ReadSent, ReadPaid, TypeOK, tables
    <2>3. QED
        BY <1>1, <2>2, TypeParts
        DEF MarkInvoiceSent, ReadSent, ReadPaid, TablesOK, tables, history
<1>4. OnlyMoves(r)
    BY <1>1, MarkSentMoves, ReadSentMoves, ReadPaidMoves DEF Keeps, Returns
<1>5. \/ req'[r] = Idle
      \/ req'[r].inv = req[r].inv /\ req'[r].pc \in {"sentRead", "sentTasks", "payTasks"}
    BY <1>1, MarkSentMoves, ReadSentMoves, ReadPaidMoves
    DEF Keeps, Returns, HasRead
<1>6. QED
    BY <1>2, <1>3, <1>4, <1>5, BaseKept

LEMMA BaseLinked ==
    ASSUME Base, NEW r \in Requests, NEW t \in req[r].left,
           \/ MarkInvoiced(r, t) \/ RevertToDone(r, t)
           \/ MarkTaskSent(r, t) \/ MarkTaskPaid(r, t)
    PROVE  Base'
<1>1. TypeOK /\ TablesOK
    BY TypeParts DEF Base
<1>2. \E s \in Statuses, from \in SUBSET Statuses : SetStatus(t, s, from)
    <2>1. /\ {"Invoiced", "Done", "Sent", "Paid"} \subseteq Statuses
          /\ {{"Done"}, {"Invoiced"}, NotPaid, Statuses} \subseteq SUBSET Statuses
        BY DEF Statuses, NotPaid
    <2>2. QED
        BY <2>1 DEF MarkInvoiced, RevertToDone, MarkTaskSent, MarkTaskPaid
<1>3. tasks' \in [TaskIds -> Statuses \cup {"none"}]
    BY <1>1, <1>2, StatusSet
<1>4. TablesOK' /\ lastInvoice' = lastInvoice
    BY <1>1, <1>3
    DEF MarkInvoiced, RevertToDone, MarkTaskSent, MarkTaskPaid, TablesOK, history
<1>5. \/ Returns(r)
      \/ OnlyMoves(r) /\ GoesOn(r, t, "idle")
      \/ OnlyMoves(r) /\ GoesOn(r, t, "paySave") /\ At(r, "payTasks")
    BY <1>1, TaskMoves DEF MarkTaskPaid
<1>6. req[r].pc \in {"markInvoiced", "revert", "sentTasks", "payTasks"}
    BY DEF MarkInvoiced, RevertToDone, MarkTaskSent, MarkTaskPaid, At
<1>7. QED
    BY <1>4, <1>5, <1>6, BaseKept DEF Returns, GoesOn, Selling, At

LEMMA BaseCrash == ASSUME Base, Crash PROVE Base'
<1>1. \A r \in Requests : req'[r] = Idle
    BY DEF Crash
<1>2. TypeOK'
    BY IdleIsRequest, InvoicingAssumption DEF Crash, Base, TypeOK, TaskIds
<1>3. Mutex' /\ \A r \in Requests : Fits(req[r])'
    BY <1>1, IdleIsRequest DEF Mutex, Fits, Holding, Selling
<1>4. QED
    BY <1>2, <1>3 DEF Base

LEMMA BaseNext == Base /\ [Next]_vars => Base'
<1> SUFFICES ASSUME Base, [Next]_vars PROVE Base'
    OBVIOUS
<1>1. CASE UNCHANGED vars
    BY <1>1 DEF vars, tables, Base, TypeOK, Mutex, Fits, history
<1>2. CASE Begin
    BY <1>2, BaseSingle, BaseBegin
    DEF Begin, HandleTasks, HandleExpenses, HandleInvoiceByID
<1>3. ASSUME NEW r \in Requests, Step(r) PROVE Base'
    BY <1>3, BaseCreateInvoice, BaseWrite, BaseRead, BaseLinked DEF Step
<1>4. CASE Crash
    BY <1>4, BaseCrash
<1>5. QED
    BY <1>1, <1>2, <1>3, <1>4 DEF Next

(* Every row and every request keeps its type: no step of an overlapping   *)
(* payment makes a balance negative (store/store.go, expenses.go).         *)
THEOREM TypeCorrect == Spec => []TypeOK
<1>1. Spec => []Base
    BY BaseInit, BaseNext, PTL DEF Spec
<1>2. Base => TypeOK
    BY DEF Base
<1>3. QED
    BY <1>1, <1>2, PTL


-----------------------------------------------------------------------------
(* Tasks that are linked are not deleted.                                  *)
SeqOK == /\ \A t \in TaskIds : TaskExists(t) => t <= taskSeq
         /\ \A r \in Requests :
               At(r, "putWrite") => req[r].task <= taskSeq
Unlinked(t) == /\ \A i \in InvoiceIds : t \notin invoices[i].tasks
               /\ \A e \in ExpenseIds : expenses[e] # t
Claims(r) ==
    /\ At(r, "deleteTask") => Unlinked(req[r].task)
    /\ At(r, "insertInvoice") => \A t \in req[r].left : TaskExists(t)
LinkInv == SeqOK /\ LinkedTasksExist /\ \A r \in Requests : Claims(r)

(* Tasks go on to exist and links are not added.                           *)
LinksKept ==
    /\ \A t \in TaskIds : TaskExists(t) => tasks'[t] # "none"
    /\ \A i \in InvoiceIds : invoices'[i].tasks \subseteq invoices[i].tasks
    /\ expenses' = expenses

LEMMA LinksKeptStep ==
    ASSUME Base, Base', LinkInv, LinksKept,
           \A r \in Requests :
              \/ req'[r] = req[r]
              \/ req'[r].pc \notin {"deleteTask", "insertInvoice"}
              \/ /\ req'[r].pc = "deleteTask" /\ Unlinked(req'[r].task)
              \/ /\ req'[r].pc = "insertInvoice"
                 /\ \A t \in req'[r].left : TaskExists(t)
    PROVE  LinkedTasksExist' /\ \A r \in Requests : Claims(r)'
<1>1. TypeOK
    BY DEF Base
<1>2. LinkedTasksExist'
    <2>1. \A i \in InvoiceIds : \A t \in invoices'[i].tasks :
             t \in TaskIds /\ t \in invoices[i].tasks
        BY <1>1 DEF LinksKept, TypeOK, Invoice
    <2>2. \A e \in ExpenseIds : expenses[e] # 0 => expenses[e] \in TaskIds
        BY <1>1, InvoicingAssumption DEF TypeOK, TaskIds
    <2>3. QED
        BY <2>1, <2>2 DEF LinkInv, LinkedTasksExist, LinksKept, TaskExists
<1>3. ASSUME NEW r \in Requests PROVE Claims(r)'
    <2>1. Claims(r)
        BY DEF LinkInv
    <2>2. ASSUME req'[r].pc = "deleteTask" PROVE Unlinked(req[r].task)'
        <3>1. Unlinked(req'[r].task)
            BY <2>1, <2>2 DEF Claims, At
        <3>2. QED
            BY <3>1 DEF Unlinked, LinksKept
    <2>3. ASSUME req'[r].pc = "insertInvoice"
          PROVE  \A t \in req'[r].left : TaskExists(t)'
        <3>1. \A t \in req'[r].left : TaskExists(t)
            BY <2>1, <2>3 DEF Claims, At
        <3>2. \A t \in req'[r].left : t \in TaskIds
            BY DEF Base, TypeOK, Request
        <3>3. QED
            BY <3>1, <3>2 DEF LinksKept, TaskExists
    <2>4. QED
        BY <2>2, <2>3 DEF Claims, At
<1>4. QED
    BY <1>2, <1>3


LEMMA SeqKept ==
    ASSUME Base, SeqOK, taskSeq' = taskSeq,
           \A t \in TaskIds : tasks'[t] # "none" => t <= taskSeq,
           \A r \in Requests :
              \/ req'[r] = req[r]
              \/ req'[r].pc # "putWrite"
              \/ req'[r].task \in TaskIds /\ TaskExists(req'[r].task)
    PROVE  SeqOK'
BY DEF SeqOK, TaskExists, At

LEMMA LinkSingle ==
    ASSUME Base, Base', LinkInv,
           \/ \E s \in {"Pending", "Done"} : CreateTask(s)
           \/ \E e \in ExpenseIds, t \in TaskIds :
                 CreateExpense(e, t) \/ UpdateExpense(e, t)
    PROVE  LinkInv'
<1>0. TypeOK /\ req' = req /\ invoices' = invoices
    BY DEF Base, CreateTask, CreateExpense, UpdateExpense
<1>1. ASSUME NEW s \in {"Pending", "Done"}, CreateTask(s) PROVE LinkInv'
    <2>1. \A t \in TaskIds :
             tasks'[t] = IF t = taskSeq + 1 THEN s ELSE tasks[t]
        BY <1>0, <1>1 DEF CreateTask, TypeOK
    <2>2. LinksKept
        BY <1>0, <1>1, <2>1 DEF LinksKept, CreateTask, TaskExists
    <2>3. SeqOK'
        <3>1. taskSeq' = taskSeq + 1 /\ taskSeq \in Nat
            BY <1>0, <1>1, InvoicingAssumption DEF CreateTask, TypeOK
        <3>2. \A t \in TaskIds : t \in Nat
            BY InvoicingAssumption DEF TaskIds
        <3>3. \A r \in Requests : req[r].task \in Nat
            BY <1>0, <3>2 DEF TypeOK, Request
        <3>4. QED
            BY <1>0, <2>1, <3>1, <3>2, <3>3
            DEF LinkInv, SeqOK, TaskExists, At
    <2>4. QED
        BY <1>0, <2>2, <2>3, LinksKeptStep DEF LinkInv
<1>2. ASSUME NEW e \in ExpenseIds, NEW t \in TaskIds,
             CreateExpense(e, t) \/ UpdateExpense(e, t)
      PROVE  LinkInv'
    <2>1. /\ MuFree /\ TaskExists(t) /\ tasks' = tasks /\ taskSeq' = taskSeq
          /\ expenses' = [expenses EXCEPT ![e] = t]
        BY <1>2 DEF CreateExpense, UpdateExpense
    <2>2. LinkedTasksExist'
        BY <1>0, <2>1 DEF LinkInv, LinkedTasksExist, TaskExists, TypeOK
    <2>3. \A r \in Requests : Claims(r)'
        BY <1>0, <2>1 DEF MuFree, Holding, Claims, At
    <2>4. SeqOK'
        BY <1>0, <2>1 DEF LinkInv, SeqOK, TaskExists, At
    <2>5. QED
        BY <2>2, <2>3, <2>4 DEF LinkInv
<1>3. QED
    BY <1>1, <1>2

LEMMA LinkBegin ==
    ASSUME Base, Base', LinkInv, NEW r \in Requests,
           \/ HandleTaskByID(r) \/ HandlePrices(r) \/ HandleInvoices(r)
           \/ \E i \in InvoiceIds :
                 \/ DeleteInvoice(r, i) \/ HandleInvoiceSend(r, i)
                 \/ HandleInvoicePayment(r, i)
    PROVE  LinkInv'
<1>0. TypeOK
    BY DEF Base
<1>1. tasks' = tasks /\ taskSeq' = taskSeq /\ expenses' = expenses
    BY DEF HandleTaskByID, CheckDelete, UpdateTask, HandlePrices,
           SyncPendingTasksForPriceID, HandleInvoices, ValidateInvoice,
           DeleteInvoice, HandleInvoiceSend, HandleInvoicePayment,
           AddInvoicePayment, tables
<1>2. \A i \in InvoiceIds : invoices'[i].tasks \subseteq invoices[i].tasks
    <2>1. ASSUME NEW i \in InvoiceIds, DeleteInvoice(r, i)
          PROVE  \A j \in InvoiceIds : invoices'[j].tasks \subseteq invoices[j].tasks
        BY <1>0, <2>1 DEF DeleteInvoice, TypeOK, NoInvoice
    <2>2. ASSUME NEW i \in InvoiceIds, HandleInvoicePayment(r, i)
          PROVE  \A j \in InvoiceIds : invoices'[j].tasks \subseteq invoices[j].tasks
        <3>1. PICK a \in Amounts : AddInvoicePayment(r, i, a)
            BY <2>2 DEF HandleInvoicePayment
        <3>2. Added(invoices[i], a).tasks = invoices[i].tasks
            BY <1>0, InvoicingAssumption, AddedParts DEF TypeOK
        <3>3. QED
            BY <1>0, <3>1, <3>2 DEF AddInvoicePayment, TypeOK
    <2>3. ASSUME HandleTaskByID(r) \/ HandlePrices(r) \/ HandleInvoices(r)
                 \/ \E i \in InvoiceIds : HandleInvoiceSend(r, i)
          PROVE  invoices' = invoices
        BY <2>3 DEF HandleTaskByID, CheckDelete, UpdateTask, HandlePrices,
                    SyncPendingTasksForPriceID, HandleInvoices,
                    ValidateInvoice, HandleInvoiceSend, tables
    <2>4. QED
        BY <2>1, <2>2, <2>3
<1>3. LinksKept
    BY <1>1, <1>2 DEF LinksKept, TaskExists
<1>4. /\ OnlyMoves(r)
      /\ \/ req'[r].pc \in {"hung", "revert", "mail", "payRead"}
         \/ /\ req'[r].pc = "deleteTask" /\ Unlinked(req'[r].task)
         \/ /\ req'[r].pc = "insertInvoice"
            /\ \A t \in req'[r].left : TaskExists(t)
         \/ /\ req'[r].pc = "putWrite"
            /\ req'[r].task \in TaskIds /\ TaskExists(req'[r].task)
    <2>1. ASSUME NEW t \in TaskIds, CheckDelete(r, t)
          PROVE  OnlyMoves(r) /\ req'[r].pc = "deleteTask" /\ Unlinked(req'[r].task)
        <3>1. Unlinked(t)
            BY <2>1 DEF CheckDelete, Deletable, SpentOn, LinkedTo, Unlinked
        <3>2. QED
            BY <1>0, <2>1, <3>1, CheckDeleteMoves
    <2>2. ASSUME NEW t \in TaskIds, NEW s \in {"Pending", "Done"},
                 NEW edit \in BOOLEAN, UpdateTask(r, t, s, edit)
          PROVE  /\ OnlyMoves(r) /\ req'[r].pc = "putWrite"
                 /\ req'[r].task \in TaskIds /\ TaskExists(req'[r].task)
        BY <1>0, <2>2, UpdateTaskMoves DEF UpdateTask
    <2>3. ASSUME NEW ts \in SUBSET TaskIds, NEW total \in Totals,
                 ValidateInvoice(r, ts, total)
          PROVE  /\ OnlyMoves(r) /\ req'[r].pc = "insertInvoice"
                 /\ \A t \in req'[r].left : TaskExists(t)
        BY <1>0, <2>3, ValidateMoves DEF ValidateInvoice
    <2>4. QED
        BY <1>0, <2>1, <2>2, <2>3, SyncMoves, DeleteInvoiceMoves, SendMoves,
           AddPaymentMoves
        DEF HandleTaskByID, HandlePrices, HandleInvoices, HandleInvoicePayment
<1>5. LinkedTasksExist' /\ \A q \in Requests : Claims(q)'
    BY <1>3, <1>4, LinksKeptStep DEF OnlyMoves
<1>6. SeqOK'
    BY <1>1, <1>4, SeqKept DEF OnlyMoves, LinkInv, SeqOK, TaskExists
<1>7. QED
    BY <1>5, <1>6 DEF LinkInv


LEMMA LinkCreateInvoice ==
    ASSUME Base, Base', LinkInv, NEW r \in Requests, CreateInvoice(r)
    PROVE  LinkInv'
<1>0. TypeOK /\ At(r, "insertInvoice") /\ Keeps(r, "markInvoiced")
    BY CreateInvoiceMoves DEF Base, CreateInvoice
<1>1. tasks' = tasks /\ taskSeq' = taskSeq /\ expenses' = expenses
    BY DEF CreateInvoice
<1>2. \A i \in InvoiceIds :
         \/ invoices'[i].tasks = invoices[i].tasks
         \/ invoices'[i].tasks = req[r].left
    BY <1>0 DEF CreateInvoice, TypeOK
<1>3. \A t \in req[r].left : TaskExists(t)
    BY <1>0 DEF LinkInv, Claims
<1>4. LinkedTasksExist'
    BY <1>1, <1>2, <1>3 DEF LinkInv, LinkedTasksExist, TaskExists
<1>5. ASSUME NEW q \in Requests
      PROVE  req'[q].pc \notin {"deleteTask", "insertInvoice"}
    <2>1. CASE q = r
        BY <1>0, <2>1 DEF Keeps
    <2>2. CASE q # r
        <3>1. req[q].pc \notin Holding
            BY <1>0, <2>2 DEF Base, Mutex, At, Holding
        <3>2. QED
            BY <1>0, <2>2, <3>1 DEF Keeps, OnlyMoves, Holding
    <2>3. QED
        BY <2>1, <2>2
<1>6. \A q \in Requests : Claims(q)'
    BY <1>5 DEF Claims, At
<1>7. SeqOK'
    BY <1>0, <1>1, SeqKept DEF LinkInv, SeqOK, Keeps, OnlyMoves, TaskExists
<1>8. QED
    BY <1>4, <1>6, <1>7 DEF LinkInv

LEMMA LinkWriteTask ==
    ASSUME Base, Base', LinkInv, NEW r \in Requests,
           UpdateTaskCore(r) \/ DeleteTask(r)
    PROVE  LinkInv'
<1> DEFINE d == req[r].task
<1>0. TypeOK /\ req[r] \in Request /\ d \in TaskIds
    BY DEF Base, TypeOK, Fits, UpdateTaskCore, DeleteTask, At
<1>1. OnlyMoves(r) /\ req'[r].pc = "idle"
    BY <1>0, ReturnMoves, IdleIsRequest DEF UpdateTaskCore, DeleteTask, Returns
<1>2. taskSeq' = taskSeq /\ invoices' = invoices /\ expenses' = expenses
    BY DEF UpdateTaskCore, DeleteTask
<1>3. CASE UpdateTaskCore(r)
    <2>1. \A t \in TaskIds :
             tasks'[t] = IF t = d THEN req[r].status ELSE tasks[t]
        BY <1>0, <1>3 DEF UpdateTaskCore, TypeOK
    <2>2. req[r].status # "none"
        BY <1>0 DEF Request, Statuses
    <2>3. LinksKept
        BY <1>2, <2>1, <2>2 DEF LinksKept, TaskExists
    <2>4. d <= taskSeq
        BY <1>3 DEF LinkInv, SeqOK, UpdateTaskCore
    <2>5. SeqOK'
        BY <1>1, <1>2, <2>1, <2>4, SeqKept
        DEF LinkInv, SeqOK, OnlyMoves, TaskExists
    <2>6. QED
        BY <1>1, <2>3, <2>5, LinksKeptStep DEF LinkInv, OnlyMoves
<1>4. CASE DeleteTask(r)
    <2>1. /\ At(r, "deleteTask") /\ Unlinked(d)
          /\ \A t \in TaskIds :
                tasks'[t] = IF t = d THEN "none" ELSE tasks[t]
        BY <1>0, <1>4 DEF DeleteTask, TypeOK, LinkInv, Claims
    <2>2. LinkedTasksExist'
        <3>1. \A i \in InvoiceIds : \A t \in invoices[i].tasks : t \in TaskIds /\ t # d
            BY <1>0, <2>1 DEF TypeOK, Invoice, Unlinked
        <3>2. \A e \in ExpenseIds : expenses[e] # 0 => expenses[e] \in TaskIds /\ expenses[e] # d
            BY <1>0, <2>1, InvoicingAssumption DEF TypeOK, TaskIds, Unlinked
        <3>3. QED
            BY <1>2, <2>1, <3>1, <3>2 DEF LinkInv, LinkedTasksExist, TaskExists
    <2>3. \A q \in Requests : req'[q].pc \notin {"deleteTask", "insertInvoice"}
        BY <1>1, <2>1 DEF Base, Mutex, At, Holding, OnlyMoves
    <2>4. SeqOK'
        BY <1>1, <1>2, <2>1, SeqKept DEF LinkInv, SeqOK, OnlyMoves, TaskExists
    <2>5. QED
        BY <2>2, <2>3, <2>4 DEF LinkInv, Claims, At
<1>5. QED
    BY <1>3, <1>4

LEMMA LinkOther ==
    ASSUME Base, Base', LinkInv, NEW r \in Requests,
           \/ InsertFails(r) \/ SendFails(r) \/ SavePayment(r)
           \/ MarkInvoiceSent(r) \/ ReadSent(r) \/ ReadPaid(r)
    PROVE  LinkInv'
<1>0. TypeOK
    BY DEF Base
<1>1. OnlyMoves(r) /\ req'[r].pc \in {"idle", "sentRead", "sentTasks", "payTasks"}
    BY <1>0, ReturnMoves, IdleIsRequest, MarkSentMoves, ReadSentMoves,
       ReadPaidMoves
    DEF InsertFails, SendFails, SavePayment, Returns, Keeps, HasRead
<1>2. tasks' = tasks /\ taskSeq' = taskSeq /\ expenses' = expenses
    BY DEF InsertFails, SendFails, SavePayment, MarkInvoiceSent, ReadSent,
           ReadPaid, tables
<1>3. \A i \in InvoiceIds : invoices'[i].tasks \subseteq invoices[i].tasks
    <2>1. ASSUME SavePayment(r), InvoiceExists(req[r].inv)
          PROVE  \A i \in InvoiceIds : invoices'[i].tasks = invoices[i].tasks
        <3>1. req[r].inv \in InvoiceIds /\ req[r] \in Request
            BY <1>0, <2>1 DEF Base, Fits, SavePayment, At, Selling, TypeOK
        <3>2. Saved(invoices[req[r].inv], req[r].total, req[r].flag).tasks
                = invoices[req[r].inv].tasks
            BY <1>0, <3>1, SavedParts DEF TypeOK, Request
        <3>3. QED
            BY <1>0, <2>1, <3>1, <3>2 DEF SavePayment, TypeOK
    <2>2. ASSUME MarkInvoiceSent(r), InvoiceExists(req[r].inv)
          PROVE  \A i \in InvoiceIds : invoices'[i].tasks = invoices[i].tasks
        BY <1>0, <2>2 DEF MarkInvoiceSent, TypeOK, Invoice
    <2>3. ASSUME ~(SavePayment(r) /\ InvoiceExists(req[r].inv)),
                 ~(MarkInvoiceSent(r) /\ InvoiceExists(req[r].inv))
          PROVE  invoices' = invoices
        BY <2>3 DEF InsertFails, SendFails, SavePayment, MarkInvoiceSent,
                    ReadSent, ReadPaid, tables
    <2>4. QED
        BY <2>1, <2>2, <2>3
<1>4. LinksKept
    BY <1>2, <1>3 DEF LinksKept, TaskExists
<1>5. SeqOK'
    BY <1>1, <1>2, SeqKept DEF LinkInv, SeqOK, OnlyMoves, TaskExists
<1>6. QED
    BY <1>1, <1>4, <1>5, LinksKeptStep DEF LinkInv, OnlyMoves

LEMMA LinkLinked ==
    ASSUME Base, Base', LinkInv, NEW r \in Requests, NEW t \in req[r].left,
           \/ MarkInvoiced(r, t) \/ RevertToDone(r, t)
           \/ MarkTaskSent(r, t) \/ MarkTaskPaid(r, t)
    PROVE  LinkInv'
<1>0. TypeOK /\ TablesOK /\ t \in TaskIds
    BY TypeParts DEF Base, TypeOK, Request
<1>1. OnlyMoves(r) /\ req'[r].pc \notin {"deleteTask", "insertInvoice", "putWrite"}
    BY <1>0, TaskMoves, IdleIsRequest
    DEF Returns, GoesOn, MarkInvoiced, RevertToDone, MarkTaskSent,
        MarkTaskPaid, At
<1>2. /\ taskSeq' = taskSeq /\ invoices' = invoices /\ expenses' = expenses
    BY DEF MarkInvoiced, RevertToDone, MarkTaskSent, MarkTaskPaid
<1>3. \A u \in TaskIds : tasks'[u] # "none" <=> TaskExists(u)
    <2>1. \E s \in Statuses, from \in SUBSET Statuses : SetStatus(t, s, from)
        <3>1. /\ {"Invoiced", "Done", "Sent", "Paid"} \subseteq Statuses
              /\ {{"Done"}, {"Invoiced"}, NotPaid, Statuses} \subseteq SUBSET Statuses
            BY DEF Statuses, NotPaid
        <3>2. QED
            BY <3>1 DEF MarkInvoiced, RevertToDone, MarkTaskSent, MarkTaskPaid
    <2>2. PICK s \in Statuses, from \in SUBSET Statuses : SetStatus(t, s, from)
        BY <2>1
    <2>3. /\ \A u \in TaskIds \ {t} : tasks'[u] = tasks[u]
          /\ tasks'[t] = IF tasks[t] \in from THEN s ELSE tasks[t]
        BY <1>0, <2>2, StatusSet
    <2>4. "none" \notin Statuses
        BY DEF Statuses
    <2>5. QED
        BY <2>3, <2>4 DEF TaskExists
<1>4. LinksKept
    BY <1>2, <1>3 DEF LinksKept
<1>5. SeqOK'
    BY <1>1, <1>2, <1>3, SeqKept DEF LinkInv, SeqOK, OnlyMoves, TaskExists
<1>6. QED
    BY <1>1, <1>4, <1>5, LinksKeptStep DEF LinkInv, OnlyMoves

LEMMA LinkCrash == ASSUME Base, LinkInv, Crash PROVE LinkInv'
<1>1. \A r \in Requests : req'[r].pc = "idle"
    BY IdleIsRequest DEF Crash
<1>2. PICK n \in TaskIds \cup {0} : RebuildTaskSeq(n) /\ taskSeq' = n
    BY DEF Crash
<1>3. tasks' = tasks /\ invoices' = invoices /\ expenses' = expenses
    BY DEF Crash
<1>4. SeqOK'
    BY <1>1, <1>2, <1>3 DEF SeqOK, RebuildTaskSeq, TaskExists, At
<1>5. LinkedTasksExist'
    BY <1>3 DEF LinkInv, LinkedTasksExist, TaskExists
<1>6. QED
    BY <1>1, <1>4, <1>5 DEF LinkInv, Claims, At

LEMMA LinkNext == Base /\ Base' /\ LinkInv /\ [Next]_vars => LinkInv'
<1> SUFFICES ASSUME Base, Base', LinkInv, [Next]_vars PROVE LinkInv'
    OBVIOUS
<1>1. CASE UNCHANGED vars
    BY <1>1 DEF vars, tables, LinkInv, SeqOK, LinkedTasksExist, Claims, At,
                TaskExists, Unlinked
<1>2. CASE Begin
    BY <1>2, LinkSingle, LinkBegin
    DEF Begin, HandleTasks, HandleExpenses, HandleInvoiceByID
<1>3. ASSUME NEW r \in Requests, Step(r) PROVE LinkInv'
    BY <1>3, LinkCreateInvoice, LinkWriteTask, LinkOther, LinkLinked DEF Step
<1>4. CASE Crash
    BY <1>4, LinkCrash
<1>5. QED
    BY <1>1, <1>2, <1>3, <1>4 DEF Next

LEMMA LinkInit == Init => LinkInv
<1> SUFFICES ASSUME Init PROVE LinkInv
    OBVIOUS
<1>1. \A r \in Requests : req[r].pc = "idle"
    BY IdleIsRequest DEF Init
<1>2. QED
    BY <1>1 DEF Init, NoInvoice, LinkInv, SeqOK, LinkedTasksExist, Claims, At,
                TaskExists

(* No invoice and no expense ever names a task that is gone, whoever else  *)
(* deletes, creates and pays at the time (DeleteTask, store.go:374-392).   *)
THEOREM LinkedTasksStay == Spec => []LinkedTasksExist
<1>1. Init => Base /\ LinkInv
    BY BaseInit, LinkInit
<1>2. Base /\ LinkInv /\ [Next]_vars => Base' /\ LinkInv'
    BY BaseNext, LinkNext
<1>3. Base /\ LinkInv => LinkedTasksExist
    BY DEF LinkInv
<1>4. Spec => [](Base /\ LinkInv)
    BY <1>1, <1>2, PTL DEF Spec
<1>5. QED
    BY <1>3, <1>4, PTL


-----------------------------------------------------------------------------
(* Payments.  A payment that has read the invoice carries the balance and  *)
(* whether it is paid in full as of that reading; other payments may have  *)
(* been added since.                                                       *)
Pays == {"payRead", "payTasks", "paySave"}
HasReadIt == {"payTasks", "paySave"}

IdsOK ==
    /\ \A i \in InvoiceIds : ~InvoiceExists(i) => invoices[i] = NoInvoice
    /\ \A i \in InvoiceIds : InvoiceExists(i) => i <= lastInvoice
    /\ \A r \in Requests : req[r].pc \in Pays => req[r].inv <= lastInvoice

Covers(r) ==
    LET i == req[r].inv
    IN  req[r].pc \in HasReadIt /\ InvoiceExists(i) =>
            /\ req[r].total + invoices[i].paid >= invoices[i].total
            /\ req[r].flag => FullyPaid(invoices[i])

PaidSoFar(r) ==
    req[r].pc \in HasReadIt =>
        /\ req[r].flag =>
              \A t \in invoices[req[r].inv].tasks \ (req[r].left \cup overwritten) :
                  tasks[t] = "Paid"
        /\ req[r].pc = "paySave" => req[r].left = {}

OnePayer ==
    \A i \in InvoiceIds \ disturbed : \A q, r \in Requests :
        Paying(q, i) /\ Paying(r, i) => q = r

Exact(r) ==
    LET i == req[r].inv
    IN  req[r].pc \in HasReadIt /\ InvoiceExists(i) /\ i \notin disturbed =>
            req[r].total = BalanceDue(invoices[i])

Carried(r) == Covers(r) /\ PaidSoFar(r) /\ Exact(r)
PayInv ==
    /\ IdsOK /\ OnePayer /\ \A r \in Requests : Carried(r)
    /\ NeverUnderstated /\ PaidInvoicePaidTasks /\ BalanceExact

(* What a payment relies on of the tasks: those of an invoice stay Paid,   *)
(* or an update has written over them.                                     *)
TasksStayPaid ==
    /\ overwritten \subseteq overwritten'
    /\ \A i \in InvoiceIds : \A t \in invoices[i].tasks :
          tasks[t] = "Paid" => tasks'[t] = "Paid" \/ t \in overwritten'

(* A step that leaves invoices and payments alone.                         *)
LEMMA QuietStep ==
    ASSUME Base, PayInv, TasksStayPaid,
           UNCHANGED <<invoices, lastInvoice, disturbed>>,
           \A r \in Requests :
              req[r].pc \in Pays \/ req'[r].pc \in Pays => req'[r] = req[r]
    PROVE  PayInv'
<1>1. TypeOK /\ \A r \in Requests : Fits(req[r])
    BY DEF Base
<1>2. \A r \in Requests : req[r].pc \in Pays => req[r].inv \in InvoiceIds
    BY <1>1 DEF Fits, Pays, Selling
<1>3. IdsOK'
    BY DEF PayInv, IdsOK, InvoiceExists
<1>4. \A r \in Requests, i \in InvoiceIds : Paying(r, i)' <=> Paying(r, i)
    BY DEF Paying, Pays
<1>5. OnePayer' /\ BalanceExact'
    BY <1>4 DEF PayInv, OnePayer, BalanceExact
<1>6. NeverUnderstated' /\ PaidInvoicePaidTasks'
    BY DEF PayInv, NeverUnderstated, PaidInvoicePaidTasks, TasksStayPaid
<1>7. ASSUME NEW r \in Requests PROVE Carried(r)'
    <2>1. CASE req'[r].pc \in Pays
        <3>1. req'[r] = req[r] /\ Carried(r) /\ req[r].inv \in InvoiceIds
            BY <1>2, <2>1 DEF PayInv
        <3>2. Covers(r)' /\ Exact(r)'
            BY <3>1 DEF Carried, Covers, Exact, InvoiceExists
        <3>3. PaidSoFar(r)'
            BY <3>1 DEF Carried, PaidSoFar, TasksStayPaid
        <3>4. QED
            BY <3>2, <3>3 DEF Carried
    <2>2. CASE req'[r].pc \notin Pays
        BY <2>2 DEF Carried, Covers, PaidSoFar, Exact, Pays, HasReadIt
    <2>3. QED
        BY <2>1, <2>2
<1>8. QED
    BY <1>3, <1>5, <1>6, <1>7 DEF PayInv

LEMMA PayInit == Init => PayInv
<1> SUFFICES ASSUME Init PROVE PayInv
    OBVIOUS
<1>1. \A r \in Requests : req[r].pc = "idle"
    BY IdleIsRequest DEF Init
<1>2. \A i \in InvoiceIds : invoices[i] = NoInvoice
    BY DEF Init
<1>3. /\ NoInvoice.status = "none" /\ NoInvoice.tasks = {}
      /\ NoInvoice.total = 0 /\ NoInvoice.paid = 0 /\ NoInvoice.balance = 0
    BY DEF NoInvoice
<1>4. IdsOK /\ OnePayer /\ \A r \in Requests : Carried(r)
    BY <1>1, <1>2, <1>3 DEF IdsOK, OnePayer, Carried, Covers, PaidSoFar, Exact,
        Pays, HasReadIt, InvoiceExists, Paying
<1>5. NeverUnderstated /\ PaidInvoicePaidTasks /\ BalanceExact
    BY <1>2, <1>3 DEF NeverUnderstated, PaidInvoicePaidTasks, BalanceExact,
        BalanceDue
<1>6. QED
    BY <1>4, <1>5 DEF PayInv


LEMMA SamePaid ==
    ASSUME tasks' = tasks, overwritten' = overwritten PROVE TasksStayPaid
BY DEF TasksStayPaid

LEMMA PaySingle ==
    ASSUME Base, LinkInv, PayInv,
           \/ \E s \in {"Pending", "Done"} : CreateTask(s)
           \/ \E e \in ExpenseIds, t \in TaskIds :
                 CreateExpense(e, t) \/ UpdateExpense(e, t)
    PROVE  PayInv'
<1>1. UNCHANGED <<req, invoices, lastInvoice, history>>
    BY DEF CreateTask, CreateExpense, UpdateExpense, history
<1>2. TasksStayPaid
    <2>1. ASSUME NEW s \in {"Pending", "Done"}, CreateTask(s)
          PROVE  TasksStayPaid
        <3>1. \A i \in InvoiceIds : \A t \in invoices[i].tasks :
                 t \in TaskIds /\ t <= taskSeq
            BY DEF LinkInv, SeqOK, LinkedTasksExist, Base, TypeOK, Invoice
        <3>2. taskSeq \in Nat
            BY InvoicingAssumption DEF Base, TypeOK
        <3>3. \A t \in TaskIds : t <= taskSeq => t # taskSeq + 1
            BY <3>2, InvoicingAssumption DEF TaskIds
        <3>4. \A t \in TaskIds : t # taskSeq + 1 => tasks'[t] = tasks[t]
            BY <2>1 DEF CreateTask, Base, TypeOK
        <3>5. QED
            BY <1>1, <3>1, <3>3, <3>4 DEF TasksStayPaid, history
    <2>2. ASSUME NEW e \in ExpenseIds, NEW t \in TaskIds,
                 CreateExpense(e, t) \/ UpdateExpense(e, t)
          PROVE  TasksStayPaid
        BY <1>1, <2>2, SamePaid DEF CreateExpense, UpdateExpense, history
    <2>3. QED
        BY <2>1, <2>2
<1>3. QED
    BY <1>1, <1>2, QuietStep DEF history

LEMMA PayBegin ==
    ASSUME Base, PayInv, NEW r \in Requests,
           \/ HandleTaskByID(r) \/ HandlePrices(r) \/ HandleInvoices(r)
           \/ \E i \in InvoiceIds : HandleInvoiceSend(r, i)
    PROVE  PayInv'
<1>1. UNCHANGED <<tables, overwritten, disturbed>> /\ At(r, "idle")
    BY DEF HandleTaskByID, CheckDelete, UpdateTask, HandlePrices,
           SyncPendingTasksForPriceID, HandleInvoices, ValidateInvoice,
           HandleInvoiceSend, history
<1>2. /\ OnlyMoves(r)
      /\ req'[r].pc \in {"deleteTask", "putWrite", "hung", "insertInvoice",
                         "mail"}
    BY UpdateTaskMoves, CheckDeleteMoves, SyncMoves, ValidateMoves, SendMoves
    DEF HandleTaskByID, HandlePrices, HandleInvoices, Base
<1>3. \A q \in Requests :
         req[q].pc \in Pays \/ req'[q].pc \in Pays => req'[q] = req[q]
    BY <1>1, <1>2 DEF OnlyMoves, Pays, At
<1>4. QED
    BY <1>1, <1>3, SamePaid, QuietStep DEF tables

LEMMA PayWriteTask ==
    ASSUME Base, LinkInv, PayInv, NEW r \in Requests,
           \/ UpdateTaskCore(r) \/ DeleteTask(r)
           \/ InsertFails(r) \/ SendFails(r) \/ ReadSent(r)
    PROVE  PayInv'
<1>0. TypeOK
    BY DEF Base
<1>1. /\ UNCHANGED <<invoices, lastInvoice, disturbed>>
      /\ req[r].pc \notin Pays
    BY DEF UpdateTaskCore, DeleteTask, InsertFails, SendFails, ReadSent,
           tables, At, Pays, history
<1>2. OnlyMoves(r) /\ req'[r].pc \in {"idle", "sentTasks"}
    BY <1>0, ReturnMoves, IdleIsRequest, ReadSentMoves
    DEF UpdateTaskCore, DeleteTask, InsertFails, SendFails, Returns
<1>3. \A q \in Requests :
         req[q].pc \in Pays \/ req'[q].pc \in Pays => req'[q] = req[q]
    BY <1>1, <1>2 DEF OnlyMoves, Pays
<1>4. CASE UpdateTaskCore(r)
    <2>1. \A i \in InvoiceIds : \A t \in invoices[i].tasks : t \in TaskIds
        BY <1>0 DEF TypeOK, Invoice
    <2>2. TasksStayPaid
        BY <1>0, <1>4, <2>1 DEF UpdateTaskCore, TypeOK, TasksStayPaid
    <2>3. QED
        BY <1>1, <1>3, <2>2, QuietStep
<1>5. CASE DeleteTask(r)
    <2>1. Unlinked(req[r].task) /\ overwritten' = overwritten
        BY <1>5 DEF DeleteTask, LinkInv, Claims, history
    <2>2. TasksStayPaid
        BY <1>0, <1>5, <2>1 DEF DeleteTask, TypeOK, TasksStayPaid, Unlinked,
                                Invoice
    <2>3. QED
        BY <1>1, <1>3, <2>2, QuietStep
<1>6. CASE InsertFails(r) \/ SendFails(r) \/ ReadSent(r)
    BY <1>1, <1>3, <1>6, SamePaid, QuietStep
    DEF InsertFails, SendFails, ReadSent, tables, history
<1>7. QED
    BY <1>4, <1>5, <1>6

LEMMA SetStatusKeepsPaid ==
    ASSUME TablesOK, NEW t \in TaskIds, NEW s \in Statuses, NEW from,
           SetStatus(t, s, from), "Paid" \notin from \/ s = "Paid",
           overwritten' = overwritten
    PROVE  TasksStayPaid
<1>1. \A i \in InvoiceIds : \A u \in invoices[i].tasks : u \in TaskIds
    BY DEF TablesOK, Invoice
<1>2. QED
    BY <1>1, StatusSet DEF TasksStayPaid

LEMMA PayLinked ==
    ASSUME Base, PayInv, NEW r \in Requests, NEW t \in req[r].left,
           MarkInvoiced(r, t) \/ RevertToDone(r, t) \/ MarkTaskSent(r, t)
    PROVE  PayInv'
<1>0. TypeOK /\ TablesOK /\ t \in TaskIds
    BY TypeParts DEF Base, TypeOK, Request
<1>1. /\ UNCHANGED <<invoices, lastInvoice, overwritten, disturbed>>
      /\ req[r].pc \in {"markInvoiced", "revert", "sentTasks"}
    BY DEF MarkInvoiced, RevertToDone, MarkTaskSent, At, history
<1>2. OnlyMoves(r) /\ req'[r].pc \in {"idle", req[r].pc}
    BY <1>0, TaskMoves, IdleIsRequest DEF Returns, GoesOn
<1>3. \A q \in Requests :
         req[q].pc \in Pays \/ req'[q].pc \in Pays => req'[q] = req[q]
    BY <1>1, <1>2 DEF OnlyMoves, Pays
<1>4. TasksStayPaid
    <2>1. /\ {"Invoiced", "Done", "Sent"} \subseteq Statuses
          /\ "Paid" \notin NotPaid /\ "Paid" \notin {"Done"}
          /\ "Paid" \notin {"Invoiced"}
        BY DEF Statuses, NotPaid
    <2>2. QED
        BY <1>0, <1>1, <2>1, SetStatusKeepsPaid
        DEF MarkInvoiced, RevertToDone, MarkTaskSent
<1>5. QED
    BY <1>1, <1>3, <1>4, QuietStep


(* An invoice is made, deleted or marked as sent: payments are left alone. *)
LEMMA RowStep ==
    ASSUME Base, PayInv, NEW i \in InvoiceIds,
           tasks' = tasks, overwritten' = overwritten,
           disturbed' = disturbed, invoices' \in [InvoiceIds -> Invoice],
           \A j \in InvoiceIds \ {i} : invoices'[j] = invoices[j],
           \A r \in Requests :
              req[r].pc \in Pays \/ req'[r].pc \in Pays => req'[r] = req[r],
           \/ invoices'[i] = NoInvoice /\ lastInvoice' = lastInvoice
           \/ /\ i = lastInvoice + 1 /\ lastInvoice' = i
              /\ invoices'[i].status = "Draft" /\ invoices'[i].paid = 0
              /\ invoices'[i].balance = invoices'[i].total
           \/ /\ InvoiceExists(i) /\ lastInvoice' = lastInvoice
              /\ invoices'[i].status = "Sent"
              /\ invoices'[i].total = invoices[i].total
              /\ invoices'[i].paid = invoices[i].paid
              /\ invoices'[i].balance = invoices[i].balance
              /\ invoices'[i].tasks = invoices[i].tasks
    PROVE  PayInv'
<1> DEFINE x == invoices[i]
           y == invoices'[i]
<1>1. /\ lastInvoice \in Nat /\ \A j \in InvoiceIds : j \in Nat
      /\ \A r \in Requests : req[r].pc \in Pays => req[r].inv \in InvoiceIds
    BY InvoicingAssumption DEF Base, TypeOK, InvoiceIds, Fits, Pays, Selling
<1>2. /\ x.total \in Nat /\ x.paid \in Nat /\ x.balance \in Nat
      /\ y.total \in Nat /\ y.paid \in Nat /\ y.balance \in Nat
    BY DEF Base, TypeOK, Invoice
<1>3. /\ NoInvoice.status = "none" /\ NoInvoice.tasks = {}
      /\ NoInvoice.total = 0 /\ NoInvoice.paid = 0 /\ NoInvoice.balance = 0
    BY DEF NoInvoice
<1>4. IdsOK'
    <2>1. \A j \in InvoiceIds : invoices'[j].status = "none" =>
             invoices'[j] = NoInvoice
        BY DEF PayInv, IdsOK, InvoiceExists
    <2>2. \A j \in InvoiceIds : invoices'[j].status # "none" =>
             j <= lastInvoice'
        BY <1>1, <1>3 DEF PayInv, IdsOK, InvoiceExists
    <2>3. \A r \in Requests : req'[r].pc \in Pays => req'[r].inv <= lastInvoice'
        BY <1>1 DEF PayInv, IdsOK
    <2>4. QED
        BY <2>1, <2>2, <2>3 DEF IdsOK, InvoiceExists
<1>5. \A r \in Requests, j \in InvoiceIds : Paying(r, j)' <=> Paying(r, j)
    BY DEF Paying, Pays
<1>6. OnePayer'
    BY <1>5 DEF PayInv, OnePayer
<1>7. NeverUnderstated'
    <2>1. y.balance + y.paid >= y.total /\ y.status # "Paid"
        BY <1>2, <1>3 DEF PayInv, NeverUnderstated
    <2>2. QED
        BY <2>1 DEF PayInv, NeverUnderstated
<1>8. PaidInvoicePaidTasks'
    BY <1>3 DEF PayInv, PaidInvoicePaidTasks
<1>9. BalanceExact'
    <2>1. \/ y.balance = BalanceDue(y)
          \/ /\ y.balance = x.balance /\ y.total = x.total /\ y.paid = x.paid
        BY <1>2, <1>3 DEF BalanceDue
    <2>2. \/ y.balance = BalanceDue(y) \/ i \in disturbed
          \/ \E r \in Requests : Paying(r, i)
        BY <2>1 DEF PayInv, BalanceExact, BalanceDue
    <2>3. QED
        BY <1>5, <2>2 DEF PayInv, BalanceExact
<1>10. ASSUME NEW r \in Requests, req'[r].pc \in Pays PROVE Carried(r)'
    <2>1. req'[r] = req[r] /\ Carried(r) /\ req[r].inv \in InvoiceIds
        BY <1>1, <1>10 DEF PayInv
    <2>2. CASE req[r].inv # i
        <3>1. invoices'[req[r].inv] = invoices[req[r].inv]
            BY <2>1, <2>2
        <3>2. QED
            BY <2>1, <3>1 DEF Carried, Covers, PaidSoFar, Exact, InvoiceExists
    <2>3. CASE req[r].inv = i
        <3>1. i <= lastInvoice
            BY <1>10, <2>1, <2>3 DEF PayInv, IdsOK
        <3>2. \/ y = NoInvoice
              \/ /\ InvoiceExists(i)
                 /\ y.total = x.total /\ y.paid = x.paid /\ y.tasks = x.tasks
            BY <1>1, <3>1
        <3>3. BalanceDue(y) = BalanceDue(x) \/ y = NoInvoice
            BY <3>2 DEF BalanceDue
        <3>4. FullyPaid(y) = FullyPaid(x) \/ y = NoInvoice
            BY <3>2 DEF FullyPaid
        <3>5. QED
            BY <1>3, <2>1, <2>3, <3>2, <3>3, <3>4
            DEF Carried, Covers, PaidSoFar, Exact, InvoiceExists
    <2>4. QED
        BY <2>2, <2>3
<1>11. ASSUME NEW r \in Requests PROVE Carried(r)'
    BY <1>10 DEF Carried, Covers, PaidSoFar, Exact, Pays, HasReadIt
<1>12. QED
    BY <1>4, <1>6, <1>7, <1>8, <1>9, <1>11 DEF PayInv

LEMMA PayRows ==
    ASSUME Base, Base', PayInv, NEW r \in Requests,
           \/ CreateInvoice(r) \/ MarkInvoiceSent(r)
           \/ \E i \in InvoiceIds : DeleteInvoice(r, i)
    PROVE  PayInv'
<1>0. TypeOK /\ invoices' \in [InvoiceIds -> Invoice] /\ req[r] \in Request
    BY DEF Base, TypeOK
<1>1. /\ tasks' = tasks /\ overwritten' = overwritten
      /\ disturbed' = disturbed /\ req[r].pc \in {"insertInvoice", "mail", "idle"}
    BY DEF CreateInvoice, MarkInvoiceSent, DeleteInvoice, At, history
<1>2. OnlyMoves(r) /\ req'[r].pc \in {"markInvoiced", "sentRead", "revert"}
    BY <1>0, CreateInvoiceMoves, MarkSentMoves, DeleteInvoiceMoves DEF Keeps
<1>3. \A q \in Requests :
         req[q].pc \in Pays \/ req'[q].pc \in Pays => req'[q] = req[q]
    BY <1>1, <1>2 DEF OnlyMoves, Pays
<1>4. CASE CreateInvoice(r)
    <2>1. lastInvoice + 1 \in InvoiceIds
        <3>1. lastInvoice < MaxInvoice
            BY <1>4 DEF Base, Fits, CreateInvoice, At
        <3>2. QED
            BY <1>0, <3>1, InvoicingAssumption DEF TypeOK, InvoiceIds
    <2>2. /\ invoices'[lastInvoice + 1].status = "Draft"
          /\ invoices'[lastInvoice + 1].paid = 0
          /\ invoices'[lastInvoice + 1].balance = invoices'[lastInvoice + 1].total
          /\ \A j \in InvoiceIds \ {lastInvoice + 1} : invoices'[j] = invoices[j]
          /\ lastInvoice' = lastInvoice + 1
        BY <1>0, <1>4, <2>1 DEF CreateInvoice, TypeOK
    <2>3. QED
        BY <1>0, <1>1, <1>3, <2>1, <2>2, RowStep
<1>5. CASE MarkInvoiceSent(r)
    <2>1. req[r].inv \in InvoiceIds
        BY <1>5 DEF Base, Fits, MarkInvoiceSent, At, Selling
    <2>2. CASE InvoiceExists(req[r].inv)
        <3>1. /\ lastInvoice' = lastInvoice
              /\ invoices' = [invoices EXCEPT ![req[r].inv].status = "Sent"]
            BY <1>5, <2>2 DEF MarkInvoiceSent
        <3>2. invoices[req[r].inv] \in Invoice
            BY <1>0, <2>1 DEF TypeOK
        <3>3. /\ invoices'[req[r].inv].status = "Sent"
              /\ invoices'[req[r].inv].total = invoices[req[r].inv].total
              /\ invoices'[req[r].inv].paid = invoices[req[r].inv].paid
              /\ invoices'[req[r].inv].balance = invoices[req[r].inv].balance
              /\ invoices'[req[r].inv].tasks = invoices[req[r].inv].tasks
              /\ \A j \in InvoiceIds \ {req[r].inv} : invoices'[j] = invoices[j]
            BY <1>0, <2>1, <3>1, <3>2 DEF TypeOK, Invoice
        <3>4. QED
            BY <1>0, <1>1, <1>3, <2>1, <2>2, <3>1, <3>3, RowStep
    <2>3. CASE ~InvoiceExists(req[r].inv)
        BY <1>1, <1>3, <1>5, <2>3, SamePaid, QuietStep DEF MarkInvoiceSent
    <2>4. QED
        BY <2>2, <2>3
<1>6. ASSUME NEW i \in InvoiceIds, DeleteInvoice(r, i) PROVE PayInv'
    <2>1. /\ lastInvoice' = lastInvoice /\ invoices'[i] = NoInvoice
          /\ \A j \in InvoiceIds \ {i} : invoices'[j] = invoices[j]
        BY <1>0, <1>6 DEF DeleteInvoice, TypeOK
    <2>2. QED
        BY <1>0, <1>1, <1>3, <2>1, RowStep
<1>7. QED
    BY <1>4, <1>5, <1>6


(* What is true of a payment under way when it is not the one that moves.  *)
LEMMA OthersCarry ==
    ASSUME Base, Base', PayInv, NEW q \in Requests, req'[q] = req[q],
           req[q].pc \in Pays => req[q].inv \in InvoiceIds,
           disturbed \subseteq disturbed', overwritten' = overwritten,
           \A t \in TaskIds : tasks[t] = "Paid" => tasks'[t] = "Paid",
           \A i \in InvoiceIds :
              Paying(q, i) =>
                 /\ invoices'[i].status = "none" <=> ~InvoiceExists(i)
                 /\ invoices'[i].total = invoices[i].total
                 /\ invoices'[i].tasks = invoices[i].tasks
                 /\ invoices'[i].paid >= invoices[i].paid
                 /\ \/ invoices'[i].paid = invoices[i].paid
                    \/ i \in disturbed'
    PROVE  Carried(q)'
<1> DEFINE i == req[q].inv
<1>1. CASE req[q].pc \notin HasReadIt
    BY <1>1 DEF Carried, Covers, PaidSoFar, Exact
<1>2. CASE req[q].pc \in HasReadIt
    <2>1. i \in InvoiceIds /\ Paying(q, i) /\ Carried(q)
        BY <1>2 DEF HasReadIt, Pays, Paying, PayInv
    <2>2. invoices[i].tasks \subseteq TaskIds
        BY <2>1 DEF Base, TypeOK, Invoice
    <2>3. PaidSoFar(q)'
        BY <1>2, <2>1, <2>2 DEF Carried, PaidSoFar
    <2>4. /\ invoices[i].total \in Nat /\ invoices[i].paid \in Nat
          /\ req[q].total \in Nat
        BY <2>1 DEF Base, TypeOK, Invoice, Request
    <2>5. CASE invoices'[i].paid = invoices[i].paid
        <3>1. /\ FullyPaid(invoices'[i]) = FullyPaid(invoices[i])
              /\ BalanceDue(invoices'[i]) = BalanceDue(invoices[i])
            BY <2>1, <2>5 DEF FullyPaid, BalanceDue
        <3>2. QED
            BY <2>1, <2>3, <2>5, <3>1 DEF Carried, Covers, Exact, InvoiceExists
    <2>6. CASE invoices'[i].paid # invoices[i].paid
        <3>1. i \in disturbed' /\ invoices'[i].paid \in Nat
                /\ invoices'[i].paid >= invoices[i].paid
            BY <2>1, <2>6 DEF Base, TypeOK, Invoice
        <3>2. QED
            BY <2>1, <2>3, <2>4, <3>1 DEF Carried, Covers, Exact, InvoiceExists, FullyPaid
    <2>7. QED
        BY <2>5, <2>6
<1>3. QED
    BY <1>1, <1>2


LEMMA PayAdd ==
    ASSUME Base, Base', PayInv, NEW r \in Requests, NEW i \in InvoiceIds,
           NEW a \in Amounts, AddInvoicePayment(r, i, a)
    PROVE  PayInv'
<1> DEFINE x == invoices[i]
           y == invoices'[i]
<1>0. /\ TypeOK /\ x \in Invoice /\ a \in Nat /\ a > 0
      /\ \A q \in Requests : req[q].pc \in Pays => req[q].inv \in InvoiceIds
    BY InvoicingAssumption DEF Base, TypeOK, Fits, Pays, Selling
<1>1. /\ OnlyMoves(r) /\ req'[r].pc = "payRead" /\ req'[r].inv = i
      /\ req[r].pc = "idle"
    BY <1>0, AddPaymentMoves DEF AddInvoicePayment, At
<1>2. /\ tasks' = tasks /\ overwritten' = overwritten
      /\ lastInvoice' = lastInvoice /\ i <= lastInvoice
      /\ disturbed \subseteq disturbed'
      /\ \A j \in disturbed' \ disturbed : j = i
      /\ (\E q \in Requests : Paying(q, i)) => i \in disturbed'
    BY DEF AddInvoicePayment
<1>3. /\ \A j \in InvoiceIds \ {i} : invoices'[j] = invoices[j]
      /\ y.total = x.total /\ y.balance = x.balance
      /\ y.status = x.status /\ y.tasks = x.tasks
      /\ y.paid = x.paid \/ (y.paid = x.paid + a /\ InvoiceExists(i))
      /\ ~InvoiceExists(i) => y = x
    <2>1. CASE InvoiceExists(i)
        BY <1>0, <2>1, AddedParts DEF AddInvoicePayment, TypeOK
    <2>2. CASE ~InvoiceExists(i)
        BY <2>2 DEF AddInvoicePayment
    <2>3. QED
        BY <2>1, <2>2
<1>4. x.paid \in Nat /\ y.paid \in Nat /\ y.paid >= x.paid
      /\ x.total \in Nat /\ x.balance \in Nat
    BY <1>0, <1>3 DEF Invoice
<1>5. IdsOK'
    BY <1>1, <1>2, <1>3 DEF PayInv, IdsOK, InvoiceExists, OnlyMoves
<1>6. \A q \in Requests, j \in InvoiceIds :
         Paying(q, j)' <=> Paying(q, j) \/ (q = r /\ j = i)
    BY <1>1 DEF Paying, OnlyMoves
<1>7. OnePayer'
    BY <1>2, <1>6 DEF PayInv, OnePayer
<1>8. NeverUnderstated'
    BY <1>3, <1>4 DEF PayInv, NeverUnderstated
<1>9. PaidInvoicePaidTasks'
    BY <1>2, <1>3 DEF PayInv, PaidInvoicePaidTasks
<1>10. BalanceExact'
    <2> SUFFICES ASSUME NEW j \in InvoiceIds \ disturbed'
                 PROVE  \/ invoices'[j].balance = BalanceDue(invoices'[j])
                        \/ \E q \in Requests : Paying(q, j)'
        BY DEF BalanceExact, BalanceDue
    <2>1. CASE j = i
        BY <1>6, <2>1
    <2>2. CASE j # i
        BY <1>2, <1>3, <1>6, <2>2 DEF PayInv, BalanceExact
    <2>3. QED
        BY <2>1, <2>2
<1>11. ASSUME NEW q \in Requests PROVE Carried(q)'
    <2>1. CASE q = r
        BY <1>1, <2>1 DEF Carried, Covers, PaidSoFar, Exact, HasReadIt
    <2>2. CASE q # r
        <3>1. req'[q] = req[q]
            BY <1>1, <2>2 DEF OnlyMoves
        <3>2. \A j \in InvoiceIds :
                 Paying(q, j) =>
                    /\ invoices'[j].status = "none" <=> ~InvoiceExists(j)
                    /\ invoices'[j].total = invoices[j].total
                    /\ invoices'[j].tasks = invoices[j].tasks
                    /\ invoices'[j].paid >= invoices[j].paid
                    /\ \/ invoices'[j].paid = invoices[j].paid
                       \/ j \in disturbed'
            <4>1. \A j \in InvoiceIds : invoices[j].paid \in Nat
                BY <1>0 DEF TypeOK, Invoice
            <4>2. QED
                BY <1>2, <1>3, <1>4, <4>1 DEF InvoiceExists
        <3>3. QED
            BY <1>0, <1>2, <3>1, <3>2, OthersCarry
    <2>3. QED
        BY <2>1, <2>2
<1>12. QED
    BY <1>5, <1>7, <1>8, <1>9, <1>10, <1>11 DEF PayInv

LEMMA PayRead ==
    ASSUME Base, Base', PayInv, NEW r \in Requests, ReadPaid(r)
    PROVE  PayInv'
<1> DEFINE i == req[r].inv
           x == invoices[i]
<1>0. /\ TypeOK /\ i \in InvoiceIds /\ x \in Invoice /\ Paying(r, i)
      /\ \A q \in Requests : req[q].pc \in Pays => req[q].inv \in InvoiceIds
    BY DEF Base, TypeOK, Fits, Pays, Selling, ReadPaid, At, Paying
<1>1. UNCHANGED <<tasks, invoices, lastInvoice, overwritten, disturbed>>
    BY DEF ReadPaid, tables, history
<1>2. \/ Returns(r) /\ ~InvoiceExists(i)
      \/ OnlyMoves(r) /\ HasRead(r) /\ InvoiceExists(i)
    BY ReadPaidMoves
<1>3. OnlyMoves(r) /\ (req'[r].pc \in Pays => req'[r].inv = i)
    BY <1>2, IdleIsRequest DEF Returns, HasRead, Pays
<1>4. IdsOK'
    <2>1. i <= lastInvoice
        BY <1>0 DEF PayInv, IdsOK, Paying, Pays
    <2>2. QED
        BY <1>1, <1>3, <2>1 DEF PayInv, IdsOK, InvoiceExists, OnlyMoves
<1>5. \A q \in Requests, j \in InvoiceIds : Paying(q, j)' => Paying(q, j)
    BY <1>0, <1>3 DEF Paying, OnlyMoves, Pays
<1>6. OnePayer'
    BY <1>1, <1>5 DEF PayInv, OnePayer
<1>7. NeverUnderstated' /\ PaidInvoicePaidTasks'
    BY <1>1 DEF PayInv, NeverUnderstated, PaidInvoicePaidTasks
<1>8. BalanceExact'
    <2>1. CASE Returns(r) /\ ~InvoiceExists(i)
        <3>1. invoices[i] = NoInvoice
            BY <1>0, <2>1 DEF PayInv, IdsOK
        <3>2. invoices[i].balance = BalanceDue(invoices[i])
            BY <3>1 DEF NoInvoice, BalanceDue
        <3>3. \A q \in Requests, j \in InvoiceIds :
                 Paying(q, j) => j = i \/ Paying(q, j)'
            BY <1>3 DEF Paying, OnlyMoves
        <3>4. QED
            BY <1>1, <3>2, <3>3 DEF PayInv, BalanceExact, BalanceDue
    <2>2. CASE OnlyMoves(r) /\ HasRead(r) /\ InvoiceExists(i)
        <3>1. \A q \in Requests, j \in InvoiceIds : Paying(q, j) => Paying(q, j)'
            BY <1>0, <2>2 DEF Paying, OnlyMoves, HasRead
        <3>2. QED
            BY <1>1, <3>1 DEF PayInv, BalanceExact, BalanceDue
    <2>3. QED
        BY <1>2, <2>1, <2>2
<1>9. ASSUME NEW q \in Requests PROVE Carried(q)'
    <2>1. CASE q = r
        <3>1. CASE Returns(r)
            BY <2>1, <3>1, IdleIsRequest
            DEF Carried, Covers, PaidSoFar, Exact, HasReadIt, Returns
        <3>2. CASE OnlyMoves(r) /\ HasRead(r) /\ InvoiceExists(i)
            <4>1. BalanceDue(x) + x.paid >= x.total
                BY <1>0 DEF BalanceDue, Invoice
            <4>2. Covers(r)' /\ Exact(r)'
                BY <1>1, <3>2, <4>1
                DEF Covers, Exact, HasRead, FullyPaid, BalanceDue, InvoiceExists
            <4>3. PaidSoFar(r)'
                BY <1>1, <3>2 DEF PaidSoFar, HasRead
            <4>4. QED
                BY <2>1, <4>2, <4>3 DEF Carried
        <3>3. QED
            BY <1>2, <3>1, <3>2
    <2>2. CASE q # r
        <3>1. req'[q] = req[q]
            BY <1>3, <2>2 DEF OnlyMoves
        <3>2. \A j \in InvoiceIds : invoices[j].paid \in Nat
            BY <1>0 DEF TypeOK, Invoice
        <3>3. QED
            BY <1>0, <1>1, <3>1, <3>2, OthersCarry DEF InvoiceExists
    <2>3. QED
        BY <2>1, <2>2
<1>10. QED
    BY <1>4, <1>6, <1>7, <1>8, <1>9 DEF PayInv


LEMMA PayTask ==
    ASSUME Base, Base', LinkInv, PayInv, NEW r \in Requests, NEW t \in req[r].left,
           MarkTaskPaid(r, t)
    PROVE  PayInv'
<1> DEFINE i == req[r].inv
           x == req[r]
           y == req'[r]
<1>0. /\ TypeOK /\ TablesOK /\ i \in InvoiceIds /\ t \in TaskIds
      /\ x.pc = "payTasks"
      /\ \A q \in Requests : req[q].pc \in Pays => req[q].inv \in InvoiceIds
    BY TypeParts
    DEF Base, TypeOK, Fits, Pays, Selling, MarkTaskPaid, At, Request
<1>1. UNCHANGED <<invoices, lastInvoice, overwritten, disturbed>>
    BY DEF MarkTaskPaid, history
<1>2. /\ OnlyMoves(r) /\ y.inv = i /\ y.total = x.total /\ y.flag = x.flag
      /\ y.left = x.left \ {t}
      /\ y.pc = IF x.left = {t} THEN "paySave" ELSE "payTasks"
    BY <1>0, TaskMoves DEF GoesOn
<1>3. /\ \A u \in TaskIds : tasks[u] = "Paid" => tasks'[u] = "Paid"
      /\ x.flag => tasks'[t] \in {"Paid", "none"}
    <2>1. CASE x.flag
        <3>1. SetStatus(t, "Paid", Statuses)
            BY <2>1 DEF MarkTaskPaid
        <3>2. "Paid" \in Statuses /\ tasks[t] \in Statuses \cup {"none"}
            BY <1>0 DEF Statuses, TypeOK
        <3>3. QED
            BY <1>0, <3>1, <3>2, StatusSet
    <2>2. CASE ~x.flag
        <3>1. SetStatus(t, "Sent", NotPaid)
            BY <2>2 DEF MarkTaskPaid
        <3>2. "Sent" \in Statuses /\ "Paid" \notin NotPaid
            BY DEF Statuses, NotPaid
        <3>3. QED
            BY <1>0, <2>2, <3>1, <3>2, StatusSet
    <2>3. QED
        BY <2>1, <2>2
<1>4. IdsOK'
    BY <1>0, <1>1, <1>2 DEF PayInv, IdsOK, InvoiceExists, OnlyMoves, Pays
<1>5. \A q \in Requests, j \in InvoiceIds : Paying(q, j)' <=> Paying(q, j)
    BY <1>0, <1>2 DEF Paying, OnlyMoves
<1>6. OnePayer' /\ BalanceExact'
    BY <1>1, <1>5 DEF PayInv, OnePayer, BalanceExact
<1>7. NeverUnderstated'
    BY <1>1 DEF PayInv, NeverUnderstated
<1>8. PaidInvoicePaidTasks'
    <2>1. \A j \in InvoiceIds : invoices[j].tasks \subseteq TaskIds
        BY <1>0 DEF TypeOK, Invoice
    <2>2. QED
        BY <1>1, <1>3, <2>1 DEF PayInv, PaidInvoicePaidTasks
<1>9. ASSUME NEW q \in Requests PROVE Carried(q)'
    <2>1. CASE q = r
        <3>1. Carried(r)
            BY DEF PayInv
        <3>2. Covers(r)' /\ Exact(r)'
            BY <1>0, <1>1, <1>2, <3>1
            DEF Carried, Covers, Exact, HasReadIt, InvoiceExists
        <3>3. ASSUME x.flag, NEW u \in invoices[i].tasks,
                     u \notin x.left \ {t}, u \notin overwritten
              PROVE  tasks'[u] = "Paid"
            <4>1. u \in TaskIds
                BY <1>0 DEF TypeOK, Invoice
            <4>2. CASE u = t
                <5>1. TaskExists(t)
                    BY <1>0, <3>3, <4>2 DEF LinkInv, LinkedTasksExist
                <5>2. tasks'[t] # "none"
                    BY <1>0, <3>3, <5>1, StatusSet DEF MarkTaskPaid, SetStatus,
                       TaskExists, TypeOK
                <5>3. QED
                    BY <1>3, <3>3, <4>2, <5>2
            <4>3. CASE u # t
                <5>1. tasks[u] = "Paid"
                    BY <1>0, <3>1, <3>3, <4>3
                    DEF Carried, PaidSoFar, HasReadIt
                <5>2. QED
                    BY <1>3, <4>1, <5>1
            <4>4. QED
                BY <4>2, <4>3
        <3>4. y.pc = "paySave" => y.left = {}
            BY <1>2
        <3>5. PaidSoFar(r)'
            BY <1>1, <1>2, <3>3, <3>4 DEF PaidSoFar
        <3>6. QED
            BY <2>1, <3>2, <3>5 DEF Carried
    <2>2. CASE q # r
        <3>1. req'[q] = req[q]
            BY <1>2, <2>2 DEF OnlyMoves
        <3>2. \A j \in InvoiceIds : invoices[j].paid \in Nat
            BY <1>0 DEF TypeOK, Invoice
        <3>3. QED
            BY <1>0, <1>1, <1>3, <3>1, <3>2, OthersCarry DEF InvoiceExists
    <2>3. QED
        BY <2>1, <2>2
<1>10. QED
    BY <1>4, <1>6, <1>7, <1>8, <1>9 DEF PayInv

LEMMA PaySave ==
    ASSUME Base, Base', PayInv, NEW r \in Requests, SavePayment(r)
    PROVE  PayInv'
<1> DEFINE i == req[r].inv
           x == invoices[i]
           y == invoices'[i]
<1>0. /\ TypeOK /\ i \in InvoiceIds /\ x \in Invoice /\ req[r] \in Request
      /\ req[r].pc = "paySave" /\ Paying(r, i) /\ Carried(r)
      /\ \A q \in Requests : req[q].pc \in Pays => req[q].inv \in InvoiceIds
    BY DEF Base, TypeOK, Fits, Pays, Selling, SavePayment, At, Paying, PayInv
<1>1. UNCHANGED <<tasks, lastInvoice, overwritten, disturbed>>
    BY DEF SavePayment, history
<1>2. OnlyMoves(r) /\ req'[r].pc = "idle"
    BY <1>0, ReturnMoves, IdleIsRequest DEF SavePayment, Returns
<1>3. /\ \A j \in InvoiceIds \ {i} : invoices'[j] = invoices[j]
      /\ y.total = x.total /\ y.paid = x.paid /\ y.tasks = x.tasks
      /\ y.status = "none" <=> x.status = "none"
      /\ ~InvoiceExists(i) => y = x
      /\ InvoiceExists(i) => /\ y.balance = req[r].total
                             /\ y.status = IF req[r].flag THEN "Paid" ELSE "Sent"
    <2>1. CASE InvoiceExists(i)
        <3>1. invoices' = [invoices EXCEPT ![i] =
                             Saved(x, req[r].total, req[r].flag)]
            BY <2>1 DEF SavePayment
        <3>2. y = Saved(x, req[r].total, req[r].flag)
            BY <1>0, <3>1 DEF TypeOK
        <3>3. req[r].total \in Nat /\ req[r].flag \in BOOLEAN
            BY <1>0 DEF Request
        <3>4. QED
            BY <1>0, <2>1, <3>1, <3>2, <3>3, SavedParts DEF TypeOK, InvoiceExists
    <2>2. CASE ~InvoiceExists(i)
        BY <2>2 DEF SavePayment
    <2>3. QED
        BY <2>1, <2>2
<1>4. IdsOK'
    BY <1>1, <1>2, <1>3 DEF PayInv, IdsOK, InvoiceExists, OnlyMoves, Pays
<1>5. \A q \in Requests, j \in InvoiceIds :
         Paying(q, j)' <=> Paying(q, j) /\ q # r
    BY <1>2 DEF Paying, OnlyMoves
<1>6. OnePayer'
    BY <1>1, <1>5 DEF PayInv, OnePayer
<1>7. NeverUnderstated'
    <2>1. /\ y.balance + y.paid >= y.total
          /\ y.status = "Paid" => y.paid >= y.total /\ y.total > 0
        <3>1. CASE InvoiceExists(i)
            BY <1>0, <1>3, <3>1 DEF Carried, Covers, HasReadIt, FullyPaid
        <3>2. CASE ~InvoiceExists(i)
            BY <1>0, <1>3, <3>2 DEF PayInv, NeverUnderstated
        <3>3. QED
            BY <3>1, <3>2
    <2>2. QED
        BY <1>3, <2>1 DEF PayInv, NeverUnderstated
<1>8. PaidInvoicePaidTasks'
    <2>1. y.status = "Paid" => \A t \in y.tasks \ overwritten : tasks[t] = "Paid"
        <3>1. CASE InvoiceExists(i)
            BY <1>0, <1>3, <3>1 DEF Carried, PaidSoFar, HasReadIt
        <3>2. CASE ~InvoiceExists(i)
            BY <1>0, <1>3, <3>2 DEF InvoiceExists
        <3>3. QED
            BY <3>1, <3>2
    <2>2. QED
        BY <1>1, <1>3, <2>1 DEF PayInv, PaidInvoicePaidTasks
<1>9. BalanceExact'
    <2> SUFFICES ASSUME NEW j \in InvoiceIds \ disturbed
                 PROVE  \/ invoices'[j].balance = BalanceDue(invoices'[j])
                        \/ \E q \in Requests : Paying(q, j)'
        BY <1>1 DEF BalanceExact, BalanceDue
    <2>1. CASE j = i /\ InvoiceExists(i)
        <3>1. req[r].total = BalanceDue(x)
            BY <1>0, <2>1 DEF Carried, Exact, HasReadIt
        <3>2. BalanceDue(y) = BalanceDue(x)
            BY <1>3 DEF BalanceDue
        <3>3. QED
            BY <1>3, <2>1, <3>1, <3>2
    <2>2. CASE j = i /\ ~InvoiceExists(i)
        <3>1. y = NoInvoice
            BY <1>0, <1>3, <2>2 DEF PayInv, IdsOK
        <3>2. QED
            BY <2>2, <3>1 DEF NoInvoice, BalanceDue
    <2>3. CASE j # i
        <3>1. \A q \in Requests : Paying(q, j) => q # r
            BY <1>0, <2>3 DEF Paying
        <3>2. QED
            BY <1>3, <1>5, <2>3, <3>1 DEF PayInv, BalanceExact
    <2>4. QED
        BY <2>1, <2>2, <2>3
<1>10. ASSUME NEW q \in Requests PROVE Carried(q)'
    <2>1. CASE q = r
        BY <1>2, <2>1 DEF Carried, Covers, PaidSoFar, Exact, HasReadIt
    <2>2. CASE q # r
        <3>1. req'[q] = req[q]
            BY <1>2, <2>2 DEF OnlyMoves
        <3>2. \A j \in InvoiceIds : invoices[j].paid \in Nat
            BY <1>0 DEF TypeOK, Invoice
        <3>3. \A j \in InvoiceIds :
                 /\ invoices'[j].status = "none" <=> ~InvoiceExists(j)
                 /\ invoices'[j].total = invoices[j].total
                 /\ invoices'[j].tasks = invoices[j].tasks
                 /\ invoices'[j].paid = invoices[j].paid
            BY <1>3 DEF InvoiceExists
        <3>4. QED
            BY <1>0, <1>1, <3>1, <3>2, <3>3, OthersCarry
    <2>3. QED
        BY <2>1, <2>2
<1>11. QED
    BY <1>4, <1>6, <1>7, <1>8, <1>9, <1>10 DEF PayInv


LEMMA PayCrash == ASSUME Base, PayInv, Crash PROVE PayInv'
<1>1. \A r \in Requests : req'[r].pc = "idle"
    BY IdleIsRequest DEF Crash
<1>2. /\ UNCHANGED <<tasks, invoices, lastInvoice, overwritten>>
      /\ disturbed' = disturbed \cup
            {i \in InvoiceIds : \E r \in Requests : Paying(r, i)}
    BY DEF Crash
<1>3. IdsOK' /\ OnePayer' /\ \A r \in Requests : Carried(r)'
    BY <1>1, <1>2 DEF PayInv, IdsOK, InvoiceExists, OnePayer, Paying, Carried,
        Covers, PaidSoFar, Exact, Pays, HasReadIt
<1>4. NeverUnderstated' /\ PaidInvoicePaidTasks'
    BY <1>2 DEF PayInv, NeverUnderstated, PaidInvoicePaidTasks
<1>5. BalanceExact'
    BY <1>2 DEF PayInv, BalanceExact, BalanceDue
<1>6. QED
    BY <1>3, <1>4, <1>5 DEF PayInv

LEMMA PayNext == Base /\ Base' /\ LinkInv /\ PayInv /\ [Next]_vars => PayInv'
<1> SUFFICES ASSUME Base, Base', LinkInv, PayInv, [Next]_vars PROVE PayInv'
    OBVIOUS
<1>1. CASE UNCHANGED vars
    BY <1>1, SamePaid, QuietStep DEF vars, tables, history
<1>2. CASE Begin
    BY <1>2, PaySingle, PayBegin, PayRows, PayAdd
    DEF Begin, HandleTasks, HandleExpenses, HandleInvoiceByID,
        HandleInvoicePayment
<1>3. ASSUME NEW r \in Requests, Step(r) PROVE PayInv'
    BY <1>3, PayRows, PayWriteTask, PayRead, PaySave, PayLinked, PayTask
    DEF Step
<1>4. CASE Crash
    BY <1>4, PayCrash
<1>5. QED
    BY <1>1, <1>2, <1>3, <1>4 DEF Next

LEMMA PayAlways == Spec => []PayInv
<1>1. Init => Base /\ LinkInv /\ PayInv
    BY BaseInit, LinkInit, PayInit
<1>2. Base /\ LinkInv /\ PayInv /\ [Next]_vars => Base' /\ LinkInv' /\ PayInv'
    BY BaseNext, LinkNext, PayNext
<1>3. Spec => [](Base /\ LinkInv /\ PayInv)
    BY <1>1, <1>2, PTL DEF Spec
<1>4. QED
    BY <1>3, PTL

(* However payments on an invoice overlap, whatever is deleted meanwhile   *)
(* and wherever the process dies, what is due is never shown too small and *)
(* only a paid invoice is shown as paid (AddInvoicePayment, which holds no *)
(* lock between reading the invoice and writing its balance).              *)
THEOREM NeverTooLittle == Spec => []NeverUnderstated
<1>1. PayInv => NeverUnderstated
    BY DEF PayInv
<1>2. QED
    BY <1>1, PayAlways, PTL

(* Once an invoice is shown as paid its tasks are Paid, or an update has   *)
(* written over them: AddInvoicePayment writes them before the invoice.    *)
THEOREM PaidTasksOfPaidInvoice == Spec => []PaidInvoicePaidTasks
<1>1. PayInv => PaidInvoicePaidTasks
    BY DEF PayInv
<1>2. QED
    BY <1>1, PayAlways, PTL

(* Payments on an invoice that do not overlap and do not die leave the     *)
(* exact balance.                                                          *)
THEOREM BalanceIsExact == Spec => []BalanceExact
<1>1. PayInv => BalanceExact
    BY DEF PayInv
<1>2. QED
    BY <1>1, PayAlways, PTL
=============================================================================
