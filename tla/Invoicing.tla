------------------------------ MODULE Invoicing ------------------------------
(***************************************************************************)
(* Tasks, invoices, payments and expenses (store/store.go,                 *)
(* store/expenses.go and their handlers in api/api.go, api/expenses.go).   *)
(*                                                                         *)
(* Methods that change tasks and expenses, and those that create or delete *)
(* an invoice, hold Store.mu from their first statement to their last.     *)
(* MarkInvoiceSent and AddInvoicePayment do not take it: their statements  *)
(* fall between those of a method that does.  A statement is a step (the   *)
(* pool has one connection); a method whose only statement others can see  *)
(* or disturb is its write is one step.  A transaction surrounds none of   *)
(* them, so the process may die between any two.                           *)
(*                                                                         *)
(* Left out: prices of tasks, whether a customer is active, texts, dates   *)
(* and e-mail addresses.  Amounts are whole numbers and a total is given,  *)
(* not added up from its items.                                            *)
(* A request the code refuses without writing anything is left out unless  *)
(* it had begun.                                                           *)
(***************************************************************************)
EXTENDS Integers, FiniteSets

CONSTANTS
    Requests,       \* HTTP requests in flight at the same time
    Totals,         \* invoice totals
    Amounts,        \* payments
    MaxTask,        \* bound: task ids
    MaxInvoice,     \* bound: invoices ever made
    MaxExpense,     \* bound: expenses
    MaxPaid         \* bound: paid on one invoice

ASSUME InvoicingAssumption ==
    /\ Totals \subseteq Nat /\ Amounts \subseteq Nat \ {0}
    /\ MaxTask \in Nat /\ MaxInvoice \in Nat /\ MaxExpense \in Nat
    /\ MaxPaid \in Nat

TaskIds == 1 .. MaxTask
InvoiceIds == 1 .. MaxInvoice
ExpenseIds == 1 .. MaxExpense

VARIABLES
    tasks,       \* status of each task, "none" when there is no such row
    taskSeq,     \* Store.taskSeq: the last task id given out
    invoices,    \* the invoices table; status "none": no such row
    lastInvoice, \* the last invoice id given out (an id is a time)
    expenses,    \* expense -> its task, 0 when there is no such row
    req,         \* the requests in flight
    overwritten, \* history: tasks that an update wrote over while Paid
    disturbed,   \* history: invoices with overlapping or lost payments
    lost         \* history: those of which a crash lost a payment

tables == <<tasks, taskSeq, invoices, lastInvoice, expenses>>
history == <<overwritten, disturbed, lost>>
vars == <<tables, req, history>>

Statuses == {"Pending", "Done", "Invoiced", "Sent", "Paid"}
Invoice == [status: {"none", "Draft", "Sent", "Paid"},
            tasks: SUBSET TaskIds, total: Nat, paid: Nat, balance: Nat]
NoInvoice == [status |-> "none", tasks |-> {}, total |-> 0,
              paid |-> 0, balance |-> 0]

(* A request: where it is, the task or invoice it works on, the linked     *)
(* tasks it has yet to update, and what it carries to its next write: a    *)
(* row of tasks, or the status and balance of an invoice.                  *)
PCs == {"idle", "putWrite", "deleteTask", "insertInvoice", "markInvoiced",
        "revert", "mail", "sentRead", "sentTasks", "payRead", "payTasks",
        "paySave", "hung"}
Request == [pc: PCs, task: TaskIds \cup {0}, inv: InvoiceIds \cup {0},
            left: SUBSET TaskIds, status: Statuses, total: Nat, flag: BOOLEAN]
Idle == [pc |-> "idle", task |-> 0, inv |-> 0, left |-> {},
         status |-> "Pending", total |-> 0, flag |-> FALSE]

(* The steps at which a request holds Store.mu.                            *)
Holding == {"putWrite", "deleteTask", "insertInvoice", "markInvoiced",
            "revert", "hung"}
MuFree == \A r \in Requests : req[r].pc \notin Holding

(* A method that waits for the connection while it reads the rows of its   *)
(* own query keeps the connection for good.                                *)
Hung == \E r \in Requests : req[r].pc = "hung"

-----------------------------------------------------------------------------
TaskExists(t) == tasks[t] # "none"
InvoiceExists(i) == invoices[i].status # "none"
LinkedTo(t) == {i \in InvoiceIds : t \in invoices[i].tasks}
SpentOn(t) == {e \in ExpenseIds : expenses[e] = t}

(* What a payment does to the row it adds to, and to the row it has read   *)
(* once the tasks are written.                                             *)
Instead(x, amount) == [x EXCEPT !.paid = amount]            \* mutant
Added(x, amount) == [x EXCEPT !.paid = @ + amount]
SavedStatus(x, balance, paid) ==                            \* mutant
    [x EXCEPT !.status = IF paid THEN "Paid" ELSE "Sent"]
Saved(x, balance, paid) ==
    [x EXCEPT !.balance = balance, !.status = IF paid THEN "Paid" ELSE "Sent"]
Subtracted(x) == x.total - x.paid                           \* mutant
BalanceDue(x) == IF x.paid >= x.total THEN 0 ELSE x.total - x.paid
Overpaid(x) == x.paid > x.total /\ x.total > 0             \* mutant
FullyPaid(x) == x.paid >= x.total /\ x.total > 0

(* UPDATE tasks SET status=s WHERE id=t AND status IN from                 *)
SetStatus(t, s, from) ==
    tasks' = IF tasks[t] \in from THEN [tasks EXCEPT ![t] = s] ELSE tasks
AnyStatus == Statuses                                       \* mutant
NotPaid == Statuses \ {"Paid"}

(* A payment on invoice i between its first statement and its last.        *)
Paying(r, i) == /\ req[r].pc \in {"payRead", "payTasks", "paySave"}
                /\ req[r].inv = i

At(r, pc) == req[r].pc = pc
Go(r, x) == req' = [req EXCEPT ![r] = x]
Return(r) == Go(r, Idle)

Init ==
    /\ tasks = [t \in TaskIds |-> "none"]
    /\ taskSeq = 0
    /\ invoices = [i \in InvoiceIds |-> NoInvoice]
    /\ lastInvoice = 0
    /\ expenses = [e \in ExpenseIds |-> 0]
    /\ req = [r \in Requests |-> Idle]
    /\ overwritten = {}
    /\ disturbed = {}
    /\ lost = {}

-----------------------------------------------------------------------------
(* POST: Pending, or Done at once.                                         *)
CreateTask(status) ==
    /\ MuFree
    /\ taskSeq < MaxTask
    /\ taskSeq' = taskSeq + 1
    /\ tasks' = [tasks EXCEPT ![taskSeq + 1] = status]
    /\ UNCHANGED <<invoices, lastInvoice, expenses, req, history>>

(* PUT: the page sends the status of its form, Pending or Done, and with   *)
(* invoiceEdit the Done of a task it offered for an invoice; it may be out *)
(* of date.  The server would store any other status sent to it as well:   *)
(* that no page sends one is assumed.  UpdateTask takes the lock, reads    *)
(* the row and refuses or goes on.                                         *)
Locked(status, edit) ==
    status = "Paid" \/ (status \in {"Done", "Sent"} /\ ~edit)

UpdateTask(r, t, status, edit) ==
    /\ At(r, "idle")
    /\ MuFree
    /\ TaskExists(t)
    /\ edit => status = "Done"
    /\ ~Locked(tasks[t], edit)
    /\ Go(r, [Idle EXCEPT !.pc = "putWrite", !.task = t, !.status =
           IF tasks[t] \in {"Done", "Sent"} THEN tasks[t] ELSE status])
    /\ UNCHANGED <<tables, history>>

(* updateTaskCore writes the whole row, whatever became of it meanwhile.   *)
UpdateTaskCore(r) ==
    /\ At(r, "putWrite")
    /\ LET t == req[r].task
       IN  /\ tasks' = [tasks EXCEPT ![t] = req[r].status]
           /\ overwritten' = IF tasks[t] = "Paid"
                             THEN overwritten \cup {t} ELSE overwritten
    /\ Return(r)
    /\ UNCHANGED <<taskSeq, invoices, lastInvoice, expenses,
                   disturbed, lost>>

DeletableIfUnspent(t) ==                                    \* mutant
    tasks[t] = "Pending" /\ SpentOn(t) = {}

(* Three checks, then the DELETE, under one lock.                          *)
Deletable(t) ==
    /\ tasks[t] = "Pending"
    /\ SpentOn(t) = {}
    /\ LinkedTo(t) = {}

CheckDelete(r, t) ==
    /\ At(r, "idle")
    /\ MuFree
    /\ Deletable(t)
    /\ Go(r, [Idle EXCEPT !.pc = "deleteTask", !.task = t])
    /\ UNCHANGED <<tables, history>>

DeleteTask(r) ==
    /\ At(r, "deleteTask")
    /\ tasks' = [tasks EXCEPT ![req[r].task] = "none"]
    /\ Return(r)
    /\ UNCHANGED <<taskSeq, invoices, lastInvoice, expenses, history>>

(* A price is saved with "sync pending tasks" ticked.  Every pending task  *)
(* that selects it is to be written while the query that found the task    *)
(* still holds the connection: the write waits for ever.  With no such     *)
(* task there is nothing to do.  What a task selects is left out: any      *)
(* pending one may select the price.                                       *)
SyncPendingTasksForPriceID(r) ==
    /\ At(r, "idle")
    /\ MuFree
    /\ \E t \in TaskIds : tasks[t] = "Pending"
    /\ Go(r, [Idle EXCEPT !.pc = "hung"])
    /\ UNCHANGED <<tables, history>>

CreateExpense(e, t) ==
    /\ MuFree
    /\ e = Cardinality({x \in ExpenseIds : expenses[x] # 0}) + 1
    /\ TaskExists(t)
    /\ expenses' = [expenses EXCEPT ![e] = t]
    /\ UNCHANGED <<tasks, taskSeq, invoices, lastInvoice, req, history>>

UpdateExpense(e, t) ==
    /\ MuFree
    /\ expenses[e] # 0
    /\ TaskExists(t)
    /\ expenses' = [expenses EXCEPT ![e] = t]
    /\ UNCHANGED <<tasks, taskSeq, invoices, lastInvoice, req, history>>

-----------------------------------------------------------------------------
(* Any tasks: the page offers those that were Done when it was loaded.     *)
ValidateInvoice(r, ts, total) ==
    /\ At(r, "idle")
    /\ MuFree
    /\ lastInvoice < MaxInvoice
    /\ \A t \in ts : TaskExists(t)
    /\ Go(r, [Idle EXCEPT !.pc = "insertInvoice", !.left = ts,
                          !.total = total])
    /\ UNCHANGED <<tables, history>>

(* The page sends neither a status nor what is paid, so that these start   *)
(* as Draft and 0; the server would store others as they come.             *)
(* The insert fails when the number is taken (one more than the invoices   *)
(* of the month, of which some may have been deleted; UNIQUE), or the id   *)
(* (the second of the clock).  Nothing is written then.                    *)
CreateInvoice(r) ==
    /\ At(r, "insertInvoice")
    /\ lastInvoice' = lastInvoice + 1
    /\ invoices' = [invoices EXCEPT ![lastInvoice + 1] =
          [status |-> "Draft", tasks |-> req[r].left, total |-> req[r].total,
           paid |-> 0, balance |-> req[r].total]]
    /\ Go(r, [req[r] EXCEPT !.pc = "markInvoiced"])
    /\ UNCHANGED <<tasks, taskSeq, expenses, history>>

InsertFails(r) ==
    /\ At(r, "insertInvoice")
    /\ Return(r)
    /\ UNCHANGED <<tables, history>>

(* The request goes on to its next linked task, or to pc after the last.   *)
Linked(r, t, pc) ==
    IF req[r].left = {t} /\ pc = "idle" THEN Return(r)
    ELSE Go(r, [req[r] EXCEPT !.left = @ \ {t},
                  !.pc = IF req[r].left = {t} THEN pc ELSE @])

MarkInvoiced(r, t) ==
    /\ At(r, "markInvoiced")
    /\ SetStatus(t, "Invoiced", {"Done"})
    /\ Linked(r, t, "idle")
    /\ UNCHANGED <<taskSeq, invoices, lastInvoice, expenses, history>>

DeleteInvoice(r, i) ==
    /\ At(r, "idle")
    /\ MuFree
    /\ InvoiceExists(i)
    /\ invoices' = [invoices EXCEPT ![i] = NoInvoice]
    /\ Go(r, [Idle EXCEPT !.pc = "revert", !.left = invoices[i].tasks])
    /\ UNCHANGED <<tasks, taskSeq, lastInvoice, expenses, history>>

RevertToDone(r, t) ==
    /\ At(r, "revert")
    /\ SetStatus(t, "Done", {"Invoiced"})
    /\ Linked(r, t, "idle")
    /\ UNCHANGED <<taskSeq, invoices, lastInvoice, expenses, history>>

-----------------------------------------------------------------------------
(* Sending: read, mail, write, read again, then the tasks.  The page       *)
(* offers it for every invoice, the paid ones too.                         *)
HandleInvoiceSend(r, i) ==
    /\ At(r, "idle")
    /\ InvoiceExists(i)
    /\ Go(r, [Idle EXCEPT !.pc = "mail", !.inv = i])
    /\ UNCHANGED <<tables, history>>

SendFails(r) ==
    /\ At(r, "mail")
    /\ Return(r)
    /\ UNCHANGED <<tables, history>>

MarkInvoiceSent(r) ==
    /\ At(r, "mail")
    /\ invoices' = IF InvoiceExists(req[r].inv)
                   THEN [invoices EXCEPT ![req[r].inv].status = "Sent"]
                   ELSE invoices
    /\ Go(r, [req[r] EXCEPT !.pc = "sentRead"])
    /\ UNCHANGED <<tasks, taskSeq, lastInvoice, expenses, history>>

ReadSent(r) ==
    /\ At(r, "sentRead")
    /\ IF InvoiceExists(req[r].inv)
       THEN Go(r, [req[r] EXCEPT !.pc = "sentTasks",
                                 !.left = invoices[req[r].inv].tasks])
       ELSE Return(r)
    /\ UNCHANGED <<tables, history>>

MarkTaskSent(r, t) ==
    /\ At(r, "sentTasks")
    /\ SetStatus(t, "Sent", NotPaid)
    /\ Linked(r, t, "idle")
    /\ UNCHANGED <<taskSeq, invoices, lastInvoice, expenses, history>>

(* A payment: add it, read the invoice, write the tasks, then the balance  *)
(* and status as of that reading.  The page may be out of date and the     *)
(* invoice gone.                                                           *)
AddInvoicePayment(r, i, amount) ==
    /\ At(r, "idle")
    /\ i <= lastInvoice
    /\ invoices[i].paid + amount <= MaxPaid
    /\ invoices' = IF InvoiceExists(i)
                   THEN [invoices EXCEPT ![i] = Added(@, amount)]
                   ELSE invoices
    /\ Go(r, [Idle EXCEPT !.pc = "payRead", !.inv = i])
    /\ disturbed' = IF \E q \in Requests : Paying(q, i)
                    THEN disturbed \cup {i} ELSE disturbed
    /\ UNCHANGED <<tasks, taskSeq, lastInvoice, expenses, overwritten, lost>>

ReadPaid(r) ==
    /\ At(r, "payRead")
    /\ LET x == invoices[req[r].inv]
       IN  IF x.status = "none" THEN Return(r)
           ELSE Go(r, [req[r] EXCEPT !.pc = "payTasks", !.left = x.tasks,
                         !.flag = FullyPaid(x), !.total = BalanceDue(x)])
    /\ UNCHANGED <<tables, history>>

MarkTaskPaid(r, t) ==
    /\ At(r, "payTasks")
    /\ IF req[r].flag THEN SetStatus(t, "Paid", Statuses)
                      ELSE SetStatus(t, "Sent", NotPaid)
    /\ Linked(r, t, "paySave")
    /\ UNCHANGED <<taskSeq, invoices, lastInvoice, expenses, history>>

SavePayment(r) ==
    /\ At(r, "paySave")
    /\ invoices' = IF InvoiceExists(req[r].inv)
                   THEN [invoices EXCEPT ![req[r].inv] =
                           Saved(@, req[r].total, req[r].flag)]
                   ELSE invoices
    /\ Return(r)
    /\ UNCHANGED <<tasks, taskSeq, lastInvoice, expenses, history>>

-----------------------------------------------------------------------------
(* The process dies and starts again: New reads the highest task id.       *)
RebuildTaskSeq(n) ==
    /\ n # 0 => TaskExists(n)
    /\ \A t \in TaskIds : TaskExists(t) => t <= n

Crash ==
    /\ req' = [r \in Requests |-> Idle]
    /\ \E n \in TaskIds \cup {0} : RebuildTaskSeq(n) /\ taskSeq' = n
    /\ LET dead == {i \in InvoiceIds : \E r \in Requests : Paying(r, i)}
       IN  disturbed' = disturbed \cup dead /\ lost' = lost \cup dead
    /\ UNCHANGED <<tasks, invoices, lastInvoice, expenses, overwritten>>

(* What starts a request, or is one in a single step.                      *)
HandleTasks == CreateTask("Pending") \/ CreateTask("Done")

HandleTaskByID(r) ==
    \E t \in TaskIds :
        \/ CheckDelete(r, t)
        \/ \E s \in {"Pending", "Done"}, edit \in BOOLEAN :
              UpdateTask(r, t, s, edit)

HandlePrices(r) == SyncPendingTasksForPriceID(r)

HandleExpenses ==
    \E e \in ExpenseIds, t \in TaskIds :
        CreateExpense(e, t) \/ UpdateExpense(e, t)

HandleInvoices(r) ==
    \E ts \in SUBSET TaskIds \ {{}}, total \in Totals :
        ValidateInvoice(r, ts, total)

HandleInvoicePayment(r, i) == \E a \in Amounts : AddInvoicePayment(r, i, a)

HandleInvoiceByID(r) ==
    \E i \in InvoiceIds :
        DeleteInvoice(r, i) \/ HandleInvoiceSend(r, i)
                            \/ HandleInvoicePayment(r, i)

Begin ==
    \/ HandleTasks
    \/ HandleExpenses
    \/ \E r \in Requests :
          \/ HandleTaskByID(r) \/ HandlePrices(r)
          \/ HandleInvoices(r) \/ HandleInvoiceByID(r)

(* What a request under way does next.                                     *)
Step(r) ==
    /\ ~Hung
    /\ \/ UpdateTaskCore(r) \/ DeleteTask(r)
       \/ CreateInvoice(r) \/ InsertFails(r)
       \/ SendFails(r) \/ MarkInvoiceSent(r) \/ ReadSent(r)
       \/ ReadPaid(r) \/ SavePayment(r)
       \/ \E t \in req[r].left :
             \/ MarkInvoiced(r, t) \/ RevertToDone(r, t)
             \/ MarkTaskSent(r, t) \/ MarkTaskPaid(r, t)

Next ==
    \/ ~Hung /\ Begin
    \/ \E r \in Requests : Step(r)
    \/ Crash

(* A handler that has begun goes on by itself: net/http gives it a         *)
(* goroutine, which waits for nothing here but the connection, and that is *)
(* handed over in the order of waiting.  Nobody has to send a request and  *)
(* nothing has to crash.                                                   *)
Spec == Init /\ [][Next]_vars /\ \A r \in Requests : WF_vars(Step(r))

-----------------------------------------------------------------------------
TypeOK ==
    /\ tasks \in [TaskIds -> Statuses \cup {"none"}]
    /\ taskSeq \in 0 .. MaxTask
    /\ invoices \in [InvoiceIds -> Invoice]
    /\ lastInvoice \in 0 .. MaxInvoice
    /\ expenses \in [ExpenseIds -> 0 .. MaxTask]
    /\ req \in [Requests -> Request]
    /\ overwritten \subseteq TaskIds
    /\ disturbed \subseteq InvoiceIds
    /\ lost \subseteq InvoiceIds

(* Every task that an invoice or an expense names exists: it cannot be     *)
(* deleted from under them (store.go:380-392), its id is not given to      *)
(* another task after a restart, and no link to it is written while it is  *)
(* being deleted.                                                          *)
LinkedTasksExist ==
    /\ \A i \in InvoiceIds : \A t \in invoices[i].tasks : TaskExists(t)
    /\ \A e \in ExpenseIds : expenses[e] # 0 => TaskExists(expenses[e])

(* What is due is never shown too small, and an invoice is shown as paid   *)
(* only when it is, however payments overlap and whatever a crash loses    *)
(* (AddInvoicePayment, store.go:890-940).                                  *)
NeverUnderstated ==
    \A i \in InvoiceIds :
        LET x == invoices[i]
        IN  /\ x.balance + x.paid >= x.total
            /\ x.status = "Paid" => x.paid >= x.total /\ x.total > 0

(* With no payment under way the balance is exact, unless payments on the  *)
(* invoice overlapped or one died half way.                                *)
BalanceExact ==
    \A i \in InvoiceIds \ disturbed :
        \/ invoices[i].balance = BalanceDue(invoices[i])
        \/ \E r \in Requests : Paying(r, i)

(* The tasks of a paid invoice are paid (the tasks are written first), a   *)
(* task that an update wrote over excepted.                                *)
PaidInvoicePaidTasks ==
    \A i \in InvoiceIds :
        invoices[i].status = "Paid" =>
            \A t \in invoices[i].tasks \ overwritten :
                tasks[t] = "Paid"

(* Once what is paid reaches the total, the tasks of the invoice become    *)
(* Paid, however payments overlap on it and with mailing it, and in        *)
(* whatever order they write (store.go:898-937); unless a crash loses a    *)
(* payment on it, the process hangs, an update writes over the task or the *)
(* invoice goes.                                                           *)
Settled(i, t) ==
    /\ t \in invoices[i].tasks
    /\ invoices[i].total > 0
    /\ invoices[i].paid >= invoices[i].total
SettledTasksPaid ==
    \A i \in InvoiceIds, t \in TaskIds :
        Settled(i, t) ~> \/ tasks[t] = "Paid"
                         \/ Hung \/ i \in lost \/ t \in overwritten
                         \/ ~InvoiceExists(i)

(* "Paid 永远不可改" (UpdateTask, store.go:306): a paid task is never       *)
(* changed.                                                                *)
PaidTaskStays ==
    [][\A t \in TaskIds : tasks[t] = "Paid" => tasks'[t] = "Paid"]_vars
=============================================================================
