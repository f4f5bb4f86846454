---------------------------- MODULE BankAccounts ----------------------------
(***************************************************************************)
(* Bank accounts, the default account and the cheque number of an account  *)
(* (store/bank_accounts.go, its handlers, writecheque/service.go, and the  *)
(* migration of the one account that old settings held, store/open.go).    *)
(*                                                                         *)
(* Every method holds Store.mu; its SQL statements are steps between which *)
(* the process may die, since no transaction surrounds them.  After that   *)
(* it starts again and may migrate the old account once more.              *)
(*                                                                         *)
(* An account is its id and its cheque number.  Left out: names, routing   *)
(* numbers, currencies and the layout of a cheque.                         *)
(***************************************************************************)
EXTENDS Integers, FiniteSets

CONSTANTS
    MaxAccount,     \* bound: account ids
    MaxNumber       \* the largest cheque number that fits 64 bits

ASSUME BankAssumption ==
    /\ MaxAccount \in Nat \ {0}
    /\ MaxNumber \in Nat \ {0}

AccountIds == 1 .. MaxAccount

(* A cheque number is text.  0: it has no digits; MaxNumber + 1: its digits *)
(* are no 64-bit number.                                                   *)
ChequeNumbers == 0 .. MaxNumber + 1

VARIABLES
    opened,     \* the ids in the bank_accounts table
    number,     \* id -> bank_cheque_number
    default,    \* app_settings.default_bank_account_id, 0 when blank
    legacy,     \* whether app_settings holds the account of an old version
    starting,   \* where the migration at start is, "up" when it is over
    call,       \* what the request that holds Store.mu is about to write
    given,      \* history: id -> the numbers given out
    again,      \* history: ids that gave a number out twice
    lowered,    \* history: ids whose number went down
    cutOff      \* history: a deletion died before it cleared the default

bankVars == <<opened, number, default, legacy, starting, call,
              given, again, lowered, cutOff>>
history == <<given, again, lowered, cutOff>>

NoCall == [pc |-> "idle", id |-> 0, number |-> 0]
Call == [pc : {"idle", "adopt", "clear", "choose", "increment"},
         id : 0 .. MaxAccount, number : ChequeNumbers]

(* Nobody holds Store.mu, and the server is up.                            *)
Free == starting = "up" /\ call = NoCall

Do(pc, id, n) == call' = [pc |-> pc, id |-> id, number |-> n]
Done == call' = NoCall

(* nextBankAccountIDLocked: the highest id in the table plus one.          *)
IsNextAccount(id) ==
    /\ id \notin opened
    /\ \A other \in opened : other < id
    /\ id > 1 => id - 1 \in opened

(* incrementChequeString: what does not parse counts as zero.              *)
PlusOne(n) == n + 1                                         \* mutant
SameNumber(n) == IF n > MaxNumber THEN 1 ELSE n             \* mutant
IncrementChequeString(n) == IF n > MaxNumber THEN 1 ELSE n + 1

(* The account gets the number n.                                          *)
Write(id, n) ==
    /\ number' = [number EXCEPT ![id] = n]
    /\ lowered' = IF n < number[id] THEN lowered \cup {id} ELSE lowered

Insert(id, n) ==
    /\ opened' = opened \cup {id}
    /\ number' = [number EXCEPT ![id] = n]

(* The row goes, and with it what was told of the account.                 *)
Remove(id) ==
    /\ opened' = opened \ {id}
    /\ number' = [number EXCEPT ![id] = 0]
    /\ given' = [given EXCEPT ![id] = {}]
    /\ again' = again \ {id}
    /\ lowered' = lowered \ {id}

BankInit ==
    /\ opened = {}
    /\ number = [id \in AccountIds |-> 0]
    /\ default = 0
    /\ legacy \in BOOLEAN
    /\ starting = "migrate"
    /\ call = NoCall
    /\ given = [id \in AccountIds |-> {}]
    /\ again = {}
    /\ lowered = {}
    /\ cutOff = FALSE

-----------------------------------------------------------------------------
(* Start: with no account in the table and one in the old settings, insert *)
(* that as B0001 and then make it the default.                             *)
MigrateNothing ==
    /\ starting = "migrate"
    /\ opened # {} \/ ~legacy
    /\ starting' = "up"
    /\ UNCHANGED <<opened, number, default, legacy, call, history>>

MigrateInsert(n) ==
    /\ starting = "migrate"
    /\ opened = {} /\ legacy
    /\ Insert(1, n)
    /\ starting' = "adopt"
    /\ UNCHANGED <<default, legacy, call, history>>

MigrateDefault ==
    /\ starting = "adopt"
    /\ default' = 1
    /\ cutOff' = FALSE
    /\ starting' = "up"
    /\ UNCHANGED <<opened, number, legacy, call, given, again, lowered>>

-----------------------------------------------------------------------------
(* A blank number in the form becomes "000001" (normalizeBankAccount).     *)
CreateBankAccount(id, n) ==
    /\ Free
    /\ IsNextAccount(id)
    /\ Insert(id, n)
    /\ Do("adopt", id, 0)
    /\ UNCHANGED <<default, legacy, starting, history>>

(* ... and becomes the default if there was none.                          *)
AdoptAlways(id) == default' = id                            \* mutant
Adopt(id) == default' = IF default = 0 THEN id ELSE default

CreateEnd ==
    /\ call.pc = "adopt"
    /\ Adopt(call.id)
    /\ Done
    /\ UNCHANGED <<opened, number, legacy, starting, history>>

(* The form holds the number it loaded, maybe long ago, or a typed one.    *)
UpdateBankAccount(id, n) ==
    /\ Free
    /\ id \in opened
    /\ Write(id, n)
    /\ UNCHANGED <<opened, default, legacy, starting, call, given, again,
                   cutOff>>

DeleteBankAccount(id) ==
    /\ Free
    /\ id \in opened
    /\ Remove(id)
    /\ IF default = id THEN Do("clear", id, 0) ELSE UNCHANGED call
    /\ UNCHANGED <<default, legacy, starting, cutOff>>

DeleteEnd ==
    /\ call.pc = "clear"
    /\ default' = 0
    /\ Done
    /\ UNCHANGED <<opened, number, legacy, starting, history>>

SetAnyDefault(id) ==                                     \* mutant
    /\ Free
    /\ Do("choose", id, 0)
    /\ UNCHANGED <<opened, number, default, legacy, starting, history>>
SetDefaultBankAccount(id) ==
    /\ Free
    /\ id \in opened
    /\ Do("choose", id, 0)
    /\ UNCHANGED <<opened, number, default, legacy, starting, history>>

SetDefaultEnd ==
    /\ call.pc = "choose"
    /\ default' = call.id
    /\ cutOff' = FALSE
    /\ Done
    /\ UNCHANGED <<opened, number, legacy, starting, given, again, lowered>>

(* The page asks for the next number; it is refused with no default, or    *)
(* with one that is gone.                                                  *)
IncrementDefaultChequeNumber ==
    /\ Free
    /\ default \in opened
    /\ Do("increment", default, IncrementChequeString(number[default]))
    /\ UNCHANGED <<opened, number, default, legacy, starting, history>>

IncrementEnd ==
    /\ call.pc = "increment"
    /\ LET id == call.id
           n == call.number
       IN  /\ Write(id, n)
           /\ given' = [given EXCEPT ![id] = @ \cup {n}]
           /\ again' = IF n \in given[id] THEN again \cup {id} ELSE again
    /\ Done
    /\ UNCHANGED <<opened, default, legacy, starting, cutOff>>

(* The settings page knows no bank fields: saving it blanks the old ones.  *)
UpdateSettings ==
    /\ starting = "up"
    /\ legacy' = FALSE
    /\ UNCHANGED <<opened, number, default, starting, call, history>>

BankCrash ==
    /\ starting' = "migrate"
    /\ Done
    /\ cutOff' = (cutOff \/ call.pc = "clear")
    /\ UNCHANGED <<opened, number, default, legacy, given, again, lowered>>

HandleBankAccounts ==
    \E id \in AccountIds, n \in ChequeNumbers : CreateBankAccount(id, n)

HandleBankAccountByID ==
    \E id \in AccountIds :
        \/ SetDefaultBankAccount(id)
        \/ DeleteBankAccount(id)
        \/ \E n \in ChequeNumbers : UpdateBankAccount(id, n)

BankNext ==
    \/ MigrateNothing \/ MigrateDefault
    \/ \E n \in ChequeNumbers : MigrateInsert(n)
    \/ HandleBankAccounts \/ HandleBankAccountByID
    \/ IncrementDefaultChequeNumber
    \/ CreateEnd \/ DeleteEnd \/ SetDefaultEnd \/ IncrementEnd
    \/ UpdateSettings
    \/ BankCrash

BankSpec == BankInit /\ [][BankNext]_bankVars

-----------------------------------------------------------------------------
BankTypeOK ==
    /\ opened \subseteq AccountIds
    /\ number \in [AccountIds -> ChequeNumbers]
    /\ default \in 0 .. MaxAccount
    /\ legacy \in BOOLEAN
    /\ starting \in {"migrate", "adopt", "up"}
    /\ call \in Call
    /\ given \in [AccountIds -> SUBSET ChequeNumbers]
    /\ again \subseteq AccountIds
    /\ lowered \subseteq AccountIds
    /\ cutOff \in BOOLEAN

(* However many clerks ask for the next number, and wherever the process   *)
(* dies, an account gives a number out once, until a saved form, or the    *)
(* end of the 64-bit numbers, takes its number down                        *)
(* (IncrementDefaultChequeNumber, bank_accounts.go:199-246).               *)
NumbersGivenOnce == again \subseteq lowered

(* The default names an account of the table.  It does not between the two *)
(* statements of a deletion, and after a crash there until another default *)
(* is chosen.                                                              *)
DefaultExists ==
    \/ default \in opened \cup {0}
    \/ call.pc = "clear"
    \/ cutOff

(* A clerk's choice takes effect in this step.                             *)
Chosen == call.pc = "choose" /\ call' = NoCall
(* A default that exists stays until a clerk chooses another one: neither a *)
(* new account nor the migration at a restart takes its place.             *)
DefaultKept ==
    [][default' # default /\ default \in opened => Chosen]_bankVars
=============================================================================
