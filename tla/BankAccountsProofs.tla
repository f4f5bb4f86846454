------------------------- MODULE BankAccountsProofs -------------------------
(***************************************************************************)
(* Theorems about BankAccounts, for any number of accounts, any range of   *)
(* cheque numbers and any crashes.                                         *)
(***************************************************************************)
EXTENDS BankAccounts, TLAPS

(* The method that holds the lock works on an account of the table, and no *)
(* method does while the server starts.                                    *)
Holder ==
    /\ call # NoCall => starting = "up"
    /\ call.pc \in {"adopt", "choose", "increment"} => call.id \in opened
    /\ call.pc = "clear" => default \notin opened
    /\ starting = "adopt" => opened = {1}

(* No number above the one on record was given out.                        *)
UpToNumber ==
    /\ \A id \in AccountIds \ lowered : \A n \in given[id] : n <= number[id]
    /\ \A id \in AccountIds \ opened : given[id] = {}
    /\ call.pc = "increment" =>
          call.number = IncrementChequeString(number[call.id])

BankInv ==
    BankTypeOK /\ Holder /\ UpToNumber /\ NumbersGivenOnce /\ DefaultExists

LEMMA AccountIdsAre ==
    /\ AccountIds \subseteq 0 .. MaxAccount
    /\ 1 \in AccountIds /\ 0 \notin AccountIds
    /\ ChequeNumbers \subseteq Nat /\ 0 \in ChequeNumbers
BY BankAssumption DEF AccountIds, ChequeNumbers

LEMMA NoCallIs ==
    NoCall \in Call /\ NoCall.pc = "idle" /\ NoCall.number = 0
BY BankAssumption DEF NoCall, Call, ChequeNumbers

LEMMA IncrementIs ==
    ASSUME NEW n \in ChequeNumbers
    PROVE  /\ IncrementChequeString(n) \in ChequeNumbers
           /\ IncrementChequeString(n) > n \/ IncrementChequeString(n) < n
BY BankAssumption DEF IncrementChequeString, ChequeNumbers

LEMMA DoIs ==
    ASSUME NEW pc \in {"adopt", "clear", "choose", "increment"},
           NEW id \in AccountIds, NEW n \in ChequeNumbers, Do(pc, id, n)
    PROVE  /\ call' \in Call /\ call'.pc = pc /\ call'.id = id
           /\ call'.number = n
BY AccountIdsAre DEF Do, Call

-----------------------------------------------------------------------------
LEMMA BankInvInit == BankInit => BankInv
<1> SUFFICES ASSUME BankInit PROVE BankInv
    OBVIOUS
<1>1. call = NoCall /\ call \in Call /\ call.pc = "idle"
    BY NoCallIs DEF BankInit
<1>2. BankTypeOK
    <2>1. /\ number \in [AccountIds -> ChequeNumbers]
          /\ given \in [AccountIds -> SUBSET ChequeNumbers]
        BY AccountIdsAre DEF BankInit
    <2>2. default \in 0 .. MaxAccount
        BY BankAssumption DEF BankInit
    <2>3. QED
        BY <1>1, <2>1, <2>2 DEF BankInit, BankTypeOK
<1>3. QED
    BY <1>1, <1>2 DEF BankInit, BankInv, Holder, UpToNumber, NumbersGivenOnce,
                      DefaultExists

(* Types, one lemma for the actions that write an account and one for the  *)
(* rest.                                                                   *)
LEMMA TypeStep == BankInv /\ [BankNext]_bankVars => BankTypeOK'
<1> SUFFICES ASSUME BankInv, [BankNext]_bankVars PROVE BankTypeOK'
    OBVIOUS
<1> USE AccountIdsAre, NoCallIs
<1>0. BankTypeOK
    BY DEF BankInv
<1>1. CASE UNCHANGED bankVars
    BY <1>0, <1>1 DEF BankTypeOK, bankVars
<1>2. CASE MigrateNothing \/ MigrateDefault \/ UpdateSettings \/ BankCrash
    BY <1>0, <1>2 DEF BankTypeOK, MigrateNothing, MigrateDefault,
        UpdateSettings, BankCrash, history, Done
<1>3. ASSUME NEW n \in ChequeNumbers, MigrateInsert(n) PROVE BankTypeOK'
    BY <1>0, <1>3 DEF BankTypeOK, MigrateInsert, Insert, history
<1>4. ASSUME NEW id \in AccountIds, NEW n \in ChequeNumbers,
             CreateBankAccount(id, n)
      PROVE  BankTypeOK'
    <2>1. call' \in Call
        BY <1>4, DoIs DEF CreateBankAccount
    <2>2. QED
        BY <1>0, <1>4, <2>1 DEF BankTypeOK, CreateBankAccount, Insert, history
<1>5. CASE CreateEnd \/ DeleteEnd \/ SetDefaultEnd
    <2>1. call.id \in 0 .. MaxAccount
        BY <1>0 DEF BankTypeOK, Call
    <2>2. default' \in 0 .. MaxAccount
        BY <1>0, <1>5, <2>1, BankAssumption
        DEF BankTypeOK, CreateEnd, DeleteEnd, SetDefaultEnd, Adopt
    <2>3. /\ UNCHANGED <<opened, number, legacy, starting, given, again,
                         lowered>>
          /\ call' = NoCall /\ cutOff' \in BOOLEAN
        BY <1>0, <1>5
        DEF BankTypeOK, CreateEnd, DeleteEnd, SetDefaultEnd, Done, history
    <2>4. QED
        BY <1>0, <2>2, <2>3 DEF BankTypeOK
<1>6. ASSUME NEW id \in AccountIds, NEW n \in ChequeNumbers,
             UpdateBankAccount(id, n)
      PROVE  BankTypeOK'
    BY <1>0, <1>6 DEF BankTypeOK, UpdateBankAccount, Write
<1>7. ASSUME NEW id \in AccountIds, DeleteBankAccount(id) PROVE BankTypeOK'
    <2>1. call' \in Call
        BY <1>0, <1>7, DoIs DEF DeleteBankAccount, BankTypeOK
    <2>2. QED
        BY <1>0, <1>7, <2>1 DEF BankTypeOK, DeleteBankAccount, Remove
<1>8. ASSUME NEW id \in AccountIds, SetDefaultBankAccount(id)
      PROVE  BankTypeOK'
    <2>1. call' \in Call
        BY <1>8, DoIs DEF SetDefaultBankAccount
    <2>2. QED
        BY <1>0, <1>8, <2>1 DEF BankTypeOK, SetDefaultBankAccount, history
<1>9. CASE IncrementDefaultChequeNumber
    <2>1. default \in AccountIds /\ number[default] \in ChequeNumbers
        BY <1>0, <1>9 DEF IncrementDefaultChequeNumber, BankTypeOK
    <2>2. call' \in Call
        BY <1>9, <2>1, IncrementIs, DoIs DEF IncrementDefaultChequeNumber
    <2>3. QED
        BY <1>0, <1>9, <2>2
        DEF BankTypeOK, IncrementDefaultChequeNumber, history
<1>10. CASE IncrementEnd
    <2>1. call.id \in AccountIds /\ call.number \in ChequeNumbers
        BY <1>0, <1>10 DEF IncrementEnd, BankTypeOK, Call, BankInv, Holder
    <2>2. QED
        BY <1>0, <1>10, <2>1 DEF BankTypeOK, IncrementEnd, Write, Done
<1>11. QED
    BY <1>1, <1>2, <1>3, <1>4, <1>5, <1>6, <1>7, <1>8, <1>9, <1>10
    DEF BankNext, HandleBankAccounts, HandleBankAccountByID

LEMMA HolderStep == BankInv /\ [BankNext]_bankVars => Holder'
<1> SUFFICES ASSUME BankInv, [BankNext]_bankVars PROVE Holder'
    OBVIOUS
<1> USE AccountIdsAre, NoCallIs
<1>0. BankTypeOK /\ Holder
    BY DEF BankInv
<1>1. CASE UNCHANGED bankVars
    BY <1>0, <1>1 DEF Holder, bankVars
<1>2. CASE MigrateNothing \/ MigrateDefault \/ UpdateSettings \/ BankCrash
    BY <1>0, <1>2 DEF Holder, MigrateNothing, MigrateDefault,
        UpdateSettings, BankCrash, history, Done
<1>3. ASSUME NEW n \in ChequeNumbers, MigrateInsert(n) PROVE Holder'
    <2>1. call = NoCall
        BY <1>0, <1>3 DEF Holder, MigrateInsert
    <2>2. QED
        BY <1>3, <2>1 DEF Holder, MigrateInsert, Insert
<1>4. ASSUME NEW id \in AccountIds, NEW n \in ChequeNumbers,
             CreateBankAccount(id, n)
      PROVE  Holder'
    <2>1. call'.pc = "adopt" /\ call'.id = id /\ id \in opened'
        BY <1>4, DoIs DEF CreateBankAccount, Insert
    <2>2. QED
        BY <1>4, <2>1 DEF Holder, CreateBankAccount, Free
<1>5. CASE CreateEnd \/ DeleteEnd \/ SetDefaultEnd \/ IncrementEnd
    BY <1>0, <1>5 DEF Holder, CreateEnd, DeleteEnd, SetDefaultEnd,
                      IncrementEnd, Done
<1>6. ASSUME NEW id \in AccountIds, NEW n \in ChequeNumbers,
             UpdateBankAccount(id, n)
      PROVE  Holder'
    BY <1>6 DEF Holder, UpdateBankAccount, Free
<1>7. ASSUME NEW id \in AccountIds, DeleteBankAccount(id) PROVE Holder'
    <2>1. CASE default = id
        <3>1. call'.pc = "clear" /\ default' \notin opened'
            BY <1>7, <2>1, DoIs DEF DeleteBankAccount, Remove
        <3>2. QED
            BY <1>7, <3>1 DEF Holder, DeleteBankAccount, Free
    <2>2. CASE default # id
        BY <1>7, <2>2 DEF Holder, DeleteBankAccount, Free
    <2>3. QED
        BY <2>1, <2>2
<1>8. ASSUME NEW id \in AccountIds, SetDefaultBankAccount(id)
      PROVE  Holder'
    <2>1. call'.pc = "choose" /\ call'.id = id
        BY <1>8, DoIs DEF SetDefaultBankAccount
    <2>2. QED
        BY <1>8, <2>1 DEF Holder, SetDefaultBankAccount, Free
<1>9. CASE IncrementDefaultChequeNumber
    <2>1. default \in AccountIds /\ number[default] \in ChequeNumbers
        BY <1>0, <1>9 DEF IncrementDefaultChequeNumber, BankTypeOK
    <2>2. call'.pc = "increment" /\ call'.id = default
        BY <1>9, <2>1, IncrementIs, DoIs DEF IncrementDefaultChequeNumber
    <2>3. QED
        BY <1>9, <2>2 DEF Holder, IncrementDefaultChequeNumber, Free
<1>10. QED
    BY <1>1, <1>2, <1>3, <1>4, <1>5, <1>6, <1>7, <1>8, <1>9
    DEF BankNext, HandleBankAccounts, HandleBankAccountByID


(* A number that is given out is new, unless the one on record has gone    *)
(* down before or does so now.                                             *)
LEMMA NumbersStep ==
    BankInv /\ BankTypeOK' /\ [BankNext]_bankVars =>
        UpToNumber' /\ NumbersGivenOnce'
<1> SUFFICES ASSUME BankInv, BankTypeOK', [BankNext]_bankVars
             PROVE  UpToNumber' /\ NumbersGivenOnce'
    OBVIOUS
<1> USE AccountIdsAre, NoCallIs
<1>0. BankTypeOK /\ Holder /\ UpToNumber /\ NumbersGivenOnce
    BY DEF BankInv
<1>1. CASE \/ UNCHANGED bankVars
           \/ MigrateNothing \/ MigrateDefault \/ UpdateSettings \/ BankCrash
           \/ CreateEnd \/ DeleteEnd \/ SetDefaultEnd
    <2>1. UNCHANGED <<opened, number, given, again, lowered>>
        BY <1>1 DEF bankVars, MigrateNothing, MigrateDefault, UpdateSettings,
            BankCrash, CreateEnd, DeleteEnd, SetDefaultEnd, history
    <2>2. call' \in {call, NoCall}
        BY <1>1 DEF bankVars, MigrateNothing, MigrateDefault, UpdateSettings,
            BankCrash, CreateEnd, DeleteEnd, SetDefaultEnd, Done
    <2>3. QED
        BY <1>0, <2>1, <2>2 DEF UpToNumber, NumbersGivenOnce
<1>2. ASSUME NEW id \in AccountIds, NEW n \in ChequeNumbers,
             \/ MigrateInsert(n) /\ id = 1
             \/ CreateBankAccount(id, n)
      PROVE  UpToNumber' /\ NumbersGivenOnce'
    <2>1. id \notin opened /\ Insert(id, n)
        BY <1>2 DEF MigrateInsert, CreateBankAccount, IsNextAccount
    <2>2. UNCHANGED <<given, again, lowered>>
        BY <1>2 DEF MigrateInsert, CreateBankAccount, history
    <2>3. call'.pc # "increment"
        BY <1>0, <1>2, DoIs DEF MigrateInsert, CreateBankAccount, Holder
    <2>4. \A a \in AccountIds : given[a] # {} => number'[a] = number[a]
        BY <1>0, <2>1 DEF Insert, UpToNumber, BankTypeOK
    <2>5. QED
        BY <1>0, <2>1, <2>2, <2>3, <2>4 DEF UpToNumber, NumbersGivenOnce, Insert
<1>3. ASSUME NEW id \in AccountIds, NEW n \in ChequeNumbers,
             UpdateBankAccount(id, n)
      PROVE  UpToNumber' /\ NumbersGivenOnce'
    <2>1. /\ UNCHANGED <<opened, given, again>>
          /\ \A a \in AccountIds :
                number'[a] = IF a = id THEN n ELSE number[a]
          /\ lowered' = IF n < number[id] THEN lowered \cup {id} ELSE lowered
          /\ call'.pc # "increment"
        BY <1>0, <1>3 DEF UpdateBankAccount, Write, Free, BankTypeOK
    <2>2. /\ \A a \in AccountIds : number[a] \in Nat
          /\ \A a \in AccountIds : \A m \in given[a] : m \in Nat
          /\ n \in Nat
        BY <1>0 DEF BankTypeOK
    <2>3. ASSUME NEW a \in AccountIds \ lowered', NEW m \in given[a]
          PROVE  m <= number'[a]
        <3>1. m <= number[a]
            BY <1>0, <2>1, <2>3 DEF UpToNumber
        <3>2. CASE a = id
            <4>1. number'[a] = n /\ ~(n < number[id]) /\ a \in AccountIds
                BY <2>1, <2>3, <3>2
            <4>2. QED
                BY <2>2, <3>1, <3>2, <4>1
        <3>3. CASE a # id
            BY <2>1, <3>1, <3>3
        <3>4. QED
            BY <3>2, <3>3
    <2>4. QED
        BY <1>0, <2>1, <2>3 DEF UpToNumber, NumbersGivenOnce
<1>4. ASSUME NEW id \in AccountIds, DeleteBankAccount(id)
      PROVE  UpToNumber' /\ NumbersGivenOnce'
    <2>1. /\ \A a \in AccountIds \ {id} :
                given'[a] = given[a] /\ number'[a] = number[a]
          /\ given'[id] = {} /\ opened' = opened \ {id}
          /\ lowered' = lowered \ {id} /\ again' = again \ {id}
        BY <1>0, <1>4 DEF DeleteBankAccount, Remove, BankTypeOK
    <2>2. call'.pc # "increment"
        BY <1>4, DoIs DEF DeleteBankAccount, Free
    <2>3. QED
        BY <1>0, <2>1, <2>2 DEF UpToNumber, NumbersGivenOnce
<1>5. ASSUME NEW id \in AccountIds, SetDefaultBankAccount(id)
      PROVE  UpToNumber' /\ NumbersGivenOnce'
    <2>1. call'.pc = "choose"
        BY <1>5, DoIs DEF SetDefaultBankAccount
    <2>2. QED
        BY <1>0, <1>5, <2>1
        DEF SetDefaultBankAccount, UpToNumber, NumbersGivenOnce, history
<1>6. CASE IncrementDefaultChequeNumber
    <2>1. default \in AccountIds /\ number[default] \in ChequeNumbers
        BY <1>0, <1>6 DEF IncrementDefaultChequeNumber, BankTypeOK
    <2>2. call'.number = IncrementChequeString(number[default])
            /\ call'.id = default
        BY <1>6, <2>1, IncrementIs, DoIs DEF IncrementDefaultChequeNumber
    <2>3. QED
        BY <1>0, <1>6, <2>2 DEF IncrementDefaultChequeNumber, UpToNumber,
            NumbersGivenOnce, IncrementChequeString, history
<1>7. CASE IncrementEnd
    <2> DEFINE id == call.id
               n == call.number
    <2>1. /\ id \in opened /\ id \in AccountIds
          /\ n = IncrementChequeString(number[id])
        BY <1>0, <1>7 DEF IncrementEnd, Holder, BankTypeOK, UpToNumber
    <2>2. /\ number[id] \in Nat /\ \A m \in given[id] : m \in Nat
          /\ n \in Nat /\ (n > number[id] \/ n < number[id])
        <3>1. number[id] \in ChequeNumbers /\ given[id] \in SUBSET ChequeNumbers
            BY <1>0, <2>1 DEF BankTypeOK
        <3>2. QED
            BY <2>1, <3>1, IncrementIs
    <2>3. /\ \A a \in AccountIds :
                /\ number'[a] = IF a = id THEN n ELSE number[a]
                /\ given'[a] = IF a = id THEN given[id] \cup {n} ELSE given[a]
          /\ lowered' = IF n < number[id] THEN lowered \cup {id} ELSE lowered
          /\ again' = IF n \in given[id] THEN again \cup {id} ELSE again
          /\ opened' = opened /\ call'.pc # "increment"
        BY <1>0, <1>7, <2>1 DEF IncrementEnd, Write, BankTypeOK, Done
    <2>4. id \notin lowered' => n \notin given[id]
        <3>1. id \notin lowered' => \A m \in given[id] : m <= number[id]
            BY <1>0, <2>1, <2>3 DEF UpToNumber
        <3>2. id \notin lowered' => n > number[id]
            BY <2>2, <2>3
        <3>3. QED
            BY <2>2, <3>1, <3>2
    <2>5. ASSUME NEW a \in AccountIds \ lowered', NEW m \in given'[a]
          PROVE  m <= number'[a]
        <3>1. a \notin lowered
            BY <2>3, <2>5
        <3>2. CASE a # id
            BY <1>0, <2>3, <3>1, <3>2 DEF UpToNumber
        <3>3. CASE a = id
            <4>1. n > number[id] /\ number'[id] = n
                BY <2>1, <2>2, <2>3, <2>5, <3>3
            <4>2. m = n \/ m \in given[id]
                <5>1. given'[id] = given[id] \cup {n}
                    BY <2>1, <2>3
                <5>2. QED
                    BY <2>5, <3>3, <5>1
            <4>3. m \in given[id] => m <= number[id] /\ m \in Nat
                BY <1>0, <2>1, <2>2, <3>1, <3>3 DEF UpToNumber
            <4>4. QED
                BY <2>2, <3>3, <4>1, <4>2, <4>3
        <3>4. QED
            BY <3>2, <3>3
    <2>6. UpToNumber'
        BY <1>0, <2>1, <2>3, <2>5 DEF UpToNumber
    <2>7. NumbersGivenOnce'
        BY <1>0, <2>3, <2>4 DEF NumbersGivenOnce
    <2>8. QED
        BY <2>6, <2>7
<1>8. QED
    BY <1>1, <1>2, <1>3, <1>4, <1>5, <1>6, <1>7
    DEF BankNext, HandleBankAccounts, HandleBankAccountByID

LEMMA DefaultStep ==
    BankInv /\ BankTypeOK' /\ [BankNext]_bankVars => DefaultExists'
<1> SUFFICES ASSUME BankInv, BankTypeOK', [BankNext]_bankVars
             PROVE  DefaultExists'
    OBVIOUS
<1> USE AccountIdsAre, NoCallIs
<1>0. BankTypeOK /\ Holder /\ DefaultExists
    BY DEF BankInv
<1>1. CASE \/ UNCHANGED bankVars \/ MigrateNothing \/ UpdateSettings
    BY <1>0, <1>1 DEF bankVars, MigrateNothing, UpdateSettings,
                      DefaultExists, history
<1>2. CASE BankCrash
    BY <1>0, <1>2 DEF BankCrash, DefaultExists
<1>3. CASE MigrateDefault \/ CreateEnd \/ DeleteEnd \/ SetDefaultEnd
    BY <1>0, <1>3 DEF MigrateDefault, CreateEnd, DeleteEnd, SetDefaultEnd,
        Adopt, Holder, DefaultExists, history
<1>4. CASE IncrementEnd \/ IncrementDefaultChequeNumber
    BY <1>0, <1>4 DEF IncrementEnd, IncrementDefaultChequeNumber, Free,
        DefaultExists, history
<1>5. ASSUME NEW id \in AccountIds, NEW n \in ChequeNumbers,
             \/ MigrateInsert(n) \/ CreateBankAccount(id, n)
             \/ UpdateBankAccount(id, n) \/ SetDefaultBankAccount(id)
      PROVE  DefaultExists'
    <2>1. /\ default' = default /\ cutOff' = cutOff /\ opened \subseteq opened'
          /\ call.pc # "clear"
        BY <1>0, <1>5 DEF MigrateInsert, CreateBankAccount, UpdateBankAccount,
            SetDefaultBankAccount, Insert, Free, Holder, history
    <2>2. QED
        BY <1>0, <2>1 DEF DefaultExists
<1>6. ASSUME NEW id \in AccountIds, DeleteBankAccount(id) PROVE DefaultExists'
    <2>1. CASE default = id
        <3>1. call'.pc = "clear"
            BY <1>6, <2>1, DoIs DEF DeleteBankAccount
        <3>2. QED
            BY <3>1 DEF DefaultExists
    <2>2. CASE default # id
        BY <1>0, <1>6, <2>2 DEF DeleteBankAccount, Remove, Free, DefaultExists
    <2>3. QED
        BY <2>1, <2>2
<1>7. QED
    BY <1>1, <1>2, <1>3, <1>4, <1>5, <1>6
    DEF BankNext, HandleBankAccounts, HandleBankAccountByID

-----------------------------------------------------------------------------
LEMMA BankInvNext == BankInv /\ [BankNext]_bankVars => BankInv'
<1> SUFFICES ASSUME BankInv, [BankNext]_bankVars PROVE BankInv'
    OBVIOUS
<1>1. BankTypeOK' /\ Holder'
    BY TypeStep, HolderStep
<1>2. UpToNumber' /\ NumbersGivenOnce' /\ DefaultExists'
    BY <1>1, NumbersStep, DefaultStep
<1>3. QED
    BY <1>1, <1>2 DEF BankInv

LEMMA BankInvAlways == BankSpec => []BankInv
BY BankInvInit, BankInvNext, PTL DEF BankSpec

(* Accounts, numbers and the call under way keep their types.              *)
THEOREM BankTypes == BankSpec => []BankTypeOK
<1>1. BankInv => BankTypeOK
    BY DEF BankInv
<1>2. QED
    BY <1>1, BankInvAlways, PTL

(* No account gives a cheque number out twice before its number is taken   *)
(* down: two clerks never print the same number                            *)
(* (IncrementDefaultChequeNumber).                                         *)
THEOREM ChequeNumbersUnique == BankSpec => []NumbersGivenOnce
<1>1. BankInv => NumbersGivenOnce
    BY DEF BankInv
<1>2. QED
    BY <1>1, BankInvAlways, PTL

(* The default account exists, but for a deletion that is under way or     *)
(* died between its statements (DeleteBankAccount).                        *)
THEOREM DefaultStaysInTable == BankSpec => []DefaultExists
<1>1. BankInv => DefaultExists
    BY DEF BankInv
<1>2. QED
    BY <1>1, BankInvAlways, PTL

(* Only a clerk's choice replaces a default account that exists: not       *)
(* another account (CreateBankAccount), nor the migration at a restart.    *)
THEOREM OnlyClerksChoose == BankSpec => DefaultKept
<1>1. ASSUME BankInv, [BankNext]_bankVars, default' # default,
             default \in opened
      PROVE  Chosen
    <2>1. Holder /\ 0 \notin opened
        BY <1>1, AccountIdsAre DEF BankInv, BankTypeOK
    <2>2. ~MigrateDefault
        BY <1>1, <2>1 DEF MigrateDefault, Holder
    <2>3. ~CreateEnd /\ ~DeleteEnd
        BY <1>1, <2>1 DEF CreateEnd, DeleteEnd, Adopt, Holder
    <2>4. SetDefaultEnd
        BY <1>1, <2>2, <2>3
        DEF BankNext, HandleBankAccounts, HandleBankAccountByID,
            MigrateNothing, MigrateInsert, CreateBankAccount,
            UpdateBankAccount, DeleteBankAccount, SetDefaultBankAccount,
            IncrementDefaultChequeNumber, IncrementEnd, UpdateSettings,
            BankCrash, bankVars
    <2>5. QED
        BY <2>4 DEF SetDefaultEnd, Chosen, Done
<1>2. BankInv /\ [BankNext]_bankVars =>
         [default' # default /\ default \in opened => Chosen]_bankVars
    BY <1>1
<1>3. QED
    BY <1>2, BankInvAlways, PTL DEF BankSpec, DefaultKept
=============================================================================
