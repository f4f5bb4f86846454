------------------------------ MODULE MCOffice ------------------------------
(***************************************************************************)
(* Five parts of the program that share neither tables nor a lock: bank    *)
(* accounts, the start, exchange rates, user accounts, and the deductions  *)
(* of one employee.  Each behaviour is a behaviour of one of them; the     *)
(* others wait, with the start over.                                       *)
(***************************************************************************)
EXTENDS BankAccounts, Startup, ExchangeRates, Accounts, Deductions

CONSTANTS acme, u1, u2, u3

MCOldTasks == {u1, u2, u3}
MCCompanyOf == [t \in MCOldTasks |-> IF t = u3 THEN NoName ELSE acme]

(* The values of 2026 (calculator/rates.go), a monthly pay of 9000 or of   *)
(* nothing, and an odd amount that is not insurable and may not be         *)
(* pensionable either.                                                     *)
Qc(other, quebecs) == [q \in BOOLEAN |-> IF q THEN quebecs ELSE other]
MCYMPE == 74600 * Dollar
MCYBE == 3500 * Dollar
MCYAMPE == 85000 * Dollar
MCMaxInsurableEarnings == 68900 * Dollar
MCCPPRate == Qc(595, 640)
MCCPPMax == Qc(423045 * Cent, 455040 * Cent)
MCCPP2Rate == Qc(400, 400)
MCCPP2Max == Qc(41600 * Cent, 41600 * Cent)
MCEIRate == Qc(164, 130)
MCEIMax == Qc(112307 * Cent, 89570 * Cent)
MCBasePays == {0, 9000 * Dollar}
MCExtras == {0, 2000 * Dollar + 33 * Cent}
MCEarningsCodes == {[cpp |-> c, ei |-> FALSE] : c \in BOOLEAN}

VARIABLE part

officeVars == <<part, bankVars, startVars, ratesVars, accountVars, payVars>>

(* The start is over, on a database that is up to date.                    *)
StartOver ==
    /\ made = Version(Len(Open))
    /\ at = Up
    /\ stored = {} /\ priced = TRUE /\ json = FALSE
    /\ customers = << >>
    /\ customer = [t \in OldTasks |-> 0]
    /\ todo = {}
    /\ found = [n \in Companies |-> 0]
    /\ undated = FALSE /\ orphaned = FALSE
    /\ admin = TRUE /\ late = FALSE
    /\ split = {}
    /\ stops = 0

OfficeInit ==
    /\ part \in {"bank", "start", "rates", "accounts", "deductions"}
    /\ BankInit /\ RatesInit /\ AccountsInit /\ DeductionsInit
    /\ IF part = "start" THEN StartInit ELSE StartOver
    /\ part # "bank" => ~legacy
    /\ part # "rates" => base = CHOOSE b \in Bases : TRUE
    /\ part # "deductions" => ~quebec

BankStep ==
    /\ part = "bank"
    /\ BankNext
    /\ UNCHANGED <<part, startVars, ratesVars, accountVars, payVars>>
StartStep ==
    /\ part = "start"
    /\ StartNext
    /\ UNCHANGED <<part, bankVars, ratesVars, accountVars, payVars>>
RatesStep ==
    /\ part = "rates"
    /\ RatesNext
    /\ UNCHANGED <<part, bankVars, startVars, accountVars, payVars>>
AccountsStep ==
    /\ part = "accounts"
    /\ AccountsNext
    /\ UNCHANGED <<part, bankVars, startVars, ratesVars, payVars>>
DeductionsStep ==
    /\ part = "deductions"
    /\ DeductionsNext
    /\ UNCHANGED <<part, bankVars, startVars, ratesVars, accountVars>>

OfficeNext ==
    BankStep \/ StartStep \/ RatesStep \/ AccountsStep \/ DeductionsStep

OfficeSpec ==
    /\ OfficeInit /\ [][OfficeNext]_officeVars
    /\ WF_officeVars(/\ part = "start" /\ Advance
                     /\ UNCHANGED <<part, bankVars, ratesVars, accountVars,
                                    payVars>>)

(* The state of each part has its type.                                    *)
OfficeTypeOK ==
    /\ BankTypeOK /\ StartTypeOK /\ RatesTypeOK /\ AccountsTypeOK
    /\ DeductionsTypeOK
=============================================================================
