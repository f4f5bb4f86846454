----------------------------- MODULE Deductions -----------------------------
(***************************************************************************)
(* CPP, CPP2 and EI of one employee over a calendar year                   *)
(* (payroll/calculator/calculator.go, called by CalculatePeriod,           *)
(* store/payroll_entries.go): each pay is computed from its own earnings   *)
(* and the sums of the pays before it, rounded, and cut at the annual      *)
(* maximum.                                                                *)
(*                                                                         *)
(* Amounts are integers, in hundredths of a cent; rates are per 10 000.    *)
(* Pays are calculated in the order of their periods (PayrollRun says when *)
(* the sums are those of the pays before).  Left out: income tax and the   *)
(* employer's shares, which no later pay depends on.                       *)
(***************************************************************************)
EXTENDS Integers

CONSTANTS
    BasePays,        \* gross pays of an entry
    Extras,         \* amounts of its additional earnings line
    EarningsCodes,  \* earnings codes: is a line pensionable, insurable
    PayPeriods,     \* pays per year
    YMPE, YBE, YAMPE, MaxInsurableEarnings,
    CPPRate, CPPMax, CPP2Rate, CPP2Max,     \* [quebec: BOOLEAN -> value]
    EIRate, EIMax

Cent == 100
Dollar == 10000

ASSUME DeductionsAssumption ==
    /\ \A a \in BasePays \cup Extras : a \in Nat /\ a % Cent = 0
    /\ EarningsCodes \subseteq [cpp : BOOLEAN, ei : BOOLEAN]
    /\ PayPeriods \subseteq Nat \ {0}
    /\ {YMPE, YBE, YAMPE, MaxInsurableEarnings} \subseteq Nat
    /\ YMPE <= YAMPE
    /\ {CPPRate, CPPMax, CPP2Rate, CPP2Max, EIRate, EIMax}
          \subseteq [BOOLEAN -> Nat]

(* As in Rates2025 and Rates2026 (calculator/rates.go): the annual maxima  *)
(* are whole cents and CPP takes at most half.  An administrator may store *)
(* other values for a year; nothing checks those.                          *)
ASSUME PublishedRates ==
    \A q \in BOOLEAN :
        /\ CPPMax[q] % Cent = 0 /\ CPP2Max[q] % Cent = 0 /\ EIMax[q] % Cent = 0
        /\ 2 * CPPRate[q] <= Dollar

VARIABLES
    quebec,     \* province = "QC": QPP and the lower EI rate
    perYear,    \* pays_per_year
    paid,       \* pays so far
    ytd,        \* GetYTDBeforePeriod of the next pay
    eligible,   \* history: the pensionable and the insurable part of ytd.gross
    fellBack,   \* history: nothing was insurable in a pay
    small       \* history: a pay was below the exemption

payVars == <<quebec, perYear, paid, ytd, eligible, fellBack, small>>

Lower(a, b) == IF a < b THEN a ELSE b
Higher(a, b) == IF a > b THEN a ELSE b

(* round4 and round2 of what is not negative; in Times the product with a  *)
(* rate is taken in two parts, to stay within 32 bits.                     *)
Divided(x, n) == (2 * x + n) \div (2 * n)
Times(x, rate) == (x \div Dollar) * rate + Divided((x % Dollar) * rate, Dollar)
Round2(x) == Divided(x, Cent) * Cent

(* An override of zero means the gross pay.                                *)
NoOverride(part, gross) == gross                            \* mutant
Override(part, gross) == IF part > 0 THEN part ELSE gross

(* What is left of an annual maximum.                                      *)
Uncapped(x, max, before) == Round2(x)                       \* mutant
Capped(x, max, before) == Round2(Lower(x, Higher(0, max - before)))

CPP(gross) ==
    LET exemption == Divided(YBE, perYear)
        base == Higher(0, gross - exemption)
    IN  Capped(Times(base, CPPRate[quebec]), CPPMax[quebec], ytd.cpp)

(* The part of this pay between the two ceilings of the year.              *)
BandFromYMPE(gross) ==                                      \* mutant
    Higher(0, Lower(ytd.gross + gross, YAMPE) - YMPE)
Band(gross) ==
    Higher(0, Lower(ytd.gross + gross, YAMPE) - Higher(ytd.gross, YMPE))
CPP2(gross) ==
    Capped(Times(Band(gross), CPP2Rate[quebec]), CPP2Max[quebec], ytd.cpp2)

EI(gross) ==
    LET room == Higher(0, MaxInsurableEarnings - ytd.gross)
    IN  Capped(Times(Lower(gross, room), EIRate[quebec]), EIMax[quebec], ytd.ei)

DeductionsInit ==
    /\ quebec \in BOOLEAN
    /\ perYear \in PayPeriods
    /\ paid = 0
    /\ ytd = [gross |-> 0, cpp |-> 0, cpp2 |-> 0, ei |-> 0]
    /\ eligible = [cpp |-> 0, ei |-> 0]
    /\ fellBack = FALSE
    /\ small = FALSE

(* An entry with a base pay and an earnings line of this code.             *)
Calculate(base, line, code) ==
    LET gross == base + line
        pensionable == base + (IF code.cpp THEN line ELSE 0)
        insurable == base + (IF code.ei THEN line ELSE 0)
        cppGross == Override(pensionable, gross)
        eiGross == Override(insurable, gross)
    IN  /\ paid < perYear
        /\ paid' = paid + 1
        /\ ytd' = [gross |-> ytd.gross + gross,
                   cpp |-> ytd.cpp + CPP(cppGross),
                   cpp2 |-> ytd.cpp2 + CPP2(cppGross),
                   ei |-> ytd.ei + EI(eiGross)]
        /\ eligible' = [cpp |-> eligible.cpp + pensionable,
                        ei |-> eligible.ei + insurable]
        /\ fellBack' = (fellBack \/ (gross > 0 /\ insurable = 0))
        /\ small' = (small \/ cppGross * perYear < YBE)
        /\ UNCHANGED <<quebec, perYear>>

DeductionsNext ==
    \E base \in BasePays, line \in Extras, code \in EarningsCodes :
        Calculate(base, line, code)

DeductionsSpec == DeductionsInit /\ [][DeductionsNext]_payVars

-----------------------------------------------------------------------------
DeductionsTypeOK ==
    /\ quebec \in BOOLEAN
    /\ perYear \in PayPeriods
    /\ paid \in 0 .. perYear
    /\ ytd \in [gross : Nat, cpp : Nat, cpp2 : Nat, ei : Nat]
    /\ eligible \in [cpp : Nat, ei : Nat]
    /\ fellBack \in BOOLEAN /\ small \in BOOLEAN

(* Every pay is rounded, to a hundredth of a cent and then to a cent.      *)
Rounding == paid * (Cent \div 2 + 1)
AtMost(x, y) == x <= y + Rounding
About(x, y) == AtMost(x, y) /\ AtMost(y, x)

(* The sums of the year follow from its earnings alone, however they are   *)
(* spread over the pays: CPP2 from what lies between the two ceilings, CPP *)
(* of a full year from all but one annual exemption, both up to their      *)
(* maximum; never more than that if part of the pay is not pensionable     *)
(* (calcCPP, calculator.go:122-185).                                       *)
ContributionsFollowEarnings ==
    LET band == Higher(0, Lower(ytd.gross, YAMPE) - YMPE)
        cpp2 == Lower(CPP2Max[quebec], Times(band, CPP2Rate[quebec]))
        yearly == Times(Higher(0, ytd.gross - YBE), CPPRate[quebec])
        wholly == eligible.cpp = ytd.gross
    IN  /\ ytd.cpp <= CPPMax[quebec] /\ ytd.cpp2 <= CPP2Max[quebec]
        /\ AtMost(ytd.cpp2, cpp2)
        /\ wholly => About(ytd.cpp2, cpp2)
        /\ wholly /\ paid = perYear /\ ~small =>
              About(ytd.cpp, Lower(CPPMax[quebec], yearly))

(* EI never exceeds the annual maximum nor the premium on what was         *)
(* insurable, and is not less when all of it was; a pay of which nothing   *)
(* was insurable is excepted, since it is charged in full (calcEI,         *)
(* calculator.go:189-218).                                                 *)
PremiumsFollowEarnings ==
    LET premium == Lower(EIMax[quebec],
            Times(Lower(ytd.gross, MaxInsurableEarnings), EIRate[quebec]))
    IN  /\ ytd.ei <= EIMax[quebec]
        /\ AtMost(ytd.ei, premium)
        /\ fellBack \/ AtMost(ytd.ei, Times(eligible.ei, EIRate[quebec]))
        /\ eligible.ei = ytd.gross => About(ytd.ei, premium)
=============================================================================
