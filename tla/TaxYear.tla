------------------------------ MODULE TaxYear ------------------------------
(***************************************************************************)
(* What the payslips of one employee say over a tax year: the lines of the *)
(* structures in force are pro-rated and merged (contractualPay), and the  *)
(* Nigerian calculator adds pension, housing fund and cumulative PAYE, for *)
(* which it reads the payslips approved so far (yearToDate).               *)
(*                                                                         *)
(* Runs are monthly and may be calculated and approved in any order; how a *)
(* run moves is in PayrollRuns, so a calculation is one step here.  Dates  *)
(* are days, 1 is 1 January of the first year.  Amounts are in units of    *)
(* 100 naira, and round2 rounds to the unit.                               *)
(***************************************************************************)
EXTENDS FiniteSets, Sequences, Sums

CONSTANTS
    Months,     \* the months with a run (a bound)
    FirstDay,   \* first day of each month
    LastDay,    \* last day of each month
    HireDates,  \* dates the employee may have been hired
    Deals       \* what may be in force in a month: structures, each with
                \* the day of the month it starts on

VARIABLES
    hireDate,   \* of the employee
    payslips    \* of each month

tax == <<hireDate, payslips>>

LineMethod == {"FIXED", "PERCENT_OF_BASE", "PERCENT_OF_GROSS"}
StructureLine == [code : STRING, type : {"EARNING", "DEDUCTION"}, method : LineMethod, value : Nat]
PayFrequency == [MONTHLY |-> 12, BIWEEKLY |-> 26, WEEKLY |-> 52]

SalaryTerms == [base : Nat, annualRent : Nat, payFrequency : DOMAIN PayFrequency,
                currency : STRING, lines : SUBSET StructureLine]

(* Months are in order.  No amount is negative; createStructure refuses    *)
(* lines that share a code, and earnings that are a share of the gross.    *)
(* Nobody gives a structure two tax lines.                                 *)
ASSUME TaxAssumption ==
    /\ IsFiniteSet(Months) /\ Months \subseteq Nat /\ HireDates \subseteq Nat
    /\ \A m \in Months : FirstDay[m] \in Nat \ {0} /\ LastDay[m] \in Nat /\ FirstDay[m] <= LastDay[m]
    /\ \A m, k \in Months : k < m => LastDay[k] < FirstDay[m]
    /\ \A deal \in Deals : deal \in Seq([structure : SalaryTerms, from : Nat])
    /\ \A deal \in Deals : \A i \in DOMAIN deal :
           /\ IsFiniteSet(deal[i].structure.lines)
           /\ \A l \in deal[i].structure.lines :
                  /\ l.type = "EARNING" => l.method # "PERCENT_OF_GROSS"
                  /\ l.code # "BASE"
                  /\ \A k \in deal[i].structure.lines :
                         k = l \/ (k.code # l.code /\ {k.code, l.code} # {"PAYE", "TAX"})

(* A payslip; taxable -1 stands for null.  The last four fields are what   *)
(* the calculation used: the months of its year to date, whether the PAYE  *)
(* is computed or the structure's own, and the relief.                     *)
NoTaxable == -1
NoPayslip == [status |-> "NONE", gross |-> 0, deductions |-> 0, net |-> 0,
              taxable |-> NoTaxable, paye |-> 0, seen |-> {}, computed |-> FALSE, relief |-> 0]

TaxInit ==
    /\ hireDate \in HireDates
    /\ payslips = [m \in Months |-> NoPayslip]

-----------------------------------------------------------------------------
(* Contractual pay                                                         *)

(* round2 of n / d                                                         *)
Round(n, d) == (2 * n + d) \div (2 * d)

Total(lines) == MapThenSumSet(LAMBDA l : l.amount, lines)
Payable(l, amount) == [code |-> l.code, type |-> l.type, amount |-> amount]

(* prorate: base pay and fixed earnings are paid for days out of n.        *)
Prorate(s, days, n) ==
    [s EXCEPT !.base = Round(@ * days, n),
              !.lines = {IF l.type = "EARNING" /\ l.method = "FIXED"
                         THEN [l EXCEPT !.value = Round(@ * days, n)] ELSE l : l \in @}]

AmountFor(l, base, gross) ==
    CASE l.method = "FIXED" -> l.value
      [] l.method = "PERCENT_OF_BASE" -> Round(base * l.value, 100)
      [] l.method = "PERCENT_OF_GROSS" -> Round(gross * l.value, 100)

(* Base pay and earnings; then deductions, which may be a share of them.   *)
StructureLines(s) ==
    LET of(type)  == {l \in s.lines : l.type = type}
        earnings  == {[code |-> "BASE", type |-> "EARNING", amount |-> s.base]}
                         \cup {Payable(l, AmountFor(l, s.base, 0)) : l \in of("EARNING")}
    IN  earnings \cup {Payable(l, AmountFor(l, s.base, Total(earnings))) : l \in of("DEDUCTION")}

(* The days of the i-th structure of a month on which the employee was     *)
(* employed.                                                               *)
DaysOf(m, deal, i) ==
    LET start == FirstDay[m] + deal[i].from - 1
        end   == IF i = Len(deal) THEN LastDay[m] ELSE FirstDay[m] + deal[i + 1].from - 2
    IN  Max({0, end - Max({start, hireDate}) + 1})

(* The lines of the parts of a month, merged by type and code.             *)
MergedLines(parts) ==
    LET same(l, part) == {k \in part : k.type = l.type /\ k.code = l.code}
    IN  {Payable(l, MapThenSumSet(LAMBDA i : Total(same(l, parts[i])), DOMAIN parts))
            : l \in UNION {parts[i] : i \in DOMAIN parts}}

ContractualLines(m, deal) ==
    LET n    == LastDay[m] - FirstDay[m] + 1
        paid == {i \in DOMAIN deal : DaysOf(m, deal, i) > 0}
    IN  MergedLines([i \in paid |->
            StructureLines(Prorate(deal[i].structure, DaysOf(m, deal, i), n))])

-----------------------------------------------------------------------------
(* Statutory deductions (NIGERIA_STATUTORY, in units and percent)          *)

TaxBands ==
    <<[upTo |-> 8000, rate |-> 0], [upTo |-> 30000, rate |-> 15],
      [upTo |-> 120000, rate |-> 18], [upTo |-> 250000, rate |-> 21],
      [upTo |-> 500000, rate |-> 23], [upTo |-> 2000000, rate |-> 25]>>
Pensionable == {"BASE", "HOUSING", "TRANSPORT"}
TaxDeductible == {"NHIS", "LIFE_ASSURANCE", "MORTGAGE_INTEREST"}
RentRelief(rent) == Min({Round(rent * 20, 100), 5000})

(* Progressive tax on a year's taxable pay.                                *)
AnnualPaye(taxable) ==
    LET lower(i) == IF i = 1 THEN 0 ELSE TaxBands[i - 1].upTo
        within(i) == Max({0, Min({taxable, TaxBands[i].upTo}) - lower(i)})
    IN  Round(MapThenSumSet(LAMBDA i : within(i) * TaxBands[i].rate, DOMAIN TaxBands), 100)

YearStart(m) == 1 + 365 * ((LastDay[m] - 1) \div 365)
YearEnd(m) == YearStart(m) + 364

(* Whole pay periods between two dates.                                    *)
PeriodsBetween(from, to, frequency) ==
    IF to <= from THEN 0 ELSE Round((to - from) * PayFrequency[frequency], 365)

(* Mutant: payslips that are not approved yet count as history.            *)
YearToDateCalculated(m) ==
    {k \in Months : /\ payslips[k].status # "NONE"
                    /\ YearStart(m) <= LastDay[k] /\ LastDay[k] < FirstDay[m]
                    /\ payslips[k].taxable # NoTaxable}

(* yearToDate: the earlier months of the tax year that are approved.       *)
YearToDate(m) ==
    {k \in Months : /\ payslips[k].status = "APPROVED"
                    /\ YearStart(m) <= LastDay[k] /\ LastDay[k] < FirstDay[m]
                    /\ payslips[k].taxable # NoTaxable}

SumOf(ms, field) == SumOver([k \in Months |-> payslips[k][field]], ms)

(* The year is projected, taxed, and the share earned so far less what was *)
(* deducted is due.  Without history, earlier periods are assumed to have  *)
(* been paid and taxed like this one.  Nothing is refunded.                *)
CumulativePaye(t, ytd, before, after, relief) ==
    LET history    == ytd # {}
        ytdTaxable == IF history THEN SumOf(ytd, "taxable") ELSE t * before
        projected  == ytdTaxable + t * (1 + after)
        annualTax  == AnnualPaye(Max({0, projected - relief}))
    IN  IF projected <= 0 THEN 0
        ELSE IF history
        THEN Max({0, Round(annualTax * (ytdTaxable + t), projected) - SumOf(ytd, "paye")})
        ELSE Round(annualTax * t, projected)

(* The calculator.  A line of the structure's own stands in for a computed *)
(* one; rent, frequency and currency are those of the structure at the     *)
(* end.  Pay in another currency is taxed nowhere.                         *)
Computation(m, deal) ==
    LET lines      == ContractualLines(m, deal)
        of(type, codes) == {l \in lines : l.type = type /\ l.code \in codes}
        own(codes) == of("DEDUCTION", codes)
        last       == deal[Len(deal)].structure
        gross      == Total({l \in lines : l.type = "EARNING"})
        agreed     == Total({l \in lines : l.type = "DEDUCTION"})
        or(codes, amount) == IF own(codes) = {} THEN amount ELSE Total(own(codes))
        pension    == or({"PENSION"}, Round(Total(of("EARNING", Pensionable)) * 8, 100))
        nhf        == or({"NHF"}, Round(Total(of("EARNING", {"BASE"})) * 25, 1000))
        taxable    == Max({0, gross - pension - nhf - Total(own(TaxDeductible))})
        relief     == RentRelief(last.annualRent)
        ytd        == YearToDate(m)
        before     == PeriodsBetween(Max({hireDate, YearStart(m)}), FirstDay[m], last.payFrequency)
        after      == PeriodsBetween(LastDay[m], YearEnd(m), last.payFrequency)
        paye       == or({"PAYE", "TAX"}, CumulativePaye(taxable, ytd, before, after, relief))
        added(codes, amount) == IF own(codes) = {} THEN amount ELSE 0
        deductions == agreed + added({"PENSION"}, pension) + added({"NHF"}, nhf)
                          + added({"PAYE", "TAX"}, paye)
        contract   == [NoPayslip EXCEPT !.status = "CALCULATED", !.gross = gross,
                           !.deductions = agreed, !.net = gross - agreed]
    IN  IF last.currency # "NGN" THEN contract
        ELSE [contract EXCEPT !.deductions = deductions, !.net = gross - deductions,
                 !.taxable = taxable, !.paye = paye, !.seen = ytd,
                 !.computed = (own({"PAYE", "TAX"}) = {}), !.relief = relief]

(* calculate, as often as needed, until the run is approved; somebody not  *)
(* employed in the period gets no payslip.                                 *)
Calculate(m, deal) ==
    /\ payslips[m].status # "APPROVED"
    /\ \E i \in DOMAIN deal : DaysOf(m, deal, i) > 0
    /\ payslips' = [payslips EXCEPT ![m] = Computation(m, deal)]
    /\ UNCHANGED hireDate

ApproveMonth(m) ==
    /\ payslips[m].status = "CALCULATED"
    /\ payslips' = [payslips EXCEPT ![m].status = "APPROVED"]
    /\ UNCHANGED hireDate

TaxNext ==
    \E m \in Months :
        \/ \E deal \in Deals : Calculate(m, deal)
        \/ ApproveMonth(m)

TaxSpec == TaxInit /\ [][TaxNext]_tax

-----------------------------------------------------------------------------
(* The months before m in its year with a run that pays the employee.      *)
Earlier(m) == {k \in Months : k < m /\ LastDay[k] >= Max({hireDate, YearStart(m)})}

(* The payslip of m knows those of every earlier month, each of which knew *)
(* all the ones before it or none, and all of them were computed on the    *)
(* same taxable pay.                                                       *)
SteadyUpTo(m) ==
    LET slip == payslips[m]
    IN  /\ slip.computed
        /\ slip.seen = Earlier(m)
        /\ \A k \in slip.seen :
               /\ payslips[k].computed /\ payslips[k].seen \in {Earlier(k), {}}
               /\ payslips[k].taxable = slip.taxable /\ payslips[k].relief = slip.relief

(* The PAYE of m is the n-th part of the tax on n such months, up to the   *)
(* half unit by which that of each month so far is rounded.                *)
EvenShare(m, n) ==
    LET slip   == payslips[m]
        months == Cardinality(slip.seen) + 1
    IN  2 * (n * slip.paye - AnnualPaye(Max({0, n * slip.taxable - slip.relief})))
            \in (-n * months)..(n * months)

(* README.md: "steady pay gives exactly annual tax / 12": whoever has been *)
(* paid the same, by runs of this system, since January or since the hire  *)
(* date pays the same PAYE every period, up to rounding, also where a run  *)
(* was calculated before any other was approved.                           *)
SteadyPayIsEven ==
    \A m \in Months :
        LET n     == Cardinality(payslips[m].seen) + 1
                         + PeriodsBetween(LastDay[m], YearEnd(m), "MONTHLY")
            first == Min({k \in Months : LastDay[k] > YearStart(m)})
        IN  SteadyUpTo(m) /\ Max({hireDate, YearStart(m)}) >= FirstDay[first]
                => EvenShare(m, n)

(* README.md: "Without history (first run / mid-year go-live) earlier      *)
(* months are assumed paid at the current rate", so that steady pay gives  *)
(* a twelfth of the annual tax to whoever has been employed all year, also *)
(* when the first run of this system is in the middle of the year.         *)
SteadyPayFromGoLive ==
    \A m \in Months : SteadyUpTo(m) /\ hireDate <= YearStart(m) => EvenShare(m, 12)

(* README.md: "pay changes and mid-year joiners self-correct, nothing is   *)
(* refunded via payroll": once the last period of a year is calculated on  *)
(* the approved payslips of the others, the PAYE of the year is the tax on *)
(* what was earned, or what had been deducted if that is more.             *)
YearSelfCorrects ==
    \A m \in Months :
        LET slip    == payslips[m]
            others  == {k \in Months \ {m} : /\ YearStart(k) = YearStart(m)
                                             /\ payslips[k].taxable # NoTaxable}
            earned  == SumOf(others \cup {m}, "taxable")
        IN  /\ slip.computed /\ LastDay[m] = YearEnd(m)
            /\ others # {} /\ slip.seen = others
            => SumOf(others \cup {m}, "paye")
                   = Max({SumOf(others, "paye"), AnnualPaye(Max({0, earned - slip.relief}))})

(* PAYE is cumulative: it is even on steady pay, and right by the end of a *)
(* year whatever was paid, recalculated and approved late on the way.      *)
PayeIsCumulative == SteadyPayIsEven /\ YearSelfCorrects
=============================================================================
