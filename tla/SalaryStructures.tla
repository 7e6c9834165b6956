-------------------------- MODULE SalaryStructures --------------------------
(***************************************************************************)
(* Effective-dated salary structures and what they pay for a period:       *)
(* segmentsFor clips the structures in force to the period, and the        *)
(* calculator pays each segment for its employed days (contractualPay).    *)
(*                                                                         *)
(* Dates are numbers.  The pay of a structure is given per day of the      *)
(* period, so that a share of a period is a whole number; the lines of a   *)
(* structure, statutory deductions and rounding are left out.              *)
(***************************************************************************)
EXTENDS Integers, FiniteSets, Sequences, Sums

CONSTANTS
    Employees,      \* employee records
    Dates,          \* dates a structure may start
    Amounts,        \* what a structure may pay per day
    MaxStructures,  \* bound on the structures of an employee
    Employment      \* <<hireDate, terminationDate>> of every employee

VARIABLE
    structures      \* salary_structures of each employee, oldest row first

ASSUME StructuresAssumption ==
    /\ IsFiniteSet(Employees)
    /\ Dates \subseteq Nat \ {0}
    /\ Amounts \subseteq Nat \ {0}
    /\ MaxStructures \in Nat
    /\ Employment \in [Employees -> Nat \X Nat]

(* effectiveTo 0 stands for null: the current structure.                   *)
Structure == [effectiveFrom : Dates, effectiveTo : Nat, pay : Amounts]
NewStructure(from, pay) == [effectiveFrom |-> from, effectiveTo |-> 0, pay |-> pay]

InForce(s, d) == s.effectiveFrom <= d /\ (s.effectiveTo = 0 \/ s.effectiveTo >= d)

(* The rows createStructure finds as current.                              *)
CurrentRows(e) == {i \in DOMAIN structures[e] : structures[e][i].effectiveTo = 0}

(* Mutant: the day of the change still belongs to the old structure.       *)
ClosedOnTheDay(s, from) == [s EXCEPT !.effectiveTo = from]

(* The current structure ends the day before the new one starts.           *)
Closed(s, from) == [s EXCEPT !.effectiveTo = from - 1]

(* segmentsFor: the rows in force in a period, each with its own days.     *)
SegmentRows(e, period) ==
    {i \in DOMAIN structures[e] :
        /\ structures[e][i].effectiveFrom <= period[2]
        /\ \/ structures[e][i].effectiveTo = 0
           \/ structures[e][i].effectiveTo >= period[1]}

Segment(s, period) ==
    <<IF s.effectiveFrom > period[1] THEN s.effectiveFrom ELSE period[1],
      IF s.effectiveTo # 0 /\ s.effectiveTo < period[2] THEN s.effectiveTo ELSE period[2]>>

(* employedDays: the days of a segment that fall inside employment.        *)
EmployedDays(e, seg) ==
    LET from == IF Employment[e][1] > seg[1] THEN Employment[e][1] ELSE seg[1]
        to   == IF Employment[e][2] < seg[2] THEN Employment[e][2] ELSE seg[2]
    IN  IF to < from THEN 0 ELSE to - from + 1

(* contractualPay                                                          *)
ContractualPay(e, period) ==
    SumOver([i \in SegmentRows(e, period) |->
                structures[e][i].pay * EmployedDays(e, Segment(structures[e][i], period))],
            SegmentRows(e, period))

(* Reference: structureOn picks the latest structure in force on a day,    *)
(* and each employed day of the period is paid once, at its rate.          *)
PayOn(e, d) ==
    LET there == {i \in DOMAIN structures[e] : InForce(structures[e][i], d)}
        latest == CHOOSE i \in there : \A j \in there :
                      structures[e][j].effectiveFrom <= structures[e][i].effectiveFrom
    IN  IF there = {} THEN 0 ELSE structures[e][latest].pay

DaysPaid(e, period) == (period[1]..period[2]) \cap (Employment[e][1]..Employment[e][2])

PayByTheDay(e, period) ==
    SumOver([d \in DaysPaid(e, period) |-> PayOn(e, d)], DaysPaid(e, period))
=============================================================================
