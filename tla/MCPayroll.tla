----------------------------- MODULE MCPayroll -----------------------------
(***************************************************************************)
(* Instances of PayrollRuns and TaxYear for TLC.  Runs are for two         *)
(* employees of two departments, one of them paid in another currency and  *)
(* one without a login; handlers are served one at a time, or two overlap. *)
(* The period is days 2 to 5; b is employed on its first day only, and pay *)
(* may change on its third.                                                *)
(***************************************************************************)
EXTENDS PayrollRuns, TaxYear, TLC

CONSTANTS r1, a, b, d1, d2, p1, p2

VARIABLE focus

TwoDepartments == [e \in Employees |-> IF e = a THEN d1 ELSE d2]
JoinerAndLeaver == [e \in Employees |-> IF e = a THEN <<1, 99>> ELSE <<2, 2>>]
OnePeriod == {<<2, 5>>}

-----------------------------------------------------------------------------
(* Four months before the end of a year and one after it.                 *)
MCFirstDay == 9 :> 244 @@ 10 :> 274 @@ 11 :> 305 @@ 12 :> 335 @@ 13 :> 366
MCLastDay == 9 :> 273 @@ 10 :> 304 @@ 11 :> 334 @@ 12 :> 365 @@ 13 :> 396

Line(code, type, method, value) ==
    [code |-> code, type |-> type, method |-> method, value |-> value]
Monthly(base, rent, lines) ==
    [base |-> base, annualRent |-> rent, payFrequency |-> "MONTHLY", currency |-> "NGN",
     lines |-> lines]
Housing == Line("HOUSING", "EARNING", "PERCENT_OF_BASE", 50)
Plain == Monthly(2000, 0, {Housing, Line("TRANSPORT", "EARNING", "FIXED", 300)})
Raised == Monthly(6000, 10000, {Housing, Line("NHIS", "DEDUCTION", "PERCENT_OF_GROSS", 5)})
Own == Monthly(4000, 0, {Line("PENSION", "DEDUCTION", "PERCENT_OF_BASE", 20),
                         Line("TAX", "DEDUCTION", "FIXED", 900)})
Abroad == [Plain EXCEPT !.currency = "USD"]
Throughout(s) == <<[structure |-> s, from |-> 1]>>
MCDeals == {Throughout(Plain), Throughout(Own), Throughout(Abroad),
            <<[structure |-> Plain, from |-> 1], [structure |-> Raised, from |-> 16]>>}

-----------------------------------------------------------------------------
(* The life of a run with one handler at a time, the same with two, and    *)
(* the amounts of a year share nothing: `focus` picks the one that moves.  *)
AnyHire == CHOOSE d \in HireDates : TRUE

(* Two handlers meet over structures that are there already.               *)
Settled == [e \in Employees |-> <<NewStructure(1, 1)>>]

MCInit ==
    /\ TaxInit
    /\ focus \in {"runs", "overlap", "year"}
    /\ focus # "year" => hireDate = AnyHire
    /\ \/ focus # "overlap" /\ Init
       \/ focus = "overlap" /\ structures = Settled /\ InitRuns

(* Bounds: October alone may be paid in another currency, and January is   *)
(* paid to whoever was hired last.                                         *)
AbroadInOctober ==
    \A m \in Months \ {10} : payslips[m].status # "NONE" => payslips[m].taxable # NoTaxable
JanuaryForTheLast ==
    \A m \in Months : m > 12 /\ payslips[m].status # "NONE" => \A d \in HireDates : d <= hireDate

(* One handler at a time.                                                  *)
Alone == \A p \in Procs \ {p1} : At(p, "idle")

(* Bound of the overlap: a run of everyone, with rates; no new structures. *)
OneRun ==
    \A p \in Procs :
        /\ procs[p].kind # "structure"
        /\ procs[p].row # NoRun => procs[p].row.scope = Company /\ procs[p].row.fx > 0

MCNext ==
    \/ focus = "runs" /\ Next /\ Alone' /\ UNCHANGED <<tax, focus>>
    \/ focus = "overlap" /\ Next /\ OneRun' /\ UNCHANGED <<tax, focus>>
    \/ focus = "year" /\ TaxNext /\ AbroadInOctober' /\ JanuaryForTheLast'
       /\ UNCHANGED <<vars, focus>>

MCSpec ==
    MCInit /\ [][MCNext]_<<vars, tax, focus>> /\ Fairness
=============================================================================
