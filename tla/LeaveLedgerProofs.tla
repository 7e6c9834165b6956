------------------------- MODULE LeaveLedgerProofs -------------------------
(***************************************************************************)
(* TLAPS proofs about LeaveLedger and LeaveWorkflow, for every value of    *)
(* their constants: the ledger's own invariants first, then the types and  *)
(* grants that any number of handlers in flight keep, then the refinement: *)
(* handlers that run one at a time implement the ledger.                   *)
(***************************************************************************)
EXTENDS LeaveWorkflow, LeaveHistory, SumTheorems

(* The quotient of two naturals is a natural, and grows with the dividend. *)
LEMMA QuotientIsNat ==
    ASSUME NEW a \in Nat, NEW b \in Nat \ {0}
    PROVE  a \div b \in Nat
OBVIOUS

LEMMA QuotientGrows ==
    ASSUME NEW a \in Nat, NEW c \in Nat, a <= c, NEW b \in Nat \ {0}
    PROVE  a \div b <= c \div b
OBVIOUS

(* YearLength is positive, so that every date has a year of the model.     *)
LEMMA YearLengthIsPositive == YearLength \in Nat \ {0}
BY CalendarAssumption DEF YearLength

LEMMA DatesHaveYears == \A d \in Dates : YearOf(d) \in Years
BY CalendarAssumption, YearLengthIsPositive, QuotientIsNat, QuotientGrows
   DEF Dates, YearOf, Years

(* Calendar operators stay in range.                                       *)
LEMMA YearStartIsNat == \A y \in Nat : YearStart(y) \in Nat \ {0}
BY YearLengthIsPositive DEF YearStart

LEMMA MonthsAreLeft ==
    \A d \in Dates : MonthsPerYear - MonthOf(d) \in Nat
<1> SUFFICES ASSUME NEW d \in Dates PROVE MonthsPerYear - MonthOf(d) \in Nat
    OBVIOUS
<1> DEFINE rem == (d - 1) % YearLength
<1>1. rem \in Nat /\ rem < YearLength
    BY CalendarAssumption, YearLengthIsPositive DEF Dates
<1>2. rem < MonthsPerYear * DaysPerMonth
    BY <1>1 DEF YearLength
<1> HIDE DEF rem
<1>3. rem \div DaysPerMonth \in Nat /\ rem \div DaysPerMonth < MonthsPerYear
    BY <1>1, <1>2, CalendarAssumption
<1> QED
    BY <1>3, CalendarAssumption DEF MonthOf, rem

(* countWorkingDays counts, whatever the dates.                            *)
LEMMA WorkingDaysAreNat ==
    ASSUME NEW start \in Int, NEW end \in Int, NEW half \in BOOLEAN
    PROVE  CountWorkingDays(start, end, half) \in Nat
<1> DEFINE S == {d \in start..end : IsWorkingDay(d)}
<1>1. IsFiniteSet(start..end)
    BY FS_Interval
<1>2. S \subseteq start..end
    OBVIOUS
<1>3. Cardinality(S) \in Nat
    BY <1>1, <1>2, FS_Subset, FS_CardinalityType
<1> QED
    BY <1>3 DEF CountWorkingDays

LEMMA AllocationsAreNat ==
    ASSUME NEW start \in Dates, NEW end \in Dates, NEW half \in BOOLEAN
    PROVE  Allocate(start, end, half) \in [Years -> Nat]
<1>1. \A y \in Years : YearEnd(y) \in Int /\ YearStart(y) \in Int
    BY YearLengthIsPositive, YearStartIsNat, CalendarAssumption, DatesHaveYears
       DEF YearEnd, YearStart, Years
<1>2. start \in Int /\ end \in Int
    BY DEF Dates
<1>3. \A y \in Years :
         /\ CountWorkingDays(start, YearEnd(y), half) \in Nat
         /\ CountWorkingDays(start, end, half) \in Nat
         /\ CountWorkingDays(YearStart(y), end, half) \in Nat
    BY <1>1, <1>2, WorkingDaysAreNat
<1> QED
    BY <1>3 DEF Allocate

(* proRate grants a whole number of half-days.                             *)
LEMMA ProRateIsNat ==
    ASSUME NEW n \in Nat, NEW d \in Dates, NEW y \in Nat
    PROVE  ProRate(n, d, y) \in Nat
<1> DEFINE m == MonthsPerYear - MonthOf(d)
<1>1. m \in Nat
    BY MonthsAreLeft
<1>2. 2 * n * m + MonthsPerYear \in Nat /\ 2 * MonthsPerYear \in Nat \ {0}
    <2>1. n * m \in Nat
        BY <1>1
    <2>2. 2 * n * m = 2 * (n * m)
        BY <1>1
    <2> QED
        BY <2>1, <2>2, CalendarAssumption
<1> HIDE DEF m
<1>3. (2 * n * m + MonthsPerYear) \div (2 * MonthsPerYear) \in Nat
    BY <1>2, QuotientIsNat
<1> QED
    BY <1>3 DEF ProRate, m

-----------------------------------------------------------------------------
(* Balance tables.                                                         *)

(* NotOverdrawn of an arbitrary table.                                     *)
Within(bal) == \A k \in Keys : bal[k].used + bal[k].pending <= Funds(bal[k])

LEMMA PoliciesAreTyped ==
    ASSUME policy \in [Types -> Policies], NEW t \in Types
    PROVE  policy[t] \in Policy
BY PolicyAssumption

LEMMA CarryOverIsNat ==
    ASSUME policy \in [Types -> Policies], NEW bal \in [Keys -> Row],
           NEW e \in Employees, NEW t \in Types, NEW y \in Years
    PROVE  CarryOver(bal, e, t, y) \in Nat
<1>1. policy[t].carryOverMaxDays \in Nat
    BY PoliciesAreTyped DEF Policy
<1>2. CASE y = 0
    BY <1>2 DEF CarryOver
<1>3. CASE y # 0
    <2> DEFINE prev == bal[<<e, t, y - 1>>]
    <2>1. y - 1 \in Years /\ y \in Nat
        BY <1>3, CalendarAssumption, DatesHaveYears DEF Years, Dates
    <2>2. <<e, t, y - 1>> \in Keys
        BY <2>1 DEF Keys
    <2>3. prev \in Row
        BY <2>2
    <2>4. YearEnd(y - 1) \in Int
        BY <2>1, YearLengthIsPositive DEF YearEnd
    <2> HIDE DEF prev
    <2>5. EffectiveCarryOver(prev, YearEnd(y - 1)) \in Int
        BY <2>3, <2>4 DEF EffectiveCarryOver, Row
    <2>6. prev.entitled + EffectiveCarryOver(prev, YearEnd(y - 1))
              + prev.adjustment - prev.used \in Int
        BY <2>3, <2>5 DEF Row
    <2> QED
        BY <1>1, <2>6 DEF CarryOver, prev
<1> QED
    BY <1>2, <1>3

LEMMA ProvisionIsSound ==
    ASSUME policy \in [Types -> Policies], NEW bal \in [Keys -> Row],
           NEW e \in Employees, NEW t \in Types, NEW y \in Years
    PROVE  /\ Provision(bal, e, t, y) \in Row
           /\ Provision(bal, e, t, y).used + Provision(bal, e, t, y).pending
                  <= Funds(Provision(bal, e, t, y))
<1>1. CarryOver(bal, e, t, y) \in Nat
    BY CarryOverIsNat
<1>2. policy[t] \in Policy /\ HireDate[e] \in Dates /\ y \in Nat
    BY PoliciesAreTyped, CalendarAssumption, DatesHaveYears DEF Years
<1>3. ProRate(policy[t].defaultDays, HireDate[e], y) \in Nat
    BY <1>2, ProRateIsNat DEF Policy
<1>4. policy[t].carryOverExpiresOn \in Nat /\ YearStart(y) \in Nat \ {0}
    BY <1>2, YearStartIsNat DEF Policy
<1>5. YearStart(y) + policy[t].carryOverExpiresOn - 1 \in Nat
    BY <1>4
<1> QED
    BY <1>1, <1>3, <1>5 DEF Provision, Row, Funds

(* ensureBalance adds a sound row and touches no other.                    *)
LEMMA EnsureBalanceIsSound ==
    ASSUME policy \in [Types -> Policies], NEW bal \in [Keys -> Row], Within(bal),
           NEW e \in Employees, NEW t \in Types, NEW y \in Years
    PROVE  /\ EnsureBalance(bal, e, t, y) \in [Keys -> Row]
           /\ Within(EnsureBalance(bal, e, t, y))
<1>1. Provision(bal, e, t, y) \in Row
    BY ProvisionIsSound
<1>2. Provision(bal, e, t, y).used + Provision(bal, e, t, y).pending
          <= Funds(Provision(bal, e, t, y))
    BY ProvisionIsSound
<1>3. <<e, t, y>> \in Keys
    BY DEF Keys
<1> QED
    BY <1>1, <1>2, <1>3 DEF EnsureBalance, Within

LEMMA EnsureAllocatedIsSound ==
    ASSUME policy \in [Types -> Policies], NEW bal \in [Keys -> Row], Within(bal),
           NEW e \in Employees, NEW t \in Types, NEW y \in Years,
           NEW alloc \in [Years -> Nat]
    PROVE  /\ EnsureAllocated(bal, e, t, alloc, y) \in [Keys -> Row]
           /\ Within(EnsureAllocated(bal, e, t, alloc, y))
<1> DEFINE first == IF alloc[y] > 0 THEN EnsureBalance(bal, e, t, y) ELSE bal
<1>1. first \in [Keys -> Row] /\ Within(first)
    BY EnsureBalanceIsSound
<1> HIDE DEF first
<1>2. ASSUME y + 1 \in Years
      PROVE  /\ EnsureBalance(first, e, t, y + 1) \in [Keys -> Row]
             /\ Within(EnsureBalance(first, e, t, y + 1))
    BY <1>1, <1>2, EnsureBalanceIsSound
<1> QED
    BY <1>1, <1>2 DEF EnsureAllocated, first

(* applyToBalance moves pending and used by what it is given.              *)
LEMMA ApplyIsTyped ==
    ASSUME NEW row \in Row, NEW p \in Int, NEW u \in Int
    PROVE  /\ ApplyToBalance(row, p, u) \in Row
           /\ ApplyToBalance(row, p, u).pending = row.pending + p
           /\ ApplyToBalance(row, p, u).used = row.used + u
           /\ Funds(ApplyToBalance(row, p, u)) = Funds(row)
<1> DEFINE mid == [row EXCEPT !.pending = row.pending + p]
<1>1. /\ mid \in Row
      /\ mid.pending = row.pending + p /\ mid.used = row.used
      /\ mid.entitled = row.entitled /\ mid.carriedOver = row.carriedOver
      /\ mid.adjustment = row.adjustment
    BY DEF Row
<1>2. ApplyToBalance(row, p, u) = [mid EXCEPT !.used = row.used + u]
    BY Zenon DEF ApplyToBalance, mid
<1> HIDE DEF mid
<1>3. /\ [mid EXCEPT !.used = row.used + u] \in Row
      /\ [mid EXCEPT !.used = row.used + u].pending = mid.pending
      /\ [mid EXCEPT !.used = row.used + u].used = row.used + u
      /\ Funds([mid EXCEPT !.used = row.used + u]) = Funds(mid)
    BY <1>1 DEF Row, Funds
<1> QED
    BY <1>1, <1>2, <1>3 DEF Funds

(* Moving days from pending to used, or giving them back, overdraws        *)
(* nothing.                                                                *)
LEMMA ChargeIsTyped ==
    ASSUME NEW bal \in [Keys -> Row], NEW e, NEW t, NEW alloc \in [Years -> Nat],
           NEW n \in Int, NEW m \in Int
    PROVE  Charge(bal, e, t, alloc, n, m) \in [Keys -> Row]
<1> SUFFICES ASSUME NEW k \in Keys
             PROVE  Charge(bal, e, t, alloc, n, m)[k] \in Row
    BY DEF Charge
<1>1. bal[k] \in Row /\ alloc[k[3]] \in Int
    BY DEF Keys
<1>2. n * alloc[k[3]] \in Int /\ m * alloc[k[3]] \in Int
    BY <1>1
<1> QED
    BY <1>1, <1>2, ApplyIsTyped DEF Charge

LEMMA ReleaseIsSound ==
    ASSUME NEW bal \in [Keys -> Row], Within(bal), NEW e, NEW t,
           NEW alloc \in [Years -> Nat],
           NEW n \in -1..0, NEW m \in -1..1, n + m <= 0
    PROVE  Within(Charge(bal, e, t, alloc, n, m))
<1> SUFFICES ASSUME NEW k \in Keys
             PROVE  LET row == Charge(bal, e, t, alloc, n, m)[k]
                    IN  row.used + row.pending <= Funds(row)
    BY DEF Within
<1>1. bal[k] \in Row /\ alloc[k[3]] \in Nat
    BY DEF Keys
<1>2. n * alloc[k[3]] + m * alloc[k[3]] <= 0
    BY <1>1
<1>3. n * alloc[k[3]] \in Int /\ m * alloc[k[3]] \in Int
    BY <1>1
<1>4. bal[k].used + bal[k].pending <= Funds(bal[k])
    BY DEF Within
<1> QED
    <2>1. ApplyToBalance(bal[k], n * alloc[k[3]], m * alloc[k[3]]).used
              + ApplyToBalance(bal[k], n * alloc[k[3]], m * alloc[k[3]]).pending
          <= Funds(ApplyToBalance(bal[k], n * alloc[k[3]], m * alloc[k[3]]))
        <3>1. bal[k].used \in Int /\ bal[k].pending \in Int /\ Funds(bal[k]) \in Int
            BY <1>1 DEF Row, Funds
        <3> QED
            BY <1>1, <1>2, <1>3, <1>4, <3>1, ApplyIsTyped
    <2> QED
        BY <1>4, <2>1 DEF Charge

(* chargeBalances with an approval's or a release's change.                *)
LEMMA ChargeYearIsSound ==
    ASSUME policy \in [Types -> Policies], NEW bal \in [Keys -> Row], Within(bal),
           NEW r \in Request, NEW y \in Years,
           NEW n \in -1..0, NEW m \in -1..1, n + m <= 0
    PROVE  /\ ChargeYear(bal, r, y, n, m) \in [Keys -> Row]
           /\ Within(ChargeYear(bal, r, y, n, m))
<1> DEFINE rows == EnsureBalance(bal, r.employee, r.type, y)
           alloc == [z \in Years |-> IF z = y THEN r.allocations[z] ELSE 0]
<1>1. /\ r.employee \in Employees /\ r.type \in Types
      /\ r.allocations \in [Years -> Nat]
    BY DEF Request
<1>2. rows \in [Keys -> Row] /\ Within(rows)
    BY <1>1, EnsureBalanceIsSound
<1>3. alloc \in [Years -> Nat] /\ n \in Int /\ m \in Int
    BY <1>1
<1> HIDE DEF rows, alloc
<1>4. Charge(rows, r.employee, r.type, alloc, n, m) \in [Keys -> Row]
    BY <1>2, <1>3, ChargeIsTyped
<1>5. Within(Charge(rows, r.employee, r.type, alloc, n, m))
    BY <1>2, <1>3, ReleaseIsSound
<1> QED
    BY <1>4, <1>5 DEF ChargeYear, rows, alloc

LEMMA ChargeBalancesIsSound ==
    ASSUME policy \in [Types -> Policies], NEW bal \in [Keys -> Row], Within(bal),
           NEW r \in Request, NEW n \in -1..0, NEW m \in -1..1, n + m <= 0
    PROVE  /\ ChargeBalances(bal, r, n, m) \in [Keys -> Row]
           /\ Within(ChargeBalances(bal, r, n, m))
<1> DEFINE y == YearOf(r.startDate)
           first == ChargeYear(bal, r, y, n, m)
<1>1. y \in Years
    BY DatesHaveYears DEF Request
<1>2. first \in [Keys -> Row] /\ Within(first)
    BY <1>1, ChargeYearIsSound
<1> HIDE DEF first, y
<1>3. ASSUME y + 1 \in Years
      PROVE  /\ ChargeYear(first, r, y + 1, n, m) \in [Keys -> Row]
             /\ Within(ChargeYear(first, r, y + 1, n, m))
    BY <1>2, <1>3, ChargeYearIsSound
<1> QED
    BY <1>2, <1>3 DEF ChargeBalances, first, y

LEMMA ReleaseKeepsTheTable ==
    ASSUME policy \in [Types -> Policies], balances \in [Keys -> Row],
           Within(balances), NEW r \in Request
    PROVE  Release(r) \in [Keys -> Row] /\ Within(Release(r))
<1>1. /\ ChargeBalances(balances, r, -1, 0) \in [Keys -> Row]
      /\ Within(ChargeBalances(balances, r, -1, 0))
    BY ChargeBalancesIsSound
<1>2. /\ ChargeBalances(balances, r, 0, -1) \in [Keys -> Row]
      /\ Within(ChargeBalances(balances, r, 0, -1))
    BY ChargeBalancesIsSound
<1> QED
    BY <1>1, <1>2 DEF Release

(* The rows a submission provisions.                                       *)
LEMMA SubmitRowsAreSound ==
    ASSUME policy \in [Types -> Policies], balances \in [Keys -> Row],
           Within(balances), NEW e \in Employees, NEW t \in Types,
           NEW start \in Dates, NEW alloc \in [Years -> Nat]
    PROVE  /\ SubmitRows(e, t, start, alloc) \in [Keys -> Row]
           /\ Within(SubmitRows(e, t, start, alloc))
<1>1. YearOf(start) \in Years
    BY DatesHaveYears
<1>2. /\ EnsureBalance(balances, e, t, YearOf(start)) \in [Keys -> Row]
      /\ Within(EnsureBalance(balances, e, t, YearOf(start)))
    BY <1>1, EnsureBalanceIsSound
<1>3. /\ EnsureAllocated(balances, e, t, alloc, YearOf(start)) \in [Keys -> Row]
      /\ Within(EnsureAllocated(balances, e, t, alloc, YearOf(start)))
    BY <1>1, EnsureAllocatedIsSound
<1> QED
    BY <1>2, <1>3 DEF SubmitRows

(* submit checks each year against what is available on it, so that the    *)
(* reservation fits.                                                       *)
LEMMA ReservationFits ==
    ASSUME NEW bal \in [Keys -> Row], Within(bal), NEW e, NEW t,
           NEW start \in Dates, NEW alloc \in [Years -> Nat],
           \A y \in Years : Funded(bal, e, t, start, alloc, y)
    PROVE  Within(Charge(bal, e, t, alloc, 1, 0))
<1> SUFFICES ASSUME NEW k \in Keys
             PROVE  LET row == Charge(bal, e, t, alloc, 1, 0)[k]
                    IN  row.used + row.pending <= Funds(row)
    BY DEF Within
<1>1. bal[k] \in Row /\ alloc[k[3]] \in Nat /\ k[3] \in Years
    BY DEF Keys
<1>2. bal[k].used + bal[k].pending <= Funds(bal[k])
    BY DEF Within
<1>3. CASE k[1] = e /\ k[2] = t /\ alloc[k[3]] > 0
    <2> DEFINE d == alloc[k[3]]
               asOf == IF k[3] = YearOf(start) THEN start ELSE YearStart(k[3])
    <2>1. k = <<e, t, k[3]>>
        BY <1>3 DEF Keys
    <2>2. d <= Available(bal[k], asOf)
        BY <1>1, <1>3, <2>1 DEF Funded
    <2>3. /\ bal[k].carriedOver \in Nat /\ bal[k].entitled \in Nat
          /\ bal[k].adjustment \in Int /\ bal[k].used \in Int
          /\ bal[k].pending \in Int
        BY <1>1 DEF Row
    <2>4. EffectiveCarryOver(bal[k], asOf) \in 0..bal[k].carriedOver
        BY <2>3 DEF EffectiveCarryOver
    <2> HIDE DEF asOf
    <2>5. bal[k].used + (bal[k].pending + d) <= Funds(bal[k])
        BY <1>1, <2>2, <2>3, <2>4 DEF Available, Funds
    <2>6. 1 * d = d /\ 0 * d = 0 /\ d \in Int
        BY <1>1
    <2>7. ApplyToBalance(bal[k], d, 0).used + ApplyToBalance(bal[k], d, 0).pending
              <= Funds(ApplyToBalance(bal[k], d, 0))
        BY <1>1, <2>3, <2>5, <2>6, ApplyIsTyped
    <2> QED
        BY <1>3, <2>6, <2>7 DEF Charge
<1>4. CASE ~(k[1] = e /\ k[2] = t /\ alloc[k[3]] > 0)
    BY <1>2, <1>4 DEF Charge
<1> QED
    BY <1>3, <1>4

-----------------------------------------------------------------------------
(* Requests.                                                               *)

LEMMA DecidedIsTyped ==
    ASSUME NEW r \in Request, NEW s \in RequestStatus, NEW b \in BOOLEAN
    PROVE  /\ Decided(r, s, b) \in Request
           /\ Decided(r, s, b).status = s
           /\ Decided(r, s, b).statusApplied = b
           /\ Decided(r, s, b).employee = r.employee
           /\ Decided(r, s, b).type = r.type
           /\ Decided(r, s, b).startDate = r.startDate
           /\ Decided(r, s, b).endDate = r.endDate
           /\ Decided(r, s, b).allocations = r.allocations
<1> DEFINE mid == [r EXCEPT !.status = s]
<1>1. /\ mid \in Request /\ mid.status = s
      /\ mid.employee = r.employee /\ mid.startDate = r.startDate
      /\ mid.type = r.type /\ mid.endDate = r.endDate /\ mid.allocations = r.allocations
    BY DEF Request
<1>2. Decided(r, s, b) = [mid EXCEPT !.statusApplied = b]
    BY Zenon DEF Decided, mid
<1> HIDE DEF mid
<1>3. /\ [mid EXCEPT !.statusApplied = b] \in Request
      /\ [mid EXCEPT !.statusApplied = b].status = mid.status
      /\ [mid EXCEPT !.statusApplied = b].statusApplied = b
      /\ [mid EXCEPT !.statusApplied = b].employee = mid.employee
      /\ [mid EXCEPT !.statusApplied = b].type = mid.type
      /\ [mid EXCEPT !.statusApplied = b].startDate = mid.startDate
      /\ [mid EXCEPT !.statusApplied = b].endDate = mid.endDate
      /\ [mid EXCEPT !.statusApplied = b].allocations = mid.allocations
    BY <1>1 DEF Request
<1> QED
    BY <1>1, <1>2, <1>3

LEMMA NewRequestIsTyped ==
    ASSUME NEW e \in Employees, NEW t \in Types, NEW start \in Dates,
           NEW end \in Dates, NEW half \in BOOLEAN
    PROVE  NewRequest(e, t, start, end, half) \in Request
BY AllocationsAreNat DEF NewRequest, Request, RequestStatus

(* TypeOK and NotOverdrawn are inductive together: a request's allocation  *)
(* is what it gives back later, and every change of a row keeps the other. *)
Sound == TypeOK /\ NotOverdrawn

LEMMA InitIsSound == Init => Sound
<1> SUFFICES ASSUME Init PROVE Sound
    OBVIOUS
<1>1. NoRow \in Row /\ NoRow.used + NoRow.pending <= Funds(NoRow)
    BY DEF NoRow, Row, Funds
<1>2. 1 \in Dates
    BY CalendarAssumption DEF Dates
<1>3. NoRequest \in Request
    BY <1>2, PolicyAssumption DEF NoRequest, Request, RequestStatus
<1>4. empStatus \in [Employees -> EmployeeStatus]
    BY PolicyAssumption DEF Init, EmployeeStatus
<1> QED
    BY <1>1, <1>2, <1>3, <1>4 DEF Init, Sound, TypeOK, NotOverdrawn

LEMMA RequestStepIsSound == Sound /\ RequestStep => Sound'
<1> SUFFICES ASSUME Sound, RequestStep PROVE Sound'
    OBVIOUS
<1> USE DEF Sound
<1>0. /\ today \in Dates /\ policy \in [Types -> Policies]
      /\ balances \in [Keys -> Row] /\ Within(balances)
      /\ requests \in [RequestIds -> Request]
      /\ empStatus \in [Employees -> EmployeeStatus]
    BY DEF TypeOK, NotOverdrawn, Within
<1>1. ASSUME NEW i \in RequestIds, NEW e \in Employees, NEW t \in Types,
             NEW start \in Dates, NEW end \in Dates, NEW half \in BOOLEAN,
             Submit(i, e, t, start, end, half)
      PROVE  Sound'
    <2> DEFINE alloc == Allocate(start, end, half)
               rows == SubmitRows(e, t, start, alloc)
    <2>1. alloc \in [Years -> Nat]
        BY AllocationsAreNat
    <2>2. rows \in [Keys -> Row] /\ Within(rows)
        BY <1>0, <2>1, SubmitRowsAreSound
    <2>3. requests' \in [RequestIds -> Request]
        BY <1>0, <1>1, NewRequestIsTyped DEF Submit
    <2>4. Charge(rows, e, t, alloc, 1, 0) \in [Keys -> Row]
        BY <2>1, <2>2, ChargeIsTyped
    <2>5. policy[t].requiresBalance => \A y \in Years : Funded(rows, e, t, start, alloc, y)
        BY <1>1 DEF Submit
    <2>6. balances' = IF policy[t].requiresBalance
                      THEN Charge(rows, e, t, alloc, 1, 0) ELSE balances
        BY <1>1 DEF Submit
    <2> HIDE DEF rows, alloc
    <2>7. policy[t].requiresBalance => Within(Charge(rows, e, t, alloc, 1, 0))
        BY <2>1, <2>2, <2>5, ReservationFits
    <2>8. balances' \in [Keys -> Row] /\ Within(balances')
        BY <1>0, <2>4, <2>6, <2>7
    <2> QED
        BY <1>0, <1>1, <2>3, <2>8 DEF Submit, TypeOK, NotOverdrawn, Within
<1>2. ASSUME NEW e \in Employees, NEW t \in Types,
             NEW start \in Dates, NEW end \in Dates, NEW half \in BOOLEAN,
             SubmitInsufficient(e, t, start, end, half)
      PROVE  Sound'
    <2> DEFINE alloc == Allocate(start, end, half)
    <2>1. alloc \in [Years -> Nat]
        BY AllocationsAreNat
    <2>2. balances' \in [Keys -> Row] /\ Within(balances')
        BY <1>0, <1>2, <2>1, SubmitRowsAreSound DEF SubmitInsufficient
    <2> QED
        BY <1>0, <1>2, <2>2 DEF SubmitInsufficient, TypeOK, NotOverdrawn, Within
<1>3. ASSUME NEW i \in RequestIds, NEW actor \in Actors, Approve(i, actor)
      PROVE  Sound'
    <2> DEFINE r == requests[i]
    <2>1. r \in Request /\ r.employee \in Employees
        BY <1>0 DEF Request
    <2>2. /\ ChargeBalances(balances, r, -1, 1) \in [Keys -> Row]
          /\ Within(ChargeBalances(balances, r, -1, 1))
        BY <1>0, <2>1, ChargeBalancesIsSound
    <2>3. balances' \in [Keys -> Row] /\ Within(balances')
        BY <1>0, <1>3, <2>2 DEF Approve
    <2>4. TakesEffect(r) \in BOOLEAN /\ "APPROVED" \in RequestStatus
        BY DEF TakesEffect, RequestStatus
    <2>5. requests' \in [RequestIds -> Request]
        BY <1>0, <1>3, <2>1, <2>4, DecidedIsTyped DEF Approve
    <2>6. empStatus' \in [Employees -> EmployeeStatus]
        BY <1>0, <1>3, <2>1 DEF Approve, EmployeeStatus
    <2> QED
        BY <1>0, <1>3, <2>3, <2>5, <2>6 DEF Approve, TypeOK, NotOverdrawn, Within
<1>4. ASSUME NEW i \in RequestIds, NEW actor \in Actors, Reject(i, actor)
      PROVE  Sound'
    <2>1. requests[i] \in Request /\ requests[i].statusApplied \in BOOLEAN
        BY <1>0 DEF Request
    <2>2. balances' \in [Keys -> Row] /\ Within(balances')
        BY <1>0, <1>4, <2>1, ReleaseKeepsTheTable DEF Reject
    <2>3. requests' \in [RequestIds -> Request]
        BY <1>0, <1>4, <2>1, DecidedIsTyped DEF Reject, RequestStatus
    <2> QED
        BY <1>0, <1>4, <2>2, <2>3 DEF Reject, TypeOK, NotOverdrawn, Within
<1>5. ASSUME NEW i \in RequestIds, NEW actor \in Actors, Cancel(i, actor)
      PROVE  Sound'
    <2>1. requests[i] \in Request /\ requests[i].employee \in Employees
        BY <1>0 DEF Request
    <2>2. balances' \in [Keys -> Row] /\ Within(balances')
        BY <1>0, <1>5, <2>1, ReleaseKeepsTheTable DEF Cancel
    <2>3. requests' \in [RequestIds -> Request]
        BY <1>0, <1>5, <2>1, DecidedIsTyped DEF Cancel, RequestStatus
    <2>4. empStatus' \in [Employees -> EmployeeStatus]
        BY <1>0, <1>5, <2>1 DEF Cancel, EmployeeStatus
    <2> QED
        BY <1>0, <1>5, <2>2, <2>3, <2>4 DEF Cancel, TypeOK, NotOverdrawn, Within
<1>6. ASSUME SyncEmployeeStatuses PROVE Sound'
    <2>1. \A i \in RequestIds :
              [requests[i] EXCEPT !.statusApplied =
                  (requests[i].statusApplied \/ i \in Starting) /\ i \notin Ending]
              \in Request
        BY <1>0 DEF Request
    <2>2. requests' \in [RequestIds -> Request]
        BY <1>6, <2>1 DEF SyncEmployeeStatuses
    <2>3. empStatus' \in [Employees -> EmployeeStatus]
        BY <1>0, <1>6 DEF SyncEmployeeStatuses, EmployeeStatus
    <2> QED
        BY <1>0, <1>6, <2>2, <2>3 DEF SyncEmployeeStatuses, TypeOK, NotOverdrawn, Within
<1> QED
    BY <1>1, <1>2, <1>3, <1>4, <1>5, <1>6 DEF RequestStep

LEMMA PolicyStepIsSound == Sound /\ PolicyStep => Sound'
<1> SUFFICES ASSUME Sound, PolicyStep PROVE Sound'
    OBVIOUS
<1> USE DEF Sound
<1>0. /\ today \in Dates /\ policy \in [Types -> Policies]
      /\ balances \in [Keys -> Row] /\ Within(balances)
    BY DEF TypeOK, NotOverdrawn, Within
<1>1. ASSUME NEW e \in Employees, NEW t \in Types, NEW y \in Years,
             NEW delta \in Deltas, Adjust(e, t, y, delta)
      PROVE  Sound'
    <2> DEFINE bal == EnsureBalance(balances, e, t, y)
               key == <<e, t, y>>
               new == [bal[key] EXCEPT !.adjustment = @ + delta]
    <2>1. bal \in [Keys -> Row] /\ Within(bal)
        BY <1>0, EnsureBalanceIsSound
    <2>2. key \in Keys /\ delta \in Int
        BY PolicyAssumption DEF Keys
    <2>3. \/ balances' = bal
          \/ /\ Available(bal[key], today) + delta >= 0
             /\ balances' = [bal EXCEPT ![key] = new]
        <3> HIDE DEF bal
        <3>1. Available(bal[key], today) \in Int
            BY <1>0, <2>1, <2>2 DEF Row, Available, EffectiveCarryOver, Dates
        <3> QED
            BY <1>1, <2>2, <3>1 DEF Adjust, bal
    <2> HIDE DEF bal
    <2>4. CASE balances' = bal
        BY <1>0, <1>1, <2>1, <2>4 DEF Adjust, TypeOK, NotOverdrawn, Within
    <2>5. CASE /\ Available(bal[key], today) + delta >= 0
               /\ balances' = [bal EXCEPT ![key] = new]
        <3>1. bal[key] \in Row
            BY <2>1, <2>2
        <3>2. new \in Row
            BY <2>2, <3>1 DEF Row
        <3>3. EffectiveCarryOver(bal[key], today) \in 0..bal[key].carriedOver
            BY <3>1 DEF EffectiveCarryOver, Row
        <3>4. new.used + new.pending <= Funds(new)
            BY <2>2, <2>5, <3>1, <3>3 DEF Row, Available, Funds
        <3> HIDE DEF new
        <3>5. balances' \in [Keys -> Row] /\ Within(balances')
            BY <2>1, <2>2, <2>5, <3>2, <3>4 DEF Within
        <3> QED
            BY <1>0, <1>1, <3>5 DEF Adjust, TypeOK, NotOverdrawn, Within
    <2> QED
        BY <2>3, <2>4, <2>5
<1>2. ASSUME NEW e \in Employees, NEW y \in Years, BalancesFor(e, y)
      PROVE  Sound'
    <2>1. \A t \in Types : /\ EnsureBalance(balances, e, t, y) \in [Keys -> Row]
                           /\ Within(EnsureBalance(balances, e, t, y))
        BY <1>0, EnsureBalanceIsSound
    <2>2. \A k \in Keys : k[2] \in Types
        BY DEF Keys
    <2>3. balances' \in [Keys -> Row] /\ Within(balances')
        BY <1>0, <1>2, <2>1, <2>2 DEF BalancesFor, Within
    <2> QED
        BY <1>0, <1>2, <2>3 DEF BalancesFor, TypeOK, NotOverdrawn, Within
<1>3. ASSUME NEW t \in Types, NEW p \in Policies, UpdateType(t, p)
      PROVE  Sound'
    BY <1>3 DEF UpdateType, TypeOK, NotOverdrawn
<1>4. ASSUME NEW ds \in SUBSET HolidayDates, AddHolidays(ds)
      PROVE  Sound'
    BY <1>4, CalendarAssumption DEF AddHolidays, TypeOK, NotOverdrawn
<1>5. ASSUME NEW d \in HolidayDates, RemoveHoliday(d)
      PROVE  Sound'
    BY <1>5 DEF RemoveHoliday, TypeOK, NotOverdrawn
<1> QED
    BY <1>1, <1>2, <1>3, <1>4, <1>5 DEF PolicyStep

LEMMA OtherStepsAreSound == Sound /\ (EmployeeStep \/ Tick) => Sound'
<1>1. ASSUME Sound, EmployeeStep PROVE Sound'
    BY <1>1 DEF Sound, EmployeeStep, ChangeStatus, Terminate, TypeOK, NotOverdrawn,
                EmployeeStatus
<1>2. ASSUME Sound, Tick PROVE Sound'
    BY <1>2, CalendarAssumption DEF Sound, Tick, TypeOK, NotOverdrawn, Dates
<1> QED
    BY <1>1, <1>2

(* The leave component keeps its types and never overdraws a balance: the  *)
(* inductive step, over every handler.                                     *)
THEOREM SoundnessIsInvariant == Spec => []Sound
<1>1. Init => Sound
    BY InitIsSound
<1>2. Sound /\ [Next]_vars => Sound'
    <2>1. Sound /\ Next => Sound'
        BY RequestStepIsSound, PolicyStepIsSound, OtherStepsAreSound DEF Next
    <2>2. Sound /\ UNCHANGED vars => Sound'
        BY DEF Sound, TypeOK, NotOverdrawn, vars
    <2> QED
        BY <2>1, <2>2
<1> QED
    BY <1>1, <1>2, PTL DEF Spec

(* Every reachable state of the leave component is well typed.             *)
THEOREM TypeCorrect == Spec => []TypeOK
<1>1. Sound => TypeOK
    BY DEF Sound
<1> QED
    BY <1>1, SoundnessIsInvariant, PTL

(* No sequence of submissions, decisions, cancellations, corrections and   *)
(* policy changes overdraws a balance row.                                 *)
THEOREM NeverOverdrawn == Spec => []NotOverdrawn
<1>1. Sound => NotOverdrawn
    BY DEF Sound
<1> QED
    BY <1>1, SoundnessIsInvariant, PTL

-----------------------------------------------------------------------------
(* Overlapping requests.                                                   *)

(* A step that files nothing and revives nothing.                          *)
OnlyDecides ==
    \A i \in RequestIds :
        /\ requests'[i].status \in ActiveStatuses => requests[i].status \in ActiveStatuses
        /\ requests'[i].employee = requests[i].employee
        /\ requests'[i].startDate = requests[i].startDate
        /\ requests'[i].endDate = requests[i].endDate

LEMMA DecidingKeepsNoOverlap == NoOverlap /\ OnlyDecides => NoOverlap'
BY DEF NoOverlap, OnlyDecides, Overlaps

LEMMA DecisionsOnlyDecide ==
    ASSUME TypeOK, NEW i \in RequestIds, NEW s \in RequestStatus, NEW b \in BOOLEAN,
           requests[i].status \in ActiveStatuses,
           requests' = [requests EXCEPT ![i] = Decided(requests[i], s, b)]
    PROVE  OnlyDecides
<1>1. requests[i] \in Request /\ requests \in [RequestIds -> Request]
    BY DEF TypeOK
<1> QED
    BY <1>1, DecidedIsTyped DEF OnlyDecides

LEMMA SubmitKeepsNoOverlap ==
    ASSUME TypeOK, NoOverlap, NEW i \in RequestIds, NEW e \in Employees,
           NEW t \in Types, NEW start \in Dates, NEW end \in Dates,
           NEW half \in BOOLEAN, Submit(i, e, t, start, end, half)
    PROVE  NoOverlap'
<1> DEFINE new == NewRequest(e, t, start, end, half)
<1>1. requests \in [RequestIds -> Request]
    BY DEF TypeOK
<1>2. requests' = [requests EXCEPT ![i] = new]
    BY DEF Submit
<1>3. new.employee = e /\ new.startDate = start /\ new.endDate = end
    BY DEF NewRequest
<1>4. \A j \in RequestIds : ~Overlaps(requests[j], e, start, end)
    BY DEF Submit, CanSubmit, NoConflict
<1>5. \A j \in RequestIds \ {i} : requests'[j] = requests[j]
    BY <1>1, <1>2
<1>6. requests'[i] = new
    BY <1>1, <1>2
<1> HIDE DEF new
<1> SUFFICES ASSUME NEW j \in RequestIds, NEW k \in RequestIds, j # k,
                    requests'[k].status \in ActiveStatuses
             PROVE  ~Overlaps(requests'[j], requests'[k].employee,
                              requests'[k].startDate, requests'[k].endDate)
    BY DEF NoOverlap, Overlaps
<1>7. CASE j # i /\ k # i
    BY <1>5, <1>7 DEF NoOverlap
<1>8. CASE k = i
    BY <1>3, <1>4, <1>5, <1>6, <1>8
<1>9. CASE j = i
    <2>1. requests'[k] = requests[k] /\ ~Overlaps(requests[k], e, start, end)
        BY <1>4, <1>5, <1>9
    <2>2. /\ requests[k].startDate \in Int /\ requests[k].endDate \in Int
          /\ start \in Int /\ end \in Int
        BY <1>1 DEF Request, Dates
    <2> QED
        BY <1>3, <1>6, <1>9, <2>1, <2>2 DEF Overlaps
<1> QED
    BY <1>7, <1>8, <1>9

LEMMA NextKeepsNoOverlap == TypeOK /\ NoOverlap /\ [Next]_vars => NoOverlap'
<1> SUFFICES ASSUME TypeOK, NoOverlap, [Next]_vars PROVE NoOverlap'
    OBVIOUS
<1>0. requests \in [RequestIds -> Request]
    BY DEF TypeOK
<1>1. ASSUME UNCHANGED requests PROVE NoOverlap'
    BY <1>1 DEF NoOverlap, Overlaps
<1>2. ASSUME NEW i \in RequestIds, NEW actor \in Actors,
             Approve(i, actor) \/ Reject(i, actor) \/ Cancel(i, actor)
      PROVE  NoOverlap'
    <2>1. /\ requests[i].status \in ActiveStatuses
          /\ \E s \in RequestStatus, b \in BOOLEAN :
                 requests' = [requests EXCEPT ![i] = Decided(requests[i], s, b)]
        <3>1. requests[i].statusApplied \in BOOLEAN /\ TakesEffect(requests[i]) \in BOOLEAN
            BY <1>0 DEF Request, TakesEffect
        <3>2. CASE Approve(i, actor)
            BY <3>1, <3>2 DEF Approve, MayDecide, ActiveStatuses, RequestStatus
        <3>3. CASE Reject(i, actor)
            BY <3>1, <3>3 DEF Reject, MayDecide, ActiveStatuses, RequestStatus
        <3>4. CASE Cancel(i, actor)
            BY <3>4 DEF Cancel, RequestStatus
        <3> QED
            BY <1>2, <3>2, <3>3, <3>4
    <2> QED
        BY <2>1, DecisionsOnlyDecide, DecidingKeepsNoOverlap
<1>3. ASSUME SyncEmployeeStatuses PROVE NoOverlap'
    <2>1. \A i \in RequestIds :
              LET new == [requests[i] EXCEPT !.statusApplied =
                      (requests[i].statusApplied \/ i \in Starting) /\ i \notin Ending]
              IN  /\ new.status = requests[i].status
                  /\ new.employee = requests[i].employee
                  /\ new.startDate = requests[i].startDate
                  /\ new.endDate = requests[i].endDate
        BY <1>0 DEF Request
    <2>2. OnlyDecides
        BY <1>3, <2>1 DEF SyncEmployeeStatuses, OnlyDecides
    <2> QED
        BY <2>2, DecidingKeepsNoOverlap
<1>4. CASE RequestStep
    <2>1. ASSUME NEW e \in Employees, NEW t \in Types, NEW start \in Dates,
                 NEW end \in Dates, NEW half \in BOOLEAN,
                 SubmitInsufficient(e, t, start, end, half)
          PROVE  NoOverlap'
        BY <1>1, <2>1 DEF SubmitInsufficient
    <2> QED
        BY <1>2, <1>3, <1>4, <2>1, SubmitKeepsNoOverlap DEF RequestStep
<1>5. CASE PolicyStep
    BY <1>1, <1>5 DEF PolicyStep, Adjust, BalancesFor, UpdateType, AddHolidays, RemoveHoliday
<1>6. CASE EmployeeStep \/ Tick \/ UNCHANGED vars
    BY <1>1, <1>6 DEF EmployeeStep, ChangeStatus, Terminate, Tick, vars
<1> QED
    BY <1>4, <1>5, <1>6 DEF Next

(* Two pending or approved requests of an employee never share a day, as   *)
(* long as submissions are served one at a time.                           *)
THEOREM RequestsNeverOverlap == Spec => []NoOverlap
<1>1. Init => NoOverlap
    BY DEF Init, NoOverlap, NoRequest, ActiveStatuses
<1>2. TypeOK /\ NoOverlap /\ [Next]_vars => NoOverlap'
    BY NextKeepsNoOverlap
<1> QED
    BY <1>1, <1>2, TypeCorrect, PTL DEF Spec
-----------------------------------------------------------------------------
(* The coupling of long leave with the employee's status.                  *)

(* What the coupling needs; an employee stays among those that were called *)
(* back by hand.                                                           *)
Coupled == TypeOK /\ NoOverlap /\ AppliedIsOnLeave

(* A request that starts today finds its employee ACTIVE, so none is       *)
(* already applied for that employee; and two requests that start today    *)
(* would overlap.                                                          *)
LEMMA OneStartEach ==
    ASSUME TypeOK, NoOverlap, NEW i \in Starting, NEW j \in Starting,
           requests[i].employee = requests[j].employee
    PROVE  i = j
<1> SUFFICES ASSUME i # j PROVE FALSE
    OBVIOUS
<1>1. /\ requests[i].startDate \in Int /\ requests[i].endDate \in Int
      /\ requests[j].startDate \in Int /\ requests[j].endDate \in Int /\ today \in Int
    BY DEF TypeOK, Request, Dates, Starting
<1>2. /\ requests[i].startDate <= today /\ requests[i].endDate >= today
      /\ requests[j].startDate <= today /\ requests[j].endDate >= today
    BY DEF Starting, TakesEffect
<1>3. Overlaps(requests[i], requests[j].employee, requests[j].startDate, requests[j].endDate)
    BY <1>1, <1>2 DEF Overlaps, Starting, ActiveStatuses
<1> QED
    BY <1>3 DEF NoOverlap, Starting, ActiveStatuses

LEMMA SyncKeepsCoupling ==
    ASSUME Coupled, SyncEmployeeStatuses, calledBack \subseteq calledBack'
    PROVE  AppliedIsOnLeave'
<1>0. requests \in [RequestIds -> Request] /\ empStatus \in [Employees -> EmployeeStatus]
    BY DEF Coupled, TypeOK
<1>1. ASSUME NEW i \in RequestIds
      PROVE  /\ requests'[i].status = requests[i].status
             /\ requests'[i].employee = requests[i].employee
             /\ requests'[i].employee \in Employees
             /\ requests'[i].statusApplied
                    = ((requests[i].statusApplied \/ i \in Starting) /\ i \notin Ending)
    <2>1. requests[i] \in Request
        BY <1>0
    <2>2. requests'[i] = [requests[i] EXCEPT !.statusApplied =
                 (requests[i].statusApplied \/ i \in Starting) /\ i \notin Ending]
        BY DEF SyncEmployeeStatuses
    <2> QED
        BY <2>1, <2>2 DEF Request
<1>2. ASSUME NEW i \in RequestIds, NEW j \in Starting, requests[i].statusApplied,
             requests[i].employee \notin calledBack'
      PROVE  requests[i].employee # requests[j].employee
    BY <1>2 DEF Coupled, AppliedIsOnLeave, Starting, TakesEffect
<1>3. ASSUME NEW i \in RequestIds, requests'[i].statusApplied,
             NEW j \in RequestIds, requests'[j].statusApplied,
             requests'[i].employee = requests'[j].employee,
             requests'[i].employee \notin calledBack'
      PROVE  i = j
    <2>1. /\ requests[i].employee = requests[j].employee
          /\ requests[i].statusApplied \/ i \in Starting
          /\ requests[j].statusApplied \/ j \in Starting
          /\ requests[i].employee \notin calledBack'
          /\ requests[i].employee \notin calledBack
        BY <1>1, <1>3
    <2>2. CASE requests[i].statusApplied /\ requests[j].statusApplied
        BY <2>1, <2>2 DEF Coupled, AppliedIsOnLeave
    <2>3. CASE i \in Starting /\ j \in Starting
        BY <2>1, <2>3, OneStartEach DEF Coupled
    <2> QED
        BY <1>2, <2>1, <2>2, <2>3
<1>4. ASSUME NEW i \in RequestIds, requests'[i].statusApplied
      PROVE  /\ requests[i].status = "APPROVED"
             /\ requests[i].employee \notin calledBack'
                    => requests[i].employee \notin EmployeesOf(Ending)
    <2>1. requests[i].statusApplied \/ i \in Starting
        BY <1>1, <1>4
    <2>2. requests[i].status = "APPROVED"
        BY <2>1 DEF Coupled, AppliedIsOnLeave, Starting
    <2>3. ASSUME NEW j \in Ending, requests[j].employee = requests[i].employee,
                 requests[i].employee \notin calledBack'
          PROVE  FALSE
        BY <1>1, <1>2, <1>4, <2>1, <2>3 DEF Coupled, AppliedIsOnLeave, Ending
    <2> QED
        BY <2>2, <2>3 DEF EmployeesOf
<1>5. ASSUME NEW i \in RequestIds, requests'[i].statusApplied,
             requests'[i].employee \notin calledBack'
      PROVE  empStatus'[requests'[i].employee] \in {"ON_LEAVE", "TERMINATED"}
    <2> DEFINE e == requests[i].employee
    <2>1. e \in Employees /\ e = requests'[i].employee /\ e \notin EmployeesOf(Ending)
        BY <1>1, <1>4, <1>5
    <2>2. empStatus'[e] = IF e \in EmployeesOf(Starting) THEN "ON_LEAVE" ELSE empStatus[e]
        BY <2>1 DEF SyncEmployeeStatuses
    <2>3. e \in EmployeesOf(Starting) \/ requests[i].statusApplied
        BY <1>1, <1>5 DEF EmployeesOf
    <2> QED
        BY <1>5, <2>1, <2>2, <2>3 DEF Coupled, AppliedIsOnLeave
<1> QED
    BY <1>1, <1>3, <1>4, <1>5 DEF AppliedIsOnLeave

(* approve, reject and cancel.                                             *)
LEMMA DecisionsKeepCoupling ==
    ASSUME Coupled, calledBack \subseteq calledBack', NEW i \in RequestIds, NEW actor \in Actors,
           Approve(i, actor) \/ Reject(i, actor) \/ Cancel(i, actor)
    PROVE  AppliedIsOnLeave'
<1>0. /\ requests \in [RequestIds -> Request] /\ empStatus \in [Employees -> EmployeeStatus]
      /\ requests[i] \in Request /\ requests[i].employee \in Employees
    BY DEF Coupled, TypeOK, Request
<1>1. \A j \in RequestIds : requests[j].employee \in Employees
    BY <1>0 DEF Request
<1>2. CASE Approve(i, actor)
    <2>1. TakesEffect(requests[i]) \in BOOLEAN /\ "APPROVED" \in RequestStatus
        BY DEF TakesEffect, RequestStatus
    <2>2. /\ requests'[i].status = "APPROVED"
          /\ requests'[i].employee = requests[i].employee
          /\ requests'[i].statusApplied = TakesEffect(requests[i])
          /\ \A j \in RequestIds \ {i} : requests'[j] = requests[j]
        BY <1>0, <1>2, <2>1, DecidedIsTyped DEF Approve
    <2>3. CASE TakesEffect(requests[i])
        <3>1. \A j \in RequestIds : requests[j].statusApplied
                  => requests[j].employee # requests[i].employee
                     \/ requests[i].employee \in calledBack'
            BY <2>3 DEF TakesEffect, Coupled, AppliedIsOnLeave
        <3>2. empStatus' = [empStatus EXCEPT ![requests[i].employee] = "ON_LEAVE"]
            BY <1>2, <2>3 DEF Approve
        <3> QED
            BY <1>0, <1>1, <2>2, <3>1, <3>2 DEF Coupled, AppliedIsOnLeave
    <2>4. CASE ~TakesEffect(requests[i])
        <3>1. empStatus' = empStatus
            BY <1>2, <2>4 DEF Approve
        <3> QED
            BY <2>2, <2>4, <3>1 DEF Coupled, AppliedIsOnLeave
    <2> QED
        BY <2>3, <2>4
<1>3. CASE Reject(i, actor)
    <2>1. /\ requests'[i].employee = requests[i].employee
          /\ requests'[i].statusApplied = requests[i].statusApplied
          /\ \A j \in RequestIds \ {i} : requests'[j] = requests[j]
        BY <1>0, <1>3, DecidedIsTyped DEF Reject, RequestStatus, Request
    <2>2. ~requests[i].statusApplied
        BY <1>3 DEF Reject, MayDecide, Coupled, AppliedIsOnLeave
    <2>3. empStatus' = empStatus
        BY <1>3 DEF Reject
    <2> QED
        BY <2>1, <2>2, <2>3 DEF Coupled, AppliedIsOnLeave
<1>4. CASE Cancel(i, actor)
    <2>1. /\ ~requests'[i].statusApplied
          /\ \A j \in RequestIds \ {i} : requests'[j] = requests[j]
        BY <1>0, <1>4, DecidedIsTyped DEF Cancel, RequestStatus
    <2>2. CASE requests[i].statusApplied
        <3>1. \A j \in RequestIds \ {i} : requests[j].statusApplied
                  => requests[j].employee # requests[i].employee
                     \/ requests[i].employee \in calledBack'
            BY <2>2 DEF Coupled, AppliedIsOnLeave
        <3>2. \A e \in Employees \ {requests[i].employee} : empStatus'[e] = empStatus[e]
            BY <1>0, <1>4 DEF Cancel
        <3> QED
            BY <1>1, <2>1, <3>1, <3>2 DEF Coupled, AppliedIsOnLeave
    <2>3. CASE ~requests[i].statusApplied
        <3>1. empStatus' = empStatus
            BY <1>4, <2>3 DEF Cancel
        <3> QED
            BY <2>1, <3>1 DEF Coupled, AppliedIsOnLeave
    <2> QED
        BY <2>2, <2>3
<1> QED
    BY <1>2, <1>3, <1>4

LEMMA NextKeepsCoupling ==
    ASSUME Coupled, [HNext]_hvars
    PROVE  AppliedIsOnLeave'
<1> calledBack \subseteq calledBack' /\ [Next]_vars
    BY DEF HNext, hvars
<1>0. /\ requests \in [RequestIds -> Request] /\ empStatus \in [Employees -> EmployeeStatus]
    BY DEF Coupled, TypeOK
<1>1. ASSUME UNCHANGED <<requests, empStatus>> PROVE AppliedIsOnLeave'
    BY <1>1 DEF Coupled, AppliedIsOnLeave
<1>2. ASSUME NEW i \in RequestIds, NEW e \in Employees, NEW t \in Types,
             NEW start \in Dates, NEW end \in Dates, NEW half \in BOOLEAN,
             Submit(i, e, t, start, end, half)
      PROVE  AppliedIsOnLeave'
    <2>1. /\ ~requests'[i].statusApplied
          /\ \A j \in RequestIds \ {i} : requests'[j] = requests[j]
          /\ empStatus' = empStatus
        BY <1>0, <1>2 DEF Submit, NewRequest
    <2> QED
        BY <2>1 DEF Coupled, AppliedIsOnLeave
<1>3. ASSUME NEW e \in Employees, NEW t \in Types, NEW start \in Dates,
             NEW end \in Dates, NEW half \in BOOLEAN,
             SubmitInsufficient(e, t, start, end, half)
      PROVE  AppliedIsOnLeave'
    BY <1>1, <1>3 DEF SubmitInsufficient
<1>4. CASE RequestStep
    BY <1>2, <1>3, <1>4, DecisionsKeepCoupling, SyncKeepsCoupling DEF RequestStep
<1>5. CASE PolicyStep
    BY <1>1, <1>5, ZenonT(30) DEF PolicyStep, Adjust, BalancesFor, UpdateType, AddHolidays, RemoveHoliday
<1>6. ASSUME NEW e \in Employees, NEW to \in EmployeeStatus, ChangeStatus(e, to)
      PROVE  AppliedIsOnLeave'
    <2>1. empStatus[e] # "TERMINATED" /\ (empStatus[e] = "ON_LEAVE" => to = "ACTIVE")
        BY <1>6, PolicyAssumption DEF ChangeStatus, StatusTransitions
    <2>2. empStatus[e] = "ON_LEAVE" => e \in calledBack'
        <3> SUFFICES ASSUME empStatus[e] = "ON_LEAVE" PROVE e \in calledBack'
            OBVIOUS
        <3>1. empStatus'[e] = "ACTIVE"
            BY <1>0, <1>6, <2>1 DEF ChangeStatus
        <3>2. HNext
            BY <3>1 DEF hvars, vars
        <3> QED
            BY <1>6, <2>1, <3>2 DEF HNext, CalledBack
    <2>3. /\ requests' = requests
          /\ \A f \in Employees \ {e} : empStatus'[f] = empStatus[f]
        BY <1>0, <1>6 DEF ChangeStatus
    <2>4. \A j \in RequestIds : requests[j].employee \in Employees
        BY <1>0 DEF Request
    <2> QED
        BY <2>1, <2>2, <2>3, <2>4 DEF Coupled, AppliedIsOnLeave
<1>7. ASSUME NEW e \in Employees, Terminate(e)
      PROVE  AppliedIsOnLeave'
    BY <1>0, <1>7 DEF Terminate, Coupled, AppliedIsOnLeave, Request
<1>8. CASE Tick \/ UNCHANGED vars
    BY <1>1, <1>8 DEF Tick, vars
<1> QED
    BY <1>4, <1>5, <1>6, <1>7, <1>8 DEF Next, EmployeeStep

(* A request that holds its employee on leave is approved; and until HR    *)
(* calls the employee back by hand, it is the only one to do so, and the   *)
(* employee is on leave or gone: what cancel and syncEmployeeStatuses rely *)
(* on when they put an employee back to work.                              *)
THEOREM LeaveHoldsItsEmployee == HSpec => []AppliedIsOnLeave
<1>1. HInit => Init /\ AppliedIsOnLeave
    BY DEF HInit, Init, AppliedIsOnLeave, NoRequest
<1>2. Coupled /\ [HNext]_hvars => AppliedIsOnLeave'
    BY NextKeepsCoupling
<1>3. [HNext]_hvars => [Next]_vars
    BY DEF HNext, hvars
<1> QED
    BY <1>1, <1>2, <1>3, TypeCorrect, RequestsNeverOverlap, PTL DEF Spec, HSpec, Coupled

-----------------------------------------------------------------------------
(* The ledger.                                                             *)

(* Nothing is booked on a row before it is provisioned.                    *)
Blank(bal) == \A k \in Keys : ~bal[k].exists => bal[k].used = 0 /\ bal[k].pending = 0

(* An allocation charges the years the request touches and no other.       *)
InWindow(r) ==
    \A y \in Years :
        r.allocations[y] # 0 => y = YearOf(r.startDate) \/ y = YearOf(r.startDate) + 1

(* `new` has the same bookings as `bal`, and at least its rows.            *)
SameBookings(bal, new) ==
    \A k \in Keys : /\ new[k].used = bal[k].used /\ new[k].pending = bal[k].pending
                    /\ bal[k].exists => new[k].exists

(* `new` is `bal` with n times the days of r booked as pending and m times *)
(* as used.                                                                *)
Moved(bal, new, r, n, m) ==
    \A k \in Keys : /\ new[k].pending = bal[k].pending + n * Days(r, k)
                    /\ new[k].used = bal[k].used + m * Days(r, k)

LEMMA DaysAreNat ==
    ASSUME NEW r \in Request, NEW k \in Keys
    PROVE  Days(r, k) \in Nat
BY DEF Days, Request, Keys

(* ensureBalance books nothing.                                            *)
LEMMA EnsureBalanceBooksNothing ==
    ASSUME NEW bal \in [Keys -> Row], Blank(bal),
           NEW e \in Employees, NEW t \in Types, NEW y \in Years
    PROVE  /\ Blank(EnsureBalance(bal, e, t, y))
           /\ SameBookings(bal, EnsureBalance(bal, e, t, y))
           /\ EnsureBalance(bal, e, t, y)[<<e, t, y>>].exists
<1> DEFINE key == <<e, t, y>>
           new == Provision(bal, e, t, y)
<1>1. key \in Keys
    BY DEF Keys
<1>2. new.exists /\ new.used = 0 /\ new.pending = 0
    BY DEF Provision
<1> HIDE DEF new
<1>3. CASE bal[key].exists
    BY <1>3 DEF EnsureBalance, SameBookings
<1>4. CASE ~bal[key].exists
    <2>1. EnsureBalance(bal, e, t, y) = [bal EXCEPT ![key] = new]
        BY <1>4 DEF EnsureBalance, new
    <2>2. bal[key].used = 0 /\ bal[key].pending = 0
        BY <1>1, <1>4 DEF Blank
    <2> HIDE DEF key
    <2> QED
        BY <1>1, <1>2, <1>4, <2>1, <2>2 DEF Blank, SameBookings, key
<1> QED
    BY <1>3, <1>4

(* applyToBalance on the rows of an employee and a type.                   *)
LEMMA ChargeBooks ==
    ASSUME NEW bal \in [Keys -> Row], NEW e, NEW t, NEW alloc \in [Years -> Nat],
           NEW n \in -1..1, NEW m \in -1..1, NEW k \in Keys
    PROVE  LET row == Charge(bal, e, t, alloc, n, m)[k]
               d   == IF k[1] = e /\ k[2] = t THEN alloc[k[3]] ELSE 0
           IN  /\ row.pending = bal[k].pending + n * d
               /\ row.used = bal[k].used + m * d
               /\ row.exists = bal[k].exists
<1> DEFINE d == alloc[k[3]]
<1>1. bal[k] \in Row /\ d \in Nat
    BY DEF Keys
<1>2. n * d \in Int /\ m * d \in Int /\ n * 0 = 0 /\ m * 0 = 0
    BY <1>1
<1>3. bal[k].pending \in Int /\ bal[k].used \in Int
    BY <1>1 DEF Row
<1>4. CASE k[1] = e /\ k[2] = t /\ d > 0
    <2>1. Charge(bal, e, t, alloc, n, m)[k] = ApplyToBalance(bal[k], n * d, m * d)
        BY <1>4 DEF Charge
    <2>2. ApplyToBalance(bal[k], n * d, m * d).exists = bal[k].exists
        BY <1>1 DEF ApplyToBalance, Row
    <2> HIDE DEF d
    <2> QED
        BY <1>1, <1>2, <1>4, <2>1, <2>2, ApplyIsTyped DEF d
<1>5. CASE ~(k[1] = e /\ k[2] = t /\ d > 0)
    <2>1. Charge(bal, e, t, alloc, n, m)[k] = bal[k]
        BY <1>5 DEF Charge
    <2>2. (IF k[1] = e /\ k[2] = t THEN d ELSE 0) = 0
        BY <1>1, <1>5
    <2> QED
        BY <1>2, <1>3, <2>1, <2>2
<1> QED
    BY <1>4, <1>5

(* chargeBalances books one year of a request.                             *)
LEMMA ChargeYearBooks ==
    ASSUME policy \in [Types -> Policies], NEW bal \in [Keys -> Row],
           Within(bal), Blank(bal), NEW r \in Request, NEW y \in Years,
           NEW n \in -1..1, NEW m \in -1..1
    PROVE  LET new == ChargeYear(bal, r, y, n, m)
           IN  /\ Blank(new)
               /\ \A k \in Keys :
                     LET d == IF k[3] = y THEN Days(r, k) ELSE 0
                     IN  /\ new[k].pending = bal[k].pending + n * d
                         /\ new[k].used = bal[k].used + m * d
<1> DEFINE rows == EnsureBalance(bal, r.employee, r.type, y)
           alloc == [z \in Years |-> IF z = y THEN r.allocations[z] ELSE 0]
           new == ChargeYear(bal, r, y, n, m)
<1>1. /\ r.employee \in Employees /\ r.type \in Types
      /\ r.allocations \in [Years -> Nat]
    BY DEF Request
<1>2. n * 0 = 0 /\ m * 0 = 0
    OBVIOUS
<1>3. \A k \in Keys : bal[k].pending \in Int /\ bal[k].used \in Int
    BY DEF Row
<1>4. CASE r.allocations[y] = 0
    <2>1. new = bal
        BY <1>4 DEF ChargeYear
    <2>2. \A k \in Keys : (IF k[3] = y THEN Days(r, k) ELSE 0) = 0
        BY <1>4 DEF Days
    <2> HIDE DEF new
    <2> QED
        BY <1>2, <1>3, <2>1, <2>2 DEF new
<1>5. CASE r.allocations[y] # 0
    <2>1. new = Charge(rows, r.employee, r.type, alloc, n, m)
        BY <1>5 DEF ChargeYear
    <2>2. rows \in [Keys -> Row] /\ alloc \in [Years -> Nat]
        BY <1>1, EnsureBalanceIsSound
    <2>3. Blank(rows) /\ SameBookings(bal, rows) /\ rows[<<r.employee, r.type, y>>].exists
        BY <1>1, EnsureBalanceBooksNothing
    <2>4. \A k \in Keys :
              (IF k[1] = r.employee /\ k[2] = r.type THEN alloc[k[3]] ELSE 0)
                  = (IF k[3] = y THEN Days(r, k) ELSE 0)
        BY DEF Days, Keys
    <2> HIDE DEF new, rows, alloc
    <2>5. ASSUME NEW k \in Keys
          PROVE  LET d == IF k[3] = y THEN Days(r, k) ELSE 0
                 IN  /\ new[k].pending = rows[k].pending + n * d
                     /\ new[k].used = rows[k].used + m * d
                     /\ new[k].exists = rows[k].exists
        <3> DEFINE d == IF k[1] = r.employee /\ k[2] = r.type THEN alloc[k[3]] ELSE 0
        <3>1. /\ new[k].pending = rows[k].pending + n * d
              /\ new[k].used = rows[k].used + m * d
              /\ new[k].exists = rows[k].exists
            BY <2>1, <2>2, ChargeBooks, SMTT(30)
        <3>2. d = IF k[3] = y THEN Days(r, k) ELSE 0
            BY <2>4
        <3> HIDE DEF d
        <3> QED
            BY <3>1, <3>2
    <2>6. ASSUME NEW k \in Keys, ~new[k].exists
          PROVE  new[k].used = 0 /\ new[k].pending = 0
        <3>1. ~rows[k].exists /\ rows[k].used = 0 /\ rows[k].pending = 0
            BY <2>3, <2>5, <2>6 DEF Blank
        <3>2. (IF k[3] = y THEN Days(r, k) ELSE 0) = 0
            BY <2>3, <3>1 DEF Days, Keys
        <3> QED
            BY <1>2, <2>5, <3>1, <3>2
    <2> QED
        BY <2>3, <2>5, <2>6 DEF Blank, SameBookings, new
<1> QED
    BY <1>4, <1>5

(* chargeBalances books all of a request, over the one or two years it     *)
(* touches.                                                                *)
LEMMA ChargeBalancesBooks ==
    ASSUME policy \in [Types -> Policies], NEW bal \in [Keys -> Row],
           Within(bal), Blank(bal), NEW r \in Request, InWindow(r),
           NEW n \in -1..0, NEW m \in -1..1, n + m <= 0
    PROVE  /\ Blank(ChargeBalances(bal, r, n, m))
           /\ Moved(bal, ChargeBalances(bal, r, n, m), r, n, m)
<1> DEFINE y == YearOf(r.startDate)
           first == ChargeYear(bal, r, y, n, m)
           second == ChargeYear(first, r, y + 1, n, m)
           Part(k, z) == IF k[3] = z THEN Days(r, k) ELSE 0
<1>1. y \in Years /\ y \in Int /\ n \in -1..1
    BY DatesHaveYears DEF Request, Years
<1>2. first \in [Keys -> Row] /\ Within(first)
    BY <1>1, ChargeYearIsSound
<1>3. /\ Blank(first)
      /\ \A k \in Keys : /\ first[k].pending = bal[k].pending + n * Part(k, y)
                         /\ first[k].used = bal[k].used + m * Part(k, y)
    BY <1>1, ChargeYearBooks
<1>4. ASSUME NEW k \in Keys
      PROVE  /\ Days(r, k) \in Nat /\ k[3] \in Years
             /\ k[3] # y /\ k[3] # y + 1 => Days(r, k) = 0
             /\ bal[k].pending \in Int /\ bal[k].used \in Int
    BY DaysAreNat DEF InWindow, Days, Row, Keys
<1>5. n * 0 = 0 /\ m * 0 = 0 /\ \A d \in Nat : n * d \in Int /\ m * d \in Int
    OBVIOUS
<1> HIDE DEF first, y
<1>6. CASE y + 1 \in Years
    <2>1. ChargeBalances(bal, r, n, m) = second
        BY <1>6 DEF ChargeBalances, first, y
    <2>2. /\ Blank(second)
          /\ \A k \in Keys : /\ second[k].pending = first[k].pending + n * Part(k, y + 1)
                             /\ second[k].used = first[k].used + m * Part(k, y + 1)
        BY <1>1, <1>2, <1>3, <1>6, ChargeYearBooks
    <2> HIDE DEF second
    <2>3. ASSUME NEW k \in Keys
          PROVE  /\ second[k].pending = bal[k].pending + n * Days(r, k)
                 /\ second[k].used = bal[k].used + m * Days(r, k)
        <3>1. CASE k[3] = y
            <4>1. Part(k, y) = Days(r, k) /\ Part(k, y + 1) = 0
                BY <1>1, <3>1
            <4> HIDE DEF Part
            <4> QED
                BY <1>3, <1>4, <1>5, <2>2, <4>1
        <3>2. CASE k[3] = y + 1
            <4>1. Part(k, y + 1) = Days(r, k) /\ Part(k, y) = 0
                BY <1>1, <3>2
            <4> HIDE DEF Part
            <4> QED
                BY <1>3, <1>4, <1>5, <2>2, <4>1
        <3>3. CASE k[3] # y /\ k[3] # y + 1
            <4>1. Days(r, k) = 0
                BY <1>4, <3>3
            <4>2. Part(k, y + 1) = 0 /\ Part(k, y) = 0
                BY <3>3
            <4> HIDE DEF Part
            <4>3. /\ second[k].pending = first[k].pending + 0
                  /\ second[k].used = first[k].used + 0
                BY <1>5, <2>2, <4>2
            <4>4. first[k].pending = bal[k].pending + 0 /\ first[k].used = bal[k].used + 0
                BY <1>3, <1>5, <4>2
            <4>5. n * Days(r, k) = 0 /\ m * Days(r, k) = 0
                BY <1>5, <4>1
            <4>6. bal[k].pending \in Int /\ bal[k].used \in Int
                BY <1>4
            <4> QED
                BY <4>3, <4>4, <4>5, <4>6
        <3> QED
            BY <3>1, <3>2, <3>3
    <2> QED
        BY <2>1, <2>2, <2>3 DEF Moved
<1>7. CASE y + 1 \notin Years
    <2>1. ChargeBalances(bal, r, n, m) = first
        BY <1>7 DEF ChargeBalances, first, y
    <2>2. \A k \in Keys : Part(k, y) = Days(r, k)
        BY <1>4, <1>7
    <2> HIDE DEF Part
    <2> QED
        BY <1>3, <2>1, <2>2 DEF Moved
<1> QED
    BY <1>6, <1>7

(* What a request of a status adds to a row.                               *)
Share(r, k, status) == IF r.status = status THEN Days(r, k) ELSE 0

Shares(k, status) == [i \in RequestIds |-> Share(requests[i], k, status)]

LEMMA ChargedIsTheSumOfShares ==
    ASSUME NEW k, NEW status
    PROVE  Charged(k, status) = SumOver(Shares(k, status), RequestIds)
BY DEF Charged, Shares, Share

LEMMA SharesAreNat ==
    ASSUME requests \in [RequestIds -> Request], NEW k \in Keys, NEW status
    PROVE  \A i \in RequestIds : Shares(k, status)[i] \in Nat
BY DaysAreNat DEF Shares, Share

(* The totals follow a request that is filed or decided, by its share      *)
(* before and after.                                                       *)
LEMMA ChargedFollows ==
    ASSUME requests \in [RequestIds -> Request], NEW i \in RequestIds,
           NEW new \in Request, requests' = [requests EXCEPT ![i] = new],
           NEW k \in Keys, NEW status
    PROVE  /\ Charged(k, status) \in Int
           /\ Charged(k, status)'
                  = Charged(k, status) - Share(requests[i], k, status) + Share(new, k, status)
<1> DEFINE f == Shares(k, status)
           g == [j \in RequestIds |-> Share(requests'[j], k, status)]
<1>1. requests' \in [RequestIds -> Request]
    OBVIOUS
<1>2. \A j \in RequestIds : f[j] \in Int /\ g[j] \in Int
    <2>1. \A j \in RequestIds : f[j] \in Nat
        BY SharesAreNat
    <2>2. \A j \in RequestIds : g[j] \in Nat
        BY <1>1, DaysAreNat DEF Share
    <2> QED
        BY <2>1, <2>2
<1>3. \A j \in RequestIds \ {i} : f[j] = g[j]
    BY DEF Shares
<1>4. f[i] = Share(requests[i], k, status) /\ g[i] = Share(new, k, status)
    BY DEF Shares
<1>5. Charged(k, status) = SumOver(f, RequestIds)
    BY ChargedIsTheSumOfShares
<1>6. Charged(k, status)' = SumOver(g, RequestIds)
    BY DEF Charged, Share
<1> HIDE DEF f, g
<1>7. SumOver(g, RequestIds) = SumOver(f, RequestIds) - f[i] + g[i]
    BY <1>2, <1>3, RequestAssumption, SumUpdate
<1>8. SumOver(f, RequestIds) \in Int
    BY <1>2, RequestAssumption, SumType
<1> QED
    BY <1>4, <1>5, <1>6, <1>7, <1>8

(* A step that leaves status, employee, type and allocation of every       *)
(* request alone leaves the totals alone.                                  *)
LEMMA ChargedStays ==
    ASSUME requests \in [RequestIds -> Request],
           \A i \in RequestIds : /\ requests'[i].status = requests[i].status
                                 /\ requests'[i].employee = requests[i].employee
                                 /\ requests'[i].type = requests[i].type
                                 /\ requests'[i].allocations = requests[i].allocations,
           NEW k \in Keys, NEW status
    PROVE  Charged(k, status)' = Charged(k, status)
<1> DEFINE f == Shares(k, status)
           g == [j \in RequestIds |-> Share(requests'[j], k, status)]
<1>1. \A j \in RequestIds : f[j] \in Int /\ f[j] = g[j]
    BY SharesAreNat DEF Shares, Share, Days
<1>2. Charged(k, status) = SumOver(f, RequestIds)
    BY ChargedIsTheSumOfShares
<1>3. Charged(k, status)' = SumOver(g, RequestIds)
    BY DEF Charged, Share
<1> HIDE DEF f, g
<1> QED
    BY <1>1, <1>2, <1>3, RequestAssumption, SumEqual

(* The ledger with what keeps it: rows start empty, and a request gives    *)
(* back exactly the years it was charged to.                               *)
Booked ==
    /\ Blank(balances)
    /\ \A i \in RequestIds : InWindow(requests[i])
    /\ LedgerBalanced

(* No leave type changes between tracked and untracked.                    *)
KeepsTracking == \A t \in Types : policy'[t].requiresBalance = policy[t].requiresBalance

(* A step that changes rows only by provisioning them.                     *)
LEMMA ProvisioningKeepsTheLedger ==
    ASSUME Sound, Booked, KeepsTracking, Blank(balances'), SameBookings(balances, balances'),
           \A i \in RequestIds : /\ requests'[i].status = requests[i].status
                                 /\ requests'[i].employee = requests[i].employee
                                 /\ requests'[i].type = requests[i].type
                                 /\ requests'[i].startDate = requests[i].startDate
                                 /\ requests'[i].allocations = requests[i].allocations
    PROVE  Booked'
<1>1. requests \in [RequestIds -> Request]
    BY DEF Sound, TypeOK
<1>2. \A i \in RequestIds : InWindow(requests'[i])
    BY DEF Booked, InWindow
<1>3. ASSUME NEW k \in Keys, policy'[k[2]].requiresBalance
      PROVE  /\ balances'[k].pending = Charged(k, "PENDING")'
             /\ balances'[k].used = Charged(k, "APPROVED")'
    <2>1. policy[k[2]].requiresBalance
        BY <1>3 DEF KeepsTracking, Keys
    <2>2. /\ Charged(k, "PENDING")' = Charged(k, "PENDING")
          /\ Charged(k, "APPROVED")' = Charged(k, "APPROVED")
        BY <1>1, ChargedStays
    <2> QED
        BY <2>1, <2>2 DEF Booked, LedgerBalanced, SameBookings
<1>4. LedgerBalanced'
    BY <1>3 DEF LedgerBalanced
<1> QED
    BY <1>2, <1>4 DEF Booked, Blank, InWindow

(* A request that is filed or decided, with the bookings that go with it.  *)
LEMMA BookingKeepsTheLedger ==
    ASSUME Sound, Booked, policy' = policy, Blank(balances'),
           NEW i \in RequestIds, NEW new \in Request, InWindow(new),
           requests' = [requests EXCEPT ![i] = new],
           \A k \in Keys : policy[k[2]].requiresBalance =>
               /\ balances'[k].pending = balances[k].pending
                      - Share(requests[i], k, "PENDING") + Share(new, k, "PENDING")
               /\ balances'[k].used = balances[k].used
                      - Share(requests[i], k, "APPROVED") + Share(new, k, "APPROVED")
    PROVE  Booked'
<1>1. requests \in [RequestIds -> Request]
    BY DEF Sound, TypeOK
<1>2. \A j \in RequestIds : InWindow(requests'[j])
    BY <1>1 DEF Booked
<1>3. ASSUME NEW k \in Keys, policy'[k[2]].requiresBalance
      PROVE  /\ balances'[k].pending = Charged(k, "PENDING")'
             /\ balances'[k].used = Charged(k, "APPROVED")'
    BY <1>1, <1>3, ChargedFollows, ZenonT(30) DEF Booked, LedgerBalanced
<1>4. LedgerBalanced'
    BY <1>3 DEF LedgerBalanced
<1> QED
    BY <1>2, <1>4 DEF Booked, Blank, InWindow

(* approve, reject and cancel: n and m say how far the decision takes the  *)
(* request out of PENDING and into or out of APPROVED.                     *)
LEMMA DecisionKeepsTheLedger ==
    ASSUME Sound, Booked, policy' = policy, NEW i \in RequestIds,
           NEW s \in RequestStatus, NEW b \in BOOLEAN,
           requests' = [requests EXCEPT ![i] = Decided(requests[i], s, b)],
           NEW n \in -1..0, NEW m \in -1..1, n + m <= 0,
           \A d \in Nat :
               /\ n * d = (IF s = "PENDING" THEN d ELSE 0)
                              - (IF requests[i].status = "PENDING" THEN d ELSE 0)
               /\ m * d = (IF s = "APPROVED" THEN d ELSE 0)
                              - (IF requests[i].status = "APPROVED" THEN d ELSE 0),
           balances' = IF policy[requests[i].type].requiresBalance
                       THEN ChargeBalances(balances, requests[i], n, m) ELSE balances
    PROVE  Booked'
<1> DEFINE r == requests[i]
           new == Decided(r, s, b)
<1>1. /\ policy \in [Types -> Policies] /\ balances \in [Keys -> Row] /\ Within(balances)
      /\ r \in Request /\ Blank(balances) /\ InWindow(r)
    BY DEF Sound, TypeOK, NotOverdrawn, Within, Booked
<1>2. /\ new \in Request /\ new.status = s /\ new.employee = r.employee
      /\ new.type = r.type /\ new.startDate = r.startDate
      /\ new.allocations = r.allocations
    BY <1>1, DecidedIsTyped
<1>3. InWindow(new)
    BY <1>1, <1>2 DEF InWindow
<1>4. /\ Blank(ChargeBalances(balances, r, n, m))
      /\ Moved(balances, ChargeBalances(balances, r, n, m), r, n, m)
    BY <1>1, ChargeBalancesBooks
<1>5. Blank(balances')
    BY <1>1, <1>4
<1>6. ASSUME NEW k \in Keys, policy[k[2]].requiresBalance
      PROVE  /\ balances'[k].pending = balances[k].pending
                    - Share(r, k, "PENDING") + Share(new, k, "PENDING")
             /\ balances'[k].used = balances[k].used
                    - Share(r, k, "APPROVED") + Share(new, k, "APPROVED")
    <2> DEFINE d == Days(r, k)
    <2>1. d \in Nat /\ Days(new, k) = d
        BY <1>1, <1>2, DaysAreNat DEF Days
    <2>2. balances[k].pending \in Int /\ balances[k].used \in Int
        BY <1>1 DEF Row
    <2>3. /\ balances'[k].pending = balances[k].pending + n * d
          /\ balances'[k].used = balances[k].used + m * d
        <3>1. CASE policy[r.type].requiresBalance
            BY <1>4, <3>1 DEF Moved
        <3>2. CASE ~policy[r.type].requiresBalance
            <4>1. d = 0
                BY <1>6, <3>2 DEF Days
            <4>2. n * 0 = 0 /\ m * 0 = 0
                OBVIOUS
            <4> HIDE DEF d
            <4> QED
                BY <2>2, <3>2, <4>1, <4>2
        <3> QED
            BY <3>1, <3>2
    <2>4. /\ Share(r, k, "PENDING") = IF r.status = "PENDING" THEN d ELSE 0
          /\ Share(r, k, "APPROVED") = IF r.status = "APPROVED" THEN d ELSE 0
          /\ Share(new, k, "PENDING") = IF s = "PENDING" THEN d ELSE 0
          /\ Share(new, k, "APPROVED") = IF s = "APPROVED" THEN d ELSE 0
        BY <1>2, <2>1 DEF Share
    <2>5. /\ n * d = (IF s = "PENDING" THEN d ELSE 0) - (IF r.status = "PENDING" THEN d ELSE 0)
          /\ m * d = (IF s = "APPROVED" THEN d ELSE 0)
                         - (IF r.status = "APPROVED" THEN d ELSE 0)
        BY <2>1
    <2>6. /\ n * d = Share(new, k, "PENDING") - Share(r, k, "PENDING")
          /\ m * d = Share(new, k, "APPROVED") - Share(r, k, "APPROVED")
        BY <2>4, <2>5
    <2>7. \A t \in {"PENDING", "APPROVED"} :
              Share(new, k, t) \in Int /\ Share(r, k, t) \in Int
        BY <2>1 DEF Share
    <2>8. \A a, x, y \in Int : a + (x - y) = a - y + x
        OBVIOUS
    <2> HIDE DEF d, r, new
    <2> QED
        BY <2>2, <2>3, <2>6, <2>7, <2>8
<1> HIDE DEF new
<1> QED
    BY <1>2, <1>3, <1>5, <1>6, BookingKeepsTheLedger DEF new

LEMMA SameBookingsIsTransitive ==
    ASSUME NEW a, NEW b, NEW c, SameBookings(a, b), SameBookings(b, c)
    PROVE  SameBookings(a, c)
BY DEF SameBookings

(* submit provisions the rows it needs and books nothing on them yet.      *)
LEMMA EnsureAllocatedBooksNothing ==
    ASSUME policy \in [Types -> Policies], NEW bal \in [Keys -> Row], Within(bal),
           Blank(bal), NEW e \in Employees, NEW t \in Types, NEW y \in Years,
           NEW alloc \in [Years -> Nat]
    PROVE  /\ Blank(EnsureAllocated(bal, e, t, alloc, y))
           /\ SameBookings(bal, EnsureAllocated(bal, e, t, alloc, y))
           /\ \A z \in Years : (z = y \/ z = y + 1) /\ alloc[z] > 0
                  => EnsureAllocated(bal, e, t, alloc, y)[<<e, t, z>>].exists
<1> DEFINE first == IF alloc[y] > 0 THEN EnsureBalance(bal, e, t, y) ELSE bal
           second == EnsureBalance(first, e, t, y + 1)
<1>1. first \in [Keys -> Row] /\ Within(first)
    BY EnsureBalanceIsSound
<1>2. /\ Blank(first) /\ SameBookings(bal, first)
      /\ alloc[y] > 0 => first[<<e, t, y>>].exists
    <2>1. SameBookings(bal, bal)
        BY DEF SameBookings
    <2> QED
        BY <2>1, EnsureBalanceBooksNothing
<1>3. \A z \in Years : <<e, t, z>> \in Keys
    BY DEF Keys
<1> HIDE DEF first
<1>4. CASE y + 1 \in Years /\ alloc[y + 1] > 0
    <2>1. EnsureAllocated(bal, e, t, alloc, y) = second
        BY <1>4 DEF EnsureAllocated, first
    <2>2. Blank(second) /\ SameBookings(first, second) /\ second[<<e, t, y + 1>>].exists
        BY <1>1, <1>2, <1>4, EnsureBalanceBooksNothing
    <2> HIDE DEF second
    <2>3. SameBookings(bal, second)
        BY <1>2, <2>2, SameBookingsIsTransitive
    <2>4. alloc[y] > 0 => second[<<e, t, y>>].exists
        BY <1>2, <1>3, <2>2 DEF SameBookings
    <2> QED
        BY <2>1, <2>2, <2>3, <2>4
<1>5. CASE ~(y + 1 \in Years /\ alloc[y + 1] > 0)
    <2>1. EnsureAllocated(bal, e, t, alloc, y) = first
        BY <1>5 DEF EnsureAllocated, first
    <2> QED
        BY <1>2, <1>5, <2>1
<1> QED
    BY <1>4, <1>5

LEMMA SubmitRowsBookNothing ==
    ASSUME Sound, Blank(balances), NEW e \in Employees, NEW t \in Types,
           NEW start \in Dates, NEW alloc \in [Years -> Nat]
    PROVE  /\ Blank(SubmitRows(e, t, start, alloc))
           /\ SameBookings(balances, SubmitRows(e, t, start, alloc))
           /\ Funded(SubmitRows(e, t, start, alloc), e, t, start, alloc, YearOf(start))
                  => \A z \in Years :
                        (z = YearOf(start) \/ z = YearOf(start) + 1) /\ alloc[z] > 0
                            => SubmitRows(e, t, start, alloc)[<<e, t, z>>].exists
<1> DEFINE y == YearOf(start)
           first == IF alloc[y] > 0 THEN EnsureBalance(balances, e, t, y) ELSE balances
           both == EnsureAllocated(balances, e, t, alloc, y)
<1>1. /\ policy \in [Types -> Policies] /\ balances \in [Keys -> Row] /\ Within(balances)
      /\ y \in Years
    BY DatesHaveYears DEF Sound, TypeOK, NotOverdrawn, Within
<1>2. Blank(first) /\ SameBookings(balances, first)
    <2>1. SameBookings(balances, balances)
        BY DEF SameBookings
    <2> QED
        BY <1>1, <2>1, EnsureBalanceBooksNothing
<1>3. /\ Blank(both) /\ SameBookings(balances, both)
      /\ \A z \in Years : (z = y \/ z = y + 1) /\ alloc[z] > 0 => both[<<e, t, z>>].exists
    BY <1>1, EnsureAllocatedBooksNothing
<1>4. SubmitRows(e, t, start, alloc)
          = IF Funded(first, e, t, start, alloc, y) THEN both ELSE first
    BY DEF SubmitRows
<1> HIDE DEF first, both, y
<1> QED
    BY <1>2, <1>3, <1>4 DEF y

LEMMA SubmitKeepsTheLedger ==
    ASSUME Sound, Booked, NEW i \in RequestIds, NEW e \in Employees,
           NEW t \in Types, NEW start \in Dates, NEW end \in Dates,
           NEW half \in BOOLEAN, Submit(i, e, t, start, end, half)
    PROVE  Booked'
<1> DEFINE alloc == Allocate(start, end, half)
           rows == SubmitRows(e, t, start, alloc)
           charged == Charge(rows, e, t, alloc, 1, 0)
           new == NewRequest(e, t, start, end, half)
<1>1. /\ policy \in [Types -> Policies] /\ balances \in [Keys -> Row] /\ Within(balances)
      /\ requests \in [RequestIds -> Request] /\ Blank(balances)
    BY DEF Sound, TypeOK, NotOverdrawn, Within, Booked
<1>2. alloc \in [Years -> Nat] /\ new \in Request
    BY AllocationsAreNat, NewRequestIsTyped
<1>3. /\ new.status = "PENDING" /\ new.employee = e /\ new.type = t
      /\ new.startDate = start /\ new.allocations = alloc
    BY DEF NewRequest
<1>4. \A z \in Years : alloc[z] # 0 => z = YearOf(start) \/ z = YearOf(start) + 1
    BY DEF Allocate
<1>5. /\ policy' = policy /\ requests[i].status = "NONE"
      /\ requests' = [requests EXCEPT ![i] = new]
      /\ balances' = IF policy[t].requiresBalance THEN charged ELSE balances
      /\ policy[t].requiresBalance => \A y \in Years : Funded(rows, e, t, start, alloc, y)
    BY DEF Submit
<1>6. rows \in [Keys -> Row]
    BY <1>1, <1>2, SubmitRowsAreSound
<1>7. /\ Blank(rows) /\ SameBookings(balances, rows)
      /\ Funded(rows, e, t, start, alloc, YearOf(start))
             => \A z \in Years : (z = YearOf(start) \/ z = YearOf(start) + 1) /\ alloc[z] > 0
                    => rows[<<e, t, z>>].exists
    BY <1>1, <1>2, SubmitRowsBookNothing
<1>8. YearOf(start) \in Years
    BY DatesHaveYears
<1> HIDE DEF alloc, rows, new
<1>9. ASSUME NEW k \in Keys
      PROVE  /\ Days(new, k) \in Nat
             /\ Days(new, k) = IF k[1] = e /\ k[2] = t THEN alloc[k[3]] ELSE 0
             /\ balances[k].pending \in Int /\ balances[k].used \in Int
    BY <1>1, <1>2, <1>3, DaysAreNat DEF Days, Row
<1>10. ASSUME NEW k \in Keys
       PROVE  /\ charged[k].pending = balances[k].pending + Days(new, k)
              /\ charged[k].used = balances[k].used
              /\ charged[k].exists = rows[k].exists
    <2> DEFINE d == IF k[1] = e /\ k[2] = t THEN alloc[k[3]] ELSE 0
    <2>1. /\ charged[k].pending = rows[k].pending + 1 * d
          /\ charged[k].used = rows[k].used + 0 * d
          /\ charged[k].exists = rows[k].exists
        BY <1>2, <1>6, ChargeBooks
    <2>2. d = Days(new, k) /\ d \in Nat
        BY <1>9
    <2>3. rows[k].pending = balances[k].pending /\ rows[k].used = balances[k].used
        BY <1>7 DEF SameBookings
    <2> HIDE DEF d, charged
    <2>4. 1 * d = d /\ 0 * d = 0
        BY <2>2
    <2> QED
        BY <1>9, <2>1, <2>2, <2>3, <2>4
<1> HIDE DEF charged
<1>11. ASSUME policy[t].requiresBalance PROVE Blank(charged)
    <2> SUFFICES ASSUME NEW k \in Keys, ~charged[k].exists
                 PROVE  charged[k].used = 0 /\ charged[k].pending = 0
        BY DEF Blank
    <2>1. ~rows[k].exists
        BY <1>10
    <2>2. rows[k].used = 0 /\ rows[k].pending = 0
        BY <1>7, <2>1 DEF Blank
    <2>3. balances[k].used = 0 /\ balances[k].pending = 0
        BY <1>7, <2>2 DEF SameBookings
    <2>4. Days(new, k) = 0
        <3>1. CASE k[1] = e /\ k[2] = t
            <4>1. k = <<e, t, k[3]>> /\ k[3] \in Years
                BY <3>1 DEF Keys
            <4>2. ~(alloc[k[3]] > 0)
                BY <1>4, <1>5, <1>7, <1>8, <1>11, <2>1, <4>1, <1>2
            <4> QED
                BY <1>2, <1>9, <3>1, <4>1, <4>2
        <3>2. CASE ~(k[1] = e /\ k[2] = t)
            BY <1>9, <3>2
        <3> QED
            BY <3>1, <3>2
    <2> QED
        BY <1>10, <2>3, <2>4
<1>12. Blank(balances')
    BY <1>1, <1>5, <1>11
<1>13. InWindow(new)
    BY <1>3, <1>4 DEF InWindow
<1>14. ASSUME NEW k \in Keys, policy[k[2]].requiresBalance
       PROVE  /\ balances'[k].pending = balances[k].pending
                     - Share(requests[i], k, "PENDING") + Share(new, k, "PENDING")
              /\ balances'[k].used = balances[k].used
                     - Share(requests[i], k, "APPROVED") + Share(new, k, "APPROVED")
    <2>1. /\ Share(requests[i], k, "PENDING") = 0 /\ Share(requests[i], k, "APPROVED") = 0
          /\ Share(new, k, "PENDING") = Days(new, k) /\ Share(new, k, "APPROVED") = 0
        BY <1>3, <1>5 DEF Share
    <2>2. /\ balances'[k].pending = balances[k].pending + Days(new, k)
          /\ balances'[k].used = balances[k].used
        <3>1. CASE policy[t].requiresBalance
            BY <1>5, <1>10, <3>1
        <3>2. CASE ~policy[t].requiresBalance
            <4>1. Days(new, k) = 0 /\ balances' = balances
                BY <1>5, <1>9, <1>14, <3>2
            <4> QED
                BY <1>9, <4>1
        <3> QED
            BY <3>1, <3>2
    <2> QED
        BY <1>9, <2>1, <2>2
<1> QED
    BY <1>2, <1>5, <1>12, <1>13, <1>14, BookingKeepsTheLedger

LEMMA DecisionsKeepTheLedger ==
    ASSUME Sound, Booked, NEW i \in RequestIds, NEW actor \in Actors,
           Approve(i, actor) \/ Reject(i, actor) \/ Cancel(i, actor)
    PROVE  Booked'
<1> DEFINE r == requests[i]
<1>0. r.statusApplied \in BOOLEAN /\ TakesEffect(r) \in BOOLEAN
    BY DEF Sound, TypeOK, Request, TakesEffect
<1>1. ASSUME NEW s \in RequestStatus, NEW b \in BOOLEAN, policy' = policy,
             requests' = [requests EXCEPT ![i] = Decided(r, s, b)],
             NEW n \in -1..0, NEW m \in -1..1, n + m <= 0,
             n = (IF s = "PENDING" THEN 1 ELSE 0) - (IF r.status = "PENDING" THEN 1 ELSE 0),
             m = (IF s = "APPROVED" THEN 1 ELSE 0) - (IF r.status = "APPROVED" THEN 1 ELSE 0),
             balances' = IF policy[r.type].requiresBalance
                         THEN ChargeBalances(balances, r, n, m) ELSE balances
      PROVE  Booked'
    <2>1. ASSUME NEW d \in Nat
          PROVE  /\ n * d = (IF s = "PENDING" THEN d ELSE 0)
                                - (IF r.status = "PENDING" THEN d ELSE 0)
                 /\ m * d = (IF s = "APPROVED" THEN d ELSE 0)
                                - (IF r.status = "APPROVED" THEN d ELSE 0)
        BY <1>1
    <2> QED
        BY <1>1, <2>1, DecisionKeepsTheLedger, ZenonT(30)
<1>2. CASE Approve(i, actor)
    <2> DEFINE n == -1  m == 1  s == "APPROVED"
    <2>1. /\ r.status = "PENDING" /\ policy' = policy
          /\ requests' = [requests EXCEPT ![i] = Decided(r, s, TakesEffect(r))]
          /\ balances' = IF policy[r.type].requiresBalance
                         THEN ChargeBalances(balances, r, n, m) ELSE balances
        BY <1>2 DEF Approve, MayDecide
    <2>2. s \in RequestStatus /\ n \in -1..0 /\ m \in -1..1 /\ n + m <= 0
        BY DEF RequestStatus
    <2>3. /\ n = (IF s = "PENDING" THEN 1 ELSE 0) - (IF r.status = "PENDING" THEN 1 ELSE 0)
          /\ m = (IF s = "APPROVED" THEN 1 ELSE 0) - (IF r.status = "APPROVED" THEN 1 ELSE 0)
        BY <2>1
    <2> HIDE DEF n, m, s
    <2> QED
        BY <1>0, <1>1, <2>1, <2>2, <2>3
<1>3. ASSUME NEW s \in {"REJECTED", "CANCELLED"}, NEW b \in BOOLEAN, policy' = policy,
             r.status \in ActiveStatuses, balances' = Release(r),
             requests' = [requests EXCEPT ![i] = Decided(r, s, b)]
      PROVE  Booked'
    <2> DEFINE n == IF r.status = "PENDING" THEN -1 ELSE 0
               m == IF r.status = "PENDING" THEN 0 ELSE -1
    <2>1. s \in RequestStatus /\ n \in -1..0 /\ m \in -1..1 /\ n + m <= 0
        BY DEF RequestStatus
    <2>2. balances' = IF policy[r.type].requiresBalance
                      THEN ChargeBalances(balances, r, n, m) ELSE balances
        BY <1>3 DEF Release
    <2>3. /\ n = (IF s = "PENDING" THEN 1 ELSE 0) - (IF r.status = "PENDING" THEN 1 ELSE 0)
          /\ m = (IF s = "APPROVED" THEN 1 ELSE 0) - (IF r.status = "APPROVED" THEN 1 ELSE 0)
        BY <1>3 DEF ActiveStatuses
    <2> HIDE DEF n, m
    <2> QED
        BY <1>1, <1>3, <2>1, <2>2, <2>3
<1>4. CASE Reject(i, actor)
    BY <1>0, <1>3, <1>4 DEF Reject, MayDecide, ActiveStatuses
<1>5. CASE Cancel(i, actor)
    BY <1>3, <1>5 DEF Cancel
<1> QED
    BY <1>2, <1>4, <1>5

LEMMA NextKeepsTheLedger ==
    ASSUME Sound, Booked, [Next /\ KeepsTracking]_vars
    PROVE  Booked'
<1>0. /\ policy \in [Types -> Policies] /\ balances \in [Keys -> Row] /\ Within(balances)
      /\ requests \in [RequestIds -> Request] /\ Blank(balances) /\ SameBookings(balances, balances)
    BY DEF Sound, TypeOK, NotOverdrawn, Within, Booked, SameBookings
<1>1. ASSUME UNCHANGED requests, KeepsTracking, Blank(balances'),
             SameBookings(balances, balances')
      PROVE  Booked'
    BY <1>1, ProvisioningKeepsTheLedger
<1>2. ASSUME UNCHANGED <<requests, balances>>, KeepsTracking
      PROVE  Booked'
    BY <1>0, <1>1, <1>2
<1>3. ASSUME policy' = policy PROVE KeepsTracking
    BY <1>3 DEF KeepsTracking
<1>4. ASSUME NEW e \in Employees, NEW t \in Types, NEW start \in Dates,
             NEW end \in Dates, NEW half \in BOOLEAN,
             SubmitInsufficient(e, t, start, end, half)
      PROVE  Booked'
    <2> DEFINE alloc == Allocate(start, end, half)
    <2>1. alloc \in [Years -> Nat]
        BY AllocationsAreNat
    <2>2. /\ Blank(SubmitRows(e, t, start, alloc))
          /\ SameBookings(balances, SubmitRows(e, t, start, alloc))
        BY <1>0, <2>1, SubmitRowsBookNothing
    <2>3. /\ balances' = SubmitRows(e, t, start, alloc)
          /\ UNCHANGED <<policy, requests>>
        BY <1>4 DEF SubmitInsufficient
    <2> QED
        BY <1>1, <1>3, <2>2, <2>3
<1>5. ASSUME SyncEmployeeStatuses PROVE Booked'
    <2>1. \A i \in RequestIds :
              LET new == [requests[i] EXCEPT !.statusApplied =
                      (requests[i].statusApplied \/ i \in Starting) /\ i \notin Ending]
              IN  /\ new.status = requests[i].status
                  /\ new.employee = requests[i].employee
                  /\ new.type = requests[i].type
                  /\ new.startDate = requests[i].startDate
                  /\ new.allocations = requests[i].allocations
        BY <1>0 DEF Request
    <2>2. UNCHANGED <<policy, balances>>
        BY <1>5 DEF SyncEmployeeStatuses
    <2>3. \A i \in RequestIds : /\ requests'[i].status = requests[i].status
                                /\ requests'[i].employee = requests[i].employee
                                /\ requests'[i].type = requests[i].type
                                /\ requests'[i].startDate = requests[i].startDate
                                /\ requests'[i].allocations = requests[i].allocations
        BY <1>5, <2>1 DEF SyncEmployeeStatuses
    <2> QED
        BY <1>0, <1>3, <2>2, <2>3, ProvisioningKeepsTheLedger
<1>6. CASE RequestStep
    BY <1>4, <1>5, <1>6, SubmitKeepsTheLedger, DecisionsKeepTheLedger DEF RequestStep
<1>7. ASSUME NEW e \in Employees, NEW t \in Types, NEW y \in Years,
             NEW delta \in Deltas, Adjust(e, t, y, delta)
      PROVE  Booked'
    <2> DEFINE bal == EnsureBalance(balances, e, t, y)
               key == <<e, t, y>>
               new == [bal[key] EXCEPT !.adjustment = @ + delta]
    <2>1. bal \in [Keys -> Row] /\ Blank(bal) /\ SameBookings(balances, bal)
        BY <1>0, EnsureBalanceIsSound, EnsureBalanceBooksNothing
    <2>2. key \in Keys
        BY DEF Keys
    <2>3. balances' = bal \/ balances' = [bal EXCEPT ![key] = new]
        BY <1>7 DEF Adjust
    <2>4. UNCHANGED <<policy, requests>>
        BY <1>7 DEF Adjust
    <2> HIDE DEF bal
    <2>5. /\ new.used = bal[key].used /\ new.pending = bal[key].pending
          /\ new.exists = bal[key].exists
        BY <2>1, <2>2 DEF Row
    <2> HIDE DEF new, key
    <2>6. CASE balances' = bal
        BY <1>1, <1>3, <2>1, <2>4, <2>6
    <2>7. CASE balances' = [bal EXCEPT ![key] = new]
        <3>1. \A k \in Keys : /\ balances'[k].used = bal[k].used
                              /\ balances'[k].pending = bal[k].pending
                              /\ balances'[k].exists = bal[k].exists
            BY <2>1, <2>2, <2>5, <2>7
        <3>2. Blank(balances') /\ SameBookings(balances, balances')
            BY <2>1, <3>1 DEF Blank, SameBookings
        <3> QED
            BY <1>1, <1>3, <2>4, <3>2
    <2> QED
        BY <2>3, <2>6, <2>7
<1>8. ASSUME NEW e \in Employees, NEW y \in Years, BalancesFor(e, y)
      PROVE  Booked'
    <2>1. \A t \in Types : /\ Blank(EnsureBalance(balances, e, t, y))
                           /\ SameBookings(balances, EnsureBalance(balances, e, t, y))
        BY <1>0, EnsureBalanceBooksNothing
    <2>2. \A k \in Keys : k[2] \in Types
        BY DEF Keys
    <2>3. \A k \in Keys : \/ balances'[k] = balances[k]
                          \/ balances'[k] = EnsureBalance(balances, e, k[2], y)[k]
        BY <1>8 DEF BalancesFor
    <2>4. Blank(balances') /\ SameBookings(balances, balances')
        BY <1>0, <2>1, <2>2, <2>3 DEF Blank, SameBookings
    <2> QED
        BY <1>1, <1>3, <1>8, <2>4 DEF BalancesFor
<1>9. CASE PolicyStep /\ KeepsTracking
    BY <1>2, <1>7, <1>8, <1>9 DEF PolicyStep, UpdateType, AddHolidays, RemoveHoliday
<1>10. CASE EmployeeStep \/ Tick \/ UNCHANGED vars
    BY <1>2, <1>3, <1>10 DEF EmployeeStep, ChangeStatus, Terminate, Tick, vars
<1> QED
    BY <1>6, <1>9, <1>10 DEF Next

(* As long as HR switches no leave type between tracked and untracked, the *)
(* balance rows of the tracked types are exactly what the requests say:    *)
(* pending is the sum of the PENDING allocations and used the sum of the   *)
(* APPROVED ones, whatever was submitted, decided, cancelled, corrected or *)
(* carried over before.                                                    *)
THEOREM LedgerStaysBalanced ==
    Spec /\ [][KeepsTracking]_vars => []LedgerBalanced
<1>1. Init => Booked
    <2> SUFFICES ASSUME Init PROVE Booked
        OBVIOUS
    <2>1. Blank(balances)
        BY DEF Init, Blank, NoRow
    <2>2. \A i \in RequestIds : InWindow(requests[i])
        BY DEF Init, InWindow, NoRequest
    <2>3. ASSUME NEW k \in Keys, NEW status \in {"PENDING", "APPROVED"}
          PROVE  Charged(k, status) = 0
        <3> DEFINE f == Shares(k, status)
        <3>1. \A i \in RequestIds : f[i] = 0
            BY DEF Init, NoRequest, Shares, Share
        <3>2. Charged(k, status) = SumOver(f, RequestIds)
            BY ChargedIsTheSumOfShares
        <3> HIDE DEF f
        <3> QED
            BY <3>1, <3>2, RequestAssumption, SumZero
    <2>4. \A k \in Keys : balances[k].pending = 0 /\ balances[k].used = 0
        BY DEF Init, NoRow
    <2> QED
        BY <2>1, <2>2, <2>3, <2>4 DEF Booked, LedgerBalanced
<1>2. Sound /\ Booked /\ [Next]_vars /\ [KeepsTracking]_vars => Booked'
    <2> SUFFICES ASSUME Sound, Booked, [Next]_vars, [KeepsTracking]_vars PROVE Booked'
        OBVIOUS
    <2>1. [Next /\ KeepsTracking]_vars
        OBVIOUS
    <2> QED
        BY <2>1, NextKeepsTheLedger
<1>3. Booked => LedgerBalanced
    BY DEF Booked
<1> QED
    BY <1>1, <1>2, <1>3, SoundnessIsInvariant, PTL DEF Spec

-----------------------------------------------------------------------------
(* The workflow, with any number of handlers in flight.                   *)

(* What a process carries, and what it carries at each of its steps.       *)
Kinds == {"submit", "approve", "reject", "cancel", "sync", "adjust", "view"}
Deciding == {"approve", "reject", "cancel"}
Process ==
    [pc : {"idle", "overlap", "check", "insertC", "balance", "insertB", "save", "record",
           "enter", "return", "write", "flag", "revert", "next"},
     kind : Kinds \cup {"none"}, id : RequestIds \cup {"none"}, req : Request,
     tracked : BOOLEAN, active : BOOLEAN, todo : SUBSET Keys, row : Row, delta : Int,
     queue : SUBSET RequestIds, ending : BOOLEAN]

Shape(l) ==
    /\ l.pc \in {"overlap", "check", "insertC"} => l.kind = "submit"
    /\ l.pc \in {"check", "insertC", "balance", "insertB", "save"} => l.todo # {}
    /\ l.pc \in {"balance", "insertB"} => l.kind \in {"submit", "adjust", "view"} \cup Deciding
    /\ l.pc = "save" => l.kind \in {"submit", "adjust"} \cup Deciding
    /\ l.pc = "record" => l.kind \in {"submit"} \cup Deciding
    /\ l.pc = "next" => l.kind = "sync"
    /\ l.kind = "submit" => KeysOf(l.req) # {}

(* A request that is decided charges some row; a row about to be saved has *)
(* the grant of the one in the table.                                      *)
Backed(l) == l.kind \in Deciding => l.id \in RequestIds /\ KeysOf(requests[l.id]) # {}
SameGrant(row, old) ==
    /\ row.exists
    /\ row.entitled = old.entitled
    /\ row.carriedOver = old.carriedOver
    /\ row.carryOverExpiresOn = old.carryOverExpiresOn
Writing(l) ==
    l.pc = "save" => LET k == FirstKey(l.todo)
                     IN  balances[k].exists /\ SameGrant(l.row, balances[k])

Charging == \A i \in RequestIds : requests[i].status # "NONE" => KeysOf(requests[i]) # {}
InFlight ==
    /\ procs \in [Procs -> Process]
    /\ \A p \in Procs : Shape(procs[p]) /\ Backed(procs[p]) /\ Writing(procs[p])
WorkflowTypeOK == TypeOK /\ Charging /\ InFlight

(* What no step does.                                                      *)
KeepsGrants == \A k \in Keys : balances[k].exists => SameGrant(balances'[k], balances[k])
KeepsCharges == \A i \in RequestIds : KeysOf(requests[i]) # {} => KeysOf(requests'[i]) # {}

LEMMA YearsAreNat == Years \subseteq Nat
BY CalendarAssumption, DatesHaveYears DEF Years, Dates

LEMMA FirstKeyIsFirst ==
    ASSUME NEW ks \in SUBSET Keys, ks # {}
    PROVE  /\ FirstKey(ks) \in ks
           /\ \A l \in ks : FirstKey(ks)[3] <= l[3]
<1> DEFINE I == {k[3] : k \in ks}
<1>1. I # {} /\ I \subseteq Nat
    BY YearsAreNat DEF Keys
<1>2. PICK y \in I : \A z \in I : ~(<<z, y>> \in OpToRel(<, Nat))
    BY <1>1, NatLessThanWellFounded, WFMin
<1>3. \A z \in I : y <= z
    <2> SUFFICES ASSUME NEW z \in I PROVE y <= z
        OBVIOUS
    <2>1. y \in Nat /\ z \in Nat
        BY <1>1
    <2>2. ~(z < y)
        BY <1>2, <2>1 DEF OpToRel
    <2> QED BY <2>1, <2>2
<1>4. \E k \in ks : \A l \in ks : k[3] <= l[3]
    BY <1>2, <1>3
<1> QED BY <1>4 DEF FirstKey

LEMMA KeysOfARequest ==
    ASSUME NEW r \in Request
    PROVE  KeysOf(r) \subseteq Keys
BY DEF KeysOf

LEMMA IdleIsTyped == Idle \in Process /\ Shape(Idle) /\ Backed(Idle) /\ Writing(Idle)
<1>1. NoRequest \in Request
    BY InitIsSound, CalendarAssumption, PolicyAssumption, DatesHaveYears DEF NoRequest, Request, Dates, RequestStatus
<1>2. NoRow \in Row
    BY DEF NoRow, Row
<1> QED BY <1>1, <1>2 DEF Idle, Process, Shape, Backed, Writing, Kinds, Deciding

LEMMA RowsAreRows ==
    ASSUME NEW row \in Row, NEW d \in Int, NEW l \in Process,
           l.kind \in {"submit", "adjust"} \cup Deciding
    PROVE  /\ Changed(l, row, d) \in Row
           /\ row.exists => SameGrant(Changed(l, row, d), row)
<1>1. -d \in Int /\ 0 \in Int /\ l.delta \in Int
    BY DEF Process
<1>2. \A p, u \in Int : /\ ApplyToBalance(row, p, u) \in Row
                        /\ row.exists => SameGrant(ApplyToBalance(row, p, u), row)
    <2> SUFFICES ASSUME NEW p \in Int, NEW u \in Int
                 PROVE  /\ ApplyToBalance(row, p, u) \in Row
                        /\ row.exists => SameGrant(ApplyToBalance(row, p, u), row)
        OBVIOUS
    <2> DEFINE mid == [row EXCEPT !.pending = row.pending + p]
    <2>1. mid \in Row /\ (row.exists => SameGrant(mid, row))
        BY DEF Row, SameGrant
    <2>2. ApplyToBalance(row, p, u) = [mid EXCEPT !.used = row.used + u]
        BY Zenon DEF ApplyToBalance, mid
    <2> HIDE DEF mid
    <2>3. /\ [mid EXCEPT !.used = row.used + u] \in Row
          /\ mid.exists => SameGrant([mid EXCEPT !.used = row.used + u], mid)
        BY <2>1 DEF Row, SameGrant
    <2> QED BY <2>1, <2>2, <2>3 DEF SameGrant
<1>3. CASE l.kind = "adjust"
    <2>1. Changed(l, row, d) = [row EXCEPT !.adjustment = @ + l.delta]
        BY <1>3 DEF Changed
    <2> QED BY <1>1, <2>1 DEF Row, SameGrant
<1>4. CASE l.kind # "adjust"
    <2>1. \E p, u \in Int : Changed(l, row, d) = ApplyToBalance(row, p, u)
        BY <1>1, <1>4 DEF Changed, Deciding
    <2> QED BY <1>2, <2>1
<1> QED BY <1>3, <1>4

(* A process moves on without touching a table.                            *)
Moves(p, m) == Goto(p, m) /\ UNCHANGED <<balances, requests, empStatus>>

LEMMA StepKeepsTypes ==
    ASSUME WorkflowTypeOK, NEW p \in Procs, NEW m \in Process, TypeOK', Charging',
           procs' = [procs EXCEPT ![p] = m], KeepsGrants, KeepsCharges,
           Shape(m), Backed(m)', Writing(m)'
    PROVE  WorkflowTypeOK'
<1>1. ASSUME NEW q \in Procs PROVE Shape(procs'[q]) /\ Backed(procs[q])' /\ Writing(procs[q])'
    <2>1. CASE q = p
        <3>1. procs'[q] = m
            BY <2>1 DEF WorkflowTypeOK, InFlight
        <3> QED BY <3>1 DEF Backed, Writing
    <2>2. CASE q # p
        <3>1. procs'[q] = procs[q]
            BY <2>2 DEF WorkflowTypeOK, InFlight
        <3>2. PICK l : l = procs[q]
            OBVIOUS
        <3>3. l \in Process /\ Shape(l) /\ Backed(l) /\ Writing(l)
            BY <3>2 DEF WorkflowTypeOK, InFlight
        <3>4. Backed(l)'
            BY <3>3 DEF Backed, KeepsCharges
        <3>5. Writing(l)'
            <4> SUFFICES ASSUME l.pc = "save"
                         PROVE  LET k == FirstKey(l.todo)
                                IN  balances'[k].exists /\ SameGrant(l.row, balances'[k])
                BY DEF Writing, SameGrant
            <4>1. FirstKey(l.todo) \in Keys
                BY <3>3, FirstKeyIsFirst DEF Shape, Process
            <4> QED BY <3>3, <4>1 DEF Writing, KeepsGrants, SameGrant
        <3>6. Backed(procs[q])' /\ Writing(procs[q])'
            BY <3>1, <3>2, <3>4, <3>5 DEF Backed, Writing
        <3> QED BY <3>1, <3>2, <3>3, <3>6
    <2> QED BY <2>1, <2>2
<1>2. procs' \in [Procs -> Process]
    BY DEF WorkflowTypeOK, InFlight
<1> QED BY <1>1, <1>2 DEF WorkflowTypeOK, InFlight

LEMMA MoveKeepsTypes ==
    ASSUME WorkflowTypeOK, NEW p \in Procs, NEW m \in Process, procs' = [procs EXCEPT ![p] = m],
           UNCHANGED <<today, policy, holidays, balances, requests, empStatus>>,
           Shape(m), Backed(m), Writing(m)
    PROVE  WorkflowTypeOK' /\ KeepsGrants
<1>1. TypeOK' /\ Charging'
    BY DEF WorkflowTypeOK, TypeOK, Charging, Dates, Years, Keys
<1>2. KeepsGrants /\ KeepsCharges
    BY DEF KeepsGrants, KeepsCharges, SameGrant
<1>3. Backed(m)' /\ Writing(m)'
    BY DEF Backed, Writing
<1> QED BY <1>1, <1>2, <1>3, StepKeepsTypes

LEMMA ProcessTypes ==
    ASSUME WorkflowTypeOK, NEW p \in Procs, NEW l, l = procs[p]
    PROVE  l \in Process /\ Shape(l) /\ Backed(l) /\ Writing(l)
BY DEF WorkflowTypeOK, InFlight

LEMMA MovesKeepTypes ==
    ASSUME WorkflowTypeOK, NEW p \in Procs, NEW m, Moves(p, m),
           m \in Process, Shape(m), Backed(m), Writing(m)
    PROVE  WorkflowTypeOK' /\ KeepsGrants
BY MoveKeepsTypes DEF Moves, Goto

LEMMA EndKeepsTypes ==
    ASSUME WorkflowTypeOK, NEW p \in Procs, Moves(p, Idle)
    PROVE  WorkflowTypeOK' /\ KeepsGrants
<1>1. PICK m : m = Idle
    OBVIOUS
<1> QED BY <1>1, IdleIsTyped, MovesKeepTypes

(* A step of a process that has found its place: only pc, the keys to do   *)
(* and the row change.                                                     *)
LEMMA CheckOverlapTypes ==
    ASSUME WorkflowTypeOK, NEW p \in Procs, CheckOverlap(p)
    PROVE  WorkflowTypeOK' /\ KeepsGrants
<1>1. PICK l : l = procs[p]
    OBVIOUS
<1>2. l \in Process /\ Shape(l) /\ Backed(l) /\ l.pc = "overlap" /\ KeysOf(l.req) \subseteq Keys
    BY <1>1, ProcessTypes, KeysOfARequest DEF CheckOverlap, At, Process
<1>3. PICK m : Moves(p, m) /\ m \in {Idle, [l EXCEPT !.pc = "check", !.todo = KeysOf(l.req)],
                                     [l EXCEPT !.pc = "record"]}
    BY <1>1, Zenon DEF CheckOverlap, Moves
<1>4. CASE m = Idle
    BY <1>3, <1>4, EndKeepsTypes
<1>5. CASE m # Idle
    <2>1. m \in Process /\ m.pc \in {"check", "record"} /\ m.kind = l.kind /\ m.req = l.req
          /\ m.id = l.id /\ (m.pc = "check" => m.todo = KeysOf(l.req))
        BY <1>2, <1>3, <1>5 DEF Process
    <2>2. Shape(m) /\ Backed(m) /\ Writing(m)
        BY <1>2, <2>1 DEF Shape, Backed, Writing, Deciding
    <2> QED BY <1>3, <2>1, <2>2, MovesKeepTypes
<1> QED BY <1>4, <1>5

LEMMA ComputeRowTypes ==
    ASSUME WorkflowTypeOK, NEW p \in Procs, ComputeRow(p)
    PROVE  WorkflowTypeOK' /\ KeepsGrants
<1>1. PICK l : l = procs[p]
    OBVIOUS
<1>2. PICK k : k = FirstKey(l.todo)
    OBVIOUS
<1>3. l \in Process /\ Shape(l) /\ Backed(l) /\ l.pc \in {"check", "balance"}
    BY <1>1, ProcessTypes DEF ComputeRow
<1>4. k \in Keys
    BY <1>2, <1>3, FirstKeyIsFirst DEF Shape, Process
<1>5. PICK row : row = Provision(balances, k[1], k[2], k[3])
    OBVIOUS
<1>6. row \in Row
    BY <1>4, <1>5, ProvisionIsSound DEF WorkflowTypeOK, TypeOK, Keys
<1>7. PICK m : m = [l EXCEPT !.pc = IF l.pc = "check" THEN "insertC" ELSE "insertB", !.row = row]
    OBVIOUS
<1>8. Moves(p, m)
    BY <1>1, <1>2, <1>5, <1>7 DEF ComputeRow, Moves
<1>9. m \in Process /\ m.pc = (IF l.pc = "check" THEN "insertC" ELSE "insertB")
      /\ m.kind = l.kind /\ m.req = l.req /\ m.id = l.id /\ m.todo = l.todo
    BY <1>3, <1>6, <1>7 DEF Process
<1>10. Shape(m) /\ Backed(m) /\ Writing(m)
    BY <1>3, <1>9 DEF Shape, Backed, Writing
<1> QED BY <1>8, <1>9, <1>10, MovesKeepTypes

LEMMA CheckFundsTypes ==
    ASSUME WorkflowTypeOK, NEW p \in Procs, CheckFunds(p)
    PROVE  WorkflowTypeOK' /\ KeepsGrants
<1>1. PICK l : l = procs[p]
    OBVIOUS
<1>2. PICK left : left = l.todo \ {FirstKey(l.todo)}
    OBVIOUS
<1>3. l \in Process /\ Shape(l) /\ Backed(l) /\ l.pc = "check" /\ KeysOf(l.req) \subseteq Keys
    BY <1>1, ProcessTypes, KeysOfARequest DEF CheckFunds, At, Process
<1>4. PICK m : /\ Moves(p, m)
               /\ \/ m = Idle
                  \/ left # {} /\ m = [l EXCEPT !.todo = left]
                  \/ m = [l EXCEPT !.pc = "balance", !.todo = KeysOf(l.req)]
    BY <1>1, <1>2, Zenon DEF CheckFunds, Moves
<1>5. CASE m = Idle
    BY <1>4, <1>5, EndKeepsTypes
<1>6. CASE m # Idle
    <2> DEFINE Kept == m \in Process /\ m.kind = l.kind /\ m.req = l.req /\ m.id = l.id
    <2>1. ASSUME left # {}, m = [l EXCEPT !.todo = left]
          PROVE  Kept /\ m.pc = "check" /\ m.todo # {}
        <3>1. left \in SUBSET Keys
            BY <1>2, <1>3 DEF Process
        <3> QED BY <1>3, <2>1, <3>1 DEF Process
    <2>2. ASSUME m = [l EXCEPT !.pc = "balance", !.todo = KeysOf(l.req)]
          PROVE  Kept /\ m.pc = "balance" /\ m.todo = KeysOf(l.req)
        BY <1>3, <2>2 DEF Process
    <2>3. Kept /\ (\/ m.pc = "check" /\ m.todo # {}
                   \/ m.pc = "balance" /\ m.todo = KeysOf(l.req))
        BY <1>4, <1>6, <2>1, <2>2
    <2>4. Shape(m) /\ Backed(m) /\ Writing(m)
        BY <1>3, <2>3 DEF Shape, Backed, Writing, Deciding
    <2> QED BY <1>4, <2>3, <2>4, MovesKeepTypes
<1> QED BY <1>5, <1>6

LEMMA ReadBalanceTypes ==
    ASSUME WorkflowTypeOK, NEW p \in Procs, ReadBalance(p)
    PROVE  WorkflowTypeOK' /\ KeepsGrants
<1>1. PICK l : l = procs[p]
    OBVIOUS
<1>2. PICK k : k = FirstKey(l.todo)
    OBVIOUS
<1>3. l \in Process /\ Shape(l) /\ Backed(l) /\ l.pc = "balance"
    BY <1>1, ProcessTypes DEF ReadBalance, At
<1>4. k \in Keys /\ balances[k] \in Row /\ l.req.allocations[k[3]] \in Int
    <2>1. k \in Keys
        BY <1>2, <1>3, FirstKeyIsFirst DEF Shape, Process
    <2>2. l.req \in Request /\ k[3] \in Years /\ balances \in [Keys -> Row]
        BY <1>3, <2>1 DEF Process, Keys, WorkflowTypeOK, TypeOK
    <2> QED BY <2>1, <2>2 DEF Request
<1>5. PICK row : row = Changed(l, balances[k], l.req.allocations[k[3]])
    OBVIOUS
<1>6. PICK m : /\ Moves(p, m) /\ balances[k].exists
               /\ \/ m = Idle
                  \/ l.kind = "view" /\ l.todo \ {k} # {} /\ m = [l EXCEPT !.todo = l.todo \ {k}]
                  \/ l.kind # "view" /\ m = [l EXCEPT !.pc = "save", !.row = row]
    BY <1>1, <1>2, <1>5, Zenon DEF ReadBalance, Moves
<1>7. CASE m = Idle
    BY <1>6, <1>7, EndKeepsTypes
<1>8. CASE l.kind = "view" /\ m # Idle
    <2>1. m \in Process /\ m.kind = "view" /\ m.pc = "balance" /\ m.todo # {}
        BY <1>3, <1>6, <1>8 DEF Process
    <2>2. Shape(m) /\ Backed(m) /\ Writing(m)
        BY <2>1 DEF Shape, Backed, Writing, Deciding
    <2> QED BY <1>6, <2>1, <2>2, MovesKeepTypes
<1>9. CASE l.kind # "view" /\ m # Idle
    <2>1. l.kind \in {"submit", "adjust"} \cup Deciding
        BY <1>3, <1>9 DEF Shape
    <2>2. row \in Row /\ SameGrant(row, balances[k])
        BY <1>3, <1>4, <1>5, <1>6, <2>1, RowsAreRows
    <2>3. m \in Process /\ m.kind = l.kind /\ m.pc = "save" /\ m.todo = l.todo /\ m.row = row
          /\ m.id = l.id /\ m.req = l.req
        BY <1>3, <1>6, <1>9, <2>2 DEF Process
    <2>4. Shape(m) /\ Backed(m) /\ Writing(m)
        BY <1>2, <1>3, <1>6, <2>1, <2>2, <2>3 DEF Shape, Backed, Writing
    <2> QED BY <1>6, <2>3, <2>4, MovesKeepTypes
<1> QED BY <1>7, <1>8, <1>9

LEMMA InsertRowTypes ==
    ASSUME WorkflowTypeOK, NEW p \in Procs, InsertRow(p)
    PROVE  WorkflowTypeOK' /\ KeepsGrants
<1>1. PICK l : l = procs[p]
    OBVIOUS
<1>2. PICK k : k = FirstKey(l.todo)
    OBVIOUS
<1>3. l \in Process /\ Shape(l) /\ Backed(l) /\ l.pc \in {"insertC", "insertB"} /\ l.row \in Row
    BY <1>1, ProcessTypes DEF InsertRow, Process
<1>4. k \in Keys /\ NoRow \in Row /\ balances \in [Keys -> Row]
    BY <1>2, <1>3, FirstKeyIsFirst DEF Shape, Process, NoRow, Row, WorkflowTypeOK, TypeOK
<1>5. PICK m : m = [l EXCEPT !.pc = IF l.pc = "insertC" THEN "check" ELSE "balance", !.row = NoRow]
    OBVIOUS
<1>6. Goto(p, m) /\ UNCHANGED <<requests, empStatus>>
    BY <1>1, <1>5 DEF InsertRow
<1>7. m \in Process /\ m.pc = (IF l.pc = "insertC" THEN "check" ELSE "balance")
      /\ m.kind = l.kind /\ m.req = l.req /\ m.id = l.id /\ m.todo = l.todo
    BY <1>3, <1>4, <1>5 DEF Process
<1>8. Shape(m) /\ Backed(m) /\ m.pc # "save"
    BY <1>3, <1>7 DEF Shape, Backed
<1>9. balances' \in [Keys -> Row] /\ KeepsGrants
    BY <1>1, <1>2, <1>3, <1>4 DEF InsertRow, KeepsGrants, SameGrant
<1>10. TypeOK' /\ Charging' /\ KeepsCharges /\ Backed(m)' /\ Writing(m)'
    BY <1>6, <1>8, <1>9 DEF Goto, WorkflowTypeOK, TypeOK, Charging, KeepsCharges, Backed, Writing
<1> QED BY <1>6, <1>7, <1>8, <1>9, <1>10, StepKeepsTypes DEF Goto

LEMMA SaveBalanceTypes ==
    ASSUME WorkflowTypeOK, NEW p \in Procs, SaveBalance(p)
    PROVE  WorkflowTypeOK' /\ KeepsGrants
<1>1. PICK l : l = procs[p]
    OBVIOUS
<1>2. PICK k : k = FirstKey(l.todo)
    OBVIOUS
<1>3. l \in Process /\ Shape(l) /\ Backed(l) /\ Writing(l) /\ l.pc = "save" /\ l.row \in Row
    BY <1>1, ProcessTypes DEF SaveBalance, At, Process
<1>4. k \in Keys /\ NoRow \in Row /\ balances \in [Keys -> Row]
    BY <1>2, <1>3, FirstKeyIsFirst DEF Shape, Process, NoRow, Row, WorkflowTypeOK, TypeOK
<1>5. PICK left : left = l.todo \ {k}
    OBVIOUS
<1>6. PICK m : /\ Goto(p, m)
               /\ \/ left # {} /\ m = [l EXCEPT !.pc = "balance", !.todo = left, !.row = NoRow]
                  \/ m = Idle
                  \/ l.kind # "adjust" /\ m = [l EXCEPT !.pc = "record", !.todo = {}, !.row = NoRow]
    BY <1>1, <1>2, <1>5, Zenon DEF SaveBalance
<1>7. balances' = [balances EXCEPT ![k] = l.row] /\ UNCHANGED <<requests, empStatus>>
    BY <1>1, <1>2 DEF SaveBalance
<1>8. m \in Process /\ Shape(m) /\ Backed(m) /\ m.pc # "save"
    <2>1. CASE m = Idle
        BY <2>1, IdleIsTyped DEF Idle
    <2>2. CASE m # Idle
        <3>1. m \in Process /\ m.kind = l.kind /\ m.req = l.req /\ m.id = l.id
              /\ (m.pc = "balance" => m.todo # {}) /\ m.pc \in {"balance", "record"}
              /\ (m.pc = "record" => l.kind # "adjust")
            <4>0. left \subseteq Keys
                BY <1>3, <1>5 DEF Process
            <4>1. CASE left # {} /\ m = [l EXCEPT !.pc = "balance", !.todo = left, !.row = NoRow]
                BY <1>3, <1>4, <4>0, <4>1 DEF Process
            <4>2. CASE l.kind # "adjust" /\ m = [l EXCEPT !.pc = "record", !.todo = {}, !.row = NoRow]
                BY <1>3, <1>4, <4>2 DEF Process
            <4> QED BY <1>6, <2>2, <4>1, <4>2
        <3> QED BY <1>3, <3>1 DEF Shape, Backed
    <2> QED BY <2>1, <2>2
<1>9. SameGrant(l.row, balances[k])
    BY <1>2, <1>3 DEF Writing
<1>10. balances' \in [Keys -> Row] /\ KeepsGrants
    BY <1>3, <1>4, <1>7, <1>9 DEF KeepsGrants, SameGrant
<1>11. TypeOK' /\ Charging' /\ KeepsCharges /\ Backed(m)' /\ Writing(m)'
    BY <1>6, <1>7, <1>8, <1>10
       DEF Goto, WorkflowTypeOK, TypeOK, Charging, KeepsCharges, Backed, Writing
<1> QED BY <1>6, <1>8, <1>10, <1>11, StepKeepsTypes DEF Goto

(* A write of the requests table alone.                                    *)
LEMMA RequestWritten ==
    ASSUME WorkflowTypeOK, NEW p \in Procs, NEW m \in Process, Goto(p, m),
           UNCHANGED <<balances, empStatus>>, requests' \in [RequestIds -> Request], Charging',
           KeepsCharges, Shape(m), Backed(m), m.pc # "save"
    PROVE  WorkflowTypeOK' /\ KeepsGrants
<1>1. TypeOK' /\ KeepsGrants
    BY DEF Goto, WorkflowTypeOK, TypeOK, KeepsGrants, SameGrant
<1>2. Backed(m)' /\ Writing(m)'
    BY DEF Backed, Writing, KeepsCharges
<1> QED BY <1>1, <1>2, StepKeepsTypes DEF Goto

LEMMA RecordTypes ==
    ASSUME WorkflowTypeOK, NEW p \in Procs, Record(p)
    PROVE  WorkflowTypeOK' /\ KeepsGrants
<1>1. PICK l : l = procs[p]
    OBVIOUS
<1>2. l \in Process /\ Shape(l) /\ Backed(l) /\ l.pc = "record" /\ l.req \in Request
      /\ l.kind \in {"submit"} \cup Deciding
    BY <1>1, ProcessTypes DEF Record, At, Process, Shape
<1>3. PICK m : /\ Goto(p, m)
               /\ m \in {Idle, [l EXCEPT !.pc = "enter"], [l EXCEPT !.pc = "revert", !.ending = TRUE]}
    BY <1>1, Zenon DEF Record
<1>4. m \in Process /\ Shape(m) /\ Backed(m) /\ m.pc # "save"
    <2>1. CASE m = Idle
        BY <2>1, IdleIsTyped DEF Idle
    <2>2. CASE m # Idle
        <3>1. m \in Process /\ m.kind = l.kind /\ m.req = l.req /\ m.id = l.id
              /\ m.pc \in {"enter", "revert"}
            BY <1>2, <1>3, <2>2 DEF Process
        <3> QED BY <1>2, <3>1 DEF Shape, Backed
    <2> QED BY <2>1, <2>2
<1>5. UNCHANGED <<balances, empStatus>> /\ requests \in [RequestIds -> Request]
    BY DEF Record, WorkflowTypeOK, TypeOK
<1>6. PICK s \in RequestStatus :
          requests' = [requests EXCEPT ![l.id] = IF l.kind = "submit" THEN l.req
                                                ELSE [@ EXCEPT !.status = s]]
    BY <1>1 DEF Record, RequestStatus
<1>7. \A r \in Request : LET d == [r EXCEPT !.status = s]
                        IN  d \in Request /\ KeysOf(d) = KeysOf(r)
    BY DEF Request, KeysOf
<1>8. requests' \in [RequestIds -> Request]
    BY <1>2, <1>5, <1>6, <1>7
<1>9. ASSUME NEW i \in RequestIds
      PROVE  /\ KeysOf(requests[i]) # {} => KeysOf(requests'[i]) # {}
             /\ requests[i].status = "NONE" /\ i # l.id => requests'[i].status = "NONE"
             /\ i = l.id => KeysOf(requests'[i]) # {}
    BY <1>2, <1>5, <1>6, <1>7 DEF Shape, Backed
<1>10. KeepsCharges /\ Charging'
    BY <1>9 DEF KeepsCharges, Charging, WorkflowTypeOK
<1> QED BY <1>3, <1>4, <1>5, <1>8, <1>10, RequestWritten

LEMMA WriteFlagTypes ==
    ASSUME WorkflowTypeOK, NEW p \in Procs, WriteFlag(p)
    PROVE  WorkflowTypeOK' /\ KeepsGrants
<1>1. PICK l : l = procs[p]
    OBVIOUS
<1>2. l \in Process /\ Shape(l) /\ Backed(l) /\ l.pc = "flag" /\ l.ending \in BOOLEAN
    BY <1>1, ProcessTypes DEF WriteFlag, At, Process
<1>3. PICK m : /\ Goto(p, m)
               /\ m = Idle \/ (m = [l EXCEPT !.pc = "next"] /\ l.kind = "sync")
    BY <1>1, Zenon DEF WriteFlag
<1>4. m \in Process /\ Shape(m) /\ Backed(m) /\ m.pc # "save"
    <2>1. CASE m = Idle
        BY <2>1, IdleIsTyped DEF Idle
    <2>2. CASE m # Idle
        <3>1. m \in Process /\ m.kind = l.kind /\ m.req = l.req /\ m.id = l.id /\ m.pc = "next"
              /\ l.kind = "sync"
            BY <1>2, <1>3, <2>2 DEF Process
        <3> QED BY <1>2, <3>1 DEF Shape, Backed
    <2> QED BY <2>1, <2>2
<1>5. PICK b \in BOOLEAN : b = ~l.ending
    OBVIOUS
<1>6. UNCHANGED <<balances, empStatus>> /\ requests \in [RequestIds -> Request]
      /\ requests' = [requests EXCEPT ![l.id].statusApplied = b]
    BY <1>1, <1>5 DEF WriteFlag, WorkflowTypeOK, TypeOK
<1>7. \A r \in Request : LET d == [r EXCEPT !.statusApplied = b]
                        IN  d \in Request /\ d.status = r.status /\ KeysOf(d) = KeysOf(r)
    BY <1>2, <1>5 DEF Request, KeysOf
<1>8. requests' \in [RequestIds -> Request]
      /\ \A i \in RequestIds : /\ requests'[i].status = requests[i].status
                               /\ KeysOf(requests'[i]) = KeysOf(requests[i])
    BY <1>6, <1>7
<1>9. KeepsCharges /\ Charging'
    BY <1>8 DEF KeepsCharges, Charging, WorkflowTypeOK
<1> QED BY <1>3, <1>4, <1>6, <1>8, <1>9, RequestWritten

LEMMA WriteStatusTypes ==
    ASSUME WorkflowTypeOK, NEW p \in Procs, WriteStatus(p)
    PROVE  WorkflowTypeOK' /\ KeepsGrants
<1>1. PICK l : l = procs[p]
    OBVIOUS
<1>2. l \in Process /\ Shape(l) /\ Backed(l) /\ l.pc = "write"
    BY <1>1, ProcessTypes DEF WriteStatus, At
<1>3. PICK m : m = [l EXCEPT !.pc = "flag"]
    OBVIOUS
<1>4. m \in Process /\ m.pc = "flag" /\ m.kind = l.kind /\ m.req = l.req /\ m.id = l.id
    BY <1>2, <1>3 DEF Process
<1>5. Shape(m) /\ Backed(m) /\ Goto(p, m)
    BY <1>1, <1>2, <1>3, <1>4 DEF Shape, Backed, WriteStatus
<1>6. empStatus' \in [Employees -> EmployeeStatus] /\ UNCHANGED <<balances, requests>>
    BY DEF WriteStatus, WorkflowTypeOK, TypeOK, EmployeeStatus
<1>7. TypeOK' /\ Charging' /\ KeepsCharges /\ KeepsGrants /\ Backed(m)' /\ Writing(m)'
    BY <1>4, <1>5, <1>6 DEF Goto, WorkflowTypeOK, TypeOK, Charging, KeepsCharges, KeepsGrants,
                            SameGrant, Backed, Writing
<1> QED BY <1>4, <1>5, <1>7, StepKeepsTypes DEF Goto

(* A step that only moves the process.                                     *)
LEMMA PlainMoveTypes ==
    ASSUME WorkflowTypeOK, NEW p \in Procs, NEW l, l = procs[p], NEW m, Moves(p, m),
           m \in {Idle} \cup {[l EXCEPT !.pc = pc] : pc \in {"write", "return", "flag"}}
    PROVE  WorkflowTypeOK' /\ KeepsGrants
<1>1. l \in Process /\ Shape(l) /\ Backed(l)
    BY ProcessTypes
<1>2. CASE m = Idle
    BY <1>2, EndKeepsTypes
<1>3. CASE m # Idle
    <2>1. m \in Process /\ m.kind = l.kind /\ m.req = l.req /\ m.id = l.id
          /\ m.pc \in {"write", "return", "flag"}
        BY <1>1, <1>3 DEF Process
    <2>2. Shape(m) /\ Backed(m) /\ Writing(m)
        BY <1>1, <2>1 DEF Shape, Backed, Writing
    <2> QED BY <2>1, <2>2, MovesKeepTypes
<1> QED BY <1>2, <1>3

LEMMA StatusMovesTypes ==
    ASSUME WorkflowTypeOK, NEW p \in Procs, CheckTransition(p) \/ Revert(p) \/ Die(p)
    PROVE  WorkflowTypeOK' /\ KeepsGrants
<1>1. PICK l : l = procs[p]
    OBVIOUS
<1>2. \E m : Moves(p, m) /\ (m = Idle \/ \E pc \in {"write", "return", "flag"} : m = [l EXCEPT !.pc = pc])
    BY <1>1, Zenon DEF CheckTransition, Revert, Die, Moves
<1>3. PICK m : Moves(p, m) /\ m \in {Idle} \cup {[l EXCEPT !.pc = pc] : pc \in {"write", "return", "flag"}}
    BY <1>2
<1> QED BY <1>1, <1>3, PlainMoveTypes

LEMMA SyncNextTypes ==
    ASSUME WorkflowTypeOK, NEW p \in Procs, SyncNext(p)
    PROVE  WorkflowTypeOK' /\ KeepsGrants
<1>1. PICK l : l = procs[p]
    OBVIOUS
<1>2. l \in Process /\ Shape(l) /\ l.kind = "sync" /\ l.pc = "next"
    BY <1>1, ProcessTypes DEF SyncNext, At, Shape
<1>3. CASE Moves(p, Idle)
    BY <1>3, EndKeepsTypes
<1>4. ASSUME NEW i \in l.queue,
             Moves(p, [l EXCEPT !.pc = IF l.ending THEN "revert" ELSE "enter",
                                !.id = i, !.req = requests[i], !.queue = @ \ {i}])
      PROVE  WorkflowTypeOK' /\ KeepsGrants
    <2>1. i \in RequestIds /\ requests[i] \in Request
        BY <1>2 DEF Process, WorkflowTypeOK, TypeOK
    <2>2. PICK m : m = [l EXCEPT !.pc = IF l.ending THEN "revert" ELSE "enter",
                                 !.id = i, !.req = requests[i], !.queue = @ \ {i}]
        OBVIOUS
    <2>3. m \in Process /\ m.kind = "sync" /\ m.pc \in {"revert", "enter"}
        BY <1>2, <2>1, <2>2 DEF Process
    <2>4. Shape(m) /\ Backed(m) /\ Writing(m)
        BY <2>3 DEF Shape, Backed, Writing, Deciding
    <2> QED BY <1>4, <2>2, <2>3, <2>4, MovesKeepTypes
<1>5. CASE Moves(p, [l EXCEPT !.queue = Ending, !.ending = TRUE])
    <2>1. PICK m : m = [l EXCEPT !.queue = Ending, !.ending = TRUE]
        OBVIOUS
    <2>2. m \in Process /\ m.kind = "sync" /\ m.pc = "next"
        BY <1>2, <2>1 DEF Process, Ending
    <2>3. Shape(m) /\ Backed(m) /\ Writing(m)
        BY <2>2 DEF Shape, Backed, Writing, Deciding
    <2> QED BY <1>5, <2>1, <2>2, <2>3, MovesKeepTypes
<1> QED BY <1>1, <1>3, <1>4, <1>5, Zenon DEF SyncNext, Moves

LEMMA StepTypes ==
    ASSUME WorkflowTypeOK, NEW p \in Procs, Step(p) \/ Die(p)
    PROVE  WorkflowTypeOK' /\ KeepsGrants
BY CheckOverlapTypes, ComputeRowTypes, InsertRowTypes, CheckFundsTypes, ReadBalanceTypes,
   SaveBalanceTypes, RecordTypes, StatusMovesTypes, WriteStatusTypes, WriteFlagTypes,
   SyncNextTypes DEF Step

(* A handler that starts.                                                  *)
LEMMA BeginTypes ==
    ASSUME WorkflowTypeOK, NEW p \in Procs, NEW kind, NEW h \in Process, Begin(p, kind, h),
           LET m == [h EXCEPT !.kind = kind] IN Shape(m) /\ Backed(m) /\ h.pc # "save"
    PROVE  WorkflowTypeOK' /\ KeepsGrants
<1>1. PICK m : m = [h EXCEPT !.kind = kind]
    OBVIOUS
<1>2. m \in Process /\ Shape(m) /\ Backed(m) /\ Writing(m)
    BY <1>1, WorkflowAssumption DEF Begin, Process, Kinds, Writing
<1> QED BY <1>1, <1>2, MoveKeepsTypes DEF Begin

LEMMA StartSubmitTypes ==
    ASSUME WorkflowTypeOK, NEW p \in Procs, NEW i \in RequestIds, NEW e \in Employees,
           NEW t \in Types, NEW start \in Dates, NEW end \in Dates, NEW half \in BOOLEAN,
           StartSubmit(p, i, e, t, start, end, half)
    PROVE  WorkflowTypeOK' /\ KeepsGrants
<1>1. PICK r : r = NewRequest(e, t, start, end, half)
    OBVIOUS
<1>2. PICK tr : tr = policy[t].requiresBalance
    OBVIOUS
<1>3. PICK h : h = [Idle EXCEPT !.pc = "overlap", !.id = i, !.req = r, !.tracked = tr]
    OBVIOUS
<1>4. r \in Request /\ KeysOf(r) # {}
    <2>1. PICK y \in Years : Allocate(start, end, half)[y] > 0
        BY DEF StartSubmit
    <2>2. <<e, t, y>> \in KeysOf(r)
        BY <1>1, <2>1 DEF KeysOf, Keys, NewRequest
    <2> QED BY <1>1, <2>2, NewRequestIsTyped
<1>5. tr \in BOOLEAN
    BY <1>2, PoliciesAreTyped DEF WorkflowTypeOK, TypeOK, Policy
<1>6. h \in Process /\ h.pc = "overlap" /\ h.req = r
    BY <1>3, <1>4, <1>5, IdleIsTyped DEF Process
<1>7. PICK m : m = [h EXCEPT !.kind = "submit"]
    OBVIOUS
<1>8. m.pc = "overlap" /\ m.kind = "submit" /\ m.req = r
    BY <1>6, <1>7 DEF Process
<1>9. Shape(m) /\ Backed(m)
    BY <1>4, <1>8 DEF Shape, Backed, Deciding
<1>10. Begin(p, "submit", h)
    BY <1>1, <1>2, <1>3 DEF StartSubmit
<1> QED BY <1>6, <1>7, <1>9, <1>10, BeginTypes

LEMMA LoadedTypes ==
    ASSUME WorkflowTypeOK, NEW p \in Procs, NEW i \in RequestIds, NEW kind \in Deciding,
           Begin(p, kind, Loaded(i)), requests[i].status # "NONE"
    PROVE  WorkflowTypeOK' /\ KeepsGrants
<1>1. PICK r : r = requests[i]
    OBVIOUS
<1>2. PICK tr : tr = policy[r.type].requiresBalance
    OBVIOUS
<1>3. PICK b : b = (empStatus[r.employee] = "ACTIVE")
    OBVIOUS
<1>4. r \in Request /\ KeysOf(r) # {} /\ KeysOf(r) \subseteq Keys
    BY <1>1, KeysOfARequest DEF WorkflowTypeOK, Charging, TypeOK
<1>5. tr \in BOOLEAN /\ b \in BOOLEAN
    BY <1>2, <1>3, <1>4, PoliciesAreTyped DEF WorkflowTypeOK, TypeOK, Policy, Request
<1>6. PICK h : h = [Idle EXCEPT !.pc = IF tr THEN "balance" ELSE "record", !.id = i, !.req = r,
                          !.tracked = tr, !.todo = IF tr THEN KeysOf(r) ELSE {}, !.active = b]
    OBVIOUS
<1>7. h = Loaded(i)
    BY <1>1, <1>2, <1>3, <1>6, Zenon DEF Loaded
<1>8. h \in Process /\ h.pc = (IF tr THEN "balance" ELSE "record") /\ h.id = i
      /\ h.todo = (IF tr THEN KeysOf(r) ELSE {})
    BY <1>4, <1>5, <1>6, IdleIsTyped DEF Process
<1>9. PICK m : m = [h EXCEPT !.kind = kind]
    OBVIOUS
<1>10. m.pc = h.pc /\ m.kind = kind /\ m.id = i /\ m.todo = h.todo
    BY <1>8, <1>9 DEF Process
<1>11. Shape(m) /\ Backed(m)
    BY <1>1, <1>4, <1>5, <1>8, <1>10 DEF Shape, Backed, Deciding
<1> QED BY <1>7, <1>8, <1>9, <1>11, BeginTypes

LEMMA StartBalancesTypes ==
    ASSUME WorkflowTypeOK, NEW p \in Procs, NEW kind \in {"adjust", "view"},
           NEW h \in Process, h.pc = "balance", h.todo # {}, Begin(p, kind, h)
    PROVE  WorkflowTypeOK' /\ KeepsGrants
<1>3. PICK m : m = [h EXCEPT !.kind = kind]
    OBVIOUS
<1>4. m.pc = "balance" /\ m.kind = kind /\ m.todo # {}
    BY <1>3 DEF Process
<1>5. Shape(m) /\ Backed(m)
    BY <1>4 DEF Shape, Backed, Deciding
<1> QED BY <1>3, <1>5, BeginTypes

LEMMA StartSyncTypes ==
    ASSUME WorkflowTypeOK, NEW p \in Procs, StartSync(p)
    PROVE  WorkflowTypeOK' /\ KeepsGrants
<1>1. PICK h : h = [Idle EXCEPT !.pc = "next", !.queue = Starting]
    OBVIOUS
<1>2. h \in Process /\ h.pc = "next"
    BY <1>1, IdleIsTyped DEF Process, Starting
<1>3. PICK m : m = [h EXCEPT !.kind = "sync"]
    OBVIOUS
<1>4. m.pc = "next" /\ m.kind = "sync"
    BY <1>2, <1>3 DEF Process
<1>5. Shape(m) /\ Backed(m)
    BY <1>4 DEF Shape, Backed, Deciding
<1> QED BY <1>1, <1>2, <1>3, <1>5, BeginTypes DEF StartSync

LEMMA StartTypes ==
    ASSUME WorkflowTypeOK, NEW p \in Procs, Start(p)
    PROVE  WorkflowTypeOK' /\ KeepsGrants
<1>1. ASSUME NEW i \in RequestIds, NEW actor \in Actors,
             StartDecision(p, i, actor) \/ StartCancel(p, i, actor)
      PROVE  WorkflowTypeOK' /\ KeepsGrants
    <2>1. requests[i].status # "NONE"
        BY <1>1 DEF StartDecision, StartCancel, MayDecide, ActiveStatuses
    <2>2. \E kind \in Deciding : Begin(p, kind, Loaded(i))
        BY <1>1 DEF StartDecision, StartCancel, Deciding
    <2> QED BY <2>1, <2>2, LoadedTypes
<1>2. ASSUME NEW e \in Employees, NEW t \in Types, NEW y \in Years, NEW delta \in Deltas,
             StartAdjust(p, e, t, y, delta)
      PROVE  WorkflowTypeOK' /\ KeepsGrants
    <2>1. {<<e, t, y>>} \in SUBSET Keys /\ delta \in Int
        BY PolicyAssumption DEF Keys
    <2>2. PICK h : h = [Idle EXCEPT !.pc = "balance", !.todo = {<<e, t, y>>}, !.delta = delta]
        OBVIOUS
    <2>3. h \in Process /\ h.pc = "balance" /\ h.todo # {}
        BY <2>1, <2>2, IdleIsTyped DEF Process
    <2> QED BY <1>2, <2>2, <2>3, StartBalancesTypes DEF StartAdjust
<1>3. ASSUME NEW e \in Employees, NEW y \in Years, StartView(p, e, y)
      PROVE  WorkflowTypeOK' /\ KeepsGrants
    <2>1. PICK ks \in SUBSET Keys : /\ ks # {}
              /\ Begin(p, "view", [Idle EXCEPT !.pc = "balance", !.todo = ks])
        BY <1>3 DEF StartView
    <2>2. PICK h : h = [Idle EXCEPT !.pc = "balance", !.todo = ks]
        OBVIOUS
    <2>3. h \in Process /\ h.pc = "balance" /\ h.todo # {}
        BY <2>1, <2>2, IdleIsTyped DEF Process
    <2> QED BY <2>1, <2>2, <2>3, StartBalancesTypes
<1> QED BY <1>1, <1>2, <1>3, StartSubmitTypes, StartSyncTypes DEF Start

LEMMA OutsideTypes ==
    ASSUME WorkflowTypeOK, Outside
    PROVE  WorkflowTypeOK' /\ KeepsGrants
<1>1. UNCHANGED <<balances, requests, procs>>
    BY DEF Outside, UpdateType, AddHolidays, RemoveHoliday, EmployeeStep, ChangeStatus, Terminate, Tick
<1>2. TypeOK'
    <2>1. CASE \E t \in Types, pol \in Policies : UpdateType(t, pol)
        BY <2>1 DEF UpdateType, WorkflowTypeOK, TypeOK
    <2>2. CASE \E ds \in SUBSET HolidayDates : AddHolidays(ds)
        BY <2>2, CalendarAssumption DEF AddHolidays, WorkflowTypeOK, TypeOK
    <2>3. CASE \E d \in HolidayDates : RemoveHoliday(d)
        BY <2>3 DEF RemoveHoliday, WorkflowTypeOK, TypeOK
    <2>4. CASE EmployeeStep
        BY <2>4 DEF EmployeeStep, ChangeStatus, Terminate, WorkflowTypeOK, TypeOK, EmployeeStatus
    <2>5. CASE Tick
        BY <2>5, CalendarAssumption DEF Tick, WorkflowTypeOK, TypeOK, Dates
    <2> QED BY <2>1, <2>2, <2>3, <2>4, <2>5 DEF Outside
<1> QED BY <1>1, <1>2 DEF WorkflowTypeOK, Charging, InFlight, Backed, Writing, KeepsGrants, SameGrant

LEMMA NextTypes == WorkflowTypeOK /\ [WNext]_wvars => WorkflowTypeOK' /\ KeepsGrants
<1> SUFFICES ASSUME WorkflowTypeOK, [WNext]_wvars PROVE WorkflowTypeOK' /\ KeepsGrants
    OBVIOUS
<1>1. CASE UNCHANGED wvars
    BY <1>1 DEF wvars, WorkflowTypeOK, TypeOK, Charging, InFlight, Backed, Writing, KeepsGrants, SameGrant
<1> QED BY <1>1, StepTypes, StartTypes, OutsideTypes DEF WNext

(* The workflow's tables keep their types, and what a process carries fits *)
(* the step it is at, with any number of handlers in flight.               *)
THEOREM WorkflowTyped == WSpec => []WorkflowTypeOK
<1>1. WInit => WorkflowTypeOK
    <2> SUFFICES ASSUME WInit PROVE WorkflowTypeOK
        OBVIOUS
    <2>1. TypeOK
        BY InitIsSound DEF WInit, Sound
    <2>2. Charging
        BY DEF WInit, Init, Charging, NoRequest
    <2>3. InFlight
        BY IdleIsTyped DEF WInit, InFlight
    <2> QED BY <2>1, <2>2, <2>3 DEF WorkflowTypeOK
<1> QED BY <1>1, NextTypes, PTL DEF WSpec

(* ensureBalance's promise, whatever is in flight: once a balance row is   *)
(* there, no lost insert, stale save or dying handler takes it away or     *)
(* changes its entitlement, its carry-over or its expiry.                  *)
THEOREM GrantsAreFinal == WSpec => ProvisionedOnceConcurrently
<1>1. WorkflowTypeOK /\ [WNext]_wvars => [KeepsGrants]_wvars
    BY NextTypes
<1> QED BY <1>1, WorkflowTyped, PTL DEF WSpec, ProvisionedOnceConcurrently, KeepsGrants, SameGrant

-----------------------------------------------------------------------------
(* The ledger's operators say the same of the tables they are given.       *)
LEMMA SameCalendar ==
    /\ Ledger!Dates = Dates /\ Ledger!Years = Years /\ Ledger!Keys = Keys
    /\ Ledger!Actors = Actors /\ Ledger!EmployeeStatus = EmployeeStatus
    /\ Ledger!ActiveStatuses = ActiveStatuses /\ Ledger!NoRow = NoRow
    /\ Ledger!NoRequest = NoRequest
BY DEF Ledger!Dates, Dates, Ledger!Years, Years, Ledger!YearOf, YearOf, Ledger!YearLength, YearLength,
       Ledger!Keys, Keys, Ledger!Actors, Actors, Ledger!EmployeeStatus, EmployeeStatus,
       Ledger!ActiveStatuses, ActiveStatuses, Ledger!NoRow, NoRow, Ledger!NoRequest, NoRequest

LEMMA SameYears ==
    \A d : /\ Ledger!YearOf(d) = YearOf(d) /\ Ledger!YearStart(d) = YearStart(d)
           /\ Ledger!YearEnd(d) = YearEnd(d) /\ Ledger!MonthOf(d) = MonthOf(d)
BY DEF Ledger!YearOf, YearOf, Ledger!YearStart, YearStart, Ledger!YearEnd, YearEnd, Ledger!MonthOf, MonthOf,
       Ledger!YearLength, YearLength

LEMMA SameAllocation ==
    \A start, end, half :
        /\ Ledger!Allocate(start, end, half) = Allocate(start, end, half)
        /\ Ledger!ValidParts(start, end, half) = ValidParts(start, end, half)
<1> SUFFICES ASSUME NEW start, NEW end, NEW half
             PROVE  /\ Ledger!Allocate(start, end, half) = Allocate(start, end, half)
                    /\ Ledger!ValidParts(start, end, half) = ValidParts(start, end, half)
    OBVIOUS
<1>1. \A S : Ledger!Cardinality(S) = Cardinality(S)
    BY DEF Ledger!Cardinality, Cardinality
<1>2. \A a, b : Ledger!CountWorkingDays(a, b, half) = CountWorkingDays(a, b, half)
    BY <1>1 DEF Ledger!CountWorkingDays, CountWorkingDays, Ledger!IsWorkingDay, IsWorkingDay
<1>3. Ledger!Allocate(start, end, half) = Allocate(start, end, half)
    BY <1>2, SameCalendar, SameYears DEF Ledger!Allocate, Allocate
<1>4. Ledger!ValidParts(start, end, half) = ValidParts(start, end, half)
    BY SameYears DEF Ledger!ValidParts, ValidParts, Ledger!ValidRange, ValidRange
<1> QED BY <1>3, <1>4

LEMMA SameRequests ==
    /\ \A e, t, start, end, half : Ledger!NewRequest(e, t, start, end, half) = NewRequest(e, t, start, end, half)
    /\ \A r, s, b : Ledger!Decided(r, s, b) = Decided(r, s, b)
    /\ \A r : Ledger!IsLongLeave(r) = IsLongLeave(r)
    /\ \A r, e, start, end : Ledger!Overlaps(r, e, start, end) = Overlaps(r, e, start, end)
BY SameAllocation, SameCalendar DEF Ledger!NewRequest, NewRequest, Ledger!Decided, Decided, Ledger!IsLongLeave, IsLongLeave,
   Ledger!Overlaps, Overlaps

LEMMA SameRows ==
    /\ \A row, d : Ledger!Available(row, d) = Available(row, d)
    /\ \A row, p, u : Ledger!ApplyToBalance(row, p, u) = ApplyToBalance(row, p, u)
    /\ \A bal, e, t, y : Ledger!Provision(bal, e, t, y) = Provision(bal, e, t, y)
    /\ \A bal, e, t, y : Ledger!EnsureBalance(bal, e, t, y) = EnsureBalance(bal, e, t, y)
<1>1. \A row, d : Ledger!EffectiveCarryOver(row, d) = EffectiveCarryOver(row, d)
    BY DEF Ledger!EffectiveCarryOver, EffectiveCarryOver
<1>2. \A row, d : Ledger!Available(row, d) = Available(row, d)
    BY <1>1 DEF Ledger!Available, Available
<1>3. \A row, p, u : Ledger!ApplyToBalance(row, p, u) = ApplyToBalance(row, p, u)
    BY DEF Ledger!ApplyToBalance, ApplyToBalance
<1>4. \A bal, e, t, y : Ledger!CarryOver(bal, e, t, y) = CarryOver(bal, e, t, y)
    BY <1>1, SameYears DEF Ledger!CarryOver, CarryOver
<1>5. \A n, d, y : Ledger!ProRate(n, d, y) = ProRate(n, d, y)
    BY SameYears DEF Ledger!ProRate, ProRate
<1>6. \A bal, e, t, y : Ledger!Provision(bal, e, t, y) = Provision(bal, e, t, y)
    <2> SUFFICES ASSUME NEW bal, NEW e, NEW t, NEW y
                 PROVE  Ledger!Provision(bal, e, t, y) = Provision(bal, e, t, y)
        OBVIOUS
    <2>1. PICK c : c = CarryOver(bal, e, t, y) /\ c = Ledger!CarryOver(bal, e, t, y)
        BY <1>4
    <2>2. PICK n : n = ProRate(policy[t].defaultDays, HireDate[e], y)
                   /\ n = Ledger!ProRate(policy[t].defaultDays, HireDate[e], y)
        BY <1>5
    <2>3. PICK d : d = YearStart(y) /\ d = Ledger!YearStart(y)
        BY SameYears
    <2> QED BY <2>1, <2>2, <2>3, Zenon DEF Ledger!Provision, Provision
<1>7. \A bal, e, t, y : Ledger!EnsureBalance(bal, e, t, y) = EnsureBalance(bal, e, t, y)
    <2> SUFFICES ASSUME NEW bal, NEW e, NEW t, NEW y
                 PROVE  Ledger!EnsureBalance(bal, e, t, y) = EnsureBalance(bal, e, t, y)
        OBVIOUS
    <2>1. Ledger!Provision(bal, e, t, y) = Provision(bal, e, t, y)
        BY <1>6
    <2> QED BY <2>1, Zenon DEF Ledger!EnsureBalance, EnsureBalance
<1> QED BY <1>2, <1>3, <1>6, <1>7

LEMMA SameCharges ==
    /\ \A bal, e, t, alloc, y : Ledger!EnsureAllocated(bal, e, t, alloc, y) = EnsureAllocated(bal, e, t, alloc, y)
    /\ \A bal, e, t, start, alloc, y :
           Ledger!Funded(bal, e, t, start, alloc, y) = Funded(bal, e, t, start, alloc, y)
    /\ \A bal, e, t, alloc, n, m : Ledger!Charge(bal, e, t, alloc, n, m) = Charge(bal, e, t, alloc, n, m)
    /\ \A bal, r, n, m : Ledger!ChargeBalances(bal, r, n, m) = ChargeBalances(bal, r, n, m)
<1>1. \A bal, e, t, alloc, y : Ledger!EnsureAllocated(bal, e, t, alloc, y) = EnsureAllocated(bal, e, t, alloc, y)
    BY SameRows, SameCalendar DEF Ledger!EnsureAllocated, EnsureAllocated
<1>2. \A bal, e, t, start, alloc, y :
           Ledger!Funded(bal, e, t, start, alloc, y) = Funded(bal, e, t, start, alloc, y)
    BY SameRows, SameYears DEF Ledger!Funded, Funded
<1>3. \A bal, e, t, alloc, n, m : Ledger!Charge(bal, e, t, alloc, n, m) = Charge(bal, e, t, alloc, n, m)
    BY SameRows, SameCalendar DEF Ledger!Charge, Charge
<1>4. \A bal, r, y, n, m : Ledger!ChargeYear(bal, r, y, n, m) = ChargeYear(bal, r, y, n, m)
    BY <1>3, SameRows, SameCalendar DEF Ledger!ChargeYear, ChargeYear
<1>5. \A bal, r, n, m : Ledger!ChargeBalances(bal, r, n, m) = ChargeBalances(bal, r, n, m)
    BY <1>4, SameYears, SameCalendar DEF Ledger!ChargeBalances, ChargeBalances
<1> QED BY <1>1, <1>2, <1>3, <1>5

(* The refinement: what one handler at work still has to do.  The tables   *)
(* it finds are given as arguments, so that these operators depend on the  *)
(* policy, the holidays and the date only, which no step of it changes.    *)
FirstOf(r) == <<r.employee, r.type, YearOf(r.startDate)>>
SecondOf(r) == <<r.employee, r.type, YearOf(r.startDate) + 1>>

Ensured(bal, k) == EnsureBalance(bal, k[1], k[2], k[3])
Covers(bal, r, k) == Funded(bal, k[1], k[2], r.startDate, r.allocations, k[3])

(* submit's check of the years todo: the rows it leaves.                   *)
CheckRows(bal, r, todo) ==
    LET first == IF FirstOf(r) \in todo THEN Ensured(bal, FirstOf(r)) ELSE bal
    IN  IF SecondOf(r) \in todo /\ (FirstOf(r) \in todo => Covers(first, r, FirstOf(r)))
        THEN Ensured(first, SecondOf(r)) ELSE first

(* chargeBalances of the years todo: the rows it leaves.                   *)
ChargeKey(bal, k, r, n, m) ==
    [Ensured(bal, k) EXCEPT ![k] = ApplyToBalance(@, n * r.allocations[k[3]], m * r.allocations[k[3]])]
ChargeTodo(bal, r, todo, n, m) ==
    LET first == IF FirstOf(r) \in todo THEN ChargeKey(bal, FirstOf(r), r, n, m) ELSE bal
    IN  IF SecondOf(r) \in todo THEN ChargeKey(first, SecondOf(r), r, n, m) ELSE first

PendingSign(l) == IF l.kind = "submit" THEN 1
                  ELSE IF l.kind = "cancel" /\ l.req.status # "PENDING" THEN 0 ELSE -1
UsedSign(l) == IF l.kind = "approve" THEN 1
               ELSE IF l.kind = "cancel" /\ l.req.status # "PENDING" THEN -1 ELSE 0

(* The rows a handler charges, and what they are when it has.              *)
Granted(l, bal) == IF l.kind = "submit" THEN CheckRows(bal, l.req, KeysOf(l.req)) ELSE bal
Target(l, bal) == IF l.tracked
                  THEN ChargeTodo(Granted(l, bal), l.req, KeysOf(l.req), PendingSign(l), UsedSign(l))
                  ELSE bal

(* Tables as arguments: what submit, the job and setOnLeave look for.      *)
Free(reqs, e, start, end) == \A j \in RequestIds : ~Overlaps(reqs[j], e, start, end)
Effective(emp, r) == Running(r) /\ emp[r.employee] = "ACTIVE"
ToStart(reqs, emp) ==
    {i \in RequestIds : reqs[i].status = "APPROVED" /\ ~reqs[i].statusApplied /\ Effective(emp, reqs[i])}
ToEnd(reqs) ==
    {i \in RequestIds : reqs[i].status = "APPROVED" /\ reqs[i].statusApplied /\ reqs[i].endDate <= today - 1}

(* What a handler saw when it started, in the tables old.                  *)
Asked(l, old) ==
    LET r == l.req
    IN  /\ l.id \in RequestIds /\ old[2][l.id].status = "NONE"
        /\ r = NewRequest(r.employee, r.type, r.startDate, r.endDate, r.halfDay)
        /\ old[3][r.employee] # "TERMINATED"
        /\ policy[r.type].isActive
        /\ r.halfDay => policy[r.type].allowHalfDay
        /\ YearOf(r.endDate) <= YearOf(r.startDate) + 1
        /\ r.startDate >= HireDate[r.employee]
        /\ ValidParts(r.startDate, r.endDate, r.halfDay)
        /\ l.tracked = policy[r.type].requiresBalance
        /\ l.pc # "overlap" => Free(old[2], r.employee, r.startDate, r.endDate)
Chosen(l, old) ==
    /\ l.id \in RequestIds /\ l.req = old[2][l.id]
    /\ l.req.status \in ActiveStatuses
    /\ l.kind # "cancel" => l.req.status = "PENDING"
    /\ l.tracked = policy[l.req.type].requiresBalance
    /\ l.active = (old[3][l.req.employee] = "ACTIVE")

(* submit and the decisions on the balance rows.                           *)
Checking(l, bal, was) ==
    /\ l.tracked /\ l.todo \subseteq KeysOf(l.req)
    /\ CheckRows(bal, l.req, l.todo) = CheckRows(was, l.req, KeysOf(l.req))
    /\ \A k \in KeysOf(l.req) \ l.todo : bal[k].exists /\ Covers(bal, l.req, k)
Booking(l, bal, was) ==
    /\ l.tracked /\ l.todo \subseteq KeysOf(l.req)
    /\ ChargeTodo(bal, l.req, l.todo, PendingSign(l), UsedSign(l)) = Target(l, was)
Afforded(l, was) ==
    l.kind = "submit" /\ l.tracked =>
        \A k \in KeysOf(l.req) : Covers(Granted(l, was), l.req, k)
Reserving(l, bal, was) ==
    CASE l.pc = "overlap" -> bal = was
      [] l.pc \in {"check", "insertC"} -> Checking(l, bal, was)
      [] l.pc \in {"balance", "insertB", "save"} -> Booking(l, bal, was) /\ Afforded(l, was)
      [] OTHER -> bal = Target(l, was) /\ Afforded(l, was)

(* The row ensureBalance is about to insert, or the handler to save.       *)
RowReady(l, bal) ==
    LET k == FirstKey(l.todo)
    IN  /\ l.pc \in {"insertC", "insertB"} =>
               ~bal[k].exists /\ l.row = Provision(bal, k[1], k[2], k[3])
        /\ l.pc = "save" =>
               bal[k].exists /\ l.row = Changed(l, bal[k], l.req.allocations[k[3]])

(* A decision between its update of the request and its end.               *)
Settling(l, now, old) ==
    LET e == l.req.employee
    IN  /\ now[2] = [old[2] EXCEPT ![l.id].status =
                        IF l.kind = "approve" THEN "APPROVED" ELSE "CANCELLED"]
        /\ \/ /\ l.kind = "approve" /\ ~l.ending /\ Effective(old[3], l.req)
              /\ l.pc \in {"enter", "write", "flag"}
              /\ now[3] = IF l.pc = "flag" THEN [old[3] EXCEPT ![e] = "ON_LEAVE"] ELSE old[3]
           \/ /\ l.kind = "cancel" /\ l.ending /\ l.req.statusApplied
              /\ l.pc \in {"revert", "return", "write", "flag"}
              /\ l.pc \in {"return", "write"} => old[3][e] = "ON_LEAVE"
              /\ now[3] = IF l.pc = "flag" /\ old[3][e] = "ON_LEAVE"
                          THEN [old[3] EXCEPT ![e] = "ACTIVE"] ELSE old[3]
Untouched(now, old) == now[2] = old[2] /\ now[3] = old[3]

SubmitAtWork(l, now, old) ==
    /\ l.kind = "submit"
    /\ l.pc \in {"overlap", "check", "insertC", "balance", "insertB", "save", "record"}
    /\ Asked(l, old) /\ Reserving(l, now[1], old[1]) /\ RowReady(l, now[1])
    /\ Untouched(now, old)
DecisionAtWork(l, now, old) ==
    /\ l.kind \in Deciding
    /\ Chosen(l, old) /\ Reserving(l, now[1], old[1]) /\ RowReady(l, now[1])
    /\ IF l.pc \in {"balance", "insertB", "save", "record"} THEN Untouched(now, old) /\ ~l.ending
       ELSE Settling(l, now, old)

(* adjust: what it makes of the row of its key.                            *)
Corrected(bal, k, delta) ==
    LET rows == Ensured(bal, k)
    IN  IF Available(rows[k], today) + delta < 0 THEN rows
        ELSE [rows EXCEPT ![k].adjustment = @ + delta]
AdjustAtWork(l, now, old) ==
    /\ l.kind = "adjust" /\ l.pc \in {"balance", "insertB", "save"}
    /\ l.delta \in Deltas
    /\ \E k \in Keys :
           /\ l.todo = {k}
           /\ policy[k[2]].requiresBalance
           /\ old[1][k].adjustment + l.delta <= MaxAdjustment
           /\ Corrected(now[1], k, l.delta) = Corrected(old[1], k, l.delta)
           /\ l.pc = "save" => ~(Available(now[1][k], today) + l.delta < 0)
    /\ RowReady(l, now[1]) /\ Untouched(now, old)

(* balancesFor: an employee's rows of one year.                            *)
ViewKeys(e, y) == {k \in Keys : /\ k[1] = e /\ k[3] = y
                                /\ policy[k[2]].isActive /\ policy[k[2]].requiresBalance}
Seen(bal, ks) == [k \in Keys |-> IF k \in ks THEN Ensured(bal, k)[k] ELSE bal[k]]
ViewAtWork(l, now, old) ==
    /\ l.kind = "view" /\ l.pc \in {"balance", "insertB"}
    /\ \E e \in Employees, y \in Years :
           /\ l.todo \subseteq ViewKeys(e, y)
           /\ Seen(now[1], l.todo) = Seen(old[1], ViewKeys(e, y))
    /\ RowReady(l, now[1]) /\ Untouched(now, old)

(* The job: what is left of its first loop, and of its second.             *)
Employed(reqs, ids) == {reqs[i].employee : i \in ids}
Flagged(reqs, ids) == [i \in RequestIds |-> [reqs[i] EXCEPT !.statusApplied = @ \/ i \in ids]]
Cleared(reqs, ids) == [i \in RequestIds |-> [reqs[i] EXCEPT !.statusApplied = @ /\ i \notin ids]]
OnLeave(emp, es) == [e \in Employees |-> IF e \in es THEN "ON_LEAVE" ELSE emp[e]]
BackFrom(emp, es) == [e \in Employees |-> IF e \in es /\ emp[e] = "ON_LEAVE" THEN "ACTIVE" ELSE emp[e]]

Current(l, pcs) == IF l.pc \in pcs THEN {l.id} ELSE {}
StartedReqs(old) == Flagged(old[2], ToStart(old[2], old[3]))
StartedEmps(old) == OnLeave(old[3], Employed(old[2], ToStart(old[2], old[3])))
InFirstLoop(l, now, old) ==
    LET unflagged == l.queue \cup Current(l, {"enter", "write", "flag"})
        unwritten == l.queue \cup Current(l, {"enter", "write"})
    IN  /\ ~l.ending /\ l.pc \in {"next", "enter", "write", "flag"}
        /\ unflagged \subseteq ToStart(old[2], old[3])
        /\ l.pc # "next" => l.id \notin l.queue
        /\ Flagged(now[2], unflagged) = StartedReqs(old)
        /\ OnLeave(now[3], Employed(old[2], unwritten)) = StartedEmps(old)
        /\ \A i \in unwritten : now[3][old[2][i].employee] = "ACTIVE"
InSecondLoop(l, now, old) ==
    LET left == l.queue \cup Current(l, {"revert", "return", "write", "flag"})
        ends == ToEnd(StartedReqs(old))
    IN  /\ l.ending /\ l.pc \in {"next", "revert", "return", "write", "flag"}
        /\ left \subseteq ends
        /\ Cleared(now[2], left) = Cleared(StartedReqs(old), ends)
        /\ BackFrom(now[3], Employed(old[2], left)) = BackFrom(StartedEmps(old), Employed(old[2], ends))
        /\ l.pc \in {"return", "write"} => now[3][l.req.employee] = "ON_LEAVE"
        /\ l.pc = "flag" => now[3][l.req.employee] # "ON_LEAVE"
SyncAtWork(l, now, old) ==
    /\ l.kind = "sync"
    /\ now[1] = old[1]
    /\ l.pc # "next" => l.id \in RequestIds /\ l.req.employee = old[2][l.id].employee
    /\ \A i \in RequestIds : now[2][i].employee = old[2][i].employee
    /\ InFirstLoop(l, now, old) \/ InSecondLoop(l, now, old)

AtWork(l, now, old) ==
    \/ SubmitAtWork(l, now, old) \/ DecisionAtWork(l, now, old) \/ AdjustAtWork(l, now, old)
    \/ ViewAtWork(l, now, old) \/ SyncAtWork(l, now, old)

(* What the ledger's requests keep among themselves.                       *)
Regular(reqs) ==
    /\ \A i, j \in RequestIds :
           i # j /\ reqs[j].status \in ActiveStatuses
               => ~Overlaps(reqs[i], reqs[j].employee, reqs[j].startDate, reqs[j].endDate)
    /\ \A i \in RequestIds : reqs[i].status = "PENDING" => ~reqs[i].statusApplied
    /\ \A i \in RequestIds : InWindow(reqs[i])

TableTypes == [Keys -> Row] \X [RequestIds -> Request] \X [Employees -> EmployeeStatus]
OneAtWork ==
    /\ base = NoTables <=> Quiet
    /\ base # NoTables => base \in TableTypes
    /\ \A p, q \in Procs : procs[p].pc # "idle" /\ procs[q].pc # "idle" => p = q
    /\ \A p \in Procs : procs[p].pc # "idle" =>
           \E l, now, old : /\ l = procs[p] /\ now = Tables /\ old = base
                            /\ AtWork(l, now, old)
SerialInv == OneAtWork /\ Regular(LedgerRequests)

-----------------------------------------------------------------------------
(* One or two years.                                                       *)
LEMMA KeysInOrder ==
    ASSUME NEW r \in Request, InWindow(r)
    PROVE  /\ KeysOf(r) \subseteq {FirstOf(r), SecondOf(r)}
           /\ FirstOf(r) \in Keys /\ FirstOf(r) # SecondOf(r)
           /\ FirstOf(r) \in KeysOf(r) <=> r.allocations[YearOf(r.startDate)] > 0
           /\ SecondOf(r) \in KeysOf(r) <=> /\ YearOf(r.startDate) + 1 \in Years
                                           /\ r.allocations[YearOf(r.startDate) + 1] > 0
<1>1. PICK y : y = YearOf(r.startDate)
    OBVIOUS
<1>2. y \in Years /\ y \in Nat /\ r.employee \in Employees /\ r.type \in Types
    BY <1>1, DatesHaveYears, YearsAreNat DEF Request
<1>3. FirstOf(r) = <<r.employee, r.type, y>> /\ SecondOf(r) = <<r.employee, r.type, y + 1>>
    BY <1>1 DEF FirstOf, SecondOf
<1>4. KeysOf(r) \subseteq {FirstOf(r), SecondOf(r)}
    <2> SUFFICES ASSUME NEW k \in KeysOf(r) PROVE k \in {FirstOf(r), SecondOf(r)}
        OBVIOUS
    <2>1. k \in Keys /\ k[1] = r.employee /\ k[2] = r.type /\ r.allocations[k[3]] > 0
        BY DEF KeysOf
    <2>2. k[3] \in Years /\ k = <<k[1], k[2], k[3]>>
        BY <2>1 DEF Keys
    <2>3. k[3] = y \/ k[3] = y + 1
        BY <1>1, <2>1, <2>2 DEF InWindow
    <2> QED BY <1>3, <2>1, <2>2, <2>3
<1>5. FirstOf(r) \in Keys /\ (SecondOf(r) \in Keys <=> y + 1 \in Years)
    BY <1>2, <1>3 DEF Keys
<1>6. FirstOf(r)[3] = y /\ SecondOf(r)[3] = y + 1
    BY <1>3
<1>7. FirstOf(r) # SecondOf(r)
    BY <1>2, <1>6
<1> QED BY <1>1, <1>3, <1>4, <1>5, <1>7 DEF KeysOf

LEMMA FirstOfTheTodo ==
    ASSUME NEW r \in Request, InWindow(r), NEW todo \in SUBSET KeysOf(r), todo # {}
    PROVE  /\ FirstKey(todo) \in todo /\ FirstKey(todo) \in Keys
           /\ FirstKey(todo) = IF FirstOf(r) \in todo THEN FirstOf(r) ELSE SecondOf(r)
<1>1. todo \in SUBSET Keys /\ todo \subseteq {FirstOf(r), SecondOf(r)}
    BY KeysInOrder DEF KeysOf
<1>2. FirstKey(todo) \in todo /\ \A l \in todo : FirstKey(todo)[3] <= l[3]
    BY <1>1, FirstKeyIsFirst
<1>3. FirstOf(r)[3] = YearOf(r.startDate) /\ SecondOf(r)[3] = YearOf(r.startDate) + 1
    BY DEF FirstOf, SecondOf
<1>4. YearOf(r.startDate) \in Nat
    BY DatesHaveYears, YearsAreNat DEF Request
<1> QED BY <1>1, <1>2, <1>3, <1>4

(* ensureBalance by key.                                                   *)
LEMMA EnsuredIsTheRow ==
    ASSUME policy \in [Types -> Policies], NEW bal \in [Keys -> Row], NEW k \in Keys
    PROVE  /\ Ensured(bal, k) \in [Keys -> Row]
           /\ Ensured(bal, k)[k].exists
           /\ \A j \in Keys \ {k} : Ensured(bal, k)[j] = bal[j]
           /\ bal[k].exists => Ensured(bal, k) = bal
           /\ ~bal[k].exists => Ensured(bal, k) = [bal EXCEPT ![k] = Provision(bal, k[1], k[2], k[3])]
<1>1. k = <<k[1], k[2], k[3]>> /\ k[1] \in Employees /\ k[2] \in Types /\ k[3] \in Years
    BY DEF Keys
<1>2. PICK row : row = Provision(bal, k[1], k[2], k[3])
    OBVIOUS
<1>3. row \in Row /\ row.exists
    BY <1>1, <1>2, ProvisionIsSound DEF Provision
<1>4. Ensured(bal, k) = IF bal[k].exists THEN bal ELSE [bal EXCEPT ![k] = row]
    BY <1>1, <1>2, Zenon DEF Ensured, EnsureBalance
<1> QED BY <1>2, <1>3, <1>4

LEMMA EnsuredOnce ==
    ASSUME policy \in [Types -> Policies], NEW bal \in [Keys -> Row], NEW k \in Keys
    PROVE  Ensured(Ensured(bal, k), k) = Ensured(bal, k)
BY EnsuredIsTheRow

LEMMA CoversTheRow ==
    ASSUME NEW bal, NEW bal2, NEW k \in Keys, bal[k] = bal2[k], NEW r
    PROVE  Covers(bal, r, k) <=> Covers(bal2, r, k)
BY DEF Covers, Funded, Keys

(* The check of the years to do, one year at a time.                       *)
LEMMA CheckRowsTyped ==
    ASSUME policy \in [Types -> Policies], NEW bal \in [Keys -> Row], NEW r \in Request, InWindow(r),
           NEW todo \in SUBSET KeysOf(r)
    PROVE  /\ CheckRows(bal, r, todo) \in [Keys -> Row]
           /\ \A k \in Keys : bal[k].exists => CheckRows(bal, r, todo)[k] = bal[k]
<1>1. todo \subseteq Keys
    BY DEF KeysOf
<1>2. PICK first : first = IF FirstOf(r) \in todo THEN Ensured(bal, FirstOf(r)) ELSE bal
    OBVIOUS
<1>3. first \in [Keys -> Row] /\ \A k \in Keys : bal[k].exists => first[k] = bal[k]
    BY <1>1, <1>2, EnsuredIsTheRow
<1>4. CheckRows(bal, r, todo) \in {first} \cup {Ensured(first, k) : k \in {SecondOf(r)} \cap todo}
    BY <1>2 DEF CheckRows
<1>5. \A k \in Keys : /\ Ensured(first, k) \in [Keys -> Row]
                      /\ \A j \in Keys : first[j].exists => Ensured(first, k)[j] = first[j]
    BY <1>3, EnsuredIsTheRow
<1> QED BY <1>1, <1>3, <1>4, <1>5

LEMMA CheckAfterInsert ==
    ASSUME policy \in [Types -> Policies], NEW bal \in [Keys -> Row], NEW r \in Request, InWindow(r),
           NEW todo \in SUBSET KeysOf(r), todo # {}
    PROVE  CheckRows(Ensured(bal, FirstKey(todo)), r, todo) = CheckRows(bal, r, todo)
<1>1. todo \subseteq Keys
    BY DEF KeysOf
<1>2. CASE FirstOf(r) \in todo
    <2>1. FirstKey(todo) = FirstOf(r)
        BY <1>2, FirstOfTheTodo
    <2>2. Ensured(Ensured(bal, FirstOf(r)), FirstOf(r)) = Ensured(bal, FirstOf(r))
        BY <1>1, <1>2, EnsuredOnce
    <2> QED BY <1>2, <2>1, <2>2 DEF CheckRows
<1>3. CASE FirstOf(r) \notin todo
    <2>1. FirstKey(todo) = SecondOf(r) /\ SecondOf(r) \in todo
        BY <1>3, FirstOfTheTodo
    <2>2. Ensured(Ensured(bal, SecondOf(r)), SecondOf(r)) = Ensured(bal, SecondOf(r))
        BY <1>1, <2>1, EnsuredOnce
    <2> QED BY <1>3, <2>1, <2>2 DEF CheckRows
<1> QED BY <1>2, <1>3

LEMMA CheckOneYear ==
    ASSUME policy \in [Types -> Policies], NEW bal \in [Keys -> Row], NEW r \in Request, InWindow(r),
           NEW todo \in SUBSET KeysOf(r), todo # {}, bal[FirstKey(todo)].exists
    PROVE  /\ Covers(bal, r, FirstKey(todo)) => CheckRows(bal, r, todo) = CheckRows(bal, r, todo \ {FirstKey(todo)})
           /\ ~Covers(bal, r, FirstKey(todo)) => CheckRows(bal, r, todo) = bal
<1>1. todo \subseteq Keys /\ FirstOf(r) # SecondOf(r)
    BY KeysInOrder DEF KeysOf
<1>2. Ensured(bal, FirstKey(todo)) = bal
    BY <1>1, FirstOfTheTodo, EnsuredIsTheRow
<1>3. CASE FirstOf(r) \in todo
    <2>1. FirstKey(todo) = FirstOf(r)
        BY <1>3, FirstOfTheTodo
    <2> QED BY <1>1, <1>2, <1>3, <2>1 DEF CheckRows
<1>4. CASE FirstOf(r) \notin todo
    <2>1. FirstKey(todo) = SecondOf(r) /\ SecondOf(r) \in todo
        BY <1>4, FirstOfTheTodo
    <2> QED BY <1>1, <1>2, <1>4, <2>1 DEF CheckRows
<1> QED BY <1>3, <1>4

LEMMA NothingToCheck ==
    ASSUME NEW bal, NEW r PROVE CheckRows(bal, r, {}) = bal
BY DEF CheckRows

(* chargeBalances, one year at a time.                                     *)
LEMMA ChargeKeyTyped ==
    ASSUME policy \in [Types -> Policies], NEW bal \in [Keys -> Row], NEW k \in Keys,
           NEW r \in Request, NEW n \in -1..1, NEW m \in -1..1
    PROVE  ChargeKey(bal, k, r, n, m) \in [Keys -> Row]
<1>1. PICK rows : rows = Ensured(bal, k)
    OBVIOUS
<1>2. rows \in [Keys -> Row]
    BY <1>1, EnsuredIsTheRow
<1>3. r.allocations[k[3]] \in Int
    BY DEF Request, Keys
<1>4. PICK a, b : a = n * r.allocations[k[3]] /\ b = m * r.allocations[k[3]]
    OBVIOUS
<1>5. a \in Int /\ b \in Int
    BY <1>3, <1>4
<1>6. ApplyToBalance(rows[k], a, b) \in Row
    BY <1>2, <1>5, ApplyIsTyped
<1> QED BY <1>1, <1>2, <1>4, <1>6 DEF ChargeKey

LEMMA ChargeAfterInsert ==
    ASSUME policy \in [Types -> Policies], NEW bal \in [Keys -> Row], NEW r \in Request, InWindow(r),
           NEW todo \in SUBSET KeysOf(r), todo # {}, NEW n, NEW m
    PROVE  ChargeTodo(Ensured(bal, FirstKey(todo)), r, todo, n, m) = ChargeTodo(bal, r, todo, n, m)
<1>1. FirstKey(todo) \in Keys
    BY FirstOfTheTodo
<1>2. PICK k : k = FirstKey(todo)
    OBVIOUS
<1>3. ChargeKey(Ensured(bal, k), k, r, n, m) = ChargeKey(bal, k, r, n, m)
    BY <1>1, <1>2, EnsuredOnce DEF ChargeKey
<1> QED BY <1>2, <1>3, FirstOfTheTodo DEF ChargeTodo

LEMMA ChargeOneYear ==
    ASSUME NEW bal, NEW r \in Request, InWindow(r),
           NEW todo \in SUBSET KeysOf(r), todo # {}, NEW n, NEW m
    PROVE  ChargeTodo(bal, r, todo, n, m)
               = ChargeTodo(ChargeKey(bal, FirstKey(todo), r, n, m), r, todo \ {FirstKey(todo)}, n, m)
BY FirstOfTheTodo, KeysInOrder DEF ChargeTodo

LEMMA NothingToCharge ==
    ASSUME NEW bal, NEW r, NEW n, NEW m PROVE ChargeTodo(bal, r, {}, n, m) = bal
BY DEF ChargeTodo

LEMMA ChargeTodoTyped ==
    ASSUME policy \in [Types -> Policies], NEW bal \in [Keys -> Row], NEW r \in Request, InWindow(r),
           NEW todo \in SUBSET KeysOf(r), NEW n \in -1..1, NEW m \in -1..1
    PROVE  ChargeTodo(bal, r, todo, n, m) \in [Keys -> Row]
<1>1. todo \subseteq Keys
    BY DEF KeysOf
<1>2. PICK first : first = IF FirstOf(r) \in todo THEN ChargeKey(bal, FirstOf(r), r, n, m) ELSE bal
    OBVIOUS
<1>3. first \in [Keys -> Row]
    BY <1>1, <1>2, ChargeKeyTyped
<1>4. ChargeTodo(bal, r, todo, n, m)
          = IF SecondOf(r) \in todo THEN ChargeKey(first, SecondOf(r), r, n, m) ELSE first
    BY <1>2 DEF ChargeTodo
<1> QED BY <1>1, <1>3, <1>4, ChargeKeyTyped

(* ... which is what the ledger's operators say.                           *)
LEMMA ChargeYearIsChargeKey ==
    ASSUME policy \in [Types -> Policies], NEW bal \in [Keys -> Row], NEW r \in Request,
           NEW y \in Years, NEW n \in -1..1, NEW m \in -1..1
    PROVE  ChargeYear(bal, r, y, n, m)
               = IF r.allocations[y] > 0 THEN ChargeKey(bal, <<r.employee, r.type, y>>, r, n, m) ELSE bal
<1>1. PICK k : k = <<r.employee, r.type, y>>
    OBVIOUS
<1>2. k \in Keys /\ k[1] = r.employee /\ k[2] = r.type /\ k[3] = y /\ r.allocations \in [Years -> Nat]
    BY <1>1 DEF Keys, Request
<1>3. CASE r.allocations[y] = 0
    BY <1>3 DEF ChargeYear
<1>4. CASE r.allocations[y] > 0
    <2>1. PICK rows : rows = Ensured(bal, k)
        OBVIOUS
    <2>2. rows \in [Keys -> Row] /\ rows = EnsureBalance(bal, r.employee, r.type, y)
        BY <1>2, <2>1, EnsuredIsTheRow DEF Ensured
    <2>3. PICK alloc : alloc = [z \in Years |-> IF z = y THEN r.allocations[z] ELSE 0]
        OBVIOUS
    <2>4. ChargeYear(bal, r, y, n, m) = Charge(rows, r.employee, r.type, alloc, n, m)
        BY <1>4, <2>2, <2>3 DEF ChargeYear
    <2>5. ASSUME NEW j \in Keys
          PROVE  Charge(rows, r.employee, r.type, alloc, n, m)[j] = ChargeKey(bal, k, r, n, m)[j]
        <3>1. CASE j = k
            <4>1. alloc[y] = r.allocations[y] /\ alloc[y] > 0
                BY <1>2, <1>4, <2>3
            <4>2. Charge(rows, r.employee, r.type, alloc, n, m)[k]
                      = ApplyToBalance(rows[k], n * r.allocations[y], m * r.allocations[y])
                BY <1>2, <4>1 DEF Charge
            <4> QED BY <1>2, <2>1, <2>2, <3>1, <4>2 DEF ChargeKey
        <3>2. CASE j # k
            <4>1. ~(j[1] = r.employee /\ j[2] = r.type /\ j[3] = y)
                BY <1>1, <3>2 DEF Keys
            <4>2. j[3] \in Years
                BY DEF Keys
            <4>3. Charge(rows, r.employee, r.type, alloc, n, m)[j] = rows[j]
                BY <2>3, <4>1, <4>2 DEF Charge
            <4> QED BY <2>1, <2>2, <3>2, <4>3 DEF ChargeKey
        <3> QED BY <3>1, <3>2
    <2>6. ChargeKey(bal, k, r, n, m) \in [Keys -> Row]
        BY <1>2, ChargeKeyTyped
    <2>7. Charge(rows, r.employee, r.type, alloc, n, m)
              = [j \in Keys |-> Charge(rows, r.employee, r.type, alloc, n, m)[j]]
        BY DEF Charge
    <2>8. Charge(rows, r.employee, r.type, alloc, n, m) = ChargeKey(bal, k, r, n, m)
        BY <2>5, <2>6, <2>7
    <2> QED BY <1>1, <1>4, <2>4, <2>8
<1> QED BY <1>2, <1>3, <1>4

LEMMA ChargeBalancesIsChargeTodo ==
    ASSUME policy \in [Types -> Policies], NEW bal \in [Keys -> Row], NEW r \in Request, InWindow(r),
           NEW n \in -1..1, NEW m \in -1..1
    PROVE  ChargeBalances(bal, r, n, m) = ChargeTodo(bal, r, KeysOf(r), n, m)
<1>1. PICK y : y = YearOf(r.startDate)
    OBVIOUS
<1>2. y \in Years
    BY <1>1, DatesHaveYears DEF Request
<1>3. PICK first : first = ChargeYear(bal, r, y, n, m)
    OBVIOUS
<1>4. first = IF FirstOf(r) \in KeysOf(r) THEN ChargeKey(bal, FirstOf(r), r, n, m) ELSE bal
    BY <1>1, <1>2, <1>3, ChargeYearIsChargeKey, KeysInOrder DEF FirstOf
<1>5. first \in [Keys -> Row]
    BY <1>4, ChargeKeyTyped, KeysInOrder
<1>6. ChargeBalances(bal, r, n, m) = IF y + 1 \in Years THEN ChargeYear(first, r, y + 1, n, m) ELSE first
    BY <1>1, <1>3 DEF ChargeBalances
<1>7. y + 1 \in Years => ChargeYear(first, r, y + 1, n, m)
          = IF r.allocations[y + 1] > 0 THEN ChargeKey(first, SecondOf(r), r, n, m) ELSE first
    BY <1>1, <1>5, ChargeYearIsChargeKey DEF SecondOf
<1>8. ChargeTodo(bal, r, KeysOf(r), n, m)
          = IF SecondOf(r) \in KeysOf(r) THEN ChargeKey(first, SecondOf(r), r, n, m) ELSE first
    BY <1>4 DEF ChargeTodo
<1> QED BY <1>1, <1>6, <1>7, <1>8, KeysInOrder

LEMMA ChargeIsChargeTodo ==
    ASSUME policy \in [Types -> Policies], NEW bal \in [Keys -> Row], NEW r \in Request, InWindow(r),
           \A k \in KeysOf(r) : bal[k].exists, NEW n \in -1..1, NEW m \in -1..1
    PROVE  Charge(bal, r.employee, r.type, r.allocations, n, m) = ChargeTodo(bal, r, KeysOf(r), n, m)
<1>1. PICK a, b : a = FirstOf(r) /\ b = SecondOf(r)
    OBVIOUS
<1>2. KeysOf(r) \subseteq {a, b} /\ KeysOf(r) \subseteq Keys /\ a # b /\ a \in Keys
    BY <1>1, KeysInOrder DEF KeysOf
<1>3. PICK done : done = [j \in Keys |-> ApplyToBalance(bal[j], n * r.allocations[j[3]], m * r.allocations[j[3]])]
    OBVIOUS
<1>4. \A k \in Keys : bal[k].exists => ChargeKey(bal, k, r, n, m) = [bal EXCEPT ![k] = done[k]]
    BY <1>3, EnsuredIsTheRow DEF ChargeKey
<1>5. PICK first : first = IF a \in KeysOf(r) THEN [bal EXCEPT ![a] = done[a]] ELSE bal
    OBVIOUS
<1>6. first = IF a \in KeysOf(r) THEN ChargeKey(bal, a, r, n, m) ELSE bal
    BY <1>2, <1>4, <1>5
<1>7. first \in [Keys -> Row]
    BY <1>2, <1>6, ChargeKeyTyped
<1>8. b \in KeysOf(r) => ChargeKey(first, b, r, n, m) = [first EXCEPT ![b] = done[b]]
    <2> SUFFICES ASSUME b \in KeysOf(r) PROVE ChargeKey(first, b, r, n, m) = [first EXCEPT ![b] = done[b]]
        OBVIOUS
    <2>1. b \in Keys /\ first[b] = bal[b] /\ first[b].exists
        BY <1>2, <1>5
    <2>2. Ensured(first, b) = first
        BY <1>7, <2>1, EnsuredIsTheRow
    <2> QED BY <1>3, <2>1, <2>2 DEF ChargeKey
<1>9. ChargeTodo(bal, r, KeysOf(r), n, m) = IF b \in KeysOf(r) THEN [first EXCEPT ![b] = done[b]] ELSE first
    BY <1>1, <1>6, <1>8 DEF ChargeTodo
<1>10. \A j \in Keys : ChargeTodo(bal, r, KeysOf(r), n, m)[j] = IF j \in KeysOf(r) THEN done[j] ELSE bal[j]
    BY <1>2, <1>5, <1>7, <1>9
<1>11. \A j \in Keys : Charge(bal, r.employee, r.type, r.allocations, n, m)[j]
                            = IF j \in KeysOf(r) THEN done[j] ELSE bal[j]
    BY <1>3 DEF Charge, KeysOf
<1>12. ChargeTodo(bal, r, KeysOf(r), n, m) \in [Keys -> Row]
    BY ChargeTodoTyped
<1> QED BY <1>10, <1>11, <1>12 DEF Charge

-----------------------------------------------------------------------------
(* The ledger's actions, on the tables it shows before and after.          *)
LedgerMoves(old, new) ==
    /\ LedgerBalances = old[1] /\ LedgerRequests = old[2] /\ LedgerStatus = old[3]
    /\ LedgerBalances' = new[1] /\ LedgerRequests' = new[2] /\ LedgerStatus' = new[3]
    /\ UNCHANGED <<today, policy, holidays>>
HR == [owner |-> FALSE, hr |-> TRUE, chain |-> FALSE]

LEMMA TablesAreTyped ==
    ASSUME NEW ts \in TableTypes
    PROVE  /\ ts[1] \in [Keys -> Row] /\ ts[2] \in [RequestIds -> Request]
           /\ ts[3] \in [Employees -> EmployeeStatus]
           /\ ts = <<ts[1], ts[2], ts[3]>> /\ ts # NoTables
BY DEF TableTypes, NoTables

LEMMA SignsAreSmall ==
    ASSUME NEW l PROVE PendingSign(l) \in -1..1 /\ UsedSign(l) \in -1..1
BY DEF PendingSign, UsedSign

LEMMA AskedIsTyped ==
    ASSUME NEW l \in Process, NEW old, Asked(l, old)
    PROVE  /\ l.req.employee \in Employees /\ l.req.type \in Types /\ l.req.startDate \in Dates
           /\ l.req.endDate \in Dates /\ l.req.halfDay \in BOOLEAN /\ l.req.allocations \in [Years -> Nat]
           /\ l.req.allocations = Allocate(l.req.startDate, l.req.endDate, l.req.halfDay)
           /\ l.req.status = "PENDING" /\ ~l.req.statusApplied
           /\ InWindow(l.req)
<1>1. PICK r : r = l.req
    OBVIOUS
<1>2. r \in Request
    BY <1>1 DEF Process
<1>3. r = NewRequest(r.employee, r.type, r.startDate, r.endDate, r.halfDay)
    BY <1>1 DEF Asked
<1>4. r.allocations = Allocate(r.startDate, r.endDate, r.halfDay) /\ r.status = "PENDING" /\ ~r.statusApplied
    BY <1>3 DEF NewRequest
<1>5. InWindow(r)
    BY <1>4 DEF InWindow, Allocate
<1> QED BY <1>1, <1>2, <1>4, <1>5 DEF Request

LEMMA CheckedRowsExist ==
    ASSUME policy \in [Types -> Policies], NEW bal \in [Keys -> Row], NEW r \in Request, InWindow(r),
           \A k \in KeysOf(r) : Covers(CheckRows(bal, r, KeysOf(r)), r, k)
    PROVE  \A k \in KeysOf(r) : CheckRows(bal, r, KeysOf(r))[k].exists
<1>1. PICK first : first = IF FirstOf(r) \in KeysOf(r) THEN Ensured(bal, FirstOf(r)) ELSE bal
    OBVIOUS
<1>2. PICK rows : rows = CheckRows(bal, r, KeysOf(r))
    OBVIOUS
<1>3. KeysOf(r) \subseteq Keys /\ KeysOf(r) \subseteq {FirstOf(r), SecondOf(r)} /\ FirstOf(r) # SecondOf(r)
    BY KeysInOrder DEF KeysOf
<1>4. first \in [Keys -> Row] /\ (FirstOf(r) \in KeysOf(r) => first[FirstOf(r)].exists)
    BY <1>1, <1>3, EnsuredIsTheRow
<1>5. rows = IF SecondOf(r) \in KeysOf(r) /\ (FirstOf(r) \in KeysOf(r) => Covers(first, r, FirstOf(r)))
             THEN Ensured(first, SecondOf(r)) ELSE first
    BY <1>1, <1>2 DEF CheckRows
<1>6. FirstOf(r) \in KeysOf(r) => rows[FirstOf(r)] = first[FirstOf(r)] /\ rows[FirstOf(r)].exists
    BY <1>3, <1>4, <1>5, EnsuredIsTheRow
<1>7. FirstOf(r) \in KeysOf(r) => Covers(first, r, FirstOf(r))
    BY <1>2, <1>3, <1>6, CoversTheRow
<1>8. SecondOf(r) \in KeysOf(r) => rows[SecondOf(r)].exists
    BY <1>3, <1>4, <1>5, <1>7, EnsuredIsTheRow
<1> QED BY <1>2, <1>3, <1>6, <1>8

LEMMA LedgerSubmitRows ==
    ASSUME policy \in [Types -> Policies], LedgerBalances \in [Keys -> Row], NEW r \in Request, InWindow(r)
    PROVE  Ledger!SubmitRows(r.employee, r.type, r.startDate, r.allocations)
               = CheckRows(LedgerBalances, r, KeysOf(r))
<1>1. PICK y, e, t, alloc : y = YearOf(r.startDate) /\ e = r.employee /\ t = r.type /\ alloc = r.allocations
    OBVIOUS
<1>2. PICK bal : bal = LedgerBalances
    OBVIOUS
<1>3. FirstOf(r) = <<e, t, y>> /\ SecondOf(r) = <<e, t, y + 1>>
    BY <1>1 DEF FirstOf, SecondOf
<1>4. PICK first : first = IF alloc[y] > 0 THEN EnsureBalance(bal, e, t, y) ELSE bal
    OBVIOUS
<1>5. first = IF FirstOf(r) \in KeysOf(r) THEN Ensured(bal, FirstOf(r)) ELSE bal
    BY <1>1, <1>3, <1>4, KeysInOrder DEF Ensured
<1>6. Ledger!SubmitRows(e, t, r.startDate, alloc)
          = IF Funded(first, e, t, r.startDate, alloc, y) THEN EnsureAllocated(bal, e, t, alloc, y) ELSE first
    BY <1>1, <1>2, <1>4, SameRows, SameCharges, SameYears DEF Ledger!SubmitRows
<1>7. EnsureAllocated(bal, e, t, alloc, y)
          = IF SecondOf(r) \in KeysOf(r) THEN Ensured(first, SecondOf(r)) ELSE first
    BY <1>1, <1>3, <1>4, KeysInOrder DEF EnsureAllocated, Ensured
<1>8. Covers(first, r, FirstOf(r)) <=> Funded(first, e, t, r.startDate, alloc, y)
    BY <1>1, <1>3 DEF Covers
<1>9. FirstOf(r) \notin KeysOf(r) => Funded(first, e, t, r.startDate, alloc, y)
    BY <1>1, KeysInOrder DEF Funded
<1>10. CheckRows(bal, r, KeysOf(r))
          = IF SecondOf(r) \in KeysOf(r) /\ (FirstOf(r) \in KeysOf(r) => Covers(first, r, FirstOf(r)))
            THEN Ensured(first, SecondOf(r)) ELSE first
    BY <1>5 DEF CheckRows
<1> QED BY <1>1, <1>2, <1>6, <1>7, <1>8, <1>9, <1>10

LEMMA LedgerMayAsk ==
    ASSUME NEW l \in Process, NEW old, l.pc # "overlap", Asked(l, old),
           LedgerRequests = old[2], LedgerStatus = old[3], KeysOf(l.req) # {}
    PROVE  /\ LedgerRequests[l.id].status = "NONE"
           /\ Ledger!CanSubmit(l.req.employee, l.req.type, l.req.startDate, l.req.endDate, l.req.halfDay)
<1>1. PICK r : r = l.req
    OBVIOUS
<1>2. PICK e, t, start, end, half : e = r.employee /\ t = r.type /\ start = r.startDate /\ end = r.endDate
                                    /\ half = r.halfDay
    OBVIOUS
<1>3. r.allocations = Allocate(start, end, half)
    BY <1>1, <1>2, AskedIsTyped
<1>4. PICK k \in KeysOf(r) : TRUE
    BY <1>1
<1>5. k[3] \in Years /\ Allocate(start, end, half)[k[3]] > 0
    BY <1>3, <1>4 DEF KeysOf, Keys
<1>6. Ledger!NoConflict(e, start, end)
    BY <1>1, <1>2, SameRequests DEF Ledger!NoConflict, Asked, Free
<1>7. /\ LedgerStatus[e] # "TERMINATED" /\ policy[t].isActive /\ (half => policy[t].allowHalfDay)
      /\ YearOf(end) <= YearOf(start) + 1 /\ start >= HireDate[e] /\ ValidParts(start, end, half)
      /\ LedgerRequests[l.id].status = "NONE"
    BY <1>1, <1>2 DEF Asked
<1>8. /\ Ledger!YearOf(end) <= Ledger!YearOf(start) + 1 /\ Ledger!ValidParts(start, end, half)
      /\ \E y \in Ledger!Years : Ledger!Allocate(start, end, half)[y] > 0
    BY <1>5, <1>7, SameYears, SameAllocation, SameCalendar
<1> QED BY <1>1, <1>2, <1>6, <1>7, <1>8 DEF Ledger!CanSubmit

(* Which case of Next an action is.                                        *)
LEMMA LedgerRequestStep ==
    /\ \A e \in Employees, t \in Types, start, end \in Dates, half \in BOOLEAN :
           /\ \A i \in RequestIds : Ledger!Submit(i, e, t, start, end, half) => Ledger!Next
           /\ Ledger!SubmitInsufficient(e, t, start, end, half) => Ledger!Next
    /\ \A i \in RequestIds, actor \in Actors :
           Ledger!Approve(i, actor) \/ Ledger!Reject(i, actor) \/ Ledger!Cancel(i, actor) => Ledger!Next
    /\ Ledger!SyncEmployeeStatuses => Ledger!Next
<1>1. Ledger!RequestStep => Ledger!Next
    BY DEF Ledger!Next
<1>2. \A e \in Employees, t \in Types, start, end \in Dates, half \in BOOLEAN :
          /\ \A i \in RequestIds : Ledger!Submit(i, e, t, start, end, half) => Ledger!RequestStep
          /\ Ledger!SubmitInsufficient(e, t, start, end, half) => Ledger!RequestStep
    BY SameCalendar DEF Ledger!RequestStep
<1>3. \A i \in RequestIds, actor \in Actors :
          Ledger!Approve(i, actor) \/ Ledger!Reject(i, actor) \/ Ledger!Cancel(i, actor) => Ledger!RequestStep
    BY SameCalendar DEF Ledger!RequestStep
<1>4. Ledger!SyncEmployeeStatuses => Ledger!RequestStep
    BY DEF Ledger!RequestStep
<1> QED BY <1>1, <1>2, <1>3, <1>4

LEMMA LedgerPolicyStep ==
    /\ \A e \in Employees, t \in Types, y \in Years, delta \in Deltas :
           Ledger!Adjust(e, t, y, delta) => Ledger!Next
    /\ \A e \in Employees, y \in Years : Ledger!BalancesFor(e, y) => Ledger!Next
<1>1. Ledger!PolicyStep => Ledger!Next
    BY DEF Ledger!Next
<1> QED BY <1>1, SameCalendar DEF Ledger!PolicyStep

LEMMA LedgerSubmits ==
    ASSUME policy \in [Types -> Policies], NEW l \in Process, NEW old \in TableTypes, NEW new,
           LedgerMoves(old, new), l.kind = "submit", l.pc # "overlap", Asked(l, old), KeysOf(l.req) # {},
           Afforded(l, old[1]), new[1] = Target(l, old[1]),
           new[2] = [old[2] EXCEPT ![l.id] = l.req], new[3] = old[3]
    PROVE  Ledger!Next
<1>1. PICK r : r = l.req
    OBVIOUS
<1>2. PICK e, t, start, end, half, alloc :
          e = r.employee /\ t = r.type /\ start = r.startDate /\ end = r.endDate /\ half = r.halfDay
          /\ alloc = r.allocations
    OBVIOUS
<1>3. r \in Request /\ l.id \in RequestIds
    BY <1>1 DEF Process, Asked
<1>4. /\ e \in Employees /\ t \in Types /\ start \in Dates /\ end \in Dates /\ half \in BOOLEAN
      /\ alloc = Allocate(start, end, half) /\ InWindow(r)
    BY <1>1, <1>2, AskedIsTyped
<1>5. PICK rows : rows = CheckRows(old[1], r, KeysOf(r))
    OBVIOUS
<1>6. rows = Ledger!SubmitRows(e, t, start, alloc)
    BY <1>2, <1>3, <1>4, <1>5, LedgerSubmitRows, TablesAreTyped DEF LedgerMoves
<1>7. LedgerRequests[l.id].status = "NONE" /\ Ledger!CanSubmit(e, t, start, end, half)
    BY <1>1, <1>2, LedgerMayAsk DEF LedgerMoves
<1>8. l.tracked = policy[t].requiresBalance
    BY <1>1, <1>2 DEF Asked
<1>9. l.tracked => \A k \in KeysOf(r) : Covers(rows, r, k)
    BY <1>1, <1>5 DEF Afforded, Granted
<1>10. ASSUME l.tracked, NEW y \in Years PROVE Ledger!Funded(rows, e, t, start, alloc, y)
    <2>1. CASE alloc[y] > 0
        <3>1. <<e, t, y>> \in KeysOf(r)
            BY <1>2, <1>4, <2>1 DEF KeysOf, Keys
        <3>2. Funded(rows, e, t, start, alloc, y)
            BY <1>2, <1>9, <1>10, <3>1 DEF Covers
        <3> QED BY <3>2, SameCharges
    <2>2. CASE ~(alloc[y] > 0)
        <3>1. Funded(rows, e, t, start, alloc, y)
            BY <2>2 DEF Funded
        <3> QED BY <3>1, SameCharges
    <2> QED BY <2>1, <2>2
<1>11. LedgerBalances' = IF policy[t].requiresBalance THEN Ledger!Charge(rows, e, t, alloc, 1, 0)
                         ELSE LedgerBalances
    <2>1. CASE l.tracked
        <3>1. PendingSign(l) = 1 /\ UsedSign(l) = 0
            BY DEF PendingSign, UsedSign
        <3>2. rows \in [Keys -> Row] /\ \A k \in KeysOf(r) : rows[k].exists
            BY <1>3, <1>4, <1>5, <1>9, <2>1, CheckedRowsExist, CheckRowsTyped, TablesAreTyped
        <3>3. Charge(rows, e, t, alloc, 1, 0) = ChargeTodo(rows, r, KeysOf(r), 1, 0)
            <4>1. 1 \in -1..1 /\ 0 \in -1..1
                OBVIOUS
            <4>2. Charge(rows, r.employee, r.type, r.allocations, 1, 0) = ChargeTodo(rows, r, KeysOf(r), 1, 0)
                BY <1>3, <1>4, <3>2, <4>1, ChargeIsChargeTodo
            <4> QED BY <1>2, <4>2
        <3>4. Target(l, old[1]) = ChargeTodo(rows, r, KeysOf(r), 1, 0)
            BY <1>1, <1>5, <2>1, <3>1 DEF Target, Granted
        <3> QED BY <1>8, <2>1, <3>3, <3>4, SameCharges DEF LedgerMoves
    <2>2. CASE ~l.tracked
        BY <1>8, <2>2 DEF LedgerMoves, Target
    <2> QED BY <2>1, <2>2
<1>12. LedgerRequests' = [LedgerRequests EXCEPT ![l.id] = Ledger!NewRequest(e, t, start, end, half)]
    <2>1. r = NewRequest(e, t, start, end, half)
        BY <1>1, <1>2 DEF Asked
    <2> QED BY <1>1, <2>1, SameRequests DEF LedgerMoves
<1>13. policy[t].requiresBalance => \A y \in Ledger!Years : Ledger!Funded(rows, e, t, start, alloc, y)
    BY <1>8, <1>10, SameCalendar
<1>14. LedgerStatus' = LedgerStatus /\ UNCHANGED <<today, policy, holidays>>
    BY DEF LedgerMoves
<1>15. Ledger!Allocate(start, end, half) = alloc
    BY <1>4, SameAllocation
<1>16. Ledger!Submit(l.id, e, t, start, end, half)
    BY <1>6, <1>7, <1>11, <1>12, <1>13, <1>14, <1>15 DEF Ledger!Submit
<1> QED BY <1>3, <1>4, <1>16, LedgerRequestStep

LEMMA LedgerRefuses ==
    ASSUME policy \in [Types -> Policies], NEW l \in Process, NEW old \in TableTypes, NEW new,
           LedgerMoves(old, new), l.pc # "overlap", Asked(l, old), l.tracked,
           new[1] = CheckRows(old[1], l.req, KeysOf(l.req)),
           NEW k \in KeysOf(l.req), ~Covers(new[1], l.req, k), new[2] = old[2], new[3] = old[3]
    PROVE  Ledger!Next
<1>1. PICK r : r = l.req
    OBVIOUS
<1>2. PICK e, t, start, end, half, alloc :
          e = r.employee /\ t = r.type /\ start = r.startDate /\ end = r.endDate /\ half = r.halfDay
          /\ alloc = r.allocations
    OBVIOUS
<1>3. r \in Request
    BY <1>1 DEF Process
<1>4. /\ e \in Employees /\ t \in Types /\ start \in Dates /\ end \in Dates /\ half \in BOOLEAN
      /\ alloc = Allocate(start, end, half) /\ InWindow(r)
    BY <1>1, <1>2, AskedIsTyped
<1>5. new[1] = Ledger!SubmitRows(e, t, start, alloc)
    BY <1>1, <1>2, <1>3, <1>4, LedgerSubmitRows, TablesAreTyped DEF LedgerMoves
<1>6. Ledger!CanSubmit(e, t, start, end, half)
    BY <1>1, <1>2, LedgerMayAsk DEF LedgerMoves
<1>7. policy[t].requiresBalance
    BY <1>1, <1>2 DEF Asked
<1>8. k[3] \in Years /\ k = <<e, t, k[3]>>
    BY <1>1, <1>2 DEF KeysOf, Keys
<1>9. ~Funded(new[1], e, t, start, alloc, k[3])
    BY <1>1, <1>2, <1>8 DEF Covers
<1>10. \E y \in Ledger!Years : ~Ledger!Funded(new[1], e, t, start, alloc, y)
    BY <1>8, <1>9, SameCharges, SameCalendar
<1>11. Ledger!Allocate(start, end, half) = alloc
    BY <1>4, SameAllocation
<1>12. Ledger!SubmitInsufficient(e, t, start, end, half)
    BY <1>5, <1>6, <1>7, <1>10, <1>11 DEF Ledger!SubmitInsufficient, LedgerMoves
<1> QED BY <1>4, <1>12, LedgerRequestStep

(* What the requests and the statuses are when a decision has ended.       *)
SettledReqs(l, old) ==
    [old[2] EXCEPT ![l.id] =
        CASE l.kind = "approve" -> Decided(l.req, "APPROVED", Effective(old[3], l.req))
          [] l.kind = "reject"  -> Decided(l.req, "REJECTED", l.req.statusApplied)
          [] l.kind = "cancel"  -> Decided(l.req, "CANCELLED", FALSE)]
SettledEmps(l, old) ==
    LET e == l.req.employee
    IN  CASE l.kind = "approve" /\ Effective(old[3], l.req) -> [old[3] EXCEPT ![e] = "ON_LEAVE"]
          [] l.kind = "cancel" /\ l.req.statusApplied /\ old[3][e] = "ON_LEAVE" ->
                 [old[3] EXCEPT ![e] = "ACTIVE"]
          [] OTHER -> old[3]

LEMMA SameEffect ==
    ASSUME NEW emp, LedgerStatus = emp
    PROVE  \A r : Ledger!TakesEffect(r) = Effective(emp, r)
<1> SUFFICES ASSUME NEW r PROVE Ledger!TakesEffect(r) = Effective(emp, r)
    OBVIOUS
<1>1. Ledger!IsLongLeave(r) <=> IsLongLeave(r)
    BY SameRequests
<1>2. Ledger!TakesEffect(r) <=> Effective(emp, r)
    BY <1>1 DEF Ledger!TakesEffect, Effective, Running
<1>3. Ledger!TakesEffect(r) \in BOOLEAN /\ Effective(emp, r) \in BOOLEAN
    BY DEF Ledger!TakesEffect, Effective
<1> QED BY <1>2, <1>3

LEMMA LedgerCharges ==
    ASSUME policy \in [Types -> Policies], NEW old \in TableTypes, LedgerBalances = old[1],
           NEW r \in Request, InWindow(r), NEW n \in -1..1, NEW m \in -1..1
    PROVE  Ledger!ChargeBalances(LedgerBalances, r, n, m) = ChargeTodo(old[1], r, KeysOf(r), n, m)
BY SameCharges, ChargeBalancesIsChargeTodo, TablesAreTyped

LEMMA LedgerDecides ==
    ASSUME policy \in [Types -> Policies], NEW l \in Process, NEW old \in TableTypes, NEW new,
           LedgerMoves(old, new), l.kind \in Deciding, Chosen(l, old), InWindow(l.req),
           new[1] = Target(l, old[1]), new[2] = SettledReqs(l, old), new[3] = SettledEmps(l, old)
    PROVE  Ledger!Next
<1>1. PICK r, i : r = l.req /\ i = l.id
    OBVIOUS
<1>2. PICK n, m : n = PendingSign(l) /\ m = UsedSign(l)
    OBVIOUS
<1>3. n \in -1..1 /\ m \in -1..1 /\ i \in RequestIds /\ r \in Request /\ InWindow(r) /\ LedgerRequests[i] = r
    BY <1>1, <1>2, SignsAreSmall DEF Chosen, LedgerMoves, Process
<1>4. Ledger!ChargeBalances(LedgerBalances, r, n, m) = ChargeTodo(old[1], r, KeysOf(r), n, m)
    BY <1>3, LedgerCharges DEF LedgerMoves
<1>5. LedgerBalances' = IF policy[r.type].requiresBalance THEN Ledger!ChargeBalances(LedgerBalances, r, n, m)
                        ELSE LedgerBalances
    <2>1. Granted(l, old[1]) = old[1]
        BY DEF Granted, Deciding
    <2>2. l.tracked = policy[r.type].requiresBalance
        BY <1>1 DEF Chosen
    <2> QED BY <1>1, <1>2, <1>4, <2>1, <2>2 DEF Target, LedgerMoves
<1>6. HR \in Actors /\ HR.hr /\ ~HR.owner
    BY DEF HR, Actors
<1>7. \A s, b : Ledger!Decided(r, s, b) = Decided(r, s, b)
    BY SameRequests
<1>8. UNCHANGED <<today, policy, holidays>> /\ LedgerStatus = old[3] /\ LedgerStatus' = SettledEmps(l, old)
      /\ LedgerRequests' = SettledReqs(l, old) /\ LedgerRequests = old[2]
    BY DEF LedgerMoves
<1>9. CASE l.kind = "approve"
    <2>1. n = -1 /\ m = 1 /\ r.status = "PENDING"
        BY <1>1, <1>2, <1>9 DEF PendingSign, UsedSign, Chosen
    <2>2. PICK b : b = Effective(old[3], r) /\ b = Ledger!TakesEffect(r)
        BY <1>8, SameEffect
    <2>3. LedgerRequests' = [LedgerRequests EXCEPT ![i] = Ledger!Decided(r, "APPROVED", Ledger!TakesEffect(r))]
        BY <1>1, <1>7, <1>8, <1>9, <2>2 DEF SettledReqs
    <2>4. LedgerStatus' = IF Ledger!TakesEffect(r) THEN [LedgerStatus EXCEPT ![r.employee] = "ON_LEAVE"]
                          ELSE LedgerStatus
        BY <1>1, <1>8, <1>9, <2>2 DEF SettledEmps
    <2>5. Ledger!MayDecide(i, HR)
        BY <1>3, <1>6, <2>1 DEF Ledger!MayDecide
    <2>6. Ledger!Approve(i, HR)
        BY <1>3, <1>5, <1>8, <2>1, <2>3, <2>4, <2>5 DEF Ledger!Approve
    <2> QED BY <1>3, <1>6, <2>6, LedgerRequestStep
<1>10. CASE l.kind = "reject"
    <2>1. n = -1 /\ m = 0 /\ r.status = "PENDING"
        BY <1>1, <1>2, <1>10 DEF PendingSign, UsedSign, Chosen
    <2>2. LedgerBalances' = Ledger!Release(r)
        BY <1>5, <2>1 DEF Ledger!Release
    <2>3. LedgerRequests' = [LedgerRequests EXCEPT
                                ![i] = Ledger!Decided(@, "REJECTED", LedgerRequests[i].statusApplied)]
        BY <1>1, <1>3, <1>7, <1>8, <1>10 DEF SettledReqs
    <2>4. LedgerStatus' = LedgerStatus
        BY <1>8, <1>10 DEF SettledEmps
    <2>5. Ledger!MayDecide(i, HR)
        BY <1>3, <1>6, <2>1 DEF Ledger!MayDecide
    <2>6. Ledger!Reject(i, HR)
        BY <1>3, <1>8, <2>2, <2>3, <2>4, <2>5 DEF Ledger!Reject
    <2> QED BY <1>3, <1>6, <2>6, LedgerRequestStep
<1>11. CASE l.kind = "cancel"
    <2>1. r.status \in ActiveStatuses
          /\ (r.status = "PENDING" => n = -1 /\ m = 0) /\ (r.status # "PENDING" => n = 0 /\ m = -1)
        BY <1>1, <1>2, <1>11 DEF PendingSign, UsedSign, Chosen
    <2>2. LedgerBalances' = Ledger!Release(r)
        BY <1>5, <2>1 DEF Ledger!Release
    <2>3. LedgerRequests' = [LedgerRequests EXCEPT ![i] = Ledger!Decided(r, "CANCELLED", FALSE)]
        BY <1>1, <1>7, <1>8, <1>11 DEF SettledReqs
    <2>4. LedgerStatus' = IF r.statusApplied /\ LedgerStatus[r.employee] = "ON_LEAVE"
                          THEN [LedgerStatus EXCEPT ![r.employee] = "ACTIVE"] ELSE LedgerStatus
        BY <1>1, <1>8, <1>11 DEF SettledEmps
    <2>5. r.status \in Ledger!ActiveStatuses
        BY <2>1, SameCalendar
    <2>6. Ledger!Cancel(i, HR)
        BY <1>3, <1>6, <1>8, <2>2, <2>3, <2>4, <2>5 DEF Ledger!Cancel
    <2> QED BY <1>3, <1>6, <2>6, LedgerRequestStep
<1> QED BY <1>9, <1>10, <1>11 DEF Deciding

LEMMA LedgerAdjusts ==
    ASSUME policy \in [Types -> Policies], NEW old \in TableTypes, NEW new, LedgerMoves(old, new),
           NEW k \in Keys, NEW delta \in Deltas, policy[k[2]].requiresBalance,
           old[1][k].adjustment + delta <= MaxAdjustment,
           new[1] = Corrected(old[1], k, delta), new[2] = old[2], new[3] = old[3]
    PROVE  Ledger!Next
<1>1. PICK e, t, y : e = k[1] /\ t = k[2] /\ y = k[3]
    OBVIOUS
<1>2. k = <<e, t, y>> /\ e \in Employees /\ t \in Types /\ y \in Years
    BY <1>1 DEF Keys
<1>3. PICK rows : rows = Ensured(old[1], k)
    OBVIOUS
<1>4. Ledger!EnsureBalance(LedgerBalances, e, t, y) = rows
    BY <1>1, <1>3, SameRows DEF LedgerMoves, Ensured
<1>5. Ledger!Available(rows[k], today) = Available(rows[k], today)
    BY SameRows
<1>6. new[1] = IF Available(rows[k], today) + delta < 0 THEN rows
               ELSE [rows EXCEPT ![k].adjustment = @ + delta]
    BY <1>3, Zenon DEF Corrected
<1>7. Ledger!Adjust(e, t, y, delta)
    BY <1>1, <1>2, <1>4, <1>5, <1>6 DEF Ledger!Adjust, LedgerMoves
<1> QED BY <1>2, <1>7, LedgerPolicyStep

LEMMA LedgerShows ==
    ASSUME NEW old \in TableTypes, NEW new, LedgerMoves(old, new),
           NEW e \in Employees, NEW y \in Years,
           new[1] = Seen(old[1], ViewKeys(e, y)), new[2] = old[2], new[3] = old[3]
    PROVE  Ledger!Next
<1>1. ASSUME NEW k \in Keys
      PROVE  Seen(old[1], ViewKeys(e, y))[k]
                 = IF /\ k[1] = e /\ k[3] = y /\ policy[k[2]].isActive /\ policy[k[2]].requiresBalance
                   THEN Ledger!EnsureBalance(old[1], e, k[2], y)[k] ELSE old[1][k]
    BY SameRows DEF Seen, ViewKeys, Ensured
<1>2. LedgerBalances' = [k \in Ledger!Keys |->
           IF /\ k[1] = e /\ k[3] = y /\ policy[k[2]].isActive /\ policy[k[2]].requiresBalance
           THEN Ledger!EnsureBalance(LedgerBalances, e, k[2], y)[k] ELSE LedgerBalances[k]]
    BY <1>1, SameCalendar DEF LedgerMoves, Seen
<1>3. Ledger!BalancesFor(e, y)
    BY <1>2 DEF Ledger!BalancesFor, LedgerMoves
<1> QED BY <1>3, LedgerPolicyStep

LEMMA LedgerSyncs ==
    ASSUME today \in Dates, NEW old \in TableTypes, NEW new, LedgerMoves(old, new), new[1] = old[1],
           NEW ends, ends = ToEnd(StartedReqs(old)),
           new[2] = Cleared(StartedReqs(old), ends),
           new[3] = BackFrom(StartedEmps(old), Employed(old[2], ends))
    PROVE  Ledger!Next
<1>1. PICK R, S : R = old[2] /\ S = old[3]
    OBVIOUS
<1>2. R \in [RequestIds -> Request] /\ LedgerRequests = R /\ LedgerStatus = S
    BY <1>1, TablesAreTyped DEF LedgerMoves
<1>3. PICK starts : starts = ToStart(R, S)
    OBVIOUS
<1>4. Ledger!Starting = starts
    BY <1>2, <1>3, SameEffect DEF Ledger!Starting, ToStart
<1>5. StartedReqs(old) = Flagged(R, starts)
    BY <1>1, <1>3 DEF StartedReqs
<1>6. ASSUME NEW i \in RequestIds
      PROVE  /\ Flagged(R, starts)[i].status = R[i].status
             /\ Flagged(R, starts)[i].endDate = R[i].endDate
             /\ Flagged(R, starts)[i].statusApplied <=> R[i].statusApplied \/ i \in starts
             /\ i \in starts => R[i].endDate >= today
             /\ R[i].endDate \in Int
    <2>1. R[i] \in Request /\ R[i].endDate \in Int
        BY <1>2 DEF Request, Dates
    <2>2. Flagged(R, starts)[i] = [R[i] EXCEPT !.statusApplied = @ \/ i \in starts]
        BY DEF Flagged
    <2>3. i \in starts => R[i].endDate >= today
        BY <1>3 DEF ToStart, Effective, Running
    <2> QED BY <2>1, <2>2, <2>3 DEF Request
<1>7. today \in Int
    BY DEF Dates
<1>8. ends = {i \in RequestIds : R[i].status = "APPROVED" /\ R[i].statusApplied /\ R[i].endDate <= today - 1}
    BY <1>5, <1>6, <1>7 DEF ToEnd
<1>9. Ledger!Ending = ends
    BY <1>2, <1>8 DEF Ledger!Ending
<1>10. \A ids : Ledger!EmployeesOf(ids) = Employed(R, ids)
    BY <1>2 DEF Ledger!EmployeesOf, Employed
<1>11. LedgerRequests' = [i \in RequestIds |->
           [LedgerRequests[i] EXCEPT !.statusApplied = (@ \/ i \in Ledger!Starting) /\ i \notin Ledger!Ending]]
    <2>1. ASSUME NEW i \in RequestIds
          PROVE  [Flagged(R, starts)[i] EXCEPT !.statusApplied = @ /\ i \notin ends]
                     = [R[i] EXCEPT !.statusApplied = (@ \/ i \in starts) /\ i \notin ends]
        <3>1. PICK b : b = (R[i].statusApplied \/ i \in starts)
            OBVIOUS
        <3>2. Flagged(R, starts)[i] = [R[i] EXCEPT !.statusApplied = b]
            BY <3>1 DEF Flagged
        <3>3. R[i] \in Request
            BY <1>2
        <3> QED BY <3>1, <3>2, <3>3 DEF Request
    <2> QED BY <1>2, <1>4, <1>5, <1>9, <2>1 DEF LedgerMoves, Cleared
<1>12. StartedEmps(old) = OnLeave(S, Employed(R, starts))
    BY <1>1, <1>3 DEF StartedEmps
<1>13. LedgerStatus' = [e \in Employees |->
           IF e \in Ledger!EmployeesOf(Ledger!Ending)
              /\ (LedgerStatus[e] = "ON_LEAVE" \/ e \in Ledger!EmployeesOf(Ledger!Starting))
           THEN "ACTIVE"
           ELSE IF e \in Ledger!EmployeesOf(Ledger!Starting) THEN "ON_LEAVE" ELSE LedgerStatus[e]]
    BY <1>1, <1>2, <1>4, <1>9, <1>10, <1>12 DEF LedgerMoves, BackFrom, OnLeave
<1>14. Ledger!SyncEmployeeStatuses
    BY <1>11, <1>13 DEF Ledger!SyncEmployeeStatuses, LedgerMoves
<1> QED BY <1>14, LedgerRequestStep

(* The ledger's requests stay regular.                                     *)
LEMMA StaysRegular ==
    ASSUME NEW was, NEW is, Regular(was),
           \A i \in RequestIds :
               /\ is[i].employee = was[i].employee /\ is[i].startDate = was[i].startDate
               /\ is[i].endDate = was[i].endDate /\ is[i].allocations = was[i].allocations
               /\ is[i].status \in ActiveStatuses => was[i].status \in ActiveStatuses
               /\ is[i].status = "PENDING" => was[i].status = "PENDING"
                                              /\ (is[i].statusApplied => was[i].statusApplied)
    PROVE  Regular(is)
<1>1. \A i, j \in RequestIds :
          i # j /\ is[j].status \in ActiveStatuses
              => ~Overlaps(is[i], is[j].employee, is[j].startDate, is[j].endDate)
    BY DEF Regular, Overlaps
<1>2. \A i \in RequestIds : is[i].status = "PENDING" => ~is[i].statusApplied
    BY DEF Regular
<1>3. \A i \in RequestIds : InWindow(is[i])
    BY DEF Regular, InWindow
<1> QED BY <1>1, <1>2, <1>3 DEF Regular

LEMMA RegularAfterSubmit ==
    ASSUME NEW l \in Process, NEW old \in TableTypes, Regular(old[2]), l.pc # "overlap", Asked(l, old),
           NEW is, is = [old[2] EXCEPT ![l.id] = l.req]
    PROVE  Regular(is)
<1>1. PICK i : i = l.id
    OBVIOUS
<1>2. i \in RequestIds /\ is[i] = l.req /\ \A j \in RequestIds \ {i} : is[j] = old[2][j]
    BY <1>1, TablesAreTyped DEF Asked
<1>3. l.req.status = "PENDING" /\ ~l.req.statusApplied /\ InWindow(l.req)
    BY AskedIsTyped
<1>4. \A j \in RequestIds : ~Overlaps(old[2][j], l.req.employee, l.req.startDate, l.req.endDate)
    BY DEF Asked, Free
<1>5. ASSUME NEW a \in RequestIds, NEW j \in RequestIds, a # j, is[j].status \in ActiveStatuses
      PROVE  ~Overlaps(is[a], is[j].employee, is[j].startDate, is[j].endDate)
    <2>1. CASE a # i /\ j # i
        BY <1>2, <1>5, <2>1 DEF Regular
    <2>2. CASE j = i
        BY <1>2, <1>4, <1>5, <2>2
    <2>3. CASE a = i
        BY <1>2, <1>4, <1>5, <2>3 DEF Overlaps
    <2> QED BY <2>1, <2>2, <2>3
<1>6. \A j \in RequestIds : is[j].status = "PENDING" => ~is[j].statusApplied
    BY <1>2, <1>3 DEF Regular
<1>7. \A j \in RequestIds : InWindow(is[j])
    BY <1>2, <1>3 DEF Regular
<1> QED BY <1>5, <1>6, <1>7 DEF Regular

LEMMA RegularAfterDecision ==
    ASSUME NEW l \in Process, NEW old \in TableTypes, Regular(old[2]), l.kind \in Deciding, Chosen(l, old)
    PROVE  Regular(SettledReqs(l, old))
<1>1. PICK is : is = SettledReqs(l, old)
    OBVIOUS
<1>2. PICK r, i : r = l.req /\ i = l.id
    OBVIOUS
<1>3. i \in RequestIds /\ old[2][i] = r /\ r.status \in ActiveStatuses /\ r \in Request
    BY <1>2 DEF Chosen, Process
<1>4. PICK s \in {"APPROVED", "REJECTED", "CANCELLED"} : \E b : is = [old[2] EXCEPT ![i] = Decided(r, s, b)]
    BY <1>1, <1>2 DEF SettledReqs, Deciding
<1>5. PICK b : is[i] = Decided(r, s, b) /\ \A j \in RequestIds \ {i} : is[j] = old[2][j]
    BY <1>3, <1>4, TablesAreTyped
<1>6. /\ is[i].employee = r.employee /\ is[i].startDate = r.startDate /\ is[i].endDate = r.endDate
      /\ is[i].allocations = r.allocations /\ is[i].status = s
    BY <1>3, <1>5 DEF Decided, Request
<1> QED BY <1>1, <1>3, <1>5, <1>6, StaysRegular

LEMMA RegularAfterSync ==
    ASSUME NEW old \in TableTypes, Regular(old[2])
    PROVE  Regular(Cleared(StartedReqs(old), ToEnd(StartedReqs(old))))
<1>1. PICK R, starts, ends : R = old[2] /\ starts = ToStart(old[2], old[3]) /\ ends = ToEnd(StartedReqs(old))
    OBVIOUS
<1>2. PICK is : is = Cleared(StartedReqs(old), ends)
    OBVIOUS
<1>3. ASSUME NEW i \in RequestIds
      PROVE  /\ is[i].employee = R[i].employee /\ is[i].startDate = R[i].startDate
             /\ is[i].endDate = R[i].endDate /\ is[i].allocations = R[i].allocations
             /\ is[i].status = R[i].status
             /\ is[i].status = "PENDING" /\ is[i].statusApplied => R[i].statusApplied
    <2>1. R[i] \in Request
        BY <1>1, TablesAreTyped
    <2>2. PICK d : d = [R[i] EXCEPT !.statusApplied = @ \/ i \in starts]
        OBVIOUS
    <2>3. is[i] = [d EXCEPT !.statusApplied = @ /\ i \notin ends]
        BY <1>1, <1>2, <2>2 DEF Cleared, StartedReqs, Flagged
    <2>4. /\ d \in Request /\ d.employee = R[i].employee /\ d.startDate = R[i].startDate
          /\ d.endDate = R[i].endDate /\ d.allocations = R[i].allocations /\ d.status = R[i].status
          /\ d.statusApplied <=> R[i].statusApplied \/ i \in starts
        BY <2>1, <2>2 DEF Request
    <2>5. /\ is[i].employee = d.employee /\ is[i].startDate = d.startDate
          /\ is[i].endDate = d.endDate /\ is[i].allocations = d.allocations /\ is[i].status = d.status
          /\ is[i].statusApplied => d.statusApplied
        BY <2>3, <2>4 DEF Request
    <2>6. i \in starts => R[i].status = "APPROVED"
        BY <1>1 DEF ToStart
    <2> QED BY <2>4, <2>5, <2>6
<1> QED BY <1>1, <1>2, <1>3, StaysRegular

-----------------------------------------------------------------------------
(* The one handler at work takes a step.                                   *)
Serving(l, now, old) ==
    /\ policy \in [Types -> Policies] /\ today \in Dates
    /\ l \in Process /\ Shape(l) /\ now \in TableTypes /\ old \in TableTypes
    /\ Regular(old[2]) /\ AtWork(l, now, old)

(* It is still at work, or the ledger takes its step.                      *)
Served(p, old, new) ==
    \E m : /\ Goto(p, m)
           /\ \/ m.pc # "idle" /\ AtWork(m, new, old)
              \/ m = Idle /\ Regular(new[2]) /\ (Ledger!Next \/ UNCHANGED Ledger!vars)

(* What the next state of a process shares with this one.                  *)
Continues(l, m) ==
    /\ m.kind = l.kind /\ m.id = l.id /\ m.req = l.req /\ m.tracked = l.tracked
    /\ m.active = l.active /\ m.delta = l.delta /\ m.queue = l.queue

LEMMA Handover ==
    ASSUME NEW p, NEW old \in TableTypes, NEW new, base = old, new = Tables', Goto(p, Idle)
    PROVE  LedgerMoves(old, new)
<1>1. old # NoTables
    BY TablesAreTyped
<1>2. base' = NoTables
    BY DEF Goto, Idle
<1>3. new[1] = balances' /\ new[2] = requests' /\ new[3] = empStatus'
    BY DEF Tables
<1>4. LedgerBalances = old[1] /\ LedgerRequests = old[2] /\ LedgerStatus = old[3]
    BY <1>1 DEF LedgerBalances, LedgerRequests, LedgerStatus
<1>5. LedgerBalances' = new[1] /\ LedgerRequests' = new[2] /\ LedgerStatus' = new[3]
    BY <1>2, <1>3 DEF LedgerBalances, LedgerRequests, LedgerStatus
<1> QED BY <1>4, <1>5 DEF LedgerMoves, Goto

LEMMA KindAtWork ==
    ASSUME NEW l, NEW now, NEW old, AtWork(l, now, old)
    PROVE  /\ l.kind = "submit" => SubmitAtWork(l, now, old)
           /\ l.kind \in Deciding => DecisionAtWork(l, now, old)
           /\ l.kind = "adjust" => AdjustAtWork(l, now, old)
           /\ l.kind = "view" => ViewAtWork(l, now, old)
           /\ l.kind = "sync" => SyncAtWork(l, now, old)
BY DEF AtWork, SubmitAtWork, DecisionAtWork, AdjustAtWork, ViewAtWork, SyncAtWork, Deciding

LEMMA RequestAtWork ==
    ASSUME NEW l, NEW now, NEW old, Serving(l, now, old), l.kind \in {"submit"} \cup Deciding
    PROVE  /\ l.req \in Request /\ InWindow(l.req) /\ KeysOf(l.req) \subseteq Keys
           /\ RowReady(l, now[1])
           /\ now[1] \in [Keys -> Row] /\ old[1] \in [Keys -> Row]
<1>1. l.req \in Request
    BY DEF Serving, Process
<1>2. InWindow(l.req) /\ RowReady(l, now[1])
    <2>1. CASE l.kind = "submit"
        <3>1. SubmitAtWork(l, now, old)
            BY <2>1, KindAtWork DEF Serving
        <3> QED BY <3>1, AskedIsTyped DEF Serving, SubmitAtWork
    <2>2. CASE l.kind \in Deciding
        <3>1. DecisionAtWork(l, now, old)
            BY <2>2, KindAtWork DEF Serving
        <3> QED BY <3>1 DEF Serving, DecisionAtWork, Chosen, Regular
    <2> QED BY <2>1, <2>2
<1> QED BY <1>1, <1>2, TablesAreTyped DEF KeysOf, Serving

LEMMA SameCase ==
    ASSUME NEW l, NEW m, Continues(l, m)
    PROVE  /\ PendingSign(m) = PendingSign(l) /\ UsedSign(m) = UsedSign(l)
           /\ \A bal : Target(m, bal) = Target(l, bal) /\ Granted(m, bal) = Granted(l, bal)
           /\ \A bal : Afforded(m, bal) <=> Afforded(l, bal)
           /\ \A old : Chosen(l, old) => Chosen(m, old)
           /\ \A old : l.pc # "overlap" /\ Asked(l, old) => Asked(m, old)
<1>1. PendingSign(m) = PendingSign(l) /\ UsedSign(m) = UsedSign(l)
    BY DEF Continues, PendingSign, UsedSign
<1>2. \A bal : Granted(m, bal) = Granted(l, bal)
    BY DEF Continues, Granted
<1>3. \A bal : Target(m, bal) = Target(l, bal)
    BY <1>1, <1>2 DEF Continues, Target
<1>4. \A bal : Afforded(m, bal) <=> Afforded(l, bal)
    BY <1>2 DEF Continues, Afforded
<1>5. \A old : Chosen(l, old) => Chosen(m, old)
    BY DEF Continues, Chosen
<1>6. \A old : l.pc # "overlap" /\ Asked(l, old) => Asked(m, old)
    BY DEF Continues, Asked
<1> QED BY <1>1, <1>2, <1>3, <1>4, <1>5, <1>6

(* The part of AtWork that is about the balance rows, for a handler that   *)
(* charges them: what remains to be shown after a step among them.         *)
LEMMA StillReserving ==
    ASSUME NEW l, NEW m, NEW now, NEW old, NEW new, AtWork(l, now, old), Continues(l, m),
           m.ending = l.ending, l.kind \in {"submit"} \cup Deciding, l.pc # "overlap",
           l.kind = "submit" => m.pc \in {"check", "insertC", "balance", "insertB", "save", "record"},
           l.kind # "submit" => m.pc \in {"balance", "insertB", "save", "record"}
                                /\ l.pc \in {"balance", "insertB", "save", "record"},
           new[2] = now[2], new[3] = now[3],
           Reserving(m, new[1], old[1]), RowReady(m, new[1])
    PROVE  AtWork(m, new, old)
<1>1. CASE l.kind = "submit"
    <2>1. SubmitAtWork(l, now, old)
        BY <1>1, KindAtWork
    <2>2. SubmitAtWork(m, new, old)
        BY <1>1, <2>1, SameCase DEF SubmitAtWork, Continues, Untouched
    <2> QED BY <2>2 DEF AtWork
<1>2. CASE l.kind \in Deciding
    <2>1. DecisionAtWork(l, now, old) /\ l.kind # "submit"
        BY <1>2, KindAtWork DEF Deciding
    <2>2. DecisionAtWork(m, new, old)
        BY <1>2, <2>1, SameCase DEF DecisionAtWork, Continues, Untouched
    <2> QED BY <2>2 DEF AtWork
<1> QED BY <1>1, <1>2

LEMMA ReservingAtWork ==
    ASSUME NEW l, NEW now, NEW old, Serving(l, now, old), l.kind \in {"submit"} \cup Deciding
    PROVE  Reserving(l, now[1], old[1])
BY KindAtWork DEF Serving, SubmitAtWork, DecisionAtWork

LEMMA CheckOverlapServes ==
    ASSUME NEW p \in Procs, NEW l, NEW now, NEW old, NEW new, l = procs[p], now = Tables, old = base,
           new = Tables', Serving(l, now, old), CheckOverlap(p)
    PROVE  Served(p, old, new)
<1>1. l.pc = "overlap" /\ l.kind = "submit" /\ l \in Process
    BY DEF Serving, CheckOverlap, At, Shape
<1>2. SubmitAtWork(l, now, old)
    BY <1>1, KindAtWork DEF Serving
<1>3. now[1] = old[1] /\ now[2] = old[2] /\ now[3] = old[3]
    BY <1>1, <1>2 DEF SubmitAtWork, Reserving, Untouched
<1>4. new = now /\ now[2] = requests
    BY DEF CheckOverlap, Tables
<1>5. CASE ~NoConflict(l.req.employee, l.req.startDate, l.req.endDate)
    <2>1. Goto(p, Idle)
        BY <1>5 DEF CheckOverlap
    <2>2. LedgerMoves(old, new)
        BY <2>1, Handover DEF Serving
    <2>3. UNCHANGED Ledger!vars
        BY <1>3, <1>4, <2>2 DEF LedgerMoves, Ledger!vars
    <2>4. Regular(new[2])
        BY <1>3, <1>4 DEF Serving
    <2> QED BY <2>1, <2>3, <2>4 DEF Served
<1>6. CASE NoConflict(l.req.employee, l.req.startDate, l.req.endDate)
    <2>1. PICK m : Goto(p, m) /\ m = IF l.tracked THEN [l EXCEPT !.pc = "check", !.todo = KeysOf(l.req)]
                                     ELSE [l EXCEPT !.pc = "record"]
        BY <1>6, Zenon DEF CheckOverlap
    <2>2. /\ Continues(l, m) /\ m.pc = IF l.tracked THEN "check" ELSE "record"
          /\ l.tracked => m.todo = KeysOf(l.req)
        BY <1>1, <2>1 DEF Process, Continues
    <2>3. Free(old[2], m.req.employee, m.req.startDate, m.req.endDate)
        BY <1>3, <1>4, <1>6, <2>2 DEF Free, NoConflict, Continues
    <2>4. Asked(m, old)
        BY <1>2, <2>2, <2>3 DEF SubmitAtWork, Asked, Continues
    <2>5. Reserving(m, new[1], old[1])
        <3>1. CASE l.tracked
            BY <1>3, <1>4, <2>2, <3>1 DEF Reserving, Checking, Continues
        <3>2. CASE ~l.tracked
            BY <1>3, <1>4, <2>2, <3>2 DEF Reserving, Afforded, Target, Continues
        <3> QED BY <3>1, <3>2
    <2>6. SubmitAtWork(m, new, old)
        BY <1>1, <1>3, <1>4, <2>2, <2>4, <2>5 DEF SubmitAtWork, RowReady, Untouched, Continues
    <2>7. m.pc # "idle"
        BY <2>2
    <2> QED BY <2>1, <2>6, <2>7 DEF Served, AtWork
<1> QED BY <1>5, <1>6

LEMMA ComputeRowServes ==
    ASSUME NEW p \in Procs, NEW l, NEW now, NEW old, NEW new, l = procs[p], now = Tables, old = base,
           new = Tables', Serving(l, now, old), ComputeRow(p)
    PROVE  Served(p, old, new)
<1>1. PICK k : k = FirstKey(l.todo)
    OBVIOUS
<1>2. l.pc \in {"check", "balance"} /\ l \in Process /\ Shape(l) /\ new = now
    BY DEF Serving, ComputeRow, Tables
<1>3. ~now[1][k].exists
    BY <1>1 DEF ComputeRow, Tables
<1>4. PICK row : row = Provision(now[1], k[1], k[2], k[3])
    OBVIOUS
<1>5. PICK m : Goto(p, m) /\ m = [l EXCEPT !.pc = IF l.pc = "check" THEN "insertC" ELSE "insertB", !.row = row]
    BY <1>1, <1>4 DEF ComputeRow, Tables
<1>6. /\ Continues(l, m) /\ m.todo = l.todo /\ m.row = row /\ m.ending = l.ending
      /\ l.pc = "check" => m.pc = "insertC"
      /\ l.pc = "balance" => m.pc = "insertB"
    BY <1>2, <1>5 DEF Process, Continues
<1>7. RowReady(m, new[1])
    BY <1>1, <1>2, <1>3, <1>4, <1>6 DEF RowReady
<1>8. AtWork(m, new, old)
    <2>1. CASE l.kind \in {"submit"} \cup Deciding
        <3>1. Reserving(l, now[1], old[1])
            BY <2>1, ReservingAtWork
        <3>2. Reserving(m, new[1], old[1])
            BY <1>2, <1>6, <3>1, SameCase DEF Reserving, Checking, Booking, Continues
        <3>3. l.pc = "check" => l.kind = "submit"
            BY <1>2 DEF Shape
        <3> QED BY <1>2, <1>6, <1>7, <2>1, <3>2, <3>3, StillReserving DEF Serving
    <2>2. CASE l.kind = "adjust"
        <3>1. AdjustAtWork(l, now, old)
            BY <2>2, KindAtWork DEF Serving
        <3>2. AdjustAtWork(m, new, old)
            BY <1>2, <1>6, <1>7, <3>1 DEF AdjustAtWork, Continues
        <3> QED BY <3>2 DEF AtWork
    <2>3. CASE l.kind = "view"
        <3>1. ViewAtWork(l, now, old)
            BY <2>3, KindAtWork DEF Serving
        <3>2. ViewAtWork(m, new, old)
            BY <1>2, <1>6, <1>7, <3>1 DEF ViewAtWork, Continues
        <3> QED BY <3>2 DEF AtWork
    <2> QED BY <1>2, <2>1, <2>2, <2>3 DEF Shape
<1>9. m.pc # "idle"
    BY <1>2, <1>6
<1> QED BY <1>5, <1>8, <1>9 DEF Served

(* The key a handler is at, and the row it is about to write.              *)
LEMMA KeyAtWork ==
    ASSUME NEW l, NEW now, NEW old, Serving(l, now, old),
           l.pc \in {"check", "insertC", "balance", "insertB", "save"}
    PROVE  /\ FirstKey(l.todo) \in l.todo /\ FirstKey(l.todo) \in Keys /\ l.todo \in SUBSET Keys
           /\ now[1] \in [Keys -> Row] /\ old[1] \in [Keys -> Row]
           /\ l.kind # "sync" /\ RowReady(l, now[1])
<1>1. l.todo \in SUBSET Keys /\ l.todo # {} /\ l.kind # "sync"
      /\ l.kind \in {"submit", "adjust", "view"} \cup Deciding
    BY DEF Serving, Shape, Process, Deciding
<1>2. RowReady(l, now[1])
    BY <1>1, KindAtWork DEF Serving, SubmitAtWork, DecisionAtWork, AdjustAtWork, ViewAtWork
<1> QED BY <1>1, <1>2, FirstKeyIsFirst, TablesAreTyped DEF Serving

(* A row is provisioned from the year before it only.                      *)
LEMMA ProvisionLooksBack ==
    ASSUME NEW bal, NEW bal2, NEW e, NEW t, NEW y,
           y = 0 \/ bal2[<<e, t, y - 1>>] = bal[<<e, t, y - 1>>]
    PROVE  Provision(bal2, e, t, y) = Provision(bal, e, t, y)
<1>1. CarryOver(bal2, e, t, y) = CarryOver(bal, e, t, y)
    BY Zenon DEF CarryOver
<1> QED BY <1>1, Zenon DEF Provision

LEMMA SeenAfterInsert ==
    ASSUME policy \in [Types -> Policies], NEW bal \in [Keys -> Row], NEW e \in Employees, NEW y \in Years,
           NEW ks, ks \subseteq ViewKeys(e, y), NEW k \in ks
    PROVE  Seen(Ensured(bal, k), ks) = Seen(bal, ks)
<1>1. PICK bal2 : bal2 = Ensured(bal, k)
    OBVIOUS
<1>2. k \in Keys /\ k[1] = e /\ k[3] = y
    BY DEF ViewKeys
<1>3. /\ bal2 \in [Keys -> Row] /\ \A j \in Keys \ {k} : bal2[j] = bal[j]
      /\ Ensured(bal2, k) = bal2
    BY <1>1, <1>2, EnsuredIsTheRow, EnsuredOnce
<1>4. ASSUME NEW j \in ks PROVE Ensured(bal2, j)[j] = Ensured(bal, j)[j]
    <2>1. CASE j = k
        BY <1>1, <1>3, <2>1
    <2>2. CASE j # k
        <3>1. j \in Keys /\ j[1] = e /\ j[2] \in Types /\ j[3] = y /\ j = <<e, j[2], y>>
            BY DEF ViewKeys, Keys
        <3>2. bal2[j] = bal[j]
            BY <1>3, <2>2, <3>1
        <3>3. y = 0 \/ bal2[<<e, j[2], y - 1>>] = bal[<<e, j[2], y - 1>>]
            <4> SUFFICES ASSUME y # 0 PROVE bal2[<<e, j[2], y - 1>>] = bal[<<e, j[2], y - 1>>]
                OBVIOUS
            <4>1. y - 1 \in Years /\ y - 1 # y
                BY CalendarAssumption, DatesHaveYears DEF Years, Dates
            <4>2. <<e, j[2], y - 1>> \in Keys /\ <<e, j[2], y - 1>> # k
                BY <1>2, <3>1, <4>1 DEF Keys
            <4> QED BY <1>3, <4>2
        <3>4. Provision(bal2, e, j[2], y) = Provision(bal, e, j[2], y)
            BY <3>3, ProvisionLooksBack
        <3>5. CASE bal[j].exists
            BY <1>3, <3>1, <3>2, <3>5, EnsuredIsTheRow
        <3>6. CASE ~bal[j].exists
            <4>1. Ensured(bal2, j) = [bal2 EXCEPT ![j] = Provision(bal2, e, j[2], y)]
                  /\ Ensured(bal, j) = [bal EXCEPT ![j] = Provision(bal, e, j[2], y)]
                BY <1>3, <3>1, <3>2, <3>6, EnsuredIsTheRow
            <4> QED BY <1>3, <3>1, <3>4, <4>1
        <3> QED BY <3>5, <3>6
    <2> QED BY <2>1, <2>2
<1>5. ASSUME NEW j \in Keys \ ks PROVE bal2[j] = bal[j]
    BY <1>3
<1> QED BY <1>1, <1>4, <1>5 DEF Seen

LEMMA CheckingAfterInsert ==
    ASSUME policy \in [Types -> Policies], NEW l, NEW bal \in [Keys -> Row], NEW was, Checking(l, bal, was),
           l.req \in Request, InWindow(l.req), l.todo # {}
    PROVE  Checking(l, Ensured(bal, FirstKey(l.todo)), was)
<1>1. PICK k, bal2 : k = FirstKey(l.todo) /\ bal2 = Ensured(bal, FirstKey(l.todo))
    OBVIOUS
<1>2. l.todo \in SUBSET KeysOf(l.req) /\ k \in l.todo /\ k \in Keys
    BY <1>1, FirstOfTheTodo DEF Checking
<1>3. CheckRows(bal2, l.req, l.todo) = CheckRows(bal, l.req, l.todo)
    BY <1>1, <1>2, CheckAfterInsert
<1>4. ASSUME NEW j \in KeysOf(l.req) \ l.todo PROVE bal2[j].exists /\ Covers(bal2, l.req, j)
    <2>1. j \in Keys /\ j # k
        BY <1>2 DEF KeysOf
    <2>2. bal2[j] = bal[j]
        BY <1>1, <1>2, <2>1, EnsuredIsTheRow
    <2> QED BY <2>1, <2>2, CoversTheRow DEF Checking
<1> QED BY <1>1, <1>3, <1>4 DEF Checking

LEMMA SameBooking ==
    ASSUME NEW l, NEW m, Continues(l, m), m.todo = l.todo, NEW bal, NEW bal2, NEW was,
           Booking(l, bal, was), Afforded(l, was),
           ChargeTodo(bal2, l.req, l.todo, PendingSign(l), UsedSign(l))
               = ChargeTodo(bal, l.req, l.todo, PendingSign(l), UsedSign(l))
    PROVE  Booking(m, bal2, was) /\ Afforded(m, was)
<1>1. PICK a, b, T : a = PendingSign(l) /\ b = UsedSign(l) /\ T = Target(l, was)
    OBVIOUS
<1>2. PendingSign(m) = a /\ UsedSign(m) = b /\ Target(m, was) = T /\ Afforded(m, was)
    BY <1>1, SameCase
<1>3. m.tracked /\ m.todo \subseteq KeysOf(m.req) /\ m.req = l.req
    BY DEF Booking, Continues
<1>4. ChargeTodo(bal2, m.req, m.todo, a, b) = T
    BY <1>1, <1>3 DEF Booking
<1> QED BY <1>2, <1>3, <1>4 DEF Booking

LEMMA InsertRowServes ==
    ASSUME NEW p \in Procs, NEW l, NEW now, NEW old, NEW new, l = procs[p], now = Tables, old = base,
           new = Tables', Serving(l, now, old), InsertRow(p)
    PROVE  Served(p, old, new)
<1>1. PICK k : k = FirstKey(l.todo)
    OBVIOUS
<1>2. l.pc \in {"insertC", "insertB"} /\ l \in Process /\ Shape(l) /\ policy \in [Types -> Policies]
    BY DEF Serving, InsertRow
<1>3. /\ k \in l.todo /\ k \in Keys /\ now[1] \in [Keys -> Row]
      /\ ~now[1][k].exists /\ l.row = Provision(now[1], k[1], k[2], k[3])
    BY <1>1, <1>2, KeyAtWork DEF RowReady
<1>4. new[1] = Ensured(now[1], k)
    <2>1. balances = now[1] /\ new[1] = balances'
        BY DEF Tables
    <2>2. balances' = IF balances[k].exists THEN balances ELSE [balances EXCEPT ![k] = l.row]
        BY <1>1 DEF InsertRow
    <2>3. new[1] = [now[1] EXCEPT ![k] = Provision(now[1], k[1], k[2], k[3])]
        BY <1>3, <2>1, <2>2
    <2>4. policy \in [Types -> Policies]
        BY <1>2
    <2> QED BY <1>3, <2>3, <2>4, EnsuredIsTheRow
<1>5. new[2] = now[2] /\ new[3] = now[3]
    BY DEF InsertRow, Tables
<1>6. PICK m : Goto(p, m) /\ m = [l EXCEPT !.pc = IF l.pc = "insertC" THEN "check" ELSE "balance", !.row = NoRow]
    BY DEF InsertRow
<1>7. /\ Continues(l, m) /\ m.todo = l.todo /\ m.ending = l.ending
      /\ l.pc = "insertC" => m.pc = "check"
      /\ l.pc = "insertB" => m.pc = "balance"
    BY <1>2, <1>6 DEF Process, Continues
<1>8. RowReady(m, new[1])
    BY <1>2, <1>7 DEF RowReady
<1>9. AtWork(m, new, old)
    <2>1. CASE l.kind \in {"submit"} \cup Deciding
        <3>1. Reserving(l, now[1], old[1]) /\ l.req \in Request /\ InWindow(l.req)
            BY <2>1, ReservingAtWork, RequestAtWork
        <3>2. CASE l.pc = "insertC"
            <4>1. Checking(l, now[1], old[1])
                BY <3>1, <3>2 DEF Reserving
            <4>2. Checking(l, new[1], old[1])
                BY <1>1, <1>2, <1>3, <1>4, <3>1, <4>1, CheckingAfterInsert
            <4>3. Reserving(m, new[1], old[1])
                BY <1>7, <3>2, <4>2 DEF Reserving, Checking, Continues
            <4>4. l.kind = "submit"
                BY <1>2, <3>2 DEF Shape
            <4> QED BY <1>5, <1>7, <1>8, <2>1, <3>2, <4>3, <4>4, StillReserving DEF Serving
        <3>3. CASE l.pc = "insertB"
            <4>1. Booking(l, now[1], old[1]) /\ Afforded(l, old[1])
                BY <3>1, <3>3 DEF Reserving
            <4>2. ChargeTodo(new[1], l.req, l.todo, PendingSign(l), UsedSign(l))
                      = ChargeTodo(now[1], l.req, l.todo, PendingSign(l), UsedSign(l))
                BY <1>1, <1>2, <1>3, <1>4, <3>1, <4>1, ChargeAfterInsert DEF Booking
            <4>3. Booking(m, new[1], old[1]) /\ Afforded(m, old[1])
                BY <1>7, <4>1, <4>2, SameBooking
            <4>4. Reserving(m, new[1], old[1])
                BY <1>7, <3>3, <4>3 DEF Reserving
            <4> QED BY <1>5, <1>7, <1>8, <2>1, <3>3, <4>4, StillReserving DEF Serving
        <3> QED BY <1>2, <3>2, <3>3
    <2>2. CASE l.kind = "adjust"
        <3>1. AdjustAtWork(l, now, old)
            BY <2>2, KindAtWork DEF Serving
        <3>2. l.pc = "insertB" /\ m.pc = "balance"
            BY <1>2, <1>7, <3>1 DEF AdjustAtWork
        <3>3. Corrected(new[1], k, l.delta) = Corrected(now[1], k, l.delta)
            BY <1>2, <1>3, <1>4, EnsuredOnce DEF Corrected
        <3>4. l.todo = {k}
            BY <1>3, <3>1 DEF AdjustAtWork
        <3>5. AdjustAtWork(m, new, old)
            BY <1>3, <1>5, <1>7, <1>8, <3>1, <3>2, <3>3, <3>4 DEF AdjustAtWork, Continues, Untouched
        <3> QED BY <3>5 DEF AtWork
    <2>3. CASE l.kind = "view"
        <3>1. ViewAtWork(l, now, old)
            BY <2>3, KindAtWork DEF Serving
        <3>2. l.pc = "insertB" /\ m.pc = "balance"
            BY <1>2, <1>7, <3>1 DEF ViewAtWork
        <3>3. PICK e \in Employees, y \in Years :
                  l.todo \subseteq ViewKeys(e, y) /\ Seen(now[1], l.todo) = Seen(old[1], ViewKeys(e, y))
            BY <3>1 DEF ViewAtWork
        <3>4. Seen(new[1], l.todo) = Seen(old[1], ViewKeys(e, y))
            BY <1>2, <1>3, <1>4, <3>3, SeenAfterInsert
        <3>5. ViewAtWork(m, new, old)
            BY <1>5, <1>7, <1>8, <3>1, <3>2, <3>3, <3>4 DEF ViewAtWork, Continues, Untouched
        <3> QED BY <3>5 DEF AtWork
    <2> QED BY <1>2, <2>1, <2>2, <2>3 DEF Shape
<1>10. m.pc # "idle"
    BY <1>2, <1>7
<1> QED BY <1>6, <1>9, <1>10 DEF Served

LEMMA CheckFundsServes ==
    ASSUME NEW p \in Procs, NEW l, NEW now, NEW old, NEW new, l = procs[p], now = Tables, old = base,
           new = Tables', Serving(l, now, old), CheckFunds(p)
    PROVE  Served(p, old, new)
<1>1. PICK k, left, r : k = FirstKey(l.todo) /\ left = l.todo \ {k} /\ r = l.req
    OBVIOUS
<1>2. l.pc = "check" /\ l.kind = "submit" /\ l \in Process /\ policy \in [Types -> Policies] /\ new = now
      /\ now[1] = balances /\ l.todo # {}
    BY DEF Serving, CheckFunds, At, Shape, Tables
<1>3. k \in l.todo /\ k \in Keys /\ now[1] \in [Keys -> Row] /\ now[1][k].exists
    BY <1>1, <1>2, KeyAtWork DEF CheckFunds
<1>4. SubmitAtWork(l, now, old) /\ r \in Request /\ InWindow(r) /\ old[1] \in [Keys -> Row]
    BY <1>1, <1>2, KindAtWork, RequestAtWork DEF Serving
<1>5. Checking(l, now[1], old[1])
    BY <1>2, <1>4 DEF SubmitAtWork, Reserving
<1>6. PICK bal : bal = now[1]
    OBVIOUS
<1>7. /\ Covers(bal, r, k) => CheckRows(bal, r, l.todo) = CheckRows(bal, r, left)
      /\ ~Covers(bal, r, k) => CheckRows(bal, r, l.todo) = bal
    <2>1. l.todo \in SUBSET KeysOf(r) /\ bal \in [Keys -> Row] /\ bal[FirstKey(l.todo)].exists
        BY <1>1, <1>3, <1>5, <1>6 DEF Checking
    <2> QED BY <1>1, <1>2, <1>4, <2>1, CheckOneYear
<1>8. CASE ~Covers(bal, r, k)
    <2>1. Goto(p, Idle)
        BY <1>1, <1>2, <1>6, <1>8 DEF CheckFunds, Covers
    <2>2. LedgerMoves(old, new)
        BY <2>1, Handover DEF Serving
    <2>3. new[1] = CheckRows(old[1], r, KeysOf(r)) /\ k \in KeysOf(r) /\ l.tracked
        BY <1>1, <1>2, <1>3, <1>5, <1>6, <1>7, <1>8 DEF Checking
    <2>4. new[2] = old[2] /\ new[3] = old[3] /\ Asked(l, old)
        BY <1>2, <1>4 DEF SubmitAtWork, Untouched
    <2>5. Ledger!Next
        BY <1>1, <1>2, <1>6, <1>8, <2>2, <2>3, <2>4, LedgerRefuses DEF Serving
    <2>6. Regular(new[2])
        BY <2>4 DEF Serving
    <2> QED BY <2>1, <2>5, <2>6 DEF Served
<1>9. CASE Covers(bal, r, k)
    <2>1. PICK m : Goto(p, m) /\ m = IF left # {} THEN [l EXCEPT !.todo = left]
                                     ELSE [l EXCEPT !.pc = "balance", !.todo = KeysOf(r)]
        BY <1>1, <1>2, <1>6, <1>9 DEF CheckFunds, Covers
    <2>2. /\ Continues(l, m) /\ m.ending = l.ending
          /\ left # {} => m.pc = "check" /\ m.todo = left
          /\ left = {} => m.pc = "balance" /\ m.todo = KeysOf(r)
        BY <1>2, <2>1 DEF Process, Continues
    <2>3. \A j \in KeysOf(r) \ left : bal[j].exists /\ Covers(bal, r, j)
        BY <1>1, <1>3, <1>5, <1>6, <1>9 DEF Checking
    <2>4. CheckRows(bal, r, left) = CheckRows(old[1], r, KeysOf(r)) /\ left \subseteq KeysOf(r) /\ l.tracked
        BY <1>1, <1>5, <1>6, <1>7, <1>9 DEF Checking
    <2>5. Reserving(m, new[1], old[1])
        <3>1. CASE left # {}
            BY <1>1, <1>2, <1>6, <2>2, <2>3, <2>4, <3>1 DEF Reserving, Checking, Continues
        <3>2. CASE left = {}
            <4>1. bal = Granted(l, old[1])
                BY <1>1, <1>2, <2>4, <3>2, NothingToCheck DEF Granted
            <4>2. ChargeTodo(bal, r, KeysOf(r), PendingSign(l), UsedSign(l)) = Target(l, old[1])
                BY <1>1, <2>4, <4>1 DEF Target
            <4>3. Afforded(l, old[1])
                BY <1>1, <2>3, <3>2, <4>1 DEF Afforded
            <4>4. m.req = r /\ m.tracked /\ m.todo = KeysOf(r)
                BY <1>1, <2>2, <2>4, <3>2 DEF Continues
            <4>5. PendingSign(m) = PendingSign(l) /\ UsedSign(m) = UsedSign(l)
                  /\ Target(m, old[1]) = Target(l, old[1]) /\ Afforded(m, old[1])
                BY <2>2, <4>3, SameCase
            <4>6. Booking(m, new[1], old[1])
                BY <1>2, <1>6, <4>2, <4>4, <4>5 DEF Booking
            <4> QED BY <2>2, <3>2, <4>5, <4>6 DEF Reserving
        <3> QED BY <3>1, <3>2
    <2>6. RowReady(m, new[1]) /\ m.pc \in {"check", "balance"}
        BY <2>2 DEF RowReady
    <2>7. AtWork(m, new, old)
        BY <1>2, <2>2, <2>5, <2>6, StillReserving DEF Serving, Deciding
    <2> QED BY <2>1, <2>6, <2>7 DEF Served
<1> QED BY <1>8, <1>9

(* What the handler makes of a row is what chargeBalances makes of it.     *)
LEMMA ChangedIsCharged ==
    ASSUME NEW l, NEW row, NEW days \in Int, l.kind \in {"submit"} \cup Deciding
    PROVE  Changed(l, row, days) = ApplyToBalance(row, PendingSign(l) * days, UsedSign(l) * days)
<1>1. 1 * days = days /\ 0 * days = 0 /\ -1 * days = -days
    OBVIOUS
<1>2. CASE l.kind = "submit"
    BY <1>1, <1>2 DEF Changed, PendingSign, UsedSign
<1>3. CASE l.kind = "approve"
    BY <1>1, <1>3 DEF Changed, PendingSign, UsedSign
<1>4. CASE l.kind = "reject"
    BY <1>1, <1>4 DEF Changed, PendingSign, UsedSign
<1>5. CASE l.kind = "cancel"
    BY <1>1, <1>5 DEF Changed, PendingSign, UsedSign
<1> QED BY <1>2, <1>3, <1>4, <1>5 DEF Deciding

LEMMA ChangedContinues ==
    ASSUME NEW l, NEW m, Continues(l, m)
    PROVE  \A row, days : Changed(m, row, days) = Changed(l, row, days)
BY Zenon DEF Continues, Changed

LEMMA ReadBalanceServes ==
    ASSUME NEW p \in Procs, NEW l, NEW now, NEW old, NEW new, l = procs[p], now = Tables, old = base,
           new = Tables', Serving(l, now, old), ReadBalance(p)
    PROVE  Served(p, old, new)
<1>1. PICK k, left, bal : k = FirstKey(l.todo) /\ left = l.todo \ {k} /\ bal = now[1]
    OBVIOUS
<1>2. l.pc = "balance" /\ l \in Process /\ Shape(l) /\ policy \in [Types -> Policies] /\ new = now
      /\ bal = balances /\ old \in TableTypes
    BY <1>1 DEF Serving, ReadBalance, At, Tables
<1>3. k \in l.todo /\ k \in Keys /\ l.todo \in SUBSET Keys /\ bal \in [Keys -> Row] /\ bal[k].exists
    BY <1>1, <1>2, KeyAtWork DEF ReadBalance
<1>4. PICK row : row = Changed(l, bal[k], l.req.allocations[k[3]])
    OBVIOUS
<1>5. CASE l.kind = "view"
    <2>1. ViewAtWork(l, now, old)
        BY <1>5, KindAtWork DEF Serving
    <2>2. PICK e \in Employees, y \in Years :
              l.todo \subseteq ViewKeys(e, y) /\ Seen(now[1], l.todo) = Seen(old[1], ViewKeys(e, y))
        BY <2>1 DEF ViewAtWork
    <2>3. Seen(bal, left) = Seen(old[1], ViewKeys(e, y)) /\ Seen(bal, {}) = bal
        <3>1. l.todo \subseteq Keys /\ k \in l.todo /\ left = l.todo \ {k}
            BY <1>1, <1>3
        <3>2. policy \in [Types -> Policies] /\ bal \in [Keys -> Row] /\ bal[k].exists
            BY <1>2, <1>3
        <3>3. Seen(bal, l.todo) = Seen(bal, left) /\ Seen(bal, {}) = bal
            BY <3>1, <3>2, EnsuredIsTheRow DEF Seen
        <3> QED BY <1>1, <2>2, <3>3
    <2>4. CASE left = {}
        <3>1. Goto(p, Idle)
            BY <1>1, <1>5, <2>4 DEF ReadBalance
        <3>2. LedgerMoves(old, new)
            BY <3>1, Handover DEF Serving
        <3>3. new[2] = old[2] /\ new[3] = old[3] /\ Regular(new[2])
            BY <1>2, <2>1 DEF ViewAtWork, Untouched, Serving
        <3>4. new[1] = Seen(old[1], ViewKeys(e, y))
            BY <1>1, <1>2, <2>3, <2>4
        <3>5. Ledger!Next
            BY <1>2, <3>2, <3>3, <3>4, LedgerShows
        <3> QED BY <3>1, <3>3, <3>5 DEF Served
    <2>5. CASE left # {}
        <3>1. PICK m : Goto(p, m) /\ m = [l EXCEPT !.todo = left]
            BY <1>1, <1>5, <2>5 DEF ReadBalance
        <3>2. Continues(l, m) /\ m.todo = left /\ m.pc = "balance" /\ m.kind = "view"
            BY <1>2, <1>5, <3>1 DEF Process, Continues
        <3>3. ViewAtWork(m, new, old)
            BY <1>1, <1>2, <2>1, <2>2, <2>3, <3>2 DEF ViewAtWork, RowReady
        <3> QED BY <3>1, <3>2, <3>3 DEF Served, AtWork
    <2> QED BY <2>4, <2>5
<1>6. CASE l.kind = "adjust" /\ Available(bal[k], today) + l.delta < 0
    <2>1. AdjustAtWork(l, now, old)
        BY <1>6, KindAtWork DEF Serving
    <2>2. l.todo = {k} /\ policy[k[2]].requiresBalance /\ old[1][k].adjustment + l.delta <= MaxAdjustment
          /\ Corrected(bal, k, l.delta) = Corrected(old[1], k, l.delta) /\ l.delta \in Deltas
        BY <1>1, <1>3, <2>1 DEF AdjustAtWork
    <2>3. Corrected(bal, k, l.delta) = bal
        BY <1>2, <1>3, <1>6, EnsuredIsTheRow DEF Corrected
    <2>4. Goto(p, Idle)
        BY <1>1, <1>2, <1>6 DEF ReadBalance
    <2>5. LedgerMoves(old, new)
        BY <2>4, Handover DEF Serving
    <2>6. new[2] = old[2] /\ new[3] = old[3] /\ Regular(new[2])
        BY <1>2, <2>1 DEF AdjustAtWork, Untouched, Serving
    <2>7. new[1] = Corrected(old[1], k, l.delta)
        BY <1>1, <1>2, <2>2, <2>3
    <2>8. Ledger!Next
        BY <1>2, <1>3, <2>2, <2>5, <2>6, <2>7, LedgerAdjusts
    <2> QED BY <2>4, <2>6, <2>8 DEF Served
<1>7. CASE l.kind # "view" /\ ~(l.kind = "adjust" /\ Available(bal[k], today) + l.delta < 0)
    <2>1. PICK m : Goto(p, m) /\ m = [l EXCEPT !.pc = "save", !.row = row]
        BY <1>1, <1>2, <1>4, <1>7 DEF ReadBalance
    <2>2. Continues(l, m) /\ m.todo = l.todo /\ m.pc = "save" /\ m.row = row /\ m.ending = l.ending
        BY <1>2, <2>1 DEF Process, Continues
    <2>3. RowReady(m, new[1])
        <3>1. m.row = Changed(m, bal[k], m.req.allocations[k[3]])
            BY <1>4, <2>2, ChangedContinues DEF Continues
        <3> QED BY <1>1, <1>2, <1>3, <2>2, <3>1 DEF RowReady
    <2>4. AtWork(m, new, old)
        <3>1. CASE l.kind \in {"submit"} \cup Deciding
            <4>1. Booking(l, now[1], old[1]) /\ Afforded(l, old[1])
                BY <1>2, <3>1, ReservingAtWork DEF Reserving
            <4>2. Booking(m, new[1], old[1]) /\ Afforded(m, old[1])
                BY <1>2, <2>2, <4>1, SameBooking
            <4>3. Reserving(m, new[1], old[1])
                BY <2>2, <4>2 DEF Reserving
            <4> QED BY <1>2, <2>2, <2>3, <3>1, <4>3, StillReserving DEF Serving
        <3>2. CASE l.kind = "adjust"
            <4>1. AdjustAtWork(l, now, old)
                BY <3>2, KindAtWork DEF Serving
            <4>2. ~(Available(bal[k], today) + l.delta < 0) /\ l.todo = {k}
                BY <1>3, <1>7, <3>2, <4>1 DEF AdjustAtWork
            <4>3. AdjustAtWork(m, new, old)
                BY <1>1, <1>2, <1>3, <2>2, <2>3, <4>1, <4>2 DEF AdjustAtWork, Continues
            <4> QED BY <4>3 DEF AtWork
        <3> QED BY <1>2, <1>7, <3>1, <3>2 DEF Shape
    <2> QED BY <2>1, <2>2, <2>4 DEF Served
<1> QED BY <1>5, <1>6, <1>7

LEMMA SaveBalanceServes ==
    ASSUME NEW p \in Procs, NEW l, NEW now, NEW old, NEW new, l = procs[p], now = Tables, old = base,
           new = Tables', Serving(l, now, old), SaveBalance(p)
    PROVE  Served(p, old, new)
<1>1. PICK k, left, bal : k = FirstKey(l.todo) /\ left = l.todo \ {k} /\ bal = now[1]
    OBVIOUS
<1>2. l.pc = "save" /\ l \in Process /\ Shape(l) /\ policy \in [Types -> Policies]
      /\ new[2] = now[2] /\ new[3] = now[3] /\ bal = balances /\ old \in TableTypes
    BY <1>1 DEF Serving, SaveBalance, At, Tables
<1>3. /\ k \in l.todo /\ k \in Keys /\ l.todo \in SUBSET Keys /\ bal \in [Keys -> Row] /\ bal[k].exists
      /\ l.row = Changed(l, bal[k], l.req.allocations[k[3]])
    <2>1. l.pc \in {"check", "insertC", "balance", "insertB", "save"}
        BY <1>2
    <2>2. /\ FirstKey(l.todo) \in l.todo /\ FirstKey(l.todo) \in Keys /\ l.todo \in SUBSET Keys
          /\ now[1] \in [Keys -> Row] /\ RowReady(l, now[1])
        BY <2>1, KeyAtWork
    <2>3. /\ now[1][FirstKey(l.todo)].exists
          /\ l.row = Changed(l, now[1][FirstKey(l.todo)], l.req.allocations[FirstKey(l.todo)[3]])
        BY <1>2, <2>2 DEF RowReady
    <2> QED BY <1>1, <2>2, <2>3
<1>4. new[1] = [bal EXCEPT ![k] = l.row]
    BY <1>1, <1>2 DEF SaveBalance, Tables
<1>5. CASE l.kind = "adjust"
    <2>1. AdjustAtWork(l, now, old)
        BY <1>5, KindAtWork DEF Serving
    <2>2. l.todo = {k} /\ policy[k[2]].requiresBalance /\ old[1][k].adjustment + l.delta <= MaxAdjustment
          /\ Corrected(bal, k, l.delta) = Corrected(old[1], k, l.delta) /\ l.delta \in Deltas
          /\ ~(Available(bal[k], today) + l.delta < 0)
        BY <1>1, <1>2, <1>3, <2>1 DEF AdjustAtWork
    <2>3. Corrected(bal, k, l.delta) = [bal EXCEPT ![k].adjustment = @ + l.delta]
        BY <1>2, <1>3, <2>2, EnsuredIsTheRow DEF Corrected
    <2>4. l.row = [bal[k] EXCEPT !.adjustment = @ + l.delta]
        BY <1>3, <1>5 DEF Changed
    <2>5. Goto(p, Idle)
        BY <1>1, <1>5, <2>2 DEF SaveBalance
    <2>6. LedgerMoves(old, new)
        BY <2>5, Handover DEF Serving
    <2>7. new[2] = old[2] /\ new[3] = old[3] /\ Regular(new[2])
        BY <1>2, <2>1 DEF AdjustAtWork, Untouched, Serving
    <2>8. new[1] = Corrected(old[1], k, l.delta)
        BY <1>4, <2>2, <2>3, <2>4
    <2>9. Ledger!Next
        BY <1>2, <1>3, <2>2, <2>6, <2>7, <2>8, LedgerAdjusts
    <2> QED BY <2>5, <2>7, <2>9 DEF Served
<1>6. CASE l.kind # "adjust"
    <2>1. l.kind \in {"submit"} \cup Deciding
        BY <1>2, <1>6 DEF Shape
    <2>2. l.req \in Request /\ InWindow(l.req) /\ Booking(l, bal, old[1]) /\ Afforded(l, old[1])
        <3>1. l.req \in Request /\ InWindow(l.req)
            BY <2>1, RequestAtWork
        <3>2. Reserving(l, bal, old[1])
            BY <1>1, <2>1, ReservingAtWork
        <3> QED BY <1>2, <3>1, <3>2 DEF Reserving
    <2>3. PICK a, b, T : a = PendingSign(l) /\ b = UsedSign(l) /\ T = Target(l, old[1])
        OBVIOUS
    <2>4. new[1] = ChargeKey(bal, k, l.req, a, b)
        <3>1. l.req.allocations[k[3]] \in Int
            BY <1>3, <2>2 DEF Request, Keys
        <3>2. l.row = ApplyToBalance(bal[k], a * l.req.allocations[k[3]], b * l.req.allocations[k[3]])
            BY <1>3, <2>1, <2>3, <3>1, ChangedIsCharged
        <3>3. Ensured(bal, k) = bal
            BY <1>2, <1>3, EnsuredIsTheRow
        <3> QED BY <1>4, <3>2, <3>3 DEF ChargeKey
    <2>5. ChargeTodo(new[1], l.req, left, a, b) = T
        <3>1. l.todo \in SUBSET KeysOf(l.req) /\ l.todo # {}
            BY <1>3, <2>2 DEF Booking
        <3>2. ChargeTodo(bal, l.req, l.todo, a, b) = T
            BY <2>2, <2>3 DEF Booking
        <3> QED BY <1>1, <2>2, <2>4, <3>1, <3>2, ChargeOneYear
    <2>6. PICK m : Goto(p, m) /\ m = IF left # {} THEN [l EXCEPT !.pc = "balance", !.todo = left, !.row = NoRow]
                                     ELSE [l EXCEPT !.pc = "record", !.todo = {}, !.row = NoRow]
        BY <1>1, <1>6 DEF SaveBalance
    <2>7. Continues(l, m) /\ m.todo = left /\ m.ending = l.ending /\ m.pc = IF left # {} THEN "balance" ELSE "record"
        BY <1>2, <2>6 DEF Process, Continues
    <2>8. PendingSign(m) = a /\ UsedSign(m) = b /\ Target(m, old[1]) = T /\ Afforded(m, old[1])
        BY <2>2, <2>3, <2>7, SameCase
    <2>9. Reserving(m, new[1], old[1])
        <3>1. CASE left # {}
            <4>1. m.req = l.req /\ m.tracked /\ m.todo \subseteq KeysOf(m.req)
                BY <1>1, <2>2, <2>7 DEF Booking, Continues
            <4>2. Booking(m, new[1], old[1])
                BY <2>5, <2>7, <2>8, <4>1 DEF Booking
            <4> QED BY <2>7, <2>8, <3>1, <4>2 DEF Reserving
        <3>2. CASE left = {}
            BY <2>5, <2>7, <2>8, <3>2, NothingToCharge DEF Reserving
        <3> QED BY <3>1, <3>2
    <2>10. RowReady(m, new[1]) /\ m.pc # "idle"
        BY <2>7 DEF RowReady
    <2>11. AtWork(m, new, old)
        BY <1>2, <2>1, <2>7, <2>9, <2>10, StillReserving DEF Serving
    <2> QED BY <2>6, <2>10, <2>11 DEF Served
<1> QED BY <1>5, <1>6

-----------------------------------------------------------------------------
(* Decisions from the update of the request on.                            *)
LEMMA DecidedStatus ==
    ASSUME NEW r \in Request, NEW s
    PROVE  [r EXCEPT !.status = s] = Decided(r, s, r.statusApplied)
BY DEF Decided, Request

LEMMA SettlingRequests ==
    ASSUME NEW l \in Process, NEW old \in TableTypes, Chosen(l, old), NEW s
    PROVE  /\ old[2][l.id] = l.req /\ l.id \in RequestIds /\ l.req \in Request
           /\ l.req.employee \in Employees /\ l.req.statusApplied \in BOOLEAN
           /\ [old[2] EXCEPT ![l.id].status = s] = [old[2] EXCEPT ![l.id] = Decided(l.req, s, l.req.statusApplied)]
<1>1. old[2][l.id] = l.req /\ l.id \in RequestIds /\ l.req \in Request
    BY DEF Chosen, Process
<1>2. l.req.employee \in Employees /\ l.req.statusApplied \in BOOLEAN
    BY <1>1 DEF Request
<1>3. [old[2] EXCEPT ![l.id].status = s] = [old[2] EXCEPT ![l.id] = [l.req EXCEPT !.status = s]]
    BY <1>1
<1> QED BY <1>1, <1>2, <1>3, DecidedStatus

LEMMA DecisionEnds ==
    ASSUME NEW p \in Procs, NEW l, NEW now, NEW old, NEW new, l = procs[p], now = Tables, old = base,
           new = Tables', Serving(l, now, old), l.kind \in Deciding, Goto(p, Idle),
           new[1] = Target(l, old[1]), new[2] = SettledReqs(l, old), new[3] = SettledEmps(l, old)
    PROVE  Served(p, old, new)
<1>1. DecisionAtWork(l, now, old)
    BY KindAtWork DEF Serving
<1>2. l \in Process /\ old \in TableTypes /\ policy \in [Types -> Policies] /\ Chosen(l, old)
      /\ InWindow(l.req) /\ Regular(old[2])
    BY <1>1, RequestAtWork DEF Serving, DecisionAtWork
<1>3. LedgerMoves(old, new)
    BY <1>2, Handover
<1>4. Ledger!Next
    BY <1>2, <1>3, LedgerDecides
<1>5. Regular(new[2])
    BY <1>2, RegularAfterDecision
<1> QED BY <1>4, <1>5 DEF Served

LEMMA DecisionContinues ==
    ASSUME NEW p \in Procs, NEW l, NEW now, NEW old, NEW new, l = procs[p], now = Tables, old = base,
           new = Tables', Serving(l, now, old), l.kind \in Deciding,
           NEW m, Goto(p, m), Continues(l, m), m.pc \in {"enter", "return", "write", "flag", "revert"},
           new[1] = Target(l, old[1]), Settling(m, new, old)
    PROVE  Served(p, old, new)
<1>1. DecisionAtWork(l, now, old) /\ l.kind # "submit"
    BY KindAtWork DEF Serving, Deciding
<1>2. m.kind = l.kind /\ Chosen(m, old) /\ Target(m, old[1]) = Target(l, old[1])
    BY <1>1, SameCase DEF DecisionAtWork, Continues
<1>3. Reserving(m, new[1], old[1])
    BY <1>1, <1>2 DEF Reserving, Afforded
<1>4. RowReady(m, new[1])
    BY DEF RowReady
<1>5. DecisionAtWork(m, new, old)
    BY <1>2, <1>3, <1>4 DEF DecisionAtWork
<1> QED BY <1>5 DEF Served, AtWork

LEMMA RecordSubmits ==
    ASSUME NEW p \in Procs, NEW l, NEW now, NEW old, NEW new, l = procs[p], now = Tables, old = base,
           new = Tables', Serving(l, now, old), Record(p), l.kind = "submit"
    PROVE  Served(p, old, new)
<1>1. l.pc = "record" /\ l \in Process /\ Shape(l) /\ KeysOf(l.req) # {} /\ policy \in [Types -> Policies]
      /\ old \in TableTypes /\ Regular(old[2])
    BY DEF Serving, Record, At, Shape
<1>2. SubmitAtWork(l, now, old)
    BY KindAtWork DEF Serving
<1>3. Asked(l, old) /\ now[2] = old[2] /\ now[3] = old[3] /\ now[1] = Target(l, old[1]) /\ Afforded(l, old[1])
    BY <1>1, <1>2 DEF SubmitAtWork, Untouched, Reserving
<1>4. Goto(p, Idle) /\ new[1] = now[1] /\ new[2] = [now[2] EXCEPT ![l.id] = l.req] /\ new[3] = now[3]
    BY DEF Record, Tables
<1>5. LedgerMoves(old, new)
    BY <1>1, <1>4, Handover
<1>6. Ledger!Next
    BY <1>1, <1>3, <1>4, <1>5, LedgerSubmits
<1>7. Regular(new[2])
    BY <1>1, <1>3, <1>4, RegularAfterSubmit
<1> QED BY <1>4, <1>6, <1>7 DEF Served

LEMMA RecordServes ==
    ASSUME NEW p \in Procs, NEW l, NEW now, NEW old, NEW new, l = procs[p], now = Tables, old = base,
           new = Tables', Serving(l, now, old), Record(p)
    PROVE  Served(p, old, new)
<1>1. CASE l.kind = "submit"
    BY <1>1, RecordSubmits
<1>2. CASE l.kind \in Deciding
    <2>1. l.pc = "record" /\ l \in Process /\ old \in TableTypes /\ Regular(old[2])
        BY DEF Serving, Record, At
    <2>2. DecisionAtWork(l, now, old)
        BY <1>2, KindAtWork DEF Serving
    <2>3. Chosen(l, old) /\ now[2] = old[2] /\ now[3] = old[3] /\ now[1] = Target(l, old[1]) /\ ~l.ending
        BY <2>1, <2>2 DEF DecisionAtWork, Untouched, Reserving
    <2>4. PICK r : r = l.req
        OBVIOUS
    <2>5. PICK s : s = CASE l.kind = "approve" -> "APPROVED" [] l.kind = "reject" -> "REJECTED"
                         [] l.kind = "cancel" -> "CANCELLED"
        OBVIOUS
    <2>6. /\ old[2][l.id] = r /\ l.id \in RequestIds /\ r \in Request
          /\ [old[2] EXCEPT ![l.id].status = s] = [old[2] EXCEPT ![l.id] = Decided(r, s, r.statusApplied)]
        <3>1. /\ old[2][l.id] = l.req /\ l.id \in RequestIds /\ l.req \in Request
              /\ [old[2] EXCEPT ![l.id].status = s]
                     = [old[2] EXCEPT ![l.id] = Decided(l.req, s, l.req.statusApplied)]
            <4>1. l \in Process /\ old \in TableTypes /\ Chosen(l, old)
                BY <2>1, <2>3
            <4> QED BY <4>1, SettlingRequests
        <3> QED BY <2>4, <3>1
    <2>7. new[1] = Target(l, old[1]) /\ new[2] = [old[2] EXCEPT ![l.id].status = s] /\ new[3] = old[3]
        <3>1. requests' = [requests EXCEPT ![l.id] = [@ EXCEPT !.status = s]]
            BY <1>2, <2>5 DEF Record, Deciding
        <3> QED BY <2>3, <3>1 DEF Record, Tables
    <2>8. r.status = "PENDING" => ~r.statusApplied
        BY <2>1, <2>6 DEF Regular
    <2>9. r.statusApplied \in BOOLEAN
        BY <2>6 DEF Request
    <2>10. CASE l.kind = "approve" /\ l.active /\ Running(r)
        <3>1. PICK m : Goto(p, m) /\ m = [l EXCEPT !.pc = "enter"]
            BY <2>4, <2>10 DEF Record
        <3>2. Continues(l, m) /\ m.pc = "enter" /\ ~m.ending /\ m.kind = "approve"
            BY <2>1, <2>3, <2>10, <3>1 DEF Process, Continues
        <3>3. Effective(old[3], r)
            BY <2>3, <2>4, <2>10 DEF Effective, Chosen
        <3>4. Settling(m, new, old)
            BY <2>4, <2>5, <2>7, <2>10, <3>2, <3>3 DEF Settling, Continues
        <3> QED BY <1>2, <2>7, <3>1, <3>2, <3>4, DecisionContinues
    <2>11. CASE l.kind = "approve" /\ ~(l.active /\ Running(r))
        <3>1. Goto(p, Idle)
            BY <2>4, <2>11 DEF Record
        <3>2. ~Effective(old[3], r)
            BY <2>3, <2>4, <2>11 DEF Effective, Chosen
        <3>3. r.statusApplied = FALSE /\ Effective(old[3], r) = FALSE
            <4>1. r.status = "PENDING"
                BY <2>3, <2>4, <2>11 DEF Chosen
            <4>2. Effective(old[3], r) \in BOOLEAN
                BY DEF Effective
            <4> QED BY <2>8, <2>9, <3>2, <4>1, <4>2
        <3>4. new[2] = SettledReqs(l, old)
            <4>1. new[2] = [old[2] EXCEPT ![l.id] = Decided(r, "APPROVED", FALSE)]
                BY <2>5, <2>6, <2>7, <2>11, <3>3
            <4>2. SettledReqs(l, old) = [old[2] EXCEPT ![l.id] = Decided(r, "APPROVED", Effective(old[3], r))]
                BY <2>4, <2>11 DEF SettledReqs
            <4> QED BY <3>3, <4>1, <4>2
        <3>5. new[3] = SettledEmps(l, old)
            BY <2>4, <2>7, <2>11, <3>2 DEF SettledEmps
        <3> QED BY <1>2, <2>7, <3>1, <3>4, <3>5, DecisionEnds
    <2>12. CASE l.kind = "reject"
        <3>1. Goto(p, Idle)
            BY <2>12 DEF Record
        <3>2. new[2] = SettledReqs(l, old)
            BY <2>4, <2>5, <2>6, <2>7, <2>12 DEF SettledReqs
        <3>3. new[3] = SettledEmps(l, old)
            BY <2>7, <2>12 DEF SettledEmps
        <3> QED BY <1>2, <2>7, <3>1, <3>2, <3>3, DecisionEnds
    <2>13. CASE l.kind = "cancel" /\ r.statusApplied
        <3>1. PICK m : Goto(p, m) /\ m = [l EXCEPT !.pc = "revert", !.ending = TRUE]
            BY <2>4, <2>13 DEF Record
        <3>2. Continues(l, m) /\ m.pc = "revert" /\ m.ending /\ m.kind = "cancel"
            BY <2>1, <2>13, <3>1 DEF Process, Continues
        <3>3. Settling(m, new, old)
            BY <2>4, <2>5, <2>7, <2>13, <3>2 DEF Settling, Continues
        <3> QED BY <1>2, <2>7, <3>1, <3>2, <3>3, DecisionContinues
    <2>14. CASE l.kind = "cancel" /\ ~r.statusApplied
        <3>1. Goto(p, Idle)
            BY <2>4, <2>14 DEF Record
        <3>2. new[2] = SettledReqs(l, old)
            <4>1. r.statusApplied = FALSE
                BY <2>9, <2>14
            <4> QED BY <2>4, <2>5, <2>6, <2>7, <2>14, <4>1 DEF SettledReqs
        <3>3. new[3] = SettledEmps(l, old)
            BY <2>4, <2>7, <2>14 DEF SettledEmps
        <3> QED BY <1>2, <2>7, <3>1, <3>2, <3>3, DecisionEnds
    <2> QED BY <1>2, <2>10, <2>11, <2>12, <2>13, <2>14 DEF Deciding
<1> QED BY <1>1, <1>2 DEF Serving, Shape, Record, At

-----------------------------------------------------------------------------
(* The employee's status, in a decision and in the job.                    *)
LEMMA StartersDiffer ==
    ASSUME today \in Dates, NEW reqs \in [RequestIds -> Request], NEW emp, Regular(reqs),
           NEW i \in ToStart(reqs, emp), NEW j \in ToStart(reqs, emp), i # j
    PROVE  reqs[i].employee # reqs[j].employee
<1>1. i \in RequestIds /\ j \in RequestIds
    BY DEF ToStart
<1>2. /\ reqs[i].startDate \in Int /\ reqs[i].endDate \in Int /\ today \in Int
      /\ reqs[j].startDate \in Int /\ reqs[j].endDate \in Int
    BY <1>1 DEF Request, Dates
<1>3. /\ reqs[i].status \in ActiveStatuses /\ reqs[i].startDate <= today /\ reqs[i].endDate >= today
      /\ reqs[j].status \in ActiveStatuses /\ reqs[j].startDate <= today /\ reqs[j].endDate >= today
    BY DEF ToStart, ActiveStatuses, Effective, Running
<1>4. reqs[i].startDate <= reqs[j].endDate /\ reqs[i].endDate >= reqs[j].startDate
    BY <1>2, <1>3
<1>5. ~Overlaps(reqs[i], reqs[j].employee, reqs[j].startDate, reqs[j].endDate)
    BY <1>1, <1>3 DEF Regular
<1> QED BY <1>3, <1>4, <1>5 DEF Overlaps

LEMMA NoFlags ==
    ASSUME NEW reqs \in [RequestIds -> Request]
    PROVE  Flagged(reqs, {}) = reqs /\ Cleared(reqs, {}) = reqs
<1>1. ASSUME NEW j \in RequestIds
      PROVE  /\ [reqs[j] EXCEPT !.statusApplied = @ \/ j \in {}] = reqs[j]
             /\ [reqs[j] EXCEPT !.statusApplied = @ /\ j \notin {}] = reqs[j]
    <2>1. reqs[j].statusApplied \in BOOLEAN
        BY DEF Request
    <2>2. PICK b, c : b = (reqs[j].statusApplied \/ j \in {}) /\ c = (reqs[j].statusApplied /\ j \notin {})
        OBVIOUS
    <2>3. b = reqs[j].statusApplied /\ c = reqs[j].statusApplied
        BY <2>1, <2>2
    <2>4. [reqs[j] EXCEPT !.statusApplied = b] = reqs[j] /\ [reqs[j] EXCEPT !.statusApplied = c] = reqs[j]
        BY <2>3 DEF Request
    <2> QED BY <2>2, <2>4
<1> QED BY <1>1 DEF Flagged, Cleared

LEMMA FlagsOneByOne ==
    ASSUME NEW reqs \in [RequestIds -> Request], NEW i \in RequestIds, NEW ids
    PROVE  /\ Flagged([reqs EXCEPT ![i].statusApplied = TRUE], ids) = Flagged(reqs, ids \cup {i})
           /\ Cleared([reqs EXCEPT ![i].statusApplied = FALSE], ids) = Cleared(reqs, ids \cup {i})
<1>1. ASSUME NEW b \in BOOLEAN, NEW j \in RequestIds, NEW is, is = [reqs EXCEPT ![i].statusApplied = b]
      PROVE  /\ is[j] = IF j = i THEN [reqs[i] EXCEPT !.statusApplied = b] ELSE reqs[j]
             /\ reqs[j].statusApplied \in BOOLEAN
             /\ \A c : [[reqs[j] EXCEPT !.statusApplied = b] EXCEPT !.statusApplied = c]
                           = [reqs[j] EXCEPT !.statusApplied = c]
             /\ [reqs[j] EXCEPT !.statusApplied = b].statusApplied = b
             /\ [reqs[j] EXCEPT !.statusApplied = reqs[j].statusApplied] = reqs[j]
    BY <1>1 DEF Request
<1>2. PICK is : is = [reqs EXCEPT ![i].statusApplied = TRUE]
    OBVIOUS
<1>3. ASSUME NEW j \in RequestIds
      PROVE  [is[j] EXCEPT !.statusApplied = @ \/ j \in ids] = [reqs[j] EXCEPT !.statusApplied = @ \/ j \in ids \cup {i}]
    <2>1. CASE j = i
        <3>1. is[j] = [reqs[j] EXCEPT !.statusApplied = TRUE] /\ is[j].statusApplied = TRUE
            BY <1>1, <1>2, <2>1
        <3>2. (is[j].statusApplied \/ j \in ids) = TRUE /\ (reqs[j].statusApplied \/ j \in ids \cup {i}) = TRUE
            BY <2>1, <3>1
        <3> QED BY <1>1, <3>1, <3>2
    <2>2. CASE j # i
        <3>1. is[j] = reqs[j] /\ (j \in ids <=> j \in ids \cup {i})
            BY <1>1, <1>2, <2>2
        <3> QED BY <3>1
    <2> QED BY <2>1, <2>2
<1>4. PICK was : was = [reqs EXCEPT ![i].statusApplied = FALSE]
    OBVIOUS
<1>5. ASSUME NEW j \in RequestIds
      PROVE  [was[j] EXCEPT !.statusApplied = @ /\ j \notin ids] = [reqs[j] EXCEPT !.statusApplied = @ /\ j \notin ids \cup {i}]
    <2>1. CASE j = i
        <3>1. was[j] = [reqs[j] EXCEPT !.statusApplied = FALSE] /\ was[j].statusApplied = FALSE
            BY <1>1, <1>4, <2>1
        <3>2. (was[j].statusApplied /\ j \notin ids) = FALSE /\ (reqs[j].statusApplied /\ j \notin ids \cup {i}) = FALSE
            BY <2>1, <3>1
        <3> QED BY <1>1, <3>1, <3>2
    <2>2. CASE j # i
        <3>1. was[j] = reqs[j] /\ (j \notin ids <=> j \notin ids \cup {i})
            BY <1>1, <1>4, <2>2
        <3> QED BY <3>1
    <2> QED BY <2>1, <2>2
<1> QED BY <1>2, <1>3, <1>4, <1>5 DEF Flagged, Cleared

LEMMA StatusesOneByOne ==
    ASSUME NEW emp \in [Employees -> EmployeeStatus], NEW e \in Employees, NEW es
    PROVE  /\ OnLeave([emp EXCEPT ![e] = "ON_LEAVE"], es) = OnLeave(emp, es \cup {e})
           /\ emp[e] = "ON_LEAVE" => BackFrom([emp EXCEPT ![e] = "ACTIVE"], es) = BackFrom(emp, es \cup {e})
           /\ emp[e] # "ON_LEAVE" => BackFrom(emp, es) = BackFrom(emp, es \cup {e})
<1>1. OnLeave([emp EXCEPT ![e] = "ON_LEAVE"], es) = OnLeave(emp, es \cup {e})
    BY DEF OnLeave
<1>2. emp[e] = "ON_LEAVE" => BackFrom([emp EXCEPT ![e] = "ACTIVE"], es) = BackFrom(emp, es \cup {e})
    BY DEF BackFrom
<1>3. emp[e] # "ON_LEAVE" => BackFrom(emp, es) = BackFrom(emp, es \cup {e})
    BY DEF BackFrom
<1> QED BY <1>1, <1>2, <1>3

LEMMA EmployedOneByOne ==
    ASSUME NEW reqs, NEW i, NEW ids
    PROVE  Employed(reqs, ids \cup {i}) = Employed(reqs, ids) \cup {reqs[i].employee} /\ Employed(reqs, {}) = {}
BY DEF Employed

LEMMA SyncContinues ==
    ASSUME NEW p \in Procs, NEW l, NEW now, NEW old, NEW new, SyncAtWork(l, now, old),
           NEW m, Goto(p, m), m.kind = "sync", m.pc # "idle", new[1] = now[1],
           m.pc # "next" => m.id \in RequestIds /\ m.req.employee = old[2][m.id].employee,
           \A i \in RequestIds : new[2][i].employee = now[2][i].employee,
           InFirstLoop(m, new, old) \/ InSecondLoop(m, new, old)
    PROVE  Served(p, old, new)
<1>1. SyncAtWork(m, new, old)
    BY DEF SyncAtWork
<1> QED BY <1>1 DEF Served, AtWork

LEMMA CheckTransitionServes ==
    ASSUME NEW p \in Procs, NEW l, NEW now, NEW old, NEW new, l = procs[p], now = Tables, old = base,
           new = Tables', Serving(l, now, old), CheckTransition(p)
    PROVE  Served(p, old, new)
<1>1. l.pc \in {"enter", "return"} /\ l \in Process /\ new = now /\ old \in TableTypes /\ now[3] = empStatus
    BY DEF Serving, CheckTransition, Tables
<1>2. PICK e : e = l.req.employee
    OBVIOUS
<1>3. PICK m : m = [l EXCEPT !.pc = "write"]
    OBVIOUS
<1>4. /\ Continues(l, m) /\ m.pc = "write" /\ m.ending = l.ending
    BY <1>1, <1>3 DEF Process, Continues
<1>5. ASSUME now[3][e] = IF l.ending THEN "ON_LEAVE" ELSE "ACTIVE" PROVE Goto(p, m)
    <2>1. <<empStatus[e], IF l.ending THEN "ACTIVE" ELSE "ON_LEAVE">> \in StatusTransitions
        BY <1>1, <1>5 DEF StatusTransitions
    <2> QED BY <1>2, <1>3, <2>1 DEF CheckTransition
<1>6. CASE l.kind \in Deciding
    <2>1. DecisionAtWork(l, now, old)
        BY <1>6, KindAtWork DEF Serving
    <2>2. Settling(l, now, old) /\ new[1] = Target(l, old[1])
        BY <1>1, <2>1 DEF DecisionAtWork, Reserving
    <2>3. now[3][e] = IF l.ending THEN "ON_LEAVE" ELSE "ACTIVE"
        BY <1>1, <1>2, <2>2 DEF Settling, Effective
    <2>4. Settling(m, new, old)
        BY <1>1, <1>4, <2>2 DEF Settling, Continues
    <2> QED BY <1>4, <1>5, <1>6, <2>2, <2>3, <2>4, DecisionContinues
<1>7. CASE l.kind = "sync"
    <2>1. SyncAtWork(l, now, old)
        BY <1>7, KindAtWork DEF Serving
    <2>2. CASE InFirstLoop(l, now, old)
        <3>1. ~l.ending /\ l.pc = "enter" /\ now[3][e] = "ACTIVE"
            BY <1>1, <1>2, <2>1, <2>2 DEF InFirstLoop, SyncAtWork, Current
        <3>2. Current(m, {"enter", "write", "flag"}) = Current(l, {"enter", "write", "flag"})
              /\ Current(m, {"enter", "write"}) = Current(l, {"enter", "write"})
            BY <1>4, <3>1 DEF Current, Continues
        <3>3. InFirstLoop(m, new, old)
            BY <1>1, <1>4, <2>2, <3>1, <3>2 DEF InFirstLoop, Continues
        <3>4. Goto(p, m)
            BY <1>5, <3>1
        <3> QED BY <1>1, <1>4, <1>7, <2>1, <3>3, <3>4, SyncContinues DEF SyncAtWork, Continues
    <2>3. CASE InSecondLoop(l, now, old)
        <3>1. l.ending /\ l.pc = "return" /\ now[3][e] = "ON_LEAVE"
            BY <1>1, <1>2, <2>3 DEF InSecondLoop
        <3>2. Current(m, {"revert", "return", "write", "flag"}) = Current(l, {"revert", "return", "write", "flag"})
            BY <1>4, <3>1 DEF Current, Continues
        <3>3. InSecondLoop(m, new, old)
            BY <1>1, <1>2, <1>4, <2>3, <3>1, <3>2 DEF InSecondLoop, Continues
        <3>4. Goto(p, m)
            BY <1>5, <3>1
        <3> QED BY <1>1, <1>4, <1>7, <2>1, <3>3, <3>4, SyncContinues DEF SyncAtWork, Continues
    <2> QED BY <2>1, <2>2, <2>3 DEF SyncAtWork
<1> QED BY <1>1, <1>6, <1>7 DEF Serving, AtWork, SubmitAtWork, AdjustAtWork, ViewAtWork, DecisionAtWork, SyncAtWork

LEMMA WriteStatusServes ==
    ASSUME NEW p \in Procs, NEW l, NEW now, NEW old, NEW new, l = procs[p], now = Tables, old = base,
           new = Tables', Serving(l, now, old), WriteStatus(p)
    PROVE  Served(p, old, new)
<1>1. l.pc = "write" /\ l \in Process /\ new[1] = now[1] /\ new[2] = now[2] /\ now \in TableTypes
      /\ old \in TableTypes /\ Regular(old[2]) /\ today \in Dates
    BY DEF Serving, WriteStatus, At, Tables
<1>2. PICK e : e = l.req.employee
    OBVIOUS
<1>3. PICK m : Goto(p, m) /\ m = [l EXCEPT !.pc = "flag"]
    BY DEF WriteStatus
<1>4. /\ Continues(l, m) /\ m.pc = "flag" /\ m.ending = l.ending
    BY <1>1, <1>3 DEF Process, Continues
<1>5. new[3] = [now[3] EXCEPT ![e] = IF l.ending THEN "ACTIVE" ELSE "ON_LEAVE"] /\ e \in Employees
      /\ now[3] \in [Employees -> EmployeeStatus] /\ old[2] \in [RequestIds -> Request]
    BY <1>1, <1>2, TablesAreTyped DEF WriteStatus, Tables, Process, Request
<1>6. CASE l.kind \in Deciding
    <2>1. DecisionAtWork(l, now, old)
        BY <1>6, KindAtWork DEF Serving
    <2>2. Settling(l, now, old) /\ new[1] = Target(l, old[1])
        BY <1>1, <2>1 DEF DecisionAtWork, Reserving
    <2>3. Settling(m, new, old)
        BY <1>1, <1>2, <1>4, <1>5, <2>2 DEF Settling, Continues
    <2> QED BY <1>3, <1>4, <1>6, <2>2, <2>3, DecisionContinues
<1>7. CASE l.kind = "sync"
    <2>1. SyncAtWork(l, now, old) /\ e = old[2][l.id].employee
        BY <1>1, <1>2, <1>7, KindAtWork DEF Serving, SyncAtWork
    <2>2. PICK R, q, i : R = old[2] /\ q = l.queue /\ i = l.id
        OBVIOUS
    <2>3. m.queue = q /\ m.id = i /\ e = R[i].employee
        BY <1>4, <2>1, <2>2 DEF Continues
    <2>4. /\ m.kind = "sync" /\ m.pc # "idle" /\ m.id \in RequestIds /\ m.req.employee = old[2][m.id].employee
          /\ \A j \in RequestIds : new[2][j].employee = now[2][j].employee
        BY <1>1, <1>4, <1>7, <2>1 DEF SyncAtWork, Continues
    <2>5. CASE InFirstLoop(l, now, old)
        <3>1. Current(l, {"enter", "write", "flag"}) = {i} /\ Current(l, {"enter", "write"}) = {i}
              /\ Current(m, {"enter", "write", "flag"}) = {i} /\ Current(m, {"enter", "write"}) = {}
            BY <1>1, <1>4, <2>2, <2>3 DEF Current
        <3>2. /\ ~l.ending /\ q \cup {i} \subseteq ToStart(R, old[3]) /\ i \notin q
              /\ Flagged(now[2], q \cup {i}) = StartedReqs(old)
              /\ OnLeave(now[3], Employed(R, q \cup {i})) = StartedEmps(old)
              /\ \A j \in q \cup {i} : now[3][R[j].employee] = "ACTIVE"
            BY <1>1, <2>2, <2>5, <3>1 DEF InFirstLoop
        <3>3. OnLeave(new[3], Employed(R, q)) = StartedEmps(old)
            BY <1>5, <2>3, <3>2, StatusesOneByOne, EmployedOneByOne
        <3>4. ASSUME NEW j \in q PROVE new[3][R[j].employee] = "ACTIVE"
            <4>1. R[j].employee # e
                BY <1>1, <1>5, <2>2, <2>3, <3>2, StartersDiffer
            <4>2. R[j].employee \in Employees
                BY <1>5, <2>2, <3>2 DEF ToStart, Request
            <4> QED BY <1>5, <3>2, <4>1, <4>2
        <3>5. q \cup {} = q
            OBVIOUS
        <3>6. InFirstLoop(m, new, old)
            BY <1>1, <1>4, <2>2, <2>3, <3>1, <3>2, <3>3, <3>4, <3>5 DEF InFirstLoop
        <3> QED BY <1>1, <1>3, <2>1, <2>4, <3>6, SyncContinues
    <2>6. CASE InSecondLoop(l, now, old)
        <3>1. Current(l, {"revert", "return", "write", "flag"}) = {i}
              /\ Current(m, {"revert", "return", "write", "flag"}) = {i}
            BY <1>1, <1>4, <2>2, <2>3 DEF Current
        <3>2. PICK ends : ends = ToEnd(StartedReqs(old))
            OBVIOUS
        <3>3. /\ l.ending /\ q \cup {i} \subseteq ends
              /\ Cleared(now[2], q \cup {i}) = Cleared(StartedReqs(old), ends)
              /\ BackFrom(now[3], Employed(R, q \cup {i})) = BackFrom(StartedEmps(old), Employed(R, ends))
              /\ now[3][e] = "ON_LEAVE"
            BY <1>1, <1>2, <2>2, <2>6, <3>1, <3>2 DEF InSecondLoop
        <3>4. e \in Employed(R, q \cup {i})
            BY <2>3 DEF Employed
        <3>5. BackFrom(new[3], Employed(R, q \cup {i})) = BackFrom(now[3], Employed(R, q \cup {i}))
            BY <1>5, <3>3, <3>4 DEF BackFrom
        <3>6. new[3][e] # "ON_LEAVE"
            BY <1>5, <3>3
        <3>7. m.req.employee = e
            BY <1>2, <1>4 DEF Continues
        <3>8. InSecondLoop(m, new, old)
            BY <1>1, <1>4, <2>2, <2>3, <3>1, <3>2, <3>3, <3>5, <3>6, <3>7 DEF InSecondLoop
        <3> QED BY <1>1, <1>3, <2>1, <2>4, <3>8, SyncContinues
    <2> QED BY <2>1, <2>5, <2>6 DEF SyncAtWork
<1> QED BY <1>1, <1>6, <1>7 DEF Serving, AtWork, SubmitAtWork, AdjustAtWork, ViewAtWork, DecisionAtWork, SyncAtWork

LEMMA WriteFlagServes ==
    ASSUME NEW p \in Procs, NEW l, NEW now, NEW old, NEW new, l = procs[p], now = Tables, old = base,
           new = Tables', Serving(l, now, old), WriteFlag(p)
    PROVE  Served(p, old, new)
<1>1. l.pc = "flag" /\ l \in Process /\ new[1] = now[1] /\ new[3] = now[3] /\ now \in TableTypes
      /\ old \in TableTypes /\ Regular(old[2])
    BY DEF Serving, WriteFlag, At, Tables
<1>2. new[2] = [now[2] EXCEPT ![l.id].statusApplied = ~l.ending]
      /\ now[2] \in [RequestIds -> Request] /\ now[3] \in [Employees -> EmployeeStatus] /\ old[2] \in [RequestIds -> Request]
      /\ old[3] \in [Employees -> EmployeeStatus]
    BY <1>1, TablesAreTyped DEF WriteFlag, Tables
<1>3. CASE l.kind \in Deciding
    <2>1. DecisionAtWork(l, now, old)
        BY <1>3, KindAtWork DEF Serving
    <2>2. Settling(l, now, old) /\ new[1] = Target(l, old[1]) /\ Chosen(l, old)
        BY <1>1, <2>1 DEF DecisionAtWork, Reserving
    <2>3. Goto(p, Idle)
        BY <1>3 DEF WriteFlag, Deciding
    <2>4. PICK r, i, s : r = l.req /\ i = l.id /\ s = IF l.kind = "approve" THEN "APPROVED" ELSE "CANCELLED"
        OBVIOUS
    <2>5. old[2][i] = r /\ i \in RequestIds /\ r \in Request
        BY <1>1, <2>2, <2>4, SettlingRequests
    <2>6. now[2] = [old[2] EXCEPT ![i].status = s]
        BY <2>2, <2>4 DEF Settling
    <2>7. PICK b : b = ~l.ending
        OBVIOUS
    <2>8. new[2] = [old[2] EXCEPT ![i] = Decided(r, s, b)]
        <3>1. now[2] = [old[2] EXCEPT ![i] = [r EXCEPT !.status = s]]
            BY <2>5, <2>6
        <3>2. new[2] = [now[2] EXCEPT ![i].statusApplied = b]
            BY <1>2, <2>4, <2>7
        <3>3. new[2] = [old[2] EXCEPT ![i] = [[r EXCEPT !.status = s] EXCEPT !.statusApplied = b]]
            BY <1>2, <2>5, <3>1, <3>2
        <3>4. [[r EXCEPT !.status = s] EXCEPT !.statusApplied = b] = Decided(r, s, b)
            BY Zenon DEF Decided
        <3> QED BY <3>3, <3>4
    <2>9. CASE l.kind = "approve"
        <3>1. Effective(old[3], r) /\ ~l.ending /\ now[3] = [old[3] EXCEPT ![r.employee] = "ON_LEAVE"]
            BY <1>1, <2>2, <2>4, <2>9 DEF Settling
        <3>2. b = Effective(old[3], r)
            BY <2>7, <3>1 DEF Effective
        <3>3. new[2] = SettledReqs(l, old)
            BY <2>4, <2>8, <2>9, <3>2 DEF SettledReqs
        <3>4. new[3] = SettledEmps(l, old)
            BY <1>1, <2>4, <2>9, <3>1 DEF SettledEmps
        <3> QED BY <1>3, <2>2, <2>3, <3>3, <3>4, DecisionEnds
    <2>10. CASE l.kind = "cancel"
        <3>1. l.ending /\ r.statusApplied
              /\ now[3] = IF old[3][r.employee] = "ON_LEAVE" THEN [old[3] EXCEPT ![r.employee] = "ACTIVE"] ELSE old[3]
            BY <1>1, <2>2, <2>4, <2>10 DEF Settling
        <3>2. b = FALSE
            BY <2>7, <3>1
        <3>3. new[2] = SettledReqs(l, old)
            BY <2>4, <2>8, <2>10, <3>2 DEF SettledReqs
        <3>4. new[3] = SettledEmps(l, old)
            BY <1>1, <2>4, <2>10, <3>1 DEF SettledEmps
        <3> QED BY <1>3, <2>2, <2>3, <3>3, <3>4, DecisionEnds
    <2> QED BY <2>2, <2>9, <2>10 DEF Settling
<1>4. CASE l.kind = "sync"
    <2>1. SyncAtWork(l, now, old) /\ l.id \in RequestIds /\ l.req.employee = old[2][l.id].employee
        BY <1>1, <1>4, KindAtWork DEF Serving, SyncAtWork
    <2>2. PICK R, q, i, e : R = old[2] /\ q = l.queue /\ i = l.id /\ e = l.req.employee
        OBVIOUS
    <2>3. PICK m : Goto(p, m) /\ m = [l EXCEPT !.pc = "next"]
        BY <1>4 DEF WriteFlag
    <2>4. Continues(l, m) /\ m.pc = "next" /\ m.ending = l.ending /\ m.queue = q /\ e = R[i].employee
        BY <1>1, <2>1, <2>2, <2>3 DEF Process, Continues
    <2>5. ASSUME NEW j \in RequestIds PROVE new[2][j].employee = now[2][j].employee
        BY <1>2, <2>1 DEF Request
    <2>6. /\ m.kind = "sync" /\ m.pc # "idle" /\ Goto(p, m) /\ new[1] = now[1]
          /\ m.pc # "next" => m.id \in RequestIds /\ m.req.employee = old[2][m.id].employee
          /\ \A j \in RequestIds : new[2][j].employee = now[2][j].employee
        BY <1>1, <1>4, <2>3, <2>4, <2>5 DEF Continues
    <2>7. CASE InFirstLoop(l, now, old)
        <3>1. Current(l, {"enter", "write", "flag"}) = {i} /\ Current(l, {"enter", "write"}) = {}
              /\ Current(m, {"enter", "write", "flag"}) = {} /\ Current(m, {"enter", "write"}) = {}
            BY <1>1, <2>2, <2>4 DEF Current
        <3>2. q \cup {} = q
            OBVIOUS
        <3>3. /\ ~l.ending /\ q \cup {i} \subseteq ToStart(R, old[3])
              /\ Flagged(now[2], q \cup {i}) = StartedReqs(old)
              /\ OnLeave(now[3], Employed(R, q)) = StartedEmps(old)
              /\ \A j \in q : now[3][R[j].employee] = "ACTIVE"
            BY <1>1, <2>2, <2>7, <3>1, <3>2 DEF InFirstLoop
        <3>4. new[2] = [now[2] EXCEPT ![i].statusApplied = TRUE]
            BY <1>2, <2>2, <3>3
        <3>5. Flagged(new[2], q) = StartedReqs(old)
            <4>1. i \in RequestIds /\ now[2] \in [RequestIds -> Request]
                BY <1>2, <2>1, <2>2
            <4>2. Flagged([now[2] EXCEPT ![i].statusApplied = TRUE], q) = Flagged(now[2], q \cup {i})
                BY <4>1, FlagsOneByOne
            <4> QED BY <3>3, <3>4, <4>2
        <3>6. InFirstLoop(m, new, old)
            BY <1>1, <2>2, <2>4, <3>1, <3>2, <3>3, <3>5 DEF InFirstLoop
        <3> QED BY <2>1, <2>6, <3>6, SyncContinues
    <2>8. CASE InSecondLoop(l, now, old)
        <3>1. Current(l, {"revert", "return", "write", "flag"}) = {i}
              /\ Current(m, {"revert", "return", "write", "flag"}) = {}
            BY <1>1, <2>2, <2>4 DEF Current
        <3>2. q \cup {} = q
            OBVIOUS
        <3>3. PICK ends : ends = ToEnd(StartedReqs(old))
            OBVIOUS
        <3>4. /\ l.ending /\ q \cup {i} \subseteq ends
              /\ Cleared(now[2], q \cup {i}) = Cleared(StartedReqs(old), ends)
              /\ BackFrom(now[3], Employed(R, q \cup {i})) = BackFrom(StartedEmps(old), Employed(R, ends))
              /\ now[3][e] # "ON_LEAVE"
            BY <1>1, <2>2, <2>8, <3>1, <3>3 DEF InSecondLoop
        <3>5. new[2] = [now[2] EXCEPT ![i].statusApplied = FALSE]
            BY <1>2, <2>2, <3>4
        <3>6. Cleared(new[2], q) = Cleared(StartedReqs(old), ends)
            <4>1. i \in RequestIds /\ now[2] \in [RequestIds -> Request]
                BY <1>2, <2>1, <2>2
            <4>2. Cleared([now[2] EXCEPT ![i].statusApplied = FALSE], q) = Cleared(now[2], q \cup {i})
                BY <4>1, FlagsOneByOne
            <4> QED BY <3>4, <3>5, <4>2
        <3>7. BackFrom(new[3], Employed(R, q)) = BackFrom(StartedEmps(old), Employed(R, ends))
            <4>1. e \in Employees
                BY <1>1, <2>2 DEF Process, Request
            <4>2. Employed(R, q \cup {i}) = Employed(R, q) \cup {e}
                BY <2>4, EmployedOneByOne
            <4>3. now[3] \in [Employees -> EmployeeStatus] /\ now[3][e] # "ON_LEAVE"
                BY <1>2, <3>4
            <4>4. BackFrom(now[3], Employed(R, q)) = BackFrom(now[3], Employed(R, q) \cup {e})
                BY <4>1, <4>3, StatusesOneByOne
            <4> QED BY <1>1, <3>4, <4>2, <4>4
        <3>8. InSecondLoop(m, new, old)
            BY <1>1, <2>2, <2>4, <3>1, <3>2, <3>3, <3>4, <3>6, <3>7 DEF InSecondLoop
        <3> QED BY <2>1, <2>6, <3>8, SyncContinues
    <2> QED BY <2>1, <2>7, <2>8 DEF SyncAtWork
<1> QED BY <1>1, <1>3, <1>4 DEF Serving, AtWork, SubmitAtWork, AdjustAtWork, ViewAtWork, DecisionAtWork, SyncAtWork

LEMMA RevertServes ==
    ASSUME NEW p \in Procs, NEW l, NEW now, NEW old, NEW new, l = procs[p], now = Tables, old = base,
           new = Tables', Serving(l, now, old), Revert(p)
    PROVE  Served(p, old, new)
<1>1. l.pc = "revert" /\ l \in Process /\ new = now /\ now[3] = empStatus
    BY DEF Serving, Revert, At, Tables
<1>2. PICK e : e = l.req.employee
    OBVIOUS
<1>3. PICK m : Goto(p, m) /\ m = [l EXCEPT !.pc = IF now[3][e] = "ON_LEAVE" THEN "return" ELSE "flag"]
    BY <1>1, <1>2 DEF Revert
<1>4. Continues(l, m) /\ m.ending = l.ending /\ m.pc = IF now[3][e] = "ON_LEAVE" THEN "return" ELSE "flag"
    BY <1>1, <1>3 DEF Process, Continues
<1>5. CASE l.kind \in Deciding
    <2>1. DecisionAtWork(l, now, old)
        BY <1>5, KindAtWork DEF Serving
    <2>2. Settling(l, now, old) /\ new[1] = Target(l, old[1])
        BY <1>1, <2>1 DEF DecisionAtWork, Reserving
    <2>3. Settling(m, new, old)
        BY <1>1, <1>2, <1>4, <2>2 DEF Settling, Continues
    <2> QED BY <1>3, <1>4, <1>5, <2>2, <2>3, DecisionContinues
<1>6. CASE l.kind = "sync"
    <2>1. SyncAtWork(l, now, old)
        BY <1>6, KindAtWork DEF Serving
    <2>2. InSecondLoop(l, now, old)
        BY <1>1, <2>1 DEF SyncAtWork, InFirstLoop
    <2>3. Current(m, {"revert", "return", "write", "flag"}) = Current(l, {"revert", "return", "write", "flag"})
        BY <1>1, <1>4 DEF Current, Continues
    <2>4. InSecondLoop(m, new, old)
        BY <1>1, <1>2, <1>4, <2>2, <2>3 DEF InSecondLoop, Continues
    <2>5. /\ m.kind = "sync" /\ m.pc # "idle" /\ m.id \in RequestIds /\ m.req.employee = old[2][m.id].employee
        BY <1>1, <1>4, <1>6, <2>1 DEF SyncAtWork, Continues
    <2> QED BY <1>1, <1>3, <2>1, <2>4, <2>5, SyncContinues
<1> QED BY <1>1, <1>5, <1>6 DEF Serving, AtWork, SubmitAtWork, AdjustAtWork, ViewAtWork, DecisionAtWork, SyncAtWork

LEMMA SyncNextServes ==
    ASSUME NEW p \in Procs, NEW l, NEW now, NEW old, NEW new, l = procs[p], now = Tables, old = base,
           new = Tables', Serving(l, now, old), SyncNext(p)
    PROVE  Served(p, old, new)
<1>1. l.pc = "next" /\ l.kind = "sync" /\ l \in Process /\ new = now /\ now[2] = requests
      /\ old \in TableTypes /\ Regular(old[2]) /\ today \in Dates
    BY DEF Serving, SyncNext, At, Tables, Shape
<1>2. SyncAtWork(l, now, old)
    BY <1>1, KindAtWork DEF Serving
<1>3. now[2] \in [RequestIds -> Request] /\ now[3] \in [Employees -> EmployeeStatus]
      /\ old[2] \in [RequestIds -> Request]
    BY TablesAreTyped DEF Serving
<1>4. PICK R, q, ends : R = old[2] /\ q = l.queue /\ ends = ToEnd(StartedReqs(old))
    OBVIOUS
<1>5. Current(l, {"enter", "write", "flag"}) = {} /\ Current(l, {"enter", "write"}) = {}
      /\ Current(l, {"revert", "return", "write", "flag"}) = {}
    BY <1>1 DEF Current
<1>6. q \cup {} = q
    OBVIOUS
<1>7. InFirstLoop(l, now, old) =>
          /\ ~l.ending /\ q \subseteq ToStart(R, old[3])
          /\ Flagged(now[2], q) = StartedReqs(old)
          /\ OnLeave(now[3], Employed(R, q)) = StartedEmps(old)
          /\ \A i \in q : now[3][R[i].employee] = "ACTIVE"
    BY <1>4, <1>5, <1>6 DEF InFirstLoop
<1>8. InSecondLoop(l, now, old) =>
          /\ l.ending /\ q \subseteq ends
          /\ Cleared(now[2], q) = Cleared(StartedReqs(old), ends)
          /\ BackFrom(now[3], Employed(R, q)) = BackFrom(StartedEmps(old), Employed(R, ends))
    BY <1>4, <1>5, <1>6 DEF InSecondLoop
<1>9. ASSUME NEW i \in q,
             Goto(p, [l EXCEPT !.pc = IF l.ending THEN "revert" ELSE "enter",
                               !.id = i, !.req = requests[i], !.queue = @ \ {i}])
      PROVE  Served(p, old, new)
    <2>1. PICK rest : rest = q \ {i}
        OBVIOUS
    <2>2. PICK m : Goto(p, m) /\ m = [l EXCEPT !.pc = IF l.ending THEN "revert" ELSE "enter",
                                               !.id = i, !.req = now[2][i], !.queue = rest]
        BY <1>1, <1>4, <1>9, <2>1
    <2>3. /\ m.pc = IF l.ending THEN "revert" ELSE "enter"
          /\ m.id = i /\ m.req = now[2][i] /\ m.queue = rest /\ m.kind = "sync" /\ m.ending = l.ending
        BY <1>1, <2>2 DEF Process
    <2>4. i \in RequestIds
        BY <1>1, <1>4, <1>9 DEF Process
    <2>5. m.req.employee = R[i].employee
        BY <1>2, <1>4, <2>3, <2>4 DEF SyncAtWork
    <2>6. rest \cup {i} = q /\ i \notin rest
        BY <1>9, <2>1
    <2>7. /\ m.kind = "sync" /\ m.pc # "idle" /\ Goto(p, m) /\ new[1] = now[1]
          /\ m.id \in RequestIds /\ m.req.employee = old[2][m.id].employee
          /\ \A j \in RequestIds : new[2][j].employee = now[2][j].employee
        BY <1>1, <1>4, <2>2, <2>3, <2>4, <2>5
    <2>8. CASE InFirstLoop(l, now, old)
        <3>1. Current(m, {"enter", "write", "flag"}) = {i} /\ Current(m, {"enter", "write"}) = {i} /\ m.pc = "enter"
            BY <1>7, <2>3, <2>8 DEF Current
        <3>2. /\ m.queue \cup Current(m, {"enter", "write", "flag"}) = q
              /\ m.queue \cup Current(m, {"enter", "write"}) = q
            BY <2>3, <2>6, <3>1
        <3>3. ~m.ending /\ m.pc \in {"next", "enter", "write", "flag"} /\ m.id \notin m.queue
            BY <1>7, <2>3, <2>6, <2>8, <3>1
        <3>4. /\ q \subseteq ToStart(old[2], old[3])
              /\ Flagged(new[2], q) = StartedReqs(old)
              /\ OnLeave(new[3], Employed(old[2], q)) = StartedEmps(old)
              /\ \A j \in q : new[3][old[2][j].employee] = "ACTIVE"
            BY <1>1, <1>4, <1>7, <2>8
        <3>5. InFirstLoop(m, new, old)
            BY <3>2, <3>3, <3>4, Zenon DEF InFirstLoop
        <3> QED BY <1>2, <2>7, <3>5, SyncContinues
    <2>9. CASE InSecondLoop(l, now, old)
        <3>1. Current(m, {"revert", "return", "write", "flag"}) = {i} /\ m.pc = "revert"
            BY <1>8, <2>3, <2>9 DEF Current
        <3>2. InSecondLoop(m, new, old)
            BY <1>1, <1>4, <1>8, <2>3, <2>6, <2>9, <3>1 DEF InSecondLoop
        <3> QED BY <1>2, <2>7, <3>2, SyncContinues
    <2> QED BY <1>2, <2>8, <2>9 DEF SyncAtWork
<1>10. ASSUME q = {}, ~l.ending, Goto(p, [l EXCEPT !.queue = Ending, !.ending = TRUE])
       PROVE  Served(p, old, new)
    <2>1. InFirstLoop(l, now, old)
        BY <1>2, <1>10 DEF SyncAtWork, InSecondLoop
    <2>2. now[2] = StartedReqs(old)
        BY <1>3, <1>7, <1>10, <2>1, NoFlags
    <2>3. now[3] = StartedEmps(old)
        BY <1>3, <1>7, <1>10, <2>1, EmployedOneByOne DEF OnLeave
    <2>4. Ending = ends
        BY <1>1, <1>4, <2>2 DEF Ending, ToEnd
    <2>5. PICK m : Goto(p, m) /\ m = [l EXCEPT !.queue = ends, !.ending = TRUE]
        BY <1>10, <2>4
    <2>6. m.pc = "next" /\ m.kind = "sync" /\ m.ending /\ m.queue = ends
        BY <1>1, <2>5 DEF Process
    <2>7. Current(m, {"revert", "return", "write", "flag"}) = {} /\ ends \cup {} = ends
        BY <2>6 DEF Current
    <2>8. InSecondLoop(m, new, old)
        BY <1>1, <1>4, <2>2, <2>3, <2>6, <2>7 DEF InSecondLoop
    <2> QED BY <1>1, <1>2, <2>5, <2>6, <2>8, SyncContinues
<1>11. ASSUME q = {}, l.ending, Goto(p, Idle)
       PROVE  Served(p, old, new)
    <2>1. InSecondLoop(l, now, old)
        BY <1>2, <1>11 DEF SyncAtWork, InFirstLoop
    <2>2. new[2] = Cleared(StartedReqs(old), ends)
        BY <1>1, <1>3, <1>8, <1>11, <2>1, NoFlags
    <2>3. new[3] = BackFrom(StartedEmps(old), Employed(R, ends))
        BY <1>1, <1>3, <1>8, <1>11, <2>1, EmployedOneByOne DEF BackFrom
    <2>4. LedgerMoves(old, new)
        BY <1>1, <1>11, Handover
    <2>5. new[1] = old[1]
        BY <1>1, <1>2 DEF SyncAtWork
    <2>6. Ledger!Next
        BY <1>1, <1>4, <2>2, <2>3, <2>4, <2>5, LedgerSyncs
    <2>7. Regular(new[2])
        BY <1>1, <1>4, <2>2, RegularAfterSync
    <2> QED BY <1>11, <2>6, <2>7 DEF Served
<1> QED BY <1>4, <1>9, <1>10, <1>11 DEF SyncNext

-----------------------------------------------------------------------------
(* What a handler still has to do depends on the tables it is given, and   *)
(* on the policy, the holidays and the date, which no step of it changes.  *)
Settled == UNCHANGED <<today, policy, holidays>>

LEMMA SettledRows ==
    ASSUME Settled
    PROVE  /\ \A bal, e, t, y : Provision(bal, e, t, y)' = Provision(bal, e, t, y)
           /\ \A bal, k : Ensured(bal, k)' = Ensured(bal, k)
<1>1. policy' = policy
    BY DEF Settled
<1>2. \A bal, e, t, y : CarryOver(bal, e, t, y)' = CarryOver(bal, e, t, y)
    BY <1>1 DEF CarryOver
<1>3. \A bal, e, t, y : Provision(bal, e, t, y)' = Provision(bal, e, t, y)
    BY <1>1, <1>2, ZenonT(60) DEF Provision
<1>4. \A bal, e, t, y : EnsureBalance(bal, e, t, y)' = EnsureBalance(bal, e, t, y)
    BY <1>3, Zenon DEF EnsureBalance
<1>5. \A bal, k : Ensured(bal, k)' = Ensured(bal, k)
    BY <1>4, Zenon DEF Ensured
<1> QED BY <1>3, <1>5

LEMMA SettledTodo ==
    ASSUME Settled
    PROVE  /\ \A bal, r, todo : CheckRows(bal, r, todo)' = CheckRows(bal, r, todo)
           /\ \A bal, r, todo, n, m : ChargeTodo(bal, r, todo, n, m)' = ChargeTodo(bal, r, todo, n, m)
           /\ \A bal, k, delta : Corrected(bal, k, delta)' = Corrected(bal, k, delta)
           /\ \A bal, ks : Seen(bal, ks)' = Seen(bal, ks)
           /\ \A e, y : ViewKeys(e, y)' = ViewKeys(e, y)
<1>1. \A bal, k : Ensured(bal, k)' = Ensured(bal, k)
    BY SettledRows
<1>2. today' = today /\ policy' = policy
    BY DEF Settled
<1>3. \A bal, r, todo : CheckRows(bal, r, todo)' = CheckRows(bal, r, todo)
    BY <1>1, ZenonT(60) DEF CheckRows
<1>4. \A bal, k, r, n, m : ChargeKey(bal, k, r, n, m)' = ChargeKey(bal, k, r, n, m)
    BY <1>1, ZenonT(60) DEF ChargeKey
<1>5. ASSUME NEW bal, NEW r, NEW todo, NEW n, NEW m
      PROVE  ChargeTodo(bal, r, todo, n, m)' = ChargeTodo(bal, r, todo, n, m)
    <2>1. PICK first : /\ first = IF FirstOf(r) \in todo THEN ChargeKey(bal, FirstOf(r), r, n, m) ELSE bal
                       /\ first = IF FirstOf(r) \in todo THEN ChargeKey(bal, FirstOf(r), r, n, m)' ELSE bal
        BY <1>4
    <2>2. PICK last : /\ last = IF SecondOf(r) \in todo THEN ChargeKey(first, SecondOf(r), r, n, m) ELSE first
                      /\ last = IF SecondOf(r) \in todo THEN ChargeKey(first, SecondOf(r), r, n, m)' ELSE first
        BY <1>4
    <2>3. ChargeTodo(bal, r, todo, n, m) = last
        BY <2>1, <2>2, Zenon DEF ChargeTodo
    <2>4. ChargeTodo(bal, r, todo, n, m)' = last
        BY <2>1, <2>2, Zenon DEF ChargeTodo
    <2> QED BY <2>3, <2>4
<1>6. \A bal, k, delta : Corrected(bal, k, delta)' = Corrected(bal, k, delta)
    BY <1>1, <1>2, Zenon DEF Corrected
<1>7. \A bal, ks : Seen(bal, ks)' = Seen(bal, ks)
    BY <1>1, Zenon DEF Seen
<1>8. \A e, y : ViewKeys(e, y)' = ViewKeys(e, y)
    BY <1>2 DEF ViewKeys
<1> QED BY <1>3, <1>5, <1>6, <1>7, <1>8

LEMMA SettledStatuses ==
    ASSUME Settled
    PROVE  /\ \A emp, r : Effective(emp, r)' <=> Effective(emp, r)
           /\ \A reqs, emp : ToStart(reqs, emp)' = ToStart(reqs, emp)
           /\ \A reqs : ToEnd(reqs)' = ToEnd(reqs)
           /\ \A old : StartedReqs(old)' = StartedReqs(old) /\ StartedEmps(old)' = StartedEmps(old)
<1>1. today' = today
    BY DEF Settled
<1>2. \A emp, r : Effective(emp, r)' <=> Effective(emp, r)
    BY <1>1, Zenon DEF Effective, Running
<1>3. \A reqs, emp : ToStart(reqs, emp)' = ToStart(reqs, emp)
    BY <1>2 DEF ToStart
<1>4. \A reqs : ToEnd(reqs)' = ToEnd(reqs)
    BY <1>1, Zenon DEF ToEnd
<1>5. \A old : StartedReqs(old)' = StartedReqs(old) /\ StartedEmps(old)' = StartedEmps(old)
    BY <1>3, Zenon DEF StartedReqs, StartedEmps
<1> QED BY <1>2, <1>3, <1>4, <1>5

LEMMA SettledAllocation ==
    ASSUME Settled
    PROVE  \A e, t, start, end, half : NewRequest(e, t, start, end, half)' = NewRequest(e, t, start, end, half)
<1>1. holidays' = holidays
    BY DEF Settled
<1>2. \A start, end, half : CountWorkingDays(start, end, half)' = CountWorkingDays(start, end, half)
    BY <1>1, Zenon DEF CountWorkingDays, IsWorkingDay
<1>3. \A start, end, half : Allocate(start, end, half)' = Allocate(start, end, half)
    BY <1>2, ZenonT(60) DEF Allocate
<1> QED BY <1>3, Zenon DEF NewRequest

LEMMA SettledReserving ==
    ASSUME Settled
    PROVE  /\ \A l, bal, was : Reserving(l, bal, was)' <=> Reserving(l, bal, was)
           /\ \A l, bal : RowReady(l, bal)' <=> RowReady(l, bal)
<1>1. \A bal, r, todo : CheckRows(bal, r, todo)' = CheckRows(bal, r, todo)
    BY SettledTodo
<1>2. \A bal, r, todo, n, m : ChargeTodo(bal, r, todo, n, m)' = ChargeTodo(bal, r, todo, n, m)
    BY SettledTodo
<1>3. \A l, bal : Granted(l, bal)' = Granted(l, bal)
    BY <1>1, Zenon DEF Granted
<1>4. \A l, bal : Target(l, bal)' = Target(l, bal)
    BY <1>2, <1>3, Zenon DEF Target
<1>5. \A l, bal, was : Checking(l, bal, was)' <=> Checking(l, bal, was)
    BY <1>1, Zenon DEF Checking
<1>6. \A l, bal, was : Booking(l, bal, was)' <=> Booking(l, bal, was)
    BY <1>2, <1>4, Zenon DEF Booking
<1>7. \A l, was : Afforded(l, was)' <=> Afforded(l, was)
    BY <1>3, Zenon DEF Afforded
<1>8. \A l, bal, was : Reserving(l, bal, was)' <=> Reserving(l, bal, was)
    BY <1>4, <1>5, <1>6, <1>7, ZenonT(60) DEF Reserving
<1>9. \A bal, e, t, y : Provision(bal, e, t, y)' = Provision(bal, e, t, y)
    BY SettledRows
<1>10. \A l, bal : RowReady(l, bal)' <=> RowReady(l, bal)
    BY <1>9, Zenon DEF RowReady
<1> QED BY <1>8, <1>10

LEMMA SettledWork ==
    ASSUME Settled, NEW l, NEW now, NEW old, AtWork(l, now, old)
    PROVE  AtWork(l, now, old)'
<1>1. today' = today /\ policy' = policy /\ holidays' = holidays
    BY DEF Settled
<1>2. Asked(l, old) => Asked(l, old)'
    <2> SUFFICES ASSUME Asked(l, old) PROVE Asked(l, old)'
        OBVIOUS
    <2>1. PICK r : r = l.req
        OBVIOUS
    <2>2. NewRequest(r.employee, r.type, r.startDate, r.endDate, r.halfDay)'
              = NewRequest(r.employee, r.type, r.startDate, r.endDate, r.halfDay)
        BY SettledAllocation
    <2> QED BY <1>1, <2>1, <2>2 DEF Asked
<1>3. Chosen(l, old) => Chosen(l, old)'
    BY <1>1, Zenon DEF Chosen
<1>4. Reserving(l, now[1], old[1]) => Reserving(l, now[1], old[1])'
    BY SettledReserving
<1>5. RowReady(l, now[1]) => RowReady(l, now[1])'
    BY SettledReserving
<1>6. Settling(l, now, old) => Settling(l, now, old)'
    BY SettledStatuses DEF Settling
<1>7. SubmitAtWork(l, now, old) => SubmitAtWork(l, now, old)'
    BY <1>2, <1>4, <1>5, Zenon DEF SubmitAtWork
<1>8. DecisionAtWork(l, now, old) => DecisionAtWork(l, now, old)'
    BY <1>3, <1>4, <1>5, <1>6, Zenon DEF DecisionAtWork
<1>9. AdjustAtWork(l, now, old) => AdjustAtWork(l, now, old)'
    <2> SUFFICES ASSUME AdjustAtWork(l, now, old) PROVE AdjustAtWork(l, now, old)'
        OBVIOUS
    <2>1. PICK k \in Keys :
              /\ l.todo = {k} /\ policy[k[2]].requiresBalance
              /\ old[1][k].adjustment + l.delta <= MaxAdjustment
              /\ Corrected(now[1], k, l.delta) = Corrected(old[1], k, l.delta)
              /\ l.pc = "save" => ~(Available(now[1][k], today) + l.delta < 0)
        BY DEF AdjustAtWork
    <2>2. Corrected(now[1], k, l.delta)' = Corrected(old[1], k, l.delta)'
        BY <2>1, SettledTodo
    <2>3. RowReady(l, now[1])'
        BY <1>5 DEF AdjustAtWork
    <2> QED BY <1>1, <2>1, <2>2, <2>3 DEF AdjustAtWork
<1>10. ViewAtWork(l, now, old) => ViewAtWork(l, now, old)'
    <2>1. \A e, y : ViewKeys(e, y)' = ViewKeys(e, y)
        BY SettledTodo
    <2>2. \A bal, ks : Seen(bal, ks)' = Seen(bal, ks)
        BY SettledTodo
    <2> QED BY <1>5, <2>1, <2>2, Zenon DEF ViewAtWork
<1>11. SyncAtWork(l, now, old) => SyncAtWork(l, now, old)'
    <2>1. InFirstLoop(l, now, old) => InFirstLoop(l, now, old)'
        BY SettledStatuses, Zenon DEF InFirstLoop
    <2>2. InSecondLoop(l, now, old) => InSecondLoop(l, now, old)'
        BY SettledStatuses, Zenon DEF InSecondLoop
    <2> QED BY <2>1, <2>2, Zenon DEF SyncAtWork
<1> QED BY <1>7, <1>8, <1>9, <1>10, <1>11, Zenon DEF AtWork

LEMMA StepServes ==
    ASSUME NEW p \in Procs, NEW l, NEW now, NEW old, NEW new, l = procs[p], now = Tables, old = base,
           new = Tables', Serving(l, now, old), Step(p)
    PROVE  Served(p, old, new)
BY CheckOverlapServes, ComputeRowServes, InsertRowServes, CheckFundsServes, ReadBalanceServes, SaveBalanceServes,
   RecordServes, CheckTransitionServes, WriteStatusServes, WriteFlagServes, RevertServes, SyncNextServes
   DEF Step

-----------------------------------------------------------------------------
(* A handler starts: it has everything still to do.                        *)
Opens(p) ==
    \E m, now : /\ now = Tables /\ base' = now /\ Quiet /\ Settled
                /\ UNCHANGED <<balances, requests, empStatus>>
                /\ procs' = [procs EXCEPT ![p] = m]
                /\ m.pc # "idle" /\ AtWork(m, now, now)

LEMMA BegunOpens ==
    ASSUME ~Interleaved, NEW p \in Procs, NEW kind, NEW h, Begin(p, kind, h),
           NEW m, m = [h EXCEPT !.kind = kind], NEW now, now = Tables, m.pc # "idle", AtWork(m, now, now)
    PROVE  Opens(p)
BY DEF Begin, Opens, Settled

LEMMA SubmitOpens ==
    ASSUME ~Interleaved, NEW p \in Procs, NEW i \in RequestIds, NEW e, NEW t, NEW start, NEW end, NEW half,
           StartSubmit(p, i, e, t, start, end, half)
    PROVE  Opens(p)
<1>1. PICK r : r = NewRequest(e, t, start, end, half)
    OBVIOUS
<1>2. r.employee = e /\ r.type = t /\ r.startDate = start /\ r.endDate = end /\ r.halfDay = half
    BY <1>1 DEF NewRequest
<1>3. PICK h : h = [Idle EXCEPT !.pc = "overlap", !.id = i, !.req = r, !.tracked = policy[t].requiresBalance]
    OBVIOUS
<1>4. PICK m, now : m = [h EXCEPT !.kind = "submit"] /\ now = Tables
    OBVIOUS
<1>5. m.kind = "submit" /\ m.pc = "overlap" /\ m.id = i /\ m.req = r /\ m.tracked = policy[t].requiresBalance
    BY <1>3, <1>4 DEF Idle
<1>6. now[2] = requests /\ now[3] = empStatus
    BY <1>4 DEF Tables
<1>7. Asked(m, now)
    BY <1>1, <1>2, <1>5, <1>6 DEF StartSubmit, Asked
<1>8. SubmitAtWork(m, now, now)
    BY <1>5, <1>7 DEF SubmitAtWork, Reserving, RowReady, Untouched
<1>9. Begin(p, "submit", h)
    BY <1>1, <1>3 DEF StartSubmit
<1> QED BY <1>4, <1>5, <1>8, <1>9, BegunOpens DEF AtWork

LEMMA DecisionOpens ==
    ASSUME ~Interleaved, NEW p \in Procs, NEW i \in RequestIds, NEW kind \in Deciding,
           Begin(p, kind, Loaded(i)), requests[i].status \in ActiveStatuses,
           kind # "cancel" => requests[i].status = "PENDING"
    PROVE  Opens(p)
<1>1. PICK h, m, now : h = Loaded(i) /\ m = [h EXCEPT !.kind = kind] /\ now = Tables
    OBVIOUS
<1>2. PICK r, tracked : r = requests[i] /\ tracked = policy[r.type].requiresBalance
    OBVIOUS
<1>3. h = [Idle EXCEPT !.pc = IF tracked THEN "balance" ELSE "record", !.id = i, !.req = r, !.tracked = tracked,
                       !.todo = IF tracked THEN KeysOf(r) ELSE {}, !.active = empStatus[r.employee] = "ACTIVE"]
    BY <1>1, <1>2 DEF Loaded
<1>4. /\ m.kind = kind /\ m.pc = (IF tracked THEN "balance" ELSE "record") /\ m.id = i /\ m.req = r
      /\ m.tracked = tracked /\ m.todo = (IF tracked THEN KeysOf(r) ELSE {})
      /\ m.active = (empStatus[r.employee] = "ACTIVE") /\ m.ending = FALSE
    BY <1>1, <1>3 DEF Idle
<1>5. now[1] = balances /\ now[2] = requests /\ now[3] = empStatus
    BY <1>1 DEF Tables
<1>6. Chosen(m, now)
    BY <1>2, <1>4, <1>5 DEF Chosen
<1>7. kind # "submit"
    BY DEF Deciding
<1>8. Reserving(m, now[1], now[1])
    <2>1. CASE tracked
        <3>1. Granted(m, now[1]) = now[1]
            BY <1>4, <1>7 DEF Granted
        <3>2. Booking(m, now[1], now[1]) /\ Afforded(m, now[1])
            BY <1>4, <1>7, <2>1, <3>1 DEF Booking, Target, Afforded
        <3> QED BY <1>4, <2>1, <3>2 DEF Reserving
    <2>2. CASE ~tracked
        BY <1>4, <1>7, <2>2 DEF Reserving, Target, Afforded
    <2> QED BY <2>1, <2>2
<1>9. RowReady(m, now[1])
    BY <1>4 DEF RowReady
<1>10. DecisionAtWork(m, now, now)
    BY <1>4, <1>6, <1>8, <1>9 DEF DecisionAtWork, Untouched
<1>11. Begin(p, kind, h) /\ m.pc # "idle" /\ AtWork(m, now, now)
    BY <1>1, <1>4, <1>10 DEF AtWork
<1> QED BY <1>1, <1>11, BegunOpens

LEMMA SyncOpens ==
    ASSUME ~Interleaved, NEW p \in Procs, requests \in [RequestIds -> Request], StartSync(p)
    PROVE  Opens(p)
<1>1. PICK q : q = Starting
    OBVIOUS
<1>2. PICK h, m, now : h = [Idle EXCEPT !.pc = "next", !.queue = q] /\ m = [h EXCEPT !.kind = "sync"] /\ now = Tables
    OBVIOUS
<1>3. m.kind = "sync" /\ m.pc = "next" /\ m.queue = q /\ m.ending = FALSE
    BY <1>2 DEF Idle
<1>4. now[2] = requests /\ now[3] = empStatus
    BY <1>2 DEF Tables
<1>5. q = ToStart(now[2], now[3])
    BY <1>1, <1>4 DEF Starting, ToStart, TakesEffect, Effective, Running
<1>6. Current(m, {"enter", "write", "flag"}) = {} /\ Current(m, {"enter", "write"}) = {} /\ q \cup {} = q
    BY <1>3 DEF Current
<1>7. \A i \in q : now[3][now[2][i].employee] = "ACTIVE"
    BY <1>5 DEF ToStart, Effective
<1>8. Flagged(now[2], q) = StartedReqs(now) /\ OnLeave(now[3], Employed(now[2], q)) = StartedEmps(now)
    BY <1>5 DEF StartedReqs, StartedEmps
<1>9. InFirstLoop(m, now, now)
    BY <1>3, <1>5, <1>6, <1>7, <1>8 DEF InFirstLoop
<1>10. SyncAtWork(m, now, now)
    BY <1>3, <1>9 DEF SyncAtWork
<1>11. Begin(p, "sync", h)
    BY <1>1, <1>2 DEF StartSync
<1> QED BY <1>2, <1>3, <1>10, <1>11, BegunOpens DEF AtWork

LEMMA AdjustOpens ==
    ASSUME ~Interleaved, NEW p \in Procs, NEW e \in Employees, NEW t \in Types, NEW y \in Years, NEW delta \in Deltas,
           StartAdjust(p, e, t, y, delta)
    PROVE  Opens(p)
<1>1. PICK k : k = <<e, t, y>>
    OBVIOUS
<1>2. PICK h, m, now : h = [Idle EXCEPT !.pc = "balance", !.todo = {k}, !.delta = delta]
                       /\ m = [h EXCEPT !.kind = "adjust"] /\ now = Tables
    OBVIOUS
<1>3. m.kind = "adjust" /\ m.pc = "balance" /\ m.todo = {k} /\ m.delta = delta
    BY <1>2 DEF Idle
<1>4. k \in Keys /\ k[2] = t /\ now[1] = balances
    BY <1>1, <1>2 DEF Keys, Tables
<1>5. policy[k[2]].requiresBalance /\ now[1][k].adjustment + m.delta <= MaxAdjustment
    BY <1>1, <1>3, <1>4 DEF StartAdjust
<1>6. AdjustAtWork(m, now, now)
    BY <1>3, <1>4, <1>5 DEF AdjustAtWork, RowReady, Untouched
<1>7. Begin(p, "adjust", h)
    BY <1>1, <1>2 DEF StartAdjust
<1> QED BY <1>2, <1>3, <1>6, <1>7, BegunOpens DEF AtWork

LEMMA ViewOpens ==
    ASSUME ~Interleaved, NEW p \in Procs, NEW e \in Employees, NEW y \in Years, StartView(p, e, y)
    PROVE  Opens(p)
<1>1. PICK ks : ks = ViewKeys(e, y)
    OBVIOUS
<1>2. PICK h, m, now : h = [Idle EXCEPT !.pc = "balance", !.todo = ks]
                       /\ m = [h EXCEPT !.kind = "view"] /\ now = Tables
    OBVIOUS
<1>3. m.kind = "view" /\ m.pc = "balance" /\ m.todo = ks
    BY <1>2 DEF Idle
<1>4. ViewAtWork(m, now, now)
    BY <1>1, <1>3 DEF ViewAtWork, RowReady, Untouched
<1>5. Begin(p, "view", h)
    BY <1>1, <1>2 DEF StartView, ViewKeys
<1> QED BY <1>2, <1>3, <1>4, <1>5, BegunOpens DEF AtWork

LEMMA StartOpens ==
    ASSUME ~Interleaved, requests \in [RequestIds -> Request], NEW p \in Procs, Start(p)
    PROVE  Opens(p)
<1>1. ASSUME NEW i \in RequestIds, NEW actor, StartDecision(p, i, actor) PROVE Opens(p)
    <2>1. requests[i].status = "PENDING" /\ requests[i].status \in ActiveStatuses
        BY <1>1 DEF StartDecision, MayDecide, ActiveStatuses
    <2>2. "approve" \in Deciding /\ "reject" \in Deciding
        BY DEF Deciding
    <2>3. ASSUME Begin(p, "approve", Loaded(i)) PROVE Opens(p)
        BY <2>1, <2>2, <2>3, DecisionOpens
    <2>4. ASSUME Begin(p, "reject", Loaded(i)) PROVE Opens(p)
        BY <2>1, <2>2, <2>4, DecisionOpens
    <2> QED BY <1>1, <2>3, <2>4 DEF StartDecision
<1>2. ASSUME NEW i \in RequestIds, NEW actor, StartCancel(p, i, actor) PROVE Opens(p)
    <2>1. requests[i].status \in ActiveStatuses /\ Begin(p, "cancel", Loaded(i)) /\ "cancel" \in Deciding
        BY <1>2 DEF StartCancel, Deciding
    <2> QED BY <2>1, DecisionOpens
<1> QED BY <1>1, <1>2, SubmitOpens, SyncOpens, AdjustOpens, ViewOpens DEF Start

-----------------------------------------------------------------------------
(* One handler at a time.                                                  *)
LEMMA StepIsBusy ==
    ASSUME NEW p \in Procs, Step(p)
    PROVE  procs[p].pc # "idle"
BY DEF Step, CheckOverlap, ComputeRow, InsertRow, CheckFunds, ReadBalance, SaveBalance, Record, CheckTransition,
       WriteStatus, WriteFlag, Revert, SyncNext, At

LEMMA LedgerAtRest ==
    /\ base = NoTables => LedgerBalances = balances /\ LedgerRequests = requests /\ LedgerStatus = empStatus
    /\ base # NoTables => LedgerBalances = base[1] /\ LedgerRequests = base[2] /\ LedgerStatus = base[3]
BY DEF LedgerBalances, LedgerRequests, LedgerStatus

LEMMA LedgerAtRestThen ==
    /\ base' = NoTables => LedgerBalances' = balances' /\ LedgerRequests' = requests' /\ LedgerStatus' = empStatus'
    /\ base' # NoTables => LedgerBalances' = base'[1] /\ LedgerRequests' = base'[2] /\ LedgerStatus' = base'[3]
BY DEF LedgerBalances, LedgerRequests, LedgerStatus

LEMMA RegularThen ==
    ASSUME NEW reqs, Regular(reqs), LedgerRequests' = reqs
    PROVE  Regular(LedgerRequests)'
BY DEF Regular, Overlaps, InWindow, ActiveStatuses, YearOf, YearLength, Years

LEMMA OneAtWorkThen ==
    ASSUME NEW p \in Procs, NEW m, NEW now, NEW old \in TableTypes, procs \in [Procs -> Process],
           \A q \in Procs \ {p} : procs[q].pc = "idle",
           procs' = [procs EXCEPT ![p] = m], m.pc # "idle", now = Tables', base' = old, Settled, AtWork(m, now, old)
    PROVE  OneAtWork'
<1>1. procs'[p] = m /\ \A q \in Procs \ {p} : procs'[q].pc = "idle"
    OBVIOUS
<1>2. base' # NoTables /\ ~Quiet'
    BY <1>1, TablesAreTyped DEF Quiet
<1>3. TableTypes' = TableTypes
    BY DEF TableTypes
<1>4. AtWork(m, now, old)'
    BY SettledWork
<1>5. ASSUME NEW q \in Procs, procs'[q].pc # "idle"
      PROVE  \E l, n, o : l = procs'[q] /\ n = Tables' /\ o = base' /\ AtWork(l, n, o)'
    <2>1. q = p
        BY <1>1, <1>5
    <2> QED BY <1>1, <1>4, <2>1
<1> QED BY <1>1, <1>2, <1>3, <1>5 DEF OneAtWork

LEMMA QuietThen ==
    ASSUME base' = NoTables, \A q \in Procs : procs'[q].pc = "idle"
    PROVE  OneAtWork'
BY DEF OneAtWork, Quiet

LEMMA ServedKeeps ==
    ASSUME ~Interleaved, WorkflowTypeOK, SerialInv, NEW p \in Procs, Step(p)
    PROVE  SerialInv' /\ [Ledger!Next]_Ledger!vars
<1>1. procs[p].pc # "idle" /\ base # NoTables /\ base \in TableTypes
      /\ \A q \in Procs \ {p} : procs[q].pc = "idle"
    BY StepIsBusy DEF SerialInv, OneAtWork, Quiet
<1>2. PICK l, now, old : l = procs[p] /\ now = Tables /\ old = base /\ AtWork(l, now, old)
    BY <1>1 DEF SerialInv, OneAtWork
<1>3. PICK new : new = Tables'
    OBVIOUS
<1>4. Serving(l, now, old)
    <2>1. policy \in [Types -> Policies] /\ today \in Dates /\ now \in TableTypes
        BY <1>2 DEF WorkflowTypeOK, TypeOK, Tables, TableTypes
    <2>2. l \in Process /\ Shape(l)
        BY <1>2 DEF WorkflowTypeOK, InFlight
    <2>3. old \in TableTypes /\ Regular(old[2])
        BY <1>1, <1>2, LedgerAtRest DEF SerialInv
    <2> QED BY <1>2, <2>1, <2>2, <2>3 DEF Serving
<1>5. Served(p, old, new)
    BY <1>2, <1>3, <1>4, StepServes
<1>6. PICK m : /\ Goto(p, m)
               /\ \/ m.pc # "idle" /\ AtWork(m, new, old)
                  \/ m = Idle /\ Regular(new[2]) /\ (Ledger!Next \/ UNCHANGED Ledger!vars)
    BY <1>5 DEF Served
<1>7. procs \in [Procs -> Process]
    BY DEF WorkflowTypeOK, InFlight
<1>8. CASE m.pc # "idle" /\ AtWork(m, new, old)
    <2>1. base' = old /\ procs' = [procs EXCEPT ![p] = m] /\ Settled
        BY <1>2, <1>6, <1>8 DEF Goto, Settled
    <2>2. old \in TableTypes
        BY <1>1, <1>2
    <2>3. OneAtWork'
        BY <1>1, <1>3, <1>7, <1>8, <2>1, <2>2, OneAtWorkThen
    <2>4. LedgerBalances' = LedgerBalances /\ LedgerRequests' = LedgerRequests /\ LedgerStatus' = LedgerStatus
        BY <1>1, <1>2, <2>1, LedgerAtRest, LedgerAtRestThen
    <2>5. UNCHANGED Ledger!vars
        BY <2>1, <2>4 DEF Ledger!vars, Settled
    <2>6. Regular(LedgerRequests)'
        BY <2>4, RegularThen DEF SerialInv
    <2> QED BY <2>3, <2>5, <2>6 DEF SerialInv
<1>9. CASE m = Idle /\ Regular(new[2]) /\ (Ledger!Next \/ UNCHANGED Ledger!vars)
    <2>1. base' = NoTables /\ procs' = [procs EXCEPT ![p] = Idle]
        BY <1>6, <1>9 DEF Goto, Idle
    <2>2. \A q \in Procs : procs'[q].pc = "idle"
        BY <1>1, <1>7, <2>1 DEF Idle
    <2>3. OneAtWork'
        BY <2>1, <2>2, QuietThen
    <2>4. LedgerRequests' = new[2]
        BY <1>3, <2>1, LedgerAtRestThen DEF Tables
    <2>5. Regular(LedgerRequests)'
        BY <1>9, <2>4, RegularThen
    <2> QED BY <1>9, <2>3, <2>5 DEF SerialInv
<1> QED BY <1>6, <1>8, <1>9

LEMMA OpenedKeeps ==
    ASSUME ~Interleaved, WorkflowTypeOK, SerialInv, NEW p \in Procs, Start(p)
    PROVE  SerialInv' /\ [Ledger!Next]_Ledger!vars
<1>1. Opens(p)
    BY StartOpens DEF WorkflowTypeOK, TypeOK
<1>2. PICK m, now : /\ now = Tables /\ base' = now /\ Quiet /\ Settled
                    /\ UNCHANGED <<balances, requests, empStatus>>
                    /\ procs' = [procs EXCEPT ![p] = m]
                    /\ m.pc # "idle" /\ AtWork(m, now, now)
    BY <1>1 DEF Opens
<1>3. base = NoTables /\ \A q \in Procs \ {p} : procs[q].pc = "idle"
    BY <1>2 DEF SerialInv, OneAtWork, Quiet
<1>4. now \in TableTypes /\ now = Tables' /\ procs \in [Procs -> Process]
    BY <1>2 DEF WorkflowTypeOK, TypeOK, Tables, TableTypes, InFlight
<1>5. OneAtWork'
    BY <1>2, <1>3, <1>4, OneAtWorkThen
<1>6. LedgerBalances' = LedgerBalances /\ LedgerRequests' = LedgerRequests /\ LedgerStatus' = LedgerStatus
    <2>1. now[1] = balances /\ now[2] = requests /\ now[3] = empStatus /\ now # NoTables
        BY <1>2, <1>4, TablesAreTyped DEF Tables
    <2> QED BY <1>2, <1>3, <2>1, LedgerAtRest, LedgerAtRestThen
<1>7. UNCHANGED Ledger!vars
    BY <1>2, <1>6 DEF Ledger!vars, Settled
<1>8. Regular(LedgerRequests)'
    BY <1>6, RegularThen DEF SerialInv
<1> QED BY <1>5, <1>7, <1>8 DEF SerialInv

LEMMA OutsideKeeps ==
    ASSUME ~Interleaved, SerialInv, Outside
    PROVE  SerialInv' /\ [Ledger!Next]_Ledger!vars
<1>1. Quiet /\ base = NoTables /\ base' = NoTables /\ procs' = procs
    BY DEF Outside, SerialInv, OneAtWork
<1>2. OneAtWork'
    BY <1>1, QuietThen DEF Quiet
<1>3. LedgerBalances = balances /\ LedgerRequests = requests /\ LedgerStatus = empStatus
      /\ LedgerBalances' = balances' /\ LedgerRequests' = requests' /\ LedgerStatus' = empStatus'
    BY <1>1, LedgerAtRest, LedgerAtRestThen
<1>4. requests' = requests
    BY DEF Outside, UpdateType, AddHolidays, RemoveHoliday, EmployeeStep, ChangeStatus, Terminate, Tick
<1>5. Regular(LedgerRequests)'
    BY <1>3, <1>4, RegularThen DEF SerialInv
<1>6. Ledger!Next
    <2>1. ASSUME NEW t \in Types, NEW pol \in Policies, UpdateType(t, pol) PROVE Ledger!Next
        <3>1. Ledger!UpdateType(t, pol)
            BY <1>3, <2>1 DEF UpdateType, Ledger!UpdateType
        <3> QED BY <3>1 DEF Ledger!Next, Ledger!PolicyStep
    <2>2. ASSUME NEW ds \in SUBSET HolidayDates, AddHolidays(ds) PROVE Ledger!Next
        <3>1. Ledger!AddHolidays(ds)
            BY <1>3, <2>2 DEF AddHolidays, Ledger!AddHolidays
        <3> QED BY <3>1 DEF Ledger!Next, Ledger!PolicyStep
    <2>3. ASSUME NEW d \in HolidayDates, RemoveHoliday(d) PROVE Ledger!Next
        <3>1. Ledger!RemoveHoliday(d)
            BY <1>3, <2>3 DEF RemoveHoliday, Ledger!RemoveHoliday
        <3> QED BY <3>1 DEF Ledger!Next, Ledger!PolicyStep
    <2>4. ASSUME EmployeeStep PROVE Ledger!Next
        <3>1. \A e, to : ChangeStatus(e, to) => Ledger!ChangeStatus(e, to)
            BY <1>3 DEF ChangeStatus, Ledger!ChangeStatus
        <3>2. \A e : Terminate(e) => Ledger!Terminate(e)
            BY <1>3 DEF Terminate, Ledger!Terminate
        <3>3. Ledger!EmployeeStep
            BY <2>4, <3>1, <3>2, SameCalendar DEF EmployeeStep, Ledger!EmployeeStep
        <3> QED BY <3>3 DEF Ledger!Next
    <2>5. ASSUME Tick PROVE Ledger!Next
        <3>1. Ledger!Tick
            BY <1>3, <2>5 DEF Tick, Ledger!Tick
        <3> QED BY <3>1 DEF Ledger!Next
    <2> QED BY <2>1, <2>2, <2>3, <2>4, <2>5 DEF Outside
<1> QED BY <1>2, <1>5, <1>6 DEF SerialInv

LEMMA NothingHappens ==
    ASSUME WorkflowTypeOK, SerialInv, UNCHANGED wvars
    PROVE  SerialInv' /\ [Ledger!Next]_Ledger!vars
<1>1. Settled /\ base' = base /\ procs' = procs /\ Tables' = Tables
      /\ UNCHANGED <<balances, requests, empStatus>>
    BY DEF wvars, Settled, Tables
<1>2. LedgerBalances' = LedgerBalances /\ LedgerRequests' = LedgerRequests /\ LedgerStatus' = LedgerStatus
    BY <1>1, LedgerAtRest, LedgerAtRestThen
<1>3. UNCHANGED Ledger!vars
    BY <1>1, <1>2 DEF Ledger!vars, Settled
<1>4. Regular(LedgerRequests)'
    BY <1>2, RegularThen DEF SerialInv
<1>5. ASSUME NEW p \in Procs, procs[p].pc # "idle" PROVE OneAtWork'
    <2>1. PICK l, now, old : l = procs[p] /\ now = Tables /\ old = base /\ AtWork(l, now, old)
        BY <1>5 DEF SerialInv, OneAtWork
    <2>2. old \in TableTypes /\ procs \in [Procs -> Process] /\ \A q \in Procs \ {p} : procs[q].pc = "idle"
        BY <1>5, <2>1 DEF SerialInv, OneAtWork, Quiet, WorkflowTypeOK, InFlight
    <2>3. procs' = [procs EXCEPT ![p] = l] /\ l.pc # "idle" /\ now = Tables' /\ base' = old
        BY <1>1, <1>5, <2>1, <2>2
    <2> QED BY <1>1, <2>1, <2>2, <2>3, OneAtWorkThen
<1>6. ASSUME \A p \in Procs : procs[p].pc = "idle" PROVE OneAtWork'
    BY <1>1, <1>6, QuietThen DEF SerialInv, OneAtWork, Quiet
<1> QED BY <1>3, <1>4, <1>5, <1>6 DEF SerialInv

LEMMA LedgerBegins == WInit => SerialInv /\ Ledger!Init
<1> SUFFICES ASSUME WInit PROVE SerialInv /\ Ledger!Init
    OBVIOUS
<1>1. base = NoTables /\ \A q \in Procs : procs[q].pc = "idle"
    BY DEF WInit, Idle
<1>2. OneAtWork
    BY <1>1 DEF OneAtWork, Quiet
<1>3. LedgerBalances = balances /\ LedgerRequests = requests /\ LedgerStatus = empStatus
    BY <1>1, LedgerAtRest
<1>4. \A i \in RequestIds : requests[i] = NoRequest
    BY DEF WInit, Init
<1>5. NoRequest.status = "NONE" /\ InWindow(NoRequest)
    BY DEF NoRequest, InWindow
<1>6. Regular(requests)
    BY <1>4, <1>5 DEF Regular, Overlaps, ActiveStatuses
<1>7. Ledger!Init
    BY <1>3, SameCalendar DEF WInit, Init, Ledger!Init
<1> QED BY <1>2, <1>3, <1>6, <1>7 DEF SerialInv

(* Run one at a time and to the end, the handlers implement the ledger:    *)
(* whatever the constants, every behaviour of the interleaved workflow is, *)
(* seen from handler to handler, a behaviour of the atomic leave ledger.   *)
THEOREM HandlersImplementTheLedger ==
    ASSUME ~Interleaved, ~MayDie
    PROVE  WSpec => ImplementsLedger
<1>1. WorkflowTypeOK /\ SerialInv /\ [WNext]_wvars => SerialInv' /\ [Ledger!Next]_Ledger!vars
    <2>1. ASSUME WorkflowTypeOK, SerialInv, WNext PROVE SerialInv' /\ [Ledger!Next]_Ledger!vars
        <3>1. ASSUME NEW p \in Procs, Die(p) PROVE FALSE
            BY <3>1 DEF Die
        <3> QED BY <2>1, <3>1, OpenedKeeps, ServedKeeps, OutsideKeeps DEF WNext
    <2> QED BY <2>1, NothingHappens
<1> QED BY <1>1, LedgerBegins, WorkflowTyped, PTL DEF WSpec, ImplementsLedger, Ledger!Spec
=============================================================================
