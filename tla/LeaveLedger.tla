---------------------------- MODULE LeaveLedger ----------------------------
(***************************************************************************)
(* What the leave component promises when its handlers are served one at a *)
(* time: leave types and public holidays (LeavePolicyService), the balance *)
(* rows per employee, type and calendar year, the request workflow         *)
(* (LeaveRequestsService) and the ON_LEAVE / ACTIVE coupling with the      *)
(* employee record.  Every handler is one action, with all of its effects. *)
(* LeaveWorkflow splits the handlers at their awaits.                      *)
(*                                                                         *)
(* Quantities of leave are in half-days (the code rounds everything to     *)
(* half-day resolution, round1).  A date is a number; year y is the        *)
(* YearLength dates from YearStart(y) to YearEnd(y).                       *)
(***************************************************************************)
EXTENDS Integers, FiniteSets, Sums

CONSTANTS
    Employees,      \* employee records
    Types,          \* leave types
    RequestIds,     \* ids of leave requests that may be created (a bound)
    Policies,       \* the settings HR may give a leave type
    MonthsPerYear,  \* 12 in the code
    DaysPerMonth,   \* length of a month of the model's calendar
    LastDate,       \* last modelled date (a bound on the clock and on requests)
    Weekend,        \* the dates that are Saturdays or Sundays
    HolidayDates,   \* the dates HR may declare a public holiday
    HireDate,       \* hireDate of every employee
    CreatedAs,      \* statuses an employee record is created with
    LongLeave,      \* LONG_LEAVE_CALENDAR_DAYS
    Deltas,         \* balance corrections HR may post
    MaxAdjustment,  \* bound on the sum of the corrections of a row
    ManualChanges,  \* status changes <<from, to>> made through the employees API
    MayTerminate    \* employees HR may terminate

VARIABLES
    today,      \* the current calendar date
    policy,     \* leave_types
    holidays,   \* public_holidays
    balances,   \* leave_balances, keyed by employee, type and year
    requests,   \* leave_requests
    empStatus   \* employees.status

vars == <<today, policy, holidays, balances, requests, empStatus>>

Dates == 1..LastDate
YearLength == MonthsPerYear * DaysPerMonth
YearOf(d) == (d - 1) \div YearLength
YearStart(y) == y * YearLength + 1
YearEnd(y) == (y + 1) * YearLength
MonthOf(d) == ((d - 1) % YearLength) \div DaysPerMonth
Years == 0..YearOf(LastDate)

EmployeeStatus == {"ONBOARDING", "ACTIVE", "ON_LEAVE", "TERMINATED"}
RequestStatus == {"NONE", "PENDING", "APPROVED", "REJECTED", "CANCELLED"}
ActiveStatuses == {"PENDING", "APPROVED"}

(* STATUS_TRANSITIONS of the employees service.                            *)
StatusTransitions ==
    {<<"ONBOARDING", "ACTIVE">>, <<"ACTIVE", "ON_LEAVE">>, <<"ON_LEAVE", "ACTIVE">>}

(* Who calls: the requester's own login, an HR login (leave:read_all), the *)
(* designated approver or somebody above the requester in the org chart.   *)
Actors == [owner : BOOLEAN, hr : BOOLEAN, chain : BOOLEAN]

(* The columns of a leave type that decide anything; an expiry of 0 stands *)
(* for a null carryOverExpiresOn.                                          *)
Policy == [requiresBalance : BOOLEAN, isActive : BOOLEAN,
           allowHalfDay : BOOLEAN, defaultDays : Nat,
           carryOverMaxDays : Nat, carryOverExpiresOn : Nat]

(* A balance row; exists = FALSE until it is provisioned.                  *)
Row == [exists : BOOLEAN, entitled : Nat, carriedOver : Nat,
        carryOverExpiresOn : Nat, adjustment : Int, used : Int, pending : Int]

NoRow == [exists |-> FALSE, entitled |-> 0, carriedOver |-> 0,
          carryOverExpiresOn |-> 0, adjustment |-> 0, used |-> 0, pending |-> 0]

(* allocations[y] is the number of half-days charged to year y.            *)
Request == [employee : Employees, type : Types, startDate : Dates,
            endDate : Dates, halfDay : BOOLEAN, allocations : [Years -> Nat],
            status : RequestStatus, statusApplied : BOOLEAN]

Keys == Employees \X Types \X Years

ASSUME CalendarAssumption ==
    /\ MonthsPerYear \in Nat \ {0}
    /\ DaysPerMonth \in Nat \ {0}
    /\ LastDate \in Nat \ {0}
    /\ Weekend \subseteq Dates
    /\ HolidayDates \subseteq Dates
    /\ HireDate \in [Employees -> Dates]

ASSUME PolicyAssumption ==
    /\ Employees # {} /\ Types # {}
    /\ Policies \subseteq Policy
    /\ Deltas \subseteq Int
    /\ MaxAdjustment \in Nat
    /\ CreatedAs \subseteq {"ONBOARDING", "ACTIVE"}
    /\ ManualChanges \subseteq StatusTransitions
    /\ MayTerminate \subseteq Employees
    /\ LongLeave \in Nat

(* Only finitely many requests are ever filed.                             *)
ASSUME RequestAssumption == IsFiniteSet(RequestIds)

-----------------------------------------------------------------------------
(* Day arithmetic.                                                         *)

IsWorkingDay(d) == d \notin Weekend /\ d \notin holidays

(* The dates countWorkingDays accepts: in order, half-days on one day only.*)
ValidRange(start, end, half) == start <= end /\ (half => start = end)

CountWorkingDays(start, end, half) ==
    LET n == Cardinality({d \in start..end : IsWorkingDay(d)})
    IN  IF half THEN (IF n = 0 THEN 0 ELSE 1) ELSE 2 * n

(* allocate: one part per calendar year, each part validated on its own.   *)
ValidParts(start, end, half) ==
    LET y == YearOf(start)
    IN  IF YearOf(end) = y
        THEN ValidRange(start, end, half)
        ELSE /\ ValidRange(start, YearEnd(y), half)
             /\ ValidRange(YearStart(y + 1), end, half)

Allocate(start, end, half) ==
    [y \in Years |->
        IF y = YearOf(start)
        THEN CountWorkingDays(start, IF YearOf(end) = y THEN end ELSE YearEnd(y), half)
        ELSE IF y = YearOf(start) + 1 /\ YearOf(end) = y
        THEN CountWorkingDays(YearStart(y), end, half)
        ELSE 0]

(* isLongLeave                                                             *)
IsLongLeave(r) == r.endDate - r.startDate + 1 >= LongLeave

-----------------------------------------------------------------------------
(* Balance rows.                                                           *)

(* proRate: the hire year's entitlement scaled by the months left, rounded *)
(* to the nearest half-day (Math.round rounds .5 up).                      *)
ProRate(defaultDays, hired, year) ==
    LET months == MonthsPerYear - MonthOf(hired)
    IN  IF year < YearOf(hired) THEN 0
        ELSE IF year > YearOf(hired) THEN defaultDays
        ELSE (2 * defaultDays * months + MonthsPerYear) \div (2 * MonthsPerYear)

EffectiveCarryOver(row, asOf) ==
    IF row.carryOverExpiresOn # 0 /\ asOf > row.carryOverExpiresOn
    THEN 0 ELSE row.carriedOver

(* Mutant: available forgets the days already used.                        *)
AvailableIgnoringUsed(row, asOf) ==
    row.entitled + EffectiveCarryOver(row, asOf) + row.adjustment - row.pending

Available(row, asOf) ==
    row.entitled + EffectiveCarryOver(row, asOf) + row.adjustment
        - row.used - row.pending

(* The capped carry-over a new row of year y takes from the row before it. *)
CarryOver(bal, e, t, y) ==
    LET prev == bal[<<e, t, y - 1>>]
        left == prev.entitled + EffectiveCarryOver(prev, YearEnd(y - 1))
                    + prev.adjustment - prev.used
        cap  == policy[t].carryOverMaxDays
    IN  IF cap = 0 \/ y = 0 THEN 0
        ELSE IF ~prev.exists \/ left < 0 THEN 0
        ELSE IF left < cap THEN left ELSE cap

Provision(bal, e, t, y) ==
    LET carried == CarryOver(bal, e, t, y)
        expiry  == policy[t].carryOverExpiresOn
    IN  [exists |-> TRUE,
         entitled |-> ProRate(policy[t].defaultDays, HireDate[e], y),
         carriedOver |-> carried,
         carryOverExpiresOn |->
             IF carried > 0 /\ expiry # 0 THEN YearStart(y) + expiry - 1 ELSE 0,
         adjustment |-> 0, used |-> 0, pending |-> 0]

(* ensureBalance: the table with the row of <<e, t, y>> in it.             *)
EnsureBalance(bal, e, t, y) ==
    IF bal[<<e, t, y>>].exists THEN bal
    ELSE [bal EXCEPT ![<<e, t, y>>] = Provision(bal, e, t, y)]

(* The rows of both years an allocation touches, the earlier one first.    *)
EnsureAllocated(bal, e, t, alloc, y) ==
    LET first == IF alloc[y] > 0 THEN EnsureBalance(bal, e, t, y) ELSE bal
    IN  IF y + 1 \in Years /\ alloc[y + 1] > 0
        THEN EnsureBalance(first, e, t, y + 1) ELSE first

ApplyToBalance(row, pending, used) ==
    [row EXCEPT !.pending = @ + pending, !.used = @ + used]

(* Rows that exist are charged with an allocation: n times its days are    *)
(* added to pending and m times to used.                                   *)
Charge(bal, e, t, alloc, n, m) ==
    [k \in Keys |->
        IF k[1] = e /\ k[2] = t /\ alloc[k[3]] > 0
        THEN ApplyToBalance(bal[k], n * alloc[k[3]], m * alloc[k[3]])
        ELSE bal[k]]

(* chargeBalances for a stored request: each year's row is ensured and     *)
(* charged before the next year's, which may carry over from it.           *)
ChargeYear(bal, r, y, n, m) ==
    IF r.allocations[y] = 0 THEN bal
    ELSE Charge(EnsureBalance(bal, r.employee, r.type, y), r.employee, r.type,
                [z \in Years |-> IF z = y THEN r.allocations[z] ELSE 0], n, m)

ChargeBalances(bal, r, n, m) ==
    LET y     == YearOf(r.startDate)
        first == ChargeYear(bal, r, y, n, m)
    IN  IF y + 1 \in Years THEN ChargeYear(first, r, y + 1, n, m) ELSE first

-----------------------------------------------------------------------------
TypeOK ==
    /\ today \in Dates
    /\ policy \in [Types -> Policies]
    /\ holidays \in SUBSET Dates
    /\ balances \in [Keys -> Row]
    /\ requests \in [RequestIds -> Request]
    /\ empStatus \in [Employees -> EmployeeStatus]

(* Requests start as unused ids: status NONE, the other columns arbitrary  *)
(* but fixed.                                                              *)
NoRequest == [employee |-> CHOOSE e \in Employees : TRUE,
              type |-> CHOOSE t \in Types : TRUE,
              startDate |-> 1, endDate |-> 1, halfDay |-> FALSE,
              allocations |-> [y \in Years |-> 0],
              status |-> "NONE", statusApplied |-> FALSE]

Init ==
    /\ today = 1
    /\ policy \in [Types -> Policies]
    /\ holidays = {}
    /\ balances = [k \in Keys |-> NoRow]
    /\ requests = [i \in RequestIds |-> NoRequest]
    /\ empStatus \in [Employees -> CreatedAs]

-----------------------------------------------------------------------------
(* The request workflow.                                                   *)

(* submit's checks before it looks at any balance: the overlap query and   *)
(* the early returns.                                                      *)
Overlaps(r, e, start, end) ==
    r.employee = e /\ r.status \in ActiveStatuses
        /\ r.startDate <= end /\ r.endDate >= start

(* Mutant: only pending requests are looked at.                            *)
NoConflictWithPending(e, start, end) ==
    \A j \in RequestIds :
        requests[j].status = "PENDING" => ~Overlaps(requests[j], e, start, end)

NoConflict(e, start, end) ==
    \A j \in RequestIds : ~Overlaps(requests[j], e, start, end)

CanSubmit(e, t, start, end, half) ==
    /\ empStatus[e] # "TERMINATED"
    /\ policy[t].isActive
    /\ half => policy[t].allowHalfDay
    /\ YearOf(end) <= YearOf(start) + 1
    /\ start >= HireDate[e]
    /\ ValidParts(start, end, half)
    /\ \E y \in Years : Allocate(start, end, half)[y] > 0
    /\ NoConflict(e, start, end)

(* The balance check of one allocated year.                                *)
Funded(bal, e, t, start, alloc, y) ==
    alloc[y] > 0 =>
        alloc[y] <= Available(bal[<<e, t, y>>],
                              IF y = YearOf(start) THEN start ELSE YearStart(y))

(* The rows submit has provisioned when it returns: it stops at the first  *)
(* year that is short.                                                     *)
SubmitRows(e, t, start, alloc) ==
    LET y     == YearOf(start)
        first == IF alloc[y] > 0 THEN EnsureBalance(balances, e, t, y) ELSE balances
    IN  IF Funded(first, e, t, start, alloc, y)
        THEN EnsureAllocated(balances, e, t, alloc, y) ELSE first

NewRequest(e, t, start, end, half) ==
    [employee |-> e, type |-> t, startDate |-> start, endDate |-> end,
     halfDay |-> half, allocations |-> Allocate(start, end, half),
     status |-> "PENDING", statusApplied |-> FALSE]

Submit(i, e, t, start, end, half) ==
    LET alloc == Allocate(start, end, half)
        rows  == SubmitRows(e, t, start, alloc)
    IN  /\ requests[i].status = "NONE"
        /\ CanSubmit(e, t, start, end, half)
        /\ policy[t].requiresBalance =>
               \A y \in Years : Funded(rows, e, t, start, alloc, y)
        /\ balances' = IF policy[t].requiresBalance
                       THEN Charge(rows, e, t, alloc, 1, 0) ELSE balances
        /\ requests' = [requests EXCEPT ![i] = NewRequest(e, t, start, end, half)]
        /\ UNCHANGED <<today, policy, holidays, empStatus>>

(* submit answering "Insufficient balance": the rows it provisioned stay.  *)
SubmitInsufficient(e, t, start, end, half) ==
    LET alloc == Allocate(start, end, half)
        rows  == SubmitRows(e, t, start, alloc)
    IN  /\ CanSubmit(e, t, start, end, half)
        /\ policy[t].requiresBalance
        /\ \E y \in Years : ~Funded(rows, e, t, start, alloc, y)
        /\ balances' = rows
        /\ UNCHANGED <<today, policy, holidays, requests, empStatus>>

(* loadForDecision                                                         *)
MayDecide(i, actor) ==
    /\ requests[i].status = "PENDING"
    /\ ~actor.owner
    /\ actor.hr \/ actor.chain

Decided(r, status, applied) ==
    [r EXCEPT !.status = status, !.statusApplied = applied]

(* Mutant: every release is taken from pending.                            *)
ReleasePending(r) ==
    IF policy[r.type].requiresBalance
    THEN ChargeBalances(balances, r, -1, 0) ELSE balances

(* releaseReservation                                                      *)
Release(r) ==
    IF ~policy[r.type].requiresBalance THEN balances
    ELSE IF r.status = "PENDING" THEN ChargeBalances(balances, r, -1, 0)
    ELSE ChargeBalances(balances, r, 0, -1)

(* Mutant: setOnLeave does not look at the employee's status.              *)
TakesEffectAnyStatus(r) ==
    /\ IsLongLeave(r)
    /\ r.startDate <= today /\ r.endDate >= today

(* applyLongLeaveStatus and setOnLeave: a running long leave of an ACTIVE  *)
(* employee switches the employee to ON_LEAVE.                             *)
TakesEffect(r) ==
    /\ IsLongLeave(r)
    /\ r.startDate <= today /\ r.endDate >= today
    /\ empStatus[r.employee] = "ACTIVE"

Approve(i, actor) ==
    LET r == requests[i]
    IN  /\ MayDecide(i, actor)
        /\ balances' = IF policy[r.type].requiresBalance
                       THEN ChargeBalances(balances, r, -1, 1) ELSE balances
        /\ requests' = [requests EXCEPT ![i] = Decided(r, "APPROVED", TakesEffect(r))]
        /\ empStatus' = IF TakesEffect(r)
                        THEN [empStatus EXCEPT ![r.employee] = "ON_LEAVE"]
                        ELSE empStatus
        /\ UNCHANGED <<today, policy, holidays>>

Reject(i, actor) ==
    /\ MayDecide(i, actor)
    /\ balances' = Release(requests[i])
    /\ requests' = [requests EXCEPT
           ![i] = Decided(@, "REJECTED", requests[i].statusApplied)]
    /\ UNCHANGED <<today, policy, holidays, empStatus>>

(* cancel, with revertLongLeaveStatus when the request put its employee on *)
(* leave.                                                                  *)
Cancel(i, actor) ==
    LET r == requests[i]
    IN  /\ actor.hr \/ actor.owner
        /\ r.status \in ActiveStatuses
        /\ r.status = "APPROVED" /\ ~actor.hr => r.startDate > today
        /\ balances' = Release(r)
        /\ requests' = [requests EXCEPT ![i] = Decided(r, "CANCELLED", FALSE)]
        /\ empStatus' = IF r.statusApplied /\ empStatus[r.employee] = "ON_LEAVE"
                        THEN [empStatus EXCEPT ![r.employee] = "ACTIVE"]
                        ELSE empStatus
        /\ UNCHANGED <<today, policy, holidays>>

(* syncEmployeeStatuses: the requests it starts are handled before the     *)
(* ones it ends.                                                           *)
Starting ==
    {i \in RequestIds : /\ requests[i].status = "APPROVED"
                        /\ ~requests[i].statusApplied
                        /\ TakesEffect(requests[i])}

(* Mutant: the job only looks at the leaves that ended yesterday.          *)
EndingYesterday ==
    {i \in RequestIds : /\ requests[i].status = "APPROVED"
                        /\ requests[i].statusApplied
                        /\ requests[i].endDate = today - 1}

Ending ==
    {i \in RequestIds : /\ requests[i].status = "APPROVED"
                        /\ requests[i].statusApplied
                        /\ requests[i].endDate <= today - 1}

EmployeesOf(ids) == {requests[i].employee : i \in ids}

SyncEmployeeStatuses ==
    /\ requests' = [i \in RequestIds |->
           [requests[i] EXCEPT !.statusApplied =
               (@ \/ i \in Starting) /\ i \notin Ending]]
    /\ empStatus' = [e \in Employees |->
           IF e \in EmployeesOf(Ending)
              /\ (empStatus[e] = "ON_LEAVE" \/ e \in EmployeesOf(Starting))
           THEN "ACTIVE"
           ELSE IF e \in EmployeesOf(Starting) THEN "ON_LEAVE" ELSE empStatus[e]]
    /\ UNCHANGED <<today, policy, holidays, balances>>

-----------------------------------------------------------------------------
(* Balances, policy and the employee record.                               *)

(* adjust: the row is provisioned even when the correction is refused.     *)
Adjust(e, t, y, delta) ==
    LET bal == EnsureBalance(balances, e, t, y)
    IN  /\ policy[t].requiresBalance
        /\ balances[<<e, t, y>>].adjustment + delta <= MaxAdjustment
        /\ balances' =
               IF Available(bal[<<e, t, y>>], today) + delta < 0 THEN bal
               ELSE [bal EXCEPT ![<<e, t, y>>].adjustment = @ + delta]
        /\ UNCHANGED <<today, policy, holidays, requests, empStatus>>

(* balancesFor: reading an employee's balances of a year provisions them.  *)
BalancesFor(e, y) ==
    /\ balances' = [k \in Keys |->
           IF /\ k[1] = e /\ k[3] = y
              /\ policy[k[2]].isActive /\ policy[k[2]].requiresBalance
           THEN EnsureBalance(balances, e, k[2], y)[k] ELSE balances[k]]
    /\ UNCHANGED <<today, policy, holidays, requests, empStatus>>

UpdateType(t, p) ==
    /\ policy' = [policy EXCEPT ![t] = p]
    /\ UNCHANGED <<today, holidays, balances, requests, empStatus>>

(* addHoliday with one date, addNigerianHolidays with those of a year.     *)
AddHolidays(ds) ==
    /\ holidays' = holidays \cup ds
    /\ UNCHANGED <<today, policy, balances, requests, empStatus>>

RemoveHoliday(d) ==
    /\ d \in holidays
    /\ holidays' = holidays \ {d}
    /\ UNCHANGED <<today, policy, balances, requests, empStatus>>

(* changeStatus called through the employees API.                          *)
ChangeStatus(e, to) ==
    /\ <<empStatus[e], to>> \in ManualChanges
    /\ empStatus' = [empStatus EXCEPT ![e] = to]
    /\ UNCHANGED <<today, policy, holidays, balances, requests>>

(* terminate, as far as leave sees it.                                     *)
Terminate(e) ==
    /\ e \in MayTerminate
    /\ empStatus[e] # "TERMINATED"
    /\ empStatus' = [empStatus EXCEPT ![e] = "TERMINATED"]
    /\ UNCHANGED <<today, policy, holidays, balances, requests>>

(* Midnight.                                                               *)
Tick ==
    /\ today < LastDate
    /\ today' = today + 1
    /\ UNCHANGED <<policy, holidays, balances, requests, empStatus>>

-----------------------------------------------------------------------------
RequestStep ==
    \/ \E e \in Employees, t \in Types, start, end \in Dates, half \in BOOLEAN :
           \/ \E i \in RequestIds : Submit(i, e, t, start, end, half)
           \/ SubmitInsufficient(e, t, start, end, half)
    \/ \E i \in RequestIds, actor \in Actors :
           Approve(i, actor) \/ Reject(i, actor) \/ Cancel(i, actor)
    \/ SyncEmployeeStatuses

PolicyStep ==
    \/ \E e \in Employees, t \in Types, y \in Years, delta \in Deltas :
           Adjust(e, t, y, delta)
    \/ \E e \in Employees, y \in Years : BalancesFor(e, y)
    \/ \E t \in Types, p \in Policies : UpdateType(t, p)
    \/ \E ds \in SUBSET HolidayDates : AddHolidays(ds)
    \/ \E d \in HolidayDates : RemoveHoliday(d)

EmployeeStep ==
    \E e \in Employees :
        \/ \E to \in EmployeeStatus : ChangeStatus(e, to)
        \/ Terminate(e)

Next == RequestStep \/ PolicyStep \/ EmployeeStep \/ Tick

Spec == Init /\ [][Next]_vars

(* The calendar advances and the daily job runs: BullMQ's scheduler fires  *)
(* status-sync every day at 00:05 while the workers are enabled.           *)
FairSpec == Spec /\ WF_vars(Tick) /\ WF_vars(SyncEmployeeStatuses)

-----------------------------------------------------------------------------
(* What the promise is worth.                                              *)

Funds(row) == row.entitled + row.carriedOver + row.adjustment

(* A balance is never overdrawn: the days used and reserved on a row never *)
(* exceed what was granted, carried over and corrected on it, through any  *)
(* sequence of submissions, decisions, corrections and policy changes.     *)
NotOverdrawn ==
    \A k \in Keys : balances[k].used + balances[k].pending <= Funds(balances[k])

(* submit: two pending or approved requests of an employee never share a   *)
(* day.                                                                    *)
NoOverlap ==
    \A i, j \in RequestIds :
        i # j /\ requests[j].status \in ActiveStatuses
            => ~Overlaps(requests[i], requests[j].employee,
                         requests[j].startDate, requests[j].endDate)

(* The half-days a request charges to a row, and those the requests of a   *)
(* status charge to it together.                                           *)
Days(r, k) == IF r.employee = k[1] /\ r.type = k[2] THEN r.allocations[k[3]] ELSE 0

Charged(k, status) ==
    SumOver([i \in RequestIds |->
                IF requests[i].status = status THEN Days(requests[i], k) ELSE 0],
            RequestIds)

(* chargeBalances: pending is exactly what the PENDING requests reserve    *)
(* and used exactly what the APPROVED ones took, on every row, whatever    *)
(* was submitted, decided, cancelled or split over two years before.       *)
LedgerBalanced ==
    \A k \in Keys :
        policy[k[2]].requiresBalance =>
            /\ balances[k].pending = Charged(k, "PENDING")
            /\ balances[k].used = Charged(k, "APPROVED")

(* Nobody stays on leave for a leave that is over: revertLongLeaveStatus   *)
(* is eventually run for every request that was applied and has ended.     *)
LeaveEnds ==
    \A i \in RequestIds :
        (requests[i].statusApplied /\ requests[i].endDate < LastDate)
            ~> ~requests[i].statusApplied
=============================================================================
