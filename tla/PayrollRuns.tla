---------------------------- MODULE PayrollRuns ----------------------------
(***************************************************************************)
(* Payroll runs and their payslips (PayrollService): a run is created as a *)
(* DRAFT, calculated as often as needed, approved (PDFs rendered, slips    *)
(* frozen, employees told) and marked paid.  The handlers are split at     *)
(* their awaits; there is no transaction, and saving a run writes back     *)
(* every column of the row that was loaded.                                *)
(*                                                                         *)
(* Employees in Foreign are paid in another currency, at the run's rate.   *)
(* Salary structures are those of SalaryStructures; createStructure is a   *)
(* handler here.                                                           *)
(***************************************************************************)
EXTENDS SalaryStructures

CONSTANTS
    RunIds,          \* ids of payroll runs that may be created (a bound)
    Departments,     \* departments, for runs that are limited to one
    WorksIn,         \* department of every employee
    Foreign,         \* employees whose structure is in another currency
    HasLogin,        \* employees with a user account
    Periods,         \* periods <<start, end>> HR may choose
    Rates,           \* FX rates HR may set; 0: not set
    MaxCalculations, \* bound on the calculations of a run
    Procs,           \* handlers that may be in flight together
    Interleaved,     \* may handlers overlap?
    MaxDeaths,       \* bound on handlers that end in the middle
    Handlers         \* the handlers an instance starts

VARIABLES
    runs,       \* payroll_runs
    slips,      \* payslips, by run and employee
    calcs,      \* calculations of each run so far: the ids of its slips
    pdfs,       \* amounts on the payslip PDFs made for a run and employee
    told,       \* <<run, employee>> with a PAYSLIP_AVAILABLE notification
    procs,      \* what each handler in flight is doing
    deaths,     \* handlers that ended in the middle so far
    crossed,    \* history: runs of which two handlers were in flight together
    overtaken   \* history: handlers whose run another one wrote after they read it

ghosts == <<crossed, overtaken>>
vars == <<structures, runs, slips, calcs, pdfs, told, procs, deaths, ghosts>>

Company == "company"     \* departmentId null: the whole company
Scopes == Departments \cup {Company}
Status == {"NONE", "DRAFT", "CALCULATED", "APPROVED", "PAID", "DELETED"}

ASSUME PayrollAssumption ==
    /\ WorksIn \in [Employees -> Departments]
    /\ Foreign \subseteq Employees /\ HasLogin \subseteq Employees
    /\ Periods \subseteq Nat \X Nat
    /\ Rates \subseteq Nat
    /\ MaxCalculations \in Nat
    /\ Interleaved \in BOOLEAN /\ MaxDeaths \in Nat
    /\ Handlers \subseteq {"structure", "create", "rates", "calculate", "approve", "pay", "delete"}

NoTotals == [employees |-> 0, gross |-> 0, skipped |-> 0]
NoRun == [status |-> "NONE", scope |-> Company, period |-> <<0, 0>>, fx |-> 0,
          totals |-> NoTotals]

(* A payslip: which calculation made it (0: there is none), its amount and *)
(* the amount on the PDF it is linked to (0: none).                        *)
NoSlip == [calc |-> 0, amount |-> 0, pdf |-> 0]
NoSlips == [e \in Employees |-> NoSlip]

(* A handler: the run it was called for, the row it loaded and will save,  *)
(* the slips it loaded, the employees it has yet to visit (the one at hand *)
(* is emp), and the totals it has added up; for createStructure, the row   *)
(* it found as current (0: none) and the structure it will insert.         *)
NoStructure == [effectiveFrom |-> 0, effectiveTo |-> 0, pay |-> 0]
Idle == [pc |-> "idle", kind |-> "none", run |-> "none", row |-> NoRun,
         slips |-> NoSlips, todo |-> {}, emp |-> "none", totals |-> NoTotals,
         current |-> 0, new |-> NoStructure]

Totals == [employees : Nat, gross : Int, skipped : Nat]
Run == [status : Status, scope : Scopes, period : (Nat \X Nat), fx : Nat, totals : Totals]
Slip == [calc : Nat, amount : Nat, pdf : Nat]
Pcs == {"idle", "delete", "slip", "load", "render", "link", "save", "tell", "remove",
        "close", "insert"}

TypeOK ==
    /\ structures \in [Employees -> Seq(Structure)]
    /\ runs \in [RunIds -> Run]
    /\ slips \in [RunIds -> [Employees -> Slip]]
    /\ calcs \in [RunIds -> Nat]
    /\ pdfs \in [RunIds -> [Employees -> SUBSET Nat]]
    /\ told \subseteq RunIds \X Employees
    /\ procs \in [Procs ->
           [pc : Pcs, kind : Handlers \cup {"none"}, run : RunIds \cup {"none"}, row : Run,
            slips : [Employees -> Slip], todo : SUBSET Employees,
            emp : Employees \cup {"none"}, totals : Totals,
            current : Nat, new : Structure \cup {NoStructure}]]
    /\ deaths \in 0..MaxDeaths
    /\ crossed \subseteq RunIds /\ overtaken \subseteq Procs

InitRuns ==
    /\ runs = [r \in RunIds |-> NoRun]
    /\ slips = [r \in RunIds |-> NoSlips]
    /\ calcs = [r \in RunIds |-> 0]
    /\ pdfs = [r \in RunIds |-> [e \in Employees |-> {}]]
    /\ told = {}
    /\ procs = [p \in Procs |-> Idle]
    /\ deaths = 0
    /\ crossed = {} /\ overtaken = {}

Init == structures = [e \in Employees |-> <<>>] /\ InitRuns

Quiet == \A p \in Procs : procs[p].pc = "idle"
At(p, pc) == procs[p].pc = pc
Goto(p, next) == procs' = [procs EXCEPT ![p] = next]

(* The other handlers of a run that are in flight.                         *)
Others(p, r) == {q \in Procs \ {p} : ~At(q, "idle") /\ procs[q].run = r}

(* A handler starts.                                                       *)
Begin(p, kind, start) ==
    /\ kind \in Handlers
    /\ At(p, "idle")
    /\ Interleaved \/ Quiet
    /\ Goto(p, [start EXCEPT !.kind = kind])
    /\ crossed' = crossed \cup {r \in RunIds : r = start.run /\ Others(p, r) # {}}
    /\ overtaken' = overtaken \ {p}
    /\ UNCHANGED <<structures, runs, slips, calcs, pdfs, told, deaths>>

(* The run of a handler is written: the others of that run are overtaken.  *)
Overtake(p) ==
    /\ overtaken' = overtaken \cup Others(p, procs[p].run)
    /\ UNCHANGED crossed

-----------------------------------------------------------------------------
(* createStructure: the current structure is closed, then the new one is   *)
(* inserted, by two statements.  It must start after the one found.        *)
StartStructure(p, e, from, pay) ==
    LET load(i) == Begin(p, "structure",
            [Idle EXCEPT !.pc = IF i = 0 THEN "insert" ELSE "close", !.emp = e,
                         !.current = i, !.new = NewStructure(from, pay)])
    IN  /\ Len(structures[e]) < MaxStructures
        /\ \/ CurrentRows(e) = {} /\ load(0)
           \/ \E i \in CurrentRows(e) : from > structures[e][i].effectiveFrom /\ load(i)

CloseStructure(p) ==
    LET l == procs[p]
    IN  /\ At(p, "close")
        /\ structures' = [structures EXCEPT
               ![l.emp][l.current] = Closed(@, l.new.effectiveFrom)]
        /\ Goto(p, [l EXCEPT !.pc = "insert"])
        /\ UNCHANGED <<runs, slips, calcs, pdfs, told, deaths, ghosts>>

InsertStructure(p) ==
    LET l == procs[p]
    IN  /\ At(p, "insert")
        /\ structures' = [structures EXCEPT ![l.emp] = Append(@, l.new)]
        /\ Goto(p, Idle)
        /\ UNCHANGED <<runs, slips, calcs, pdfs, told, deaths, ghosts>>

-----------------------------------------------------------------------------
(* createRun, setFxRates, markPaid and deleteRun.                          *)

(* Mutant: an approved run may still be changed.                           *)
OpenTooLong == {"DRAFT", "CALCULATED", "APPROVED"}

(* The statuses in which a run may be recalculated, re-rated or deleted.   *)
Open == {"DRAFT", "CALCULATED"}
Frozen == {"APPROVED", "PAID"}

SharesDays(p, q) == p[1] <= q[2] /\ q[1] <= p[2]

StartCreate(p, r, scope, period, fx) ==
    /\ runs[r].status = "NONE"
    /\ period[1] <= period[2]
    /\ \A q \in Procs : procs[q].run # r
    /\ \A s \in RunIds : ~ /\ runs[s].status \in {"CALCULATED", "APPROVED", "PAID"}
                           /\ runs[s].scope = scope
                           /\ SharesDays(runs[s].period, period)
    /\ Begin(p, "create", [Idle EXCEPT !.pc = "save", !.run = r,
           !.row = [status |-> "DRAFT", scope |-> scope, period |-> period, fx |-> fx,
                    totals |-> NoTotals]])

StartRates(p, r, fx) ==
    /\ runs[r].status \in Open
    /\ Begin(p, "rates", [Idle EXCEPT !.pc = "save", !.run = r,
                                      !.row = [runs[r] EXCEPT !.fx = fx]])

StartPay(p, r) ==
    /\ runs[r].status = "APPROVED"
    /\ Begin(p, "pay", [Idle EXCEPT !.pc = "save", !.run = r,
                                    !.row = [runs[r] EXCEPT !.status = "PAID"]])

StartDelete(p, r) ==
    /\ runs[r].status \in Open
    /\ Begin(p, "delete", [Idle EXCEPT !.pc = "remove", !.run = r])

(* runs.remove; its payslips go with it (ON DELETE CASCADE).               *)
Remove(p) ==
    LET r == procs[p].run
    IN  /\ At(p, "remove")
        /\ runs' = [runs EXCEPT ![r] = [NoRun EXCEPT !.status = "DELETED"]]
        /\ slips' = [slips EXCEPT ![r] = NoSlips]
        /\ Goto(p, Idle)
        /\ Overtake(p)
        /\ UNCHANGED <<structures, calcs, pdfs, told, deaths>>

-----------------------------------------------------------------------------
(* calculate                                                               *)

(* Everyone of the run's department employed for any part of its period.   *)
InScope(row) ==
    {e \in Employees : /\ row.scope \in {Company, WorksIn[e]}
                       /\ Employment[e][1] <= row.period[2]
                       /\ Employment[e][2] >= row.period[1]}

StartCalculate(p, r) ==
    /\ runs[r].status \in Open
    /\ calcs[r] < MaxCalculations
    /\ Begin(p, "calculate", [Idle EXCEPT !.pc = "delete", !.run = r, !.row = runs[r],
                                          !.todo = InScope(runs[r])])

(* The handler in its loop over the employees; after the last one the run  *)
(* is ready to be saved.                                                   *)
Computed(l) ==
    IF l.todo # {} THEN [l EXCEPT !.pc = "slip"]
    ELSE [l EXCEPT !.pc = "save", !.row.status = "CALCULATED", !.row.totals = l.totals]

(* The earlier slips of the run are deleted.                               *)
DeleteSlips(p) ==
    LET l == procs[p]
    IN  /\ At(p, "delete")
        /\ slips' = [slips EXCEPT ![l.run] = NoSlips]
        /\ calcs' = [calcs EXCEPT ![l.run] = @ + 1]
        /\ Goto(p, Computed(l))
        /\ UNCHANGED <<structures, runs, pdfs, told, deaths, ghosts>>

(* toCurrency: at the rate of the run; 0 where there is no rate.           *)
ToCurrency(e, pay, fx) == IF e \in Foreign THEN pay * fx ELSE pay

(* What is due to an employee; 0 stands for the reasons to skip one: no    *)
(* structure in the period, no rate, not employed during its segments.     *)
Due(e, row) == ToCurrency(e, ContractualPay(e, row.period), row.fx)

Tally(totals, amount) ==
    IF amount = 0 THEN [totals EXCEPT !.skipped = @ + 1]
    ELSE [totals EXCEPT !.employees = @ + 1, !.gross = @ + amount]

(* One employee: skipped, or given a slip.  The insert is refused when the *)
(* run is gone or another calculation has made a slip for this employee,   *)
(* and the handler ends.                                                   *)
SaveSlip(p) ==
    LET l == procs[p]
    IN  /\ At(p, "slip")
        /\ \E e \in l.todo :
               LET amount  == Due(e, l.row)
                   refused == /\ amount > 0
                              /\ \/ runs[l.run].status \in {"NONE", "DELETED"}
                                 \/ slips[l.run][e].calc # 0
               IN  /\ Goto(p, IF refused THEN Idle
                              ELSE Computed([l EXCEPT !.todo = @ \ {e},
                                                      !.totals = Tally(@, amount)]))
                   /\ slips' = IF refused \/ amount = 0 THEN slips
                               ELSE [slips EXCEPT ![l.run][e] =
                                        [calc |-> calcs[l.run], amount |-> amount, pdf |-> 0]]
        /\ UNCHANGED <<structures, runs, calcs, pdfs, told, deaths, ghosts>>

-----------------------------------------------------------------------------
(* approve                                                                 *)

StartApprove(p, r) ==
    /\ runs[r].status = "CALCULATED"
    /\ Begin(p, "approve", [Idle EXCEPT !.pc = "load", !.run = r, !.row = runs[r]])

(* A run without payslips is refused.                                      *)
LoadSlips(p) ==
    LET l     == procs[p]
        there == {e \in Employees : slips[l.run][e].calc # 0}
    IN  /\ At(p, "load")
        /\ Goto(p, IF there = {} THEN Idle
                   ELSE [l EXCEPT !.pc = "render", !.slips = slips[l.run], !.todo = there])
        /\ UNCHANGED <<structures, runs, slips, calcs, pdfs, told, deaths, ghosts>>

(* The PDF of a loaded slip is stored as a document of the employee.       *)
Render(p) ==
    LET l == procs[p]
    IN  /\ At(p, "render")
        /\ \E e \in l.todo :
               /\ pdfs' = [pdfs EXCEPT ![l.run][e] = @ \cup {l.slips[e].amount}]
               /\ Goto(p, [l EXCEPT !.pc = "link", !.emp = e])
        /\ UNCHANGED <<structures, runs, slips, calcs, told, deaths, ghosts>>

(* Mutant: only the first slip is linked to its PDF.                       *)
LinkFirst(p) ==
    LET l == procs[p]
    IN  /\ At(p, "link")
        /\ slips' = [slips EXCEPT ![l.run][l.emp].pdf = l.slips[l.emp].amount]
        /\ Goto(p, [l EXCEPT !.pc = "save", !.row.status = "APPROVED", !.emp = "none",
                        !.todo = {e \in Employees : l.slips[e].calc # 0}])
        /\ UNCHANGED <<structures, runs, calcs, pdfs, told, deaths, ghosts>>

(* The slip is updated by its id, which does nothing when it is gone; after*)
(* the last one the run is ready to be saved.                              *)
Link(p) ==
    LET l    == procs[p]
        left == l.todo \ {l.emp}
    IN  /\ At(p, "link")
        /\ slips' = IF slips[l.run][l.emp].calc = l.slips[l.emp].calc
                    THEN [slips EXCEPT ![l.run][l.emp].pdf = l.slips[l.emp].amount]
                    ELSE slips
        /\ Goto(p, IF left # {}
                   THEN [l EXCEPT !.pc = "render", !.todo = left, !.emp = "none"]
                   ELSE [l EXCEPT !.pc = "save", !.row.status = "APPROVED", !.emp = "none",
                            !.todo = {e \in Employees : l.slips[e].calc # 0}])
        /\ UNCHANGED <<structures, runs, calcs, pdfs, told, deaths, ghosts>>

(* runs.save: every column of the loaded row is written back, and a row    *)
(* that was removed meanwhile is inserted again.                           *)
SaveRun(p) ==
    LET l == procs[p]
    IN  /\ At(p, "save")
        /\ runs' = [runs EXCEPT ![l.run] = l.row]
        /\ Goto(p, IF l.kind = "approve" THEN [l EXCEPT !.pc = "tell"] ELSE Idle)
        /\ Overtake(p)
        /\ UNCHANGED <<structures, slips, calcs, pdfs, told, deaths>>

(* Mutant: whoever is first is the only one to hear of it.                 *)
TellFirst(p) ==
    LET l == procs[p]
    IN  /\ At(p, "tell")
        /\ \E e \in l.todo : told' = told \cup ({<<l.run, e>>} \cap (RunIds \X HasLogin))
        /\ Goto(p, Idle)
        /\ UNCHANGED <<structures, runs, slips, calcs, pdfs, deaths, ghosts>>

(* Employees without a login are passed over.                              *)
Tell(p) ==
    LET l == procs[p]
    IN  /\ At(p, "tell")
        /\ \E e \in l.todo :
               /\ told' = IF e \in HasLogin THEN told \cup {<<l.run, e>>} ELSE told
               /\ Goto(p, IF l.todo = {e} THEN Idle ELSE [l EXCEPT !.todo = @ \ {e}])
        /\ UNCHANGED <<structures, runs, slips, calcs, pdfs, deaths, ghosts>>

-----------------------------------------------------------------------------
(* The process dies, or a call throws: what the handler has written stays. *)
Die(p) ==
    /\ deaths < MaxDeaths
    /\ ~At(p, "idle")
    /\ deaths' = deaths + 1
    /\ Goto(p, Idle)
    /\ UNCHANGED <<structures, runs, slips, calcs, pdfs, told, ghosts>>

Start(p) ==
    \/ \E e \in Employees, from \in Dates, pay \in Amounts : StartStructure(p, e, from, pay)
    \/ \E r \in RunIds :
        \/ \E scope \in Scopes, period \in Periods, fx \in Rates :
               StartCreate(p, r, scope, period, fx)
        \/ \E fx \in Rates : StartRates(p, r, fx)
        \/ StartCalculate(p, r) \/ StartApprove(p, r)
        \/ StartPay(p, r) \/ StartDelete(p, r)

Step(p) ==
    \/ DeleteSlips(p) \/ SaveSlip(p) \/ LoadSlips(p) \/ Render(p) \/ Link(p)
    \/ SaveRun(p) \/ Tell(p) \/ Remove(p) \/ CloseStructure(p) \/ InsertStructure(p)

Next == \E p \in Procs : Start(p) \/ Step(p) \/ Die(p)

Spec == Init /\ [][Next]_vars

(* A handler that has started goes on when its database call answers.      *)
Fairness == \A p \in Procs : WF_vars(Step(p))

-----------------------------------------------------------------------------
(* A step of a handler of the run that has been overtaken.                 *)
ByTheOvertaken(r) == \E p \in overtaken : procs[p].run = r /\ procs'[p] # procs[p]

(* payslip.entity.ts: "Frozen result of a run for one employee.  Never     *)
(* recalculated after approval."  However calculations, approvals and      *)
(* removals of a run overlap, and wherever they fail, a slip of an         *)
(* approved or paid run changes only under a handler that had checked the  *)
(* run before another one wrote it.                                        *)
SlipsAreFrozen ==
    [][\A r \in RunIds : runs[r].status \in Frozen /\ slips'[r] # slips[r]
                            => ByTheOvertaken(r)]_vars

(* README.md: "Runs move DRAFT -> CALCULATED -> APPROVED -> PAID", one at  *)
(* a time and never back, and only a run that is not approved is deleted:  *)
(* every other step is the stale save of a handler that was overtaken.     *)
RunsMoveForward ==
    [][\A r \in RunIds :
        runs'[r].status # runs[r].status =>
            \/ <<runs[r].status, runs'[r].status>> \in
                {<<"NONE", "DRAFT">>, <<"DRAFT", "CALCULATED">>,
                 <<"CALCULATED", "APPROVED">>, <<"APPROVED", "PAID">>}
                    \cup (Open \X {"DELETED"})
            \/ ByTheOvertaken(r)]_vars

Slipped(r) == {e \in Employees : slips[r][e].calc # 0}

(* An approved run has a PDF of every payslip, with the amount of the      *)
(* slip, also after calculations and approvals that failed half-way, if    *)
(* its handlers came one after the other.                                  *)
ApprovedIsDocumented ==
    \A r \in RunIds \ crossed : runs[r].status \in Frozen =>
        /\ Slipped(r) # {}
        /\ \A e \in Slipped(r) : /\ slips[r][e].pdf = slips[r][e].amount
                                 /\ slips[r][e].amount \in pdfs[r][e]

(* approve tells every employee with a login that their payslip is there,  *)
(* if nothing ends it half-way (nothing takes up an announcement that was  *)
(* cut off) and no calculation makes slips beside it.                      *)
ApprovedIsAnnounced ==
    \A r \in RunIds, e \in HasLogin :
        (runs[r].status \in Frozen /\ e \in Slipped(r))
            ~> (<<r, e>> \in told \/ deaths > 0 \/ r \in crossed)

(* segmentsFor and contractualPay pay every employed day of a period once, *)
(* at the rate in force that day (structureOn), through any sequence of    *)
(* structure changes inside and outside of the period.                     *)
PaidByTheDay ==
    Quiet /\ deaths = 0 =>
        \A e \in Employees, period \in Periods :
            ContractualPay(e, period) = PayByTheDay(e, period)
=============================================================================
