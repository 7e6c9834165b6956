---------------------------- MODULE Organisation ----------------------------
(***************************************************************************)
(* Employees, their reporting lines and the tree of departments            *)
(* (EmployeesService, DepartmentsService).  A handler reads the rows it    *)
(* needs and checks them in one step, and writes in a later one, in a      *)
(* transaction of its own; saving a profile or a department writes back    *)
(* every column of the row that was loaded.                                *)
(*                                                                         *)
(* Logins and positions are left out: no property here depends on them.    *)
(***************************************************************************)
EXTENDS Naturals, FiniteSets

CONSTANTS
    Employees,    \* people who may be hired (a bound)
    Departments,  \* departments that may be created (a bound)
    DepthLimit,   \* levels the recursive queries follow (50 in the code)
    Procs,        \* handlers that may be in flight together
    Interleaved   \* may handlers overlap?

VARIABLES
    emps,      \* employees
    depts,     \* departments
    recorded,  \* what employment_history says of each employee
    procs      \* what each handler in flight is doing

vars == <<emps, depts, recorded, procs>>

Nobody == "nobody"   \* managerId or headEmployeeId null
Nowhere == "nowhere" \* parentId null

ASSUME OrganisationAssumption ==
    /\ Nobody \notin Employees
    /\ Nowhere \notin Departments
    /\ DepthLimit \in Nat \ {0}
    /\ Interleaved \in BOOLEAN

EmployeeStatus == {"ONBOARDING", "ACTIVE", "ON_LEAVE", "TERMINATED"}
EmployeeRow == [status     : EmployeeStatus \cup {"NONE"},
                manager    : Employees \cup {Nobody},
                department : Departments \cup {Nowhere}]
DepartmentRow == [status : {"NONE", "THERE"},
                  parent : Departments \cup {Nowhere},
                  head   : Employees \cup {Nobody}]

NoEmployee == [status |-> "NONE", manager |-> Nobody, department |-> Nowhere]
NoDepartment == [status |-> "NONE", parent |-> Nowhere, head |-> Nobody]

(* A handler: the employee or department it was called for, the employee   *)
(* row it has read and the row it will write.                              *)
Idle == [pc |-> "idle", emp |-> Nobody, seen |-> NoEmployee, row |-> NoEmployee,
         dept |-> Nowhere, drow |-> NoDepartment]
Pcs == {"idle", "hire", "profile", "assign", "status", "terminate", "found", "update", "remove"}
Handler == [pc : Pcs, emp : Employees \cup {Nobody}, seen : EmployeeRow, row : EmployeeRow,
            dept : Departments \cup {Nowhere}, drow : DepartmentRow]

TypeOK ==
    /\ emps \in [Employees -> EmployeeRow]
    /\ depts \in [Departments -> DepartmentRow]
    /\ recorded \in [Employees -> EmployeeRow]
    /\ procs \in [Procs -> Handler]

Init ==
    /\ emps = [e \in Employees |-> NoEmployee]
    /\ depts = [d \in Departments |-> NoDepartment]
    /\ recorded = [e \in Employees |-> NoEmployee]
    /\ procs = [p \in Procs |-> Idle]

Quiet == \A p \in Procs : procs[p].pc = "idle"
At(p, pc) == procs[p].pc = pc

(* A handler has read and checked what it needs.                           *)
Begin(p, start) ==
    /\ At(p, "idle")
    /\ Interleaved \/ Quiet
    /\ procs' = [procs EXCEPT ![p] = start]
    /\ UNCHANGED <<emps, depts, recorded>>

(* A handler ends.                                                         *)
End(p) == procs' = [procs EXCEPT ![p] = Idle]

-----------------------------------------------------------------------------
(* Reads and checks                                                        *)

Hired(e) == emps[e].status # "NONE"
Employed(e) == emps[e].status \notin {"NONE", "TERMINATED"}
Exists(d) == depts[d].status = "THERE"

StatusTransitions ==
    [ONBOARDING |-> {"ACTIVE"}, ACTIVE |-> {"ON_LEAVE"}, ON_LEAVE |-> {"ACTIVE"},
     TERMINATED |-> {}]

(* isInReportingChain follows manager_id from the target upwards, for at   *)
(* most DepthLimit levels of the given table.                              *)
IsInReportingChain(table, managerId, targetId) ==
    LET above(S) == {table[e].manager : e \in S \ {Nobody}}
        chain[depth \in 1..DepthLimit] ==
            IF depth = 1 THEN {table[targetId].manager} ELSE above(chain[depth - 1])
    IN  /\ managerId # targetId
        /\ \E depth \in 1..DepthLimit : managerId \in chain[depth]

(* Mutant: only the employee and the direct reports are looked at.         *)
ManagerAssignableDirect(managerId, employeeId) ==
    /\ Employed(managerId)
    /\ managerId # employeeId
    /\ emps[managerId].manager # employeeId

(* assertManagerAssignable, for an employee who is there already           *)
ManagerAssignable(managerId, employeeId) ==
    /\ managerId # employeeId
    /\ Employed(managerId)
    /\ ~IsInReportingChain(emps, employeeId, managerId)

(* orgChart: the levels of the tree below everyone who has no manager.     *)
ChartLevels ==
    LET employed == {e \in Employees : Employed(e)}
        level[depth \in 0..DepthLimit] ==
            IF depth = 0 THEN {e \in employed : emps[e].manager = Nobody}
            ELSE {e \in employed : emps[e].manager \in level[depth - 1]}
    IN  level

Children(d) == {c \in Departments : Exists(c) /\ depts[c].parent = d}

(* isDescendant: the fixed point of a recursive query, whatever its depth. *)
IsDescendant(candidate, ancestor) ==
    \A S \in SUBSET Departments :
        /\ Children(ancestor) \subseteq S
        /\ \A d \in S : Children(d) \subseteq S
        => candidate \in S

-----------------------------------------------------------------------------
(* Employees                                                               *)

Placement(status, managerId, departmentId) ==
    [status |-> status, manager |-> managerId, department |-> departmentId]

(* create: a new person with an optional manager, hired as ONBOARDING or   *)
(* backfilled as ACTIVE.                                                   *)
StartHire(p, e, status, managerId, departmentId) ==
    /\ ~Hired(e)
    /\ Exists(departmentId)
    /\ managerId # Nobody => Employed(managerId)
    /\ Begin(p, [Idle EXCEPT !.pc = "hire", !.emp = e,
                             !.row = Placement(status, managerId, departmentId)])

(* The insert is refused when the work e-mail was taken or the department  *)
(* removed meanwhile.                                                      *)
Hire(p) ==
    LET l       == procs[p]
        refused == Hired(l.emp) \/ ~Exists(l.row.department)
    IN  /\ At(p, "hire")
        /\ emps' = IF refused THEN emps ELSE [emps EXCEPT ![l.emp] = l.row]
        /\ recorded' = IF refused THEN recorded ELSE [recorded EXCEPT ![l.emp] = l.row]
        /\ End(p)
        /\ UNCHANGED depts

(* updateProfile and updateSelf: the row loaded is saved with other        *)
(* personal details.                                                       *)
StartProfile(p, e) ==
    /\ Hired(e)
    /\ Begin(p, [Idle EXCEPT !.pc = "profile", !.emp = e, !.seen = emps[e], !.row = emps[e]])

SaveProfile(p) ==
    LET l == procs[p]
    IN  /\ At(p, "profile")
        /\ emps' = IF Exists(l.row.department)
                   THEN [emps EXCEPT ![l.emp] = l.row] ELSE emps
        /\ End(p)
        /\ UNCHANGED <<depts, recorded>>

(* changeAssignment                                                        *)
StartAssignment(p, e, managerId, departmentId) ==
    /\ Employed(e)
    /\ managerId # emps[e].manager \/ departmentId # emps[e].department
    /\ departmentId # emps[e].department => Exists(departmentId)
    /\ managerId \notin {Nobody, emps[e].manager} => ManagerAssignable(managerId, e)
    /\ Begin(p, [Idle EXCEPT !.pc = "assign", !.emp = e, !.seen = emps[e],
                             !.row = Placement(emps[e].status, managerId, departmentId)])

(* Mutant: the history row has the columns the wrong way round.            *)
AssignFromAndToSwapped(p) ==
    LET l       == procs[p]
        refused == ~Exists(l.row.department)
    IN  /\ At(p, "assign")
        /\ emps' = IF refused THEN emps
                   ELSE [emps EXCEPT ![l.emp].manager = l.row.manager,
                                     ![l.emp].department = l.row.department]
        /\ recorded' = IF refused THEN recorded
                       ELSE [recorded EXCEPT ![l.emp].manager = l.seen.manager,
                                             ![l.emp].department = l.seen.department]
        /\ End(p)
        /\ UNCHANGED depts

(* The three columns are written whole; history has those that differ from *)
(* the row that was read.                                                  *)
Assign(p) ==
    LET l       == procs[p]
        refused == ~Exists(l.row.department)
        moved(r) == [r EXCEPT
            !.manager    = IF l.row.manager # l.seen.manager THEN l.row.manager ELSE @,
            !.department = IF l.row.department # l.seen.department THEN l.row.department ELSE @]
    IN  /\ At(p, "assign")
        /\ emps' = IF refused THEN emps
                   ELSE [emps EXCEPT ![l.emp].manager = l.row.manager,
                                     ![l.emp].department = l.row.department]
        /\ recorded' = IF refused THEN recorded
                       ELSE [recorded EXCEPT ![l.emp] = moved(@)]
        /\ End(p)
        /\ UNCHANGED depts

(* changeStatus                                                            *)
StartStatus(p, e, status) ==
    /\ Hired(e)
    /\ status \in StatusTransitions[emps[e].status]
    /\ Begin(p, [Idle EXCEPT !.pc = "status", !.emp = e, !.seen = emps[e],
                             !.row = [emps[e] EXCEPT !.status = status]])

ChangeStatus(p) ==
    LET l == procs[p]
    IN  /\ At(p, "status")
        /\ emps' = [emps EXCEPT ![l.emp].status = l.row.status]
        /\ recorded' = [recorded EXCEPT ![l.emp].status = l.row.status]
        /\ End(p)
        /\ UNCHANGED depts

(* terminate: the employee, all reports and all headships in one           *)
(* transaction; reports move up to the manager that was read.              *)
StartTerminate(p, e) ==
    /\ Employed(e)
    /\ Begin(p, [Idle EXCEPT !.pc = "terminate", !.emp = e, !.seen = emps[e],
                             !.row = [emps[e] EXCEPT !.status = "TERMINATED"]])

(* Mutant: reports stay where they are.                                    *)
TerminateAlone(p) ==
    LET l == procs[p]
    IN  /\ At(p, "terminate")
        /\ emps' = [emps EXCEPT ![l.emp].status = "TERMINATED"]
        /\ recorded' = [recorded EXCEPT ![l.emp].status = "TERMINATED"]
        /\ depts' = [d \in Departments |->
               IF depts[d].head = l.emp THEN [depts[d] EXCEPT !.head = Nobody] ELSE depts[d]]
        /\ End(p)

Terminate(p) ==
    LET l       == procs[p]
        left(r) == [r EXCEPT !.status = "TERMINATED"]
        moved(r) == IF r.manager = l.emp THEN [r EXCEPT !.manager = l.seen.manager] ELSE r
    IN  /\ At(p, "terminate")
        /\ emps' = [e \in Employees |->
               moved(IF e = l.emp THEN left(emps[e]) ELSE emps[e])]
        /\ recorded' = [recorded EXCEPT ![l.emp] = left(@)]
        /\ depts' = [d \in Departments |->
               IF depts[d].head = l.emp THEN [depts[d] EXCEPT !.head = Nobody] ELSE depts[d]]
        /\ End(p)

-----------------------------------------------------------------------------
(* Departments                                                             *)

HeadAssignable(head, current) == head \notin {Nobody, current} => Employed(head)

StartFound(p, d, parent, head) ==
    /\ ~Exists(d)
    /\ parent # Nowhere => Exists(parent)
    /\ HeadAssignable(head, Nobody)
    /\ Begin(p, [Idle EXCEPT !.pc = "found", !.dept = d,
                             !.drow = [status |-> "THERE", parent |-> parent, head |-> head]])

StartUpdate(p, d, parent, head) ==
    /\ Exists(d)
    /\ parent \notin {Nowhere, depts[d].parent} =>
           parent # d /\ Exists(parent) /\ ~IsDescendant(parent, d)
    /\ HeadAssignable(head, depts[d].head)
    /\ Begin(p, [Idle EXCEPT !.pc = "update", !.dept = d,
                             !.drow = [status |-> "THERE", parent |-> parent, head |-> head]])

(* The row is inserted or saved whole; a parent that is gone is refused by *)
(* its foreign key, and a second row with the same code by its index.      *)
SaveDepartment(p) ==
    LET l       == procs[p]
        refused == \/ l.drow.parent # Nowhere /\ ~Exists(l.drow.parent)
                   \/ At(p, "found") /\ Exists(l.dept)
    IN  /\ At(p, "found") \/ At(p, "update")
        /\ depts' = IF refused THEN depts ELSE [depts EXCEPT ![l.dept] = l.drow]
        /\ End(p)
        /\ UNCHANGED <<emps, recorded>>

Members(d) == {e \in Employees : emps[e].department = d}

StartRemove(p, d) ==
    /\ Exists(d)
    /\ Children(d) = {} /\ Members(d) = {}
    /\ Begin(p, [Idle EXCEPT !.pc = "remove", !.dept = d])

(* The foreign keys of parent_id and department_id restrict the delete.    *)
RemoveDepartment(p) ==
    LET d == procs[p].dept
    IN  /\ At(p, "remove")
        /\ depts' = IF Children(d) = {} /\ Members(d) = {}
                    THEN [depts EXCEPT ![d] = NoDepartment] ELSE depts
        /\ End(p)
        /\ UNCHANGED <<emps, recorded>>

-----------------------------------------------------------------------------
Start(p) ==
    \/ \E e \in Employees, m \in Employees \cup {Nobody}, d \in Departments :
        \/ \E s \in {"ONBOARDING", "ACTIVE"} : StartHire(p, e, s, m, d)
        \/ StartAssignment(p, e, m, d)
    \/ \E e \in Employees :
        \/ StartProfile(p, e) \/ StartTerminate(p, e)
        \/ \E s \in EmployeeStatus : StartStatus(p, e, s)
    \/ \E d \in Departments, up \in Departments \cup {Nowhere}, h \in Employees \cup {Nobody} :
        StartFound(p, d, up, h) \/ StartUpdate(p, d, up, h)
    \/ \E d \in Departments : StartRemove(p, d)

Write(p) ==
    \/ Hire(p) \/ SaveProfile(p) \/ Assign(p) \/ ChangeStatus(p) \/ Terminate(p)
    \/ SaveDepartment(p) \/ RemoveDepartment(p)

Next == \E p \in Procs : Start(p) \/ Write(p)

Spec == Init /\ [][Next]_vars

-----------------------------------------------------------------------------
(* README.md: "Reporting cycles are rejected."  In every group of people   *)
(* someone reports to nobody of the group, whatever assignments and        *)
(* terminations came before.                                               *)
NoReportingCycle ==
    \A group \in SUBSET Employees :
        group # {} => \E e \in group : emps[e].manager \notin group

(* README.md: "Departments form a tree."                                   *)
NoDepartmentCycle ==
    \A group \in SUBSET Departments :
        group # {} => \E d \in group : depts[d].parent \notin group

(* terminate: "Direct reports move up to the leaver's manager, any         *)
(* department headship is cleared."  Nobody who is employed reports to     *)
(* someone who is not, and no department is headed by a leaver.            *)
ManagersAreEmployed ==
    /\ \A e \in Employees :
           Employed(e) /\ emps[e].manager # Nobody => Employed(emps[e].manager)
    /\ \A d \in Departments : depts[d].head # Nobody => Employed(depts[d].head)

(* The org chart shows everyone who is employed, once, and nobody else.    *)
ChartIsComplete ==
    \A e \in Employees :
        Cardinality({depth \in 0..DepthLimit : e \in ChartLevels[depth]})
            = IF Employed(e) THEN 1 ELSE 0

(* Departments and reporting lines are trees, so that the chart query ends *)
(* and shows everyone employed.                                            *)
ChartIsSound == NoReportingCycle /\ NoDepartmentCycle /\ ChartIsComplete

(* STATUS_TRANSITIONS has no way out of TERMINATED.  However handlers      *)
(* overlap, an employee who has left comes back only under a status change *)
(* or a profile save that had read the row before the termination: each of *)
(* them writes the status it has read about, unconditionally.              *)
TerminatedIsFinal ==
    [][\A e \in Employees :
        emps[e].status = "TERMINATED" /\ emps'[e].status # "TERMINATED" =>
            \E p \in Procs : /\ procs[p].pc \in {"status", "profile"}
                             /\ procs[p].emp = e /\ procs[p].seen.status # "TERMINATED"
                             /\ procs'[p].pc = "idle"]_vars

(* README.md: "Every hire, promotion, transfer, manager change, status     *)
(* change and termination writes an append-only employment_history row."   *)
(* Read in order, the rows of an employee give the employee's record, but  *)
(* for moves up from a manager who left, of which terminate writes none.   *)
HistoryExplains ==
    \A e \in Employees :
        LET told == recorded[e]
            row  == emps[e]
        IN  /\ told.status = row.status
            /\ told.department = row.department
            /\ told.manager # row.manager =>
                   told.manager # Nobody /\ emps[told.manager].status = "TERMINATED"
=============================================================================
