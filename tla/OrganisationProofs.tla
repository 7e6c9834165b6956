------------------------- MODULE OrganisationProofs -------------------------
(***************************************************************************)
(* What Organisation keeps for any number of employees, departments and    *)
(* handlers when handlers do not overlap: nobody reports to a leaver,      *)
(* leavers stay leavers, history explains the records, departments form a  *)
(* tree, and so do reporting lines as long as none is longer than the      *)
(* recursive query follows; then the chart shows everyone employed once.   *)
(* The last part is about Reminders, the digests of onboarding tasks.      *)
(***************************************************************************)
EXTENDS Organisation, Reminders, SumTheorems

OneAtATime ==
    \A p, q \in Procs : procs[p].pc # "idle" /\ procs[q].pc # "idle" => p = q

(* Rows point at rows that are there.                                      *)
Linked ==
    /\ \A e \in Employees : emps[e].manager # Nobody => Hired(emps[e].manager)
    /\ \A d \in Departments : depts[d].parent # Nowhere => Exists(depts[d].parent)
    /\ \A d \in Departments : ~Exists(d) => depts[d].parent = Nowhere

(* What the handler at p has checked is still so.                          *)
InformedAt(p) ==
    LET l == procs[p]
    IN  /\ l.pc = "hire" =>
               /\ l.emp \in Employees /\ ~Hired(l.emp)
               /\ l.row.status \in {"ONBOARDING", "ACTIVE"}
               /\ l.row.manager # Nobody => Employed(l.row.manager)
        /\ l.pc = "profile" => l.emp \in Employees /\ l.row = emps[l.emp]
        /\ l.pc = "assign" =>
               /\ l.emp \in Employees /\ Employed(l.emp) /\ l.seen = emps[l.emp]
               /\ l.row.manager \notin {Nobody, emps[l.emp].manager} =>
                      ManagerAssignable(l.row.manager, l.emp)
        /\ l.pc = "status" =>
               /\ l.emp \in Employees /\ Employed(l.emp)
               /\ l.row.status \in {"ACTIVE", "ON_LEAVE"}
        /\ l.pc = "terminate" =>
               l.emp \in Employees /\ Employed(l.emp) /\ l.seen = emps[l.emp]
        /\ l.pc \in {"found", "update"} =>
               /\ l.dept \in Departments /\ l.drow.status = "THERE"
               /\ l.drow.parent # Nowhere => Exists(l.drow.parent)
               /\ l.drow.head # Nobody => Employed(l.drow.head)
        /\ l.pc = "found" => ~Exists(l.dept)
        /\ l.pc = "update" /\ l.drow.parent \notin {Nowhere, depts[l.dept].parent} =>
               l.drow.parent # l.dept /\ ~IsDescendant(l.drow.parent, l.dept)
        /\ l.pc = "remove" => l.dept \in Departments

Informed == \A p \in Procs : InformedAt(p)

Sound ==
    /\ TypeOK /\ OneAtATime /\ Linked /\ Informed
    /\ ManagersAreEmployed /\ NoReportingCycle /\ NoDepartmentCycle

(* The query sees the whole of every reporting line: whoever is in the     *)
(* line above e has a manager who is in it as well, if any.                *)
LinesFit ==
    \A e, x \in Employees :
        x = e \/ IsInReportingChain(emps, x, e) =>
            \/ emps[x].manager \in {Nobody, e}
            \/ IsInReportingChain(emps, emps[x].manager, e)

-----------------------------------------------------------------------------
LEMMA InitSound == Init => Sound
  <1>. SUFFICES ASSUME Init PROVE Sound
    OBVIOUS
  <1>1. TypeOK
    BY OrganisationAssumption DEF Init, TypeOK, EmployeeRow, DepartmentRow, Handler, Idle,
       NoEmployee, NoDepartment, Pcs
  <1>2. OneAtATime
    BY DEF Init, OneAtATime, Idle
  <1>3. Linked
    BY DEF Init, Linked, Exists, NoEmployee, NoDepartment
  <1>4. ManagersAreEmployed
    BY DEF Init, ManagersAreEmployed, Employed, NoEmployee, NoDepartment
  <1>5. Informed
    BY DEF Init, Informed, InformedAt, Idle
  <1>6. NoReportingCycle /\ NoDepartmentCycle
    BY OrganisationAssumption
       DEF Init, NoReportingCycle, NoDepartmentCycle, NoEmployee, NoDepartment
  <1>. QED
    BY <1>1, <1>2, <1>3, <1>4, <1>5, <1>6 DEF Sound

(* A handler that starts leaves the tables alone; it is the only one.      *)
LEMMA StartSound ==
    ASSUME Sound, ~Interleaved, NEW p \in Procs, Start(p)
    PROVE  Sound'
  <1>. USE DEF Sound
  <1>1. PICK start : Begin(p, start)
    BY DEF Start, StartHire, StartAssignment, StartProfile, StartTerminate, StartStatus,
       StartFound, StartUpdate, StartRemove
  <1>2. UNCHANGED <<emps, depts, recorded>> /\ Quiet
    BY <1>1 DEF Begin
  <1>3. Linked' /\ ManagersAreEmployed' /\ NoReportingCycle' /\ NoDepartmentCycle'
    BY <1>2 DEF Linked, Exists, ManagersAreEmployed, Hired, Employed, NoReportingCycle, NoDepartmentCycle
  <1>4. ASSUME NEW s \in Handler, Begin(p, s), InformedAt(p)'
        PROVE  Sound'
    <2>1. procs' = [procs EXCEPT ![p] = s] /\ \A q \in Procs : procs[q].pc = "idle"
      BY <1>2, <1>4 DEF Begin, Quiet
    <2>2. TypeOK'
      BY <1>2, <2>1 DEF TypeOK
    <2>3. OneAtATime'
      BY <2>1 DEF OneAtATime, TypeOK
    <2>4. ASSUME NEW q \in Procs, q # p PROVE InformedAt(q)'
      <3>1. procs'[q].pc = "idle"
        BY <2>1, <2>4 DEF TypeOK
      <3>. QED
        BY <3>1 DEF InformedAt
    <2>. QED
      BY <1>3, <1>4, <2>2, <2>3, <2>4 DEF Informed
  <1>. USE OrganisationAssumption DEF Handler, Pcs, Idle, NoEmployee, NoDepartment,
         EmployeeRow, DepartmentRow, EmployeeStatus
  <1>5. ASSUME NEW e \in Employees, NEW m \in Employees \cup {Nobody}, NEW d \in Departments,
               NEW s \in {"ONBOARDING", "ACTIVE"}, StartHire(p, e, s, m, d)
        PROVE  Sound'
    <2>. DEFINE l == [Idle EXCEPT !.pc = "hire", !.emp = e, !.row = Placement(s, m, d)]
    <2>1. Begin(p, l) /\ l \in Handler
      BY <1>5 DEF StartHire, Placement
    <2>2. procs'[p] = l
      BY <2>1 DEF Begin, TypeOK
    <2>3. InformedAt(p)'
      BY <1>2, <1>5, <2>2 DEF InformedAt, StartHire, Placement, Hired, Employed
    <2>. QED
      BY <1>4, <2>1, <2>3
  <1>6. ASSUME NEW e \in Employees, NEW m \in Employees \cup {Nobody}, NEW d \in Departments,
               StartAssignment(p, e, m, d)
        PROVE  Sound'
    <2>. DEFINE l == [Idle EXCEPT !.pc = "assign", !.emp = e, !.seen = emps[e],
                                  !.row = Placement(emps[e].status, m, d)]
    <2>1. Begin(p, l) /\ l \in Handler
      BY <1>6 DEF StartAssignment, Placement, TypeOK
    <2>2. procs'[p] = l
      BY <2>1 DEF Begin, TypeOK
    <2>3. InformedAt(p)'
      BY <1>2, <1>6, <2>2 DEF InformedAt, StartAssignment, Placement, Employed, ManagerAssignable
    <2>. QED
      BY <1>4, <2>1, <2>3
  <1>7. ASSUME NEW e \in Employees, StartProfile(p, e)
        PROVE  Sound'
    <2>. DEFINE l == [Idle EXCEPT !.pc = "profile", !.emp = e, !.seen = emps[e],
                                  !.row = emps[e]]
    <2>1. Begin(p, l) /\ l \in Handler
      BY <1>7 DEF StartProfile, TypeOK
    <2>2. procs'[p] = l
      BY <2>1 DEF Begin, TypeOK
    <2>3. InformedAt(p)'
      BY <1>2, <2>2 DEF InformedAt
    <2>. QED
      BY <1>4, <2>1, <2>3
  <1>8. ASSUME NEW e \in Employees, NEW s \in EmployeeStatus, StartStatus(p, e, s)
        PROVE  Sound'
    <2>. DEFINE l == [Idle EXCEPT !.pc = "status", !.emp = e, !.seen = emps[e],
                                  !.row = [emps[e] EXCEPT !.status = s]]
    <2>0a. emps[e] \in EmployeeRow
      BY DEF TypeOK
    <2>0. emps[e] \in EmployeeRow /\ [emps[e] EXCEPT !.status = s] \in EmployeeRow
      BY <2>0a, SMTT(30) DEF EmployeeRow
    <2>1a. Begin(p, l)
      BY <1>8 DEF StartStatus
    <2>1b. l \in Handler
      BY <2>0
    <2>1. Begin(p, l) /\ l \in Handler
      BY <2>1a, <2>1b
    <2>2. procs'[p] = l
      BY <2>1 DEF Begin, TypeOK
    <2>3. Employed(e) /\ s \in {"ACTIVE", "ON_LEAVE"}
      BY <1>8 DEF StartStatus, StatusTransitions, Hired, Employed, TypeOK
    <2>4. InformedAt(p)'
      BY <1>2, <2>2, <2>3 DEF InformedAt, Employed, TypeOK
    <2>. QED
      BY <1>4, <2>1, <2>4
  <1>9. ASSUME NEW e \in Employees, StartTerminate(p, e)
        PROVE  Sound'
    <2>. DEFINE l == [Idle EXCEPT !.pc = "terminate", !.emp = e, !.seen = emps[e],
                                  !.row = [emps[e] EXCEPT !.status = "TERMINATED"]]
    <2>0. emps[e] \in EmployeeRow /\ [emps[e] EXCEPT !.status = "TERMINATED"] \in EmployeeRow
      BY DEF TypeOK
    <2>1a. Begin(p, l)
      BY <1>9 DEF StartTerminate
    <2>1b. l \in Handler
      BY <2>0
    <2>1. Begin(p, l) /\ l \in Handler
      BY <2>1a, <2>1b
    <2>2. procs'[p] = l
      BY <2>1 DEF Begin, TypeOK
    <2>3. InformedAt(p)'
      BY <1>2, <1>9, <2>2 DEF InformedAt, StartTerminate, Employed
    <2>. QED
      BY <1>4, <2>1, <2>3
  <1>10. ASSUME NEW d \in Departments, NEW up \in Departments \cup {Nowhere},
                NEW h \in Employees \cup {Nobody}, StartFound(p, d, up, h)
         PROVE  Sound'
    <2>. DEFINE l == [Idle EXCEPT !.pc = "found", !.dept = d,
                           !.drow = [status |-> "THERE", parent |-> up, head |-> h]]
    <2>1. Begin(p, l) /\ l \in Handler
      BY <1>10 DEF StartFound
    <2>2. procs'[p] = l
      BY <2>1 DEF Begin, TypeOK
    <2>3. InformedAt(p)'
      BY <1>2, <1>10, <2>2 DEF InformedAt, Exists, StartFound, HeadAssignable, Employed
    <2>. QED
      BY <1>4, <2>1, <2>3
  <1>11. ASSUME NEW d \in Departments, NEW up \in Departments \cup {Nowhere},
                NEW h \in Employees \cup {Nobody}, StartUpdate(p, d, up, h)
         PROVE  Sound'
    <2>. DEFINE l == [Idle EXCEPT !.pc = "update", !.dept = d,
                           !.drow = [status |-> "THERE", parent |-> up, head |-> h]]
    <2>1. Begin(p, l) /\ l \in Handler
      BY <1>11 DEF StartUpdate
    <2>2. procs'[p] = l
      BY <2>1 DEF Begin, TypeOK
    <2>3. (up # Nowhere => Exists(up)) /\ (h # Nobody => Employed(h))
      BY <1>11 DEF StartUpdate, HeadAssignable, Linked, Exists, ManagersAreEmployed
    <2>4. up \notin {Nowhere, depts[d].parent} => up # d /\ ~IsDescendant(up, d)'
      BY <1>2, <1>11 DEF StartUpdate, IsDescendant, Children, Exists
    <2>5. InformedAt(p)'
      BY <1>2, <2>2, <2>3, <2>4 DEF InformedAt, Employed, Exists
    <2>. QED
      BY <1>4, <2>1, <2>5
  <1>12. ASSUME NEW d \in Departments, StartRemove(p, d)
         PROVE  Sound'
    <2>. DEFINE l == [Idle EXCEPT !.pc = "remove", !.dept = d]
    <2>1. Begin(p, l) /\ l \in Handler
      BY <1>12 DEF StartRemove
    <2>2. procs'[p] = l
      BY <2>1 DEF Begin, TypeOK
    <2>3. InformedAt(p)'
      BY <2>2 DEF InformedAt
    <2>. QED
      BY <1>4, <2>1, <2>3
  <1>. QED
    BY <1>5, <1>6, <1>7, <1>8, <1>9, <1>10, <1>11, <1>12 DEF Start

(* A handler that ends leaves nobody in flight.                            *)
LEMMA EndQuiet ==
    ASSUME Sound, NEW p \in Procs, procs[p].pc # "idle", End(p)
    PROVE  procs' \in [Procs -> Handler] /\ OneAtATime' /\ Informed'
  <1>1. procs' \in [Procs -> Handler] /\ \A q \in Procs : procs'[q].pc = "idle"
    BY OrganisationAssumption DEF Sound, TypeOK, OneAtATime, End, Idle, Handler, Pcs, EmployeeRow,
       DepartmentRow, NoEmployee, NoDepartment
  <1>2. Informed'
    BY <1>1 DEF Informed, InformedAt
  <1>. QED
    BY <1>1, <1>2 DEF OneAtATime

(* A new link to someone who is not below closes no cycle: a cycle would   *)
(* contain the employee and the manager, and what of it lies in the line   *)
(* above the manager would be a cycle already.                             *)
LEMMA NewManagerClosesNoCycle ==
    ASSUME TypeOK, NoReportingCycle, LinesFit,
           NEW e \in Employees, NEW m \in Employees, ManagerAssignable(m, e),
           NEW group \in SUBSET Employees, group # {}
    PROVE  \E x \in group : (IF x = e THEN m ELSE emps[x].manager) \notin group
  <1>. SUFFICES ASSUME \A x \in group : (IF x = e THEN m ELSE emps[x].manager) \in group
                PROVE  FALSE
    OBVIOUS
  <1>1. CASE e \notin group
    BY <1>1 DEF NoReportingCycle
  <1>2. CASE e \in group
    <2>. DEFINE line == {x \in group : x = m \/ IsInReportingChain(emps, x, m)}
    <2>1. line \in SUBSET Employees /\ m \in line
      BY <1>2
    <2>2. e \notin line
      BY DEF ManagerAssignable
    <2>3. ASSUME NEW x \in line PROVE emps[x].manager \in line
      <3>1. x \in Employees /\ x # e
        BY <2>2, <2>3
      <3>2. emps[x].manager \in group
        BY <2>3, <3>1
      <3>3. emps[x].manager # Nobody
        BY <3>2, OrganisationAssumption
      <3>4. emps[x].manager = m \/ IsInReportingChain(emps, emps[x].manager, m)
        BY <3>1, <3>3, <2>3 DEF LinesFit
      <3>. QED
        BY <3>2, <3>4
    <2>. HIDE DEF line
    <2>. QED
      BY <2>1, <2>3 DEF NoReportingCycle
  <1>. QED
    BY <1>1, <1>2

(* The same for departments, from the subtree the query has found.         *)
LEMMA NewParentClosesNoCycle ==
    ASSUME TypeOK, NoDepartmentCycle, Linked,
           NEW d \in Departments, NEW up \in Departments,
           up # d, ~IsDescendant(up, d),
           NEW group \in SUBSET Departments, group # {}
    PROVE  \E x \in group : (IF x = d THEN up ELSE depts[x].parent) \notin group
  <1>. SUFFICES ASSUME \A x \in group : (IF x = d THEN up ELSE depts[x].parent) \in group
                PROVE  FALSE
    OBVIOUS
  <1>1. CASE d \notin group
    BY <1>1 DEF NoDepartmentCycle
  <1>2. CASE d \in group
    <2>1. PICK S \in SUBSET Departments :
              Children(d) \subseteq S /\ (\A c \in S : Children(c) \subseteq S) /\ up \notin S
      BY DEF IsDescendant
    <2>. DEFINE rest == {x \in group : x # d /\ x \notin S}
    <2>2. rest \in SUBSET Departments /\ up \in rest
      BY <1>2, <2>1
    <2>3. ASSUME NEW x \in rest PROVE depts[x].parent \in rest
      <3>1. x \in Departments /\ x # d /\ x \notin S /\ depts[x].parent \in group
        BY <2>3
      <3>2. Exists(x)
        BY <3>1, OrganisationAssumption DEF Linked, Exists
      <3>3. x \in Children(depts[x].parent)
        BY <3>1, <3>2 DEF Children, Exists
      <3>. QED
        BY <2>1, <3>1, <3>3
    <2>. HIDE DEF rest
    <2>. QED
      BY <2>2, <2>3 DEF NoDepartmentCycle
  <1>. QED
    BY <1>1, <1>2

LEMMA WriteKeepsTrees ==
    ASSUME Sound, LinesFit, NEW p \in Procs, Write(p)
    PROVE  NoReportingCycle' /\ NoDepartmentCycle'
  <1>. DEFINE l == procs[p]
  <1>. USE DEF Sound
  <1>1. l \in Handler /\ InformedAt(p)
    BY DEF TypeOK, Informed
  <1>2. ASSUME \A e \in Employees : emps'[e].manager = emps[e].manager,
               \A d \in Departments : depts'[d].parent = depts[d].parent
        PROVE  NoReportingCycle' /\ NoDepartmentCycle'
    <2>1. NoReportingCycle'
      BY <1>2 DEF NoReportingCycle
    <2>2. NoDepartmentCycle'
      BY <1>2 DEF NoDepartmentCycle
    <2>. QED
      BY <2>1, <2>2
  <1>3. CASE UNCHANGED <<emps, depts>>
    BY <1>2, <1>3
  <1>4. CASE Hire(p) /\ ~UNCHANGED <<emps, depts>>
    <2>1. /\ l.emp \in Employees /\ ~Hired(l.emp)
          /\ l.row.manager # Nobody => Employed(l.row.manager)
          /\ emps' = [emps EXCEPT ![l.emp] = l.row] /\ depts' = depts
      BY <1>1, <1>4 DEF Hire, At, InformedAt
    <2>2. \A e \in Employees : emps'[e].manager = IF e = l.emp THEN l.row.manager ELSE emps[e].manager
      BY <2>1 DEF TypeOK
    <2>3. ASSUME NEW group \in SUBSET Employees, group # {},
                 \A e \in group : emps'[e].manager \in group
          PROVE  FALSE
      <3>1. l.emp \in group
        BY <2>2, <2>3 DEF NoReportingCycle
      <3>. DEFINE rest == group \ {l.emp}
      <3>2. l.row.manager \in rest
        BY <2>1, <2>2, <2>3, <3>1, OrganisationAssumption DEF Hired, Employed
      <3>3. ASSUME NEW e \in rest PROVE emps[e].manager \in rest
        BY <2>1, <2>2, <2>3, <3>3, OrganisationAssumption DEF Linked, Exists
      <3>4. rest \in SUBSET Employees /\ rest # {}
        BY <3>2
      <3>. HIDE DEF rest
      <3>. QED
        BY <3>3, <3>4 DEF NoReportingCycle
    <2>4. NoReportingCycle'
      BY <2>3 DEF NoReportingCycle
    <2>. QED
      BY <2>1, <2>4 DEF NoDepartmentCycle
  <1>5. CASE SaveProfile(p)
    <2>1. UNCHANGED <<emps, depts>>
      BY <1>1, <1>5 DEF SaveProfile, At, InformedAt, TypeOK
    <2>. QED
      BY <1>3, <2>1
  <1>6. CASE Assign(p) /\ ~UNCHANGED <<emps, depts>>
    <2>1. /\ l.emp \in Employees /\ l.row \in EmployeeRow /\ depts' = depts
          /\ l.row.manager \notin {Nobody, emps[l.emp].manager} =>
                 ManagerAssignable(l.row.manager, l.emp)
          /\ emps' = [emps EXCEPT ![l.emp].manager = l.row.manager,
                                  ![l.emp].department = l.row.department]
      BY <1>1, <1>6 DEF Assign, At, InformedAt, Handler
    <2>2. \A e \in Employees : emps'[e].manager = IF e = l.emp THEN l.row.manager ELSE emps[e].manager
      BY <2>1 DEF TypeOK, EmployeeRow
    <2>3. CASE l.row.manager = emps[l.emp].manager
      BY <1>2, <2>1, <2>2, <2>3
    <2>4. CASE l.row.manager = Nobody
      <3>1. ASSUME NEW group \in SUBSET Employees, group # {}
            PROVE  \E e \in group : emps'[e].manager \notin group
        BY <2>2, <2>4, <3>1, OrganisationAssumption DEF NoReportingCycle
      <3>. QED
        BY <2>1, <3>1 DEF NoReportingCycle, NoDepartmentCycle
    <2>5. CASE l.row.manager \notin {Nobody, emps[l.emp].manager}
      <3>1. l.row.manager \in Employees /\ ManagerAssignable(l.row.manager, l.emp)
        BY <2>1, <2>5 DEF EmployeeRow
      <3>2. ASSUME NEW group \in SUBSET Employees, group # {}
            PROVE  \E e \in group : emps'[e].manager \notin group
        <4>1. PICK e \in group :
                  (IF e = l.emp THEN l.row.manager ELSE emps[e].manager) \notin group
          BY <2>1, <3>1, <3>2, NewManagerClosesNoCycle
        <4>. QED
          BY <2>2, <4>1
      <3>. QED
        BY <2>1, <3>2 DEF NoReportingCycle, NoDepartmentCycle
    <2>. QED
      BY <2>3, <2>4, <2>5
  <1>7. CASE ChangeStatus(p)
    <2>1. /\ \A e \in Employees : emps'[e].manager = emps[e].manager
          /\ depts' = depts
      BY <1>7 DEF ChangeStatus, TypeOK, EmployeeRow
    <2>. QED
      BY <1>2, <2>1
  <1>8. CASE Terminate(p)
    <2>1. l.emp \in Employees /\ l.seen = emps[l.emp]
      BY <1>1, <1>8 DEF Terminate, At, InformedAt
    <2>2. \A e \in Employees :
             emps'[e].manager = IF emps[e].manager = l.emp THEN emps[l.emp].manager
                                ELSE emps[e].manager
      BY <1>8, <2>1 DEF Terminate, TypeOK, EmployeeRow
    <2>3. \A d \in Departments : depts'[d].parent = depts[d].parent
      BY <1>8 DEF Terminate, TypeOK, DepartmentRow
    <2>4. ASSUME NEW group \in SUBSET Employees, group # {},
                 \A e \in group : emps'[e].manager \in group
          PROVE  FALSE
      <3>1. CASE \A e \in group : emps[e].manager # l.emp
        BY <2>2, <2>4, <3>1 DEF NoReportingCycle
      <3>2. CASE \E e \in group : emps[e].manager = l.emp
        <4>. DEFINE whole == group \cup {l.emp}
        <4>1. emps[l.emp].manager \in group
          BY <2>2, <2>4, <3>2
        <4>2. \A e \in whole : emps[e].manager \in whole
          BY <2>2, <2>4, <4>1
        <4>3. whole \in SUBSET Employees /\ whole # {}
          BY <2>1
        <4>. HIDE DEF whole
        <4>. QED
          BY <4>2, <4>3 DEF NoReportingCycle
      <3>. QED
        BY <3>1, <3>2
    <2>5. NoReportingCycle'
      BY <2>4 DEF NoReportingCycle
    <2>. QED
      BY <2>3, <2>5 DEF NoDepartmentCycle
  <1>9. CASE SaveDepartment(p) /\ ~UNCHANGED <<emps, depts>>
    <2>1. /\ l.dept \in Departments /\ l.drow \in DepartmentRow
          /\ emps' = emps /\ depts' = [depts EXCEPT ![l.dept] = l.drow]
      BY <1>1, <1>9 DEF SaveDepartment, At, InformedAt, Handler
    <2>2. \A d \in Departments : depts'[d].parent = IF d = l.dept THEN l.drow.parent ELSE depts[d].parent
      BY <2>1 DEF TypeOK
    <2>3. CASE l.drow.parent = depts[l.dept].parent
      BY <1>2, <2>1, <2>2, <2>3
    <2>4. CASE l.drow.parent = Nowhere
      <3>1. ASSUME NEW group \in SUBSET Departments, group # {}
            PROVE  \E d \in group : depts'[d].parent \notin group
        BY <2>2, <2>4, <3>1, OrganisationAssumption DEF NoDepartmentCycle
      <3>. QED
        BY <2>1, <3>1 DEF NoReportingCycle, NoDepartmentCycle
    <2>5. CASE l.drow.parent \notin {Nowhere, depts[l.dept].parent}
      <3>1. l.drow.parent \in Departments /\ Exists(l.drow.parent)
        BY <1>1, <1>9, <2>1, <2>5 DEF DepartmentRow, InformedAt, SaveDepartment, At
      <3>2. l.drow.parent # l.dept /\ ~IsDescendant(l.drow.parent, l.dept)
        <4>1. CASE l.pc = "update"
          BY <1>1, <2>5, <4>1 DEF InformedAt
        <4>2. CASE l.pc = "found"
          <5>1. ~Exists(l.dept)
            BY <1>1, <4>2 DEF InformedAt
          <5>2. Children(l.dept) = {}
            BY <5>1, <2>1, OrganisationAssumption DEF Linked, Exists, Children
          <5>3. {} \in SUBSET Departments /\ l.drow.parent \notin {}
            OBVIOUS
          <5>. QED
            BY <3>1, <5>1, <5>2, <5>3 DEF IsDescendant
        <4>. QED
          BY <1>9, <4>1, <4>2 DEF SaveDepartment, At
      <3>3. ASSUME NEW group \in SUBSET Departments, group # {}
            PROVE  \E d \in group : depts'[d].parent \notin group
        <4>1. PICK d \in group :
                  (IF d = l.dept THEN l.drow.parent ELSE depts[d].parent) \notin group
          BY <2>1, <3>1, <3>2, <3>3, NewParentClosesNoCycle
        <4>. QED
          BY <2>2, <4>1
      <3>. QED
        BY <2>1, <3>3 DEF NoReportingCycle, NoDepartmentCycle
    <2>. QED
      BY <2>3, <2>4, <2>5
  <1>10. CASE RemoveDepartment(p) /\ ~UNCHANGED <<emps, depts>>
    <2>1. /\ l.dept \in Departments
          /\ emps' = emps /\ depts' = [depts EXCEPT ![l.dept] = NoDepartment]
      BY <1>1, <1>10 DEF RemoveDepartment, At, InformedAt
    <2>2. \A d \in Departments : depts'[d].parent = IF d = l.dept THEN Nowhere ELSE depts[d].parent
      BY <2>1 DEF TypeOK, NoDepartment
    <2>3. ASSUME NEW group \in SUBSET Departments, group # {}
          PROVE  \E d \in group : depts'[d].parent \notin group
      BY <2>2, <2>3, OrganisationAssumption DEF NoDepartmentCycle
    <2>. QED
      BY <2>1, <2>3 DEF NoReportingCycle, NoDepartmentCycle
  <1>. QED
    BY <1>3, <1>4, <1>5, <1>6, <1>7, <1>8, <1>9, <1>10 DEF Write

LEMMA WriteSound ==
    ASSUME Sound, LinesFit, NEW p \in Procs, Write(p)
    PROVE  Sound'
  <1>. DEFINE l == procs[p]
  <1>. USE DEF Sound
  <1>1. End(p) /\ l.pc # "idle" /\ l \in Handler /\ InformedAt(p)
    BY DEF Write, Hire, SaveProfile, Assign, ChangeStatus, Terminate, SaveDepartment,
       RemoveDepartment, At, TypeOK, Informed
  <1>2. procs' \in [Procs -> Handler] /\ OneAtATime' /\ Informed'
    BY <1>1, EndQuiet
  <1>3. SUFFICES /\ emps' \in [Employees -> EmployeeRow]
                 /\ depts' \in [Departments -> DepartmentRow]
                 /\ recorded' \in [Employees -> EmployeeRow]
                 /\ Linked'
                 /\ ManagersAreEmployed'
    BY <1>2, WriteKeepsTrees DEF TypeOK
  <1>. USE DEF EmployeeRow, DepartmentRow, EmployeeStatus
  <1>4. CASE Hire(p)
    <2>2. CASE UNCHANGED <<emps, depts, recorded>>
      BY <2>2 DEF TypeOK, Linked, Exists, ManagersAreEmployed, Hired, Employed
    <2>3. CASE ~UNCHANGED <<emps, depts, recorded>>
      <3>1. /\ emps' = [emps EXCEPT ![l.emp] = l.row]
            /\ recorded' = [recorded EXCEPT ![l.emp] = l.row]
            /\ depts' = depts
        BY <1>4, <2>3 DEF Hire
      <3>2. /\ l.emp \in Employees /\ l.row \in EmployeeRow
            /\ ~Hired(l.emp) /\ l.row.status \in {"ONBOARDING", "ACTIVE"}
            /\ l.row.manager # Nobody => Employed(l.row.manager)
        BY <1>1, <1>4 DEF Hire, At, InformedAt, Handler
      <3>3. \A e \in Employees : Employed(e) => Employed(e)'
        BY <3>1, <3>2 DEF Employed, Hired, TypeOK
      <3>4. Linked'
        BY <3>1, <3>2 DEF Linked, Exists, Hired, Employed, TypeOK
      <3>5. ManagersAreEmployed'
        BY <3>1, <3>2, <3>3 DEF ManagersAreEmployed, Hired, Employed, TypeOK
      <3>. QED
        BY <3>1, <3>2, <3>4, <3>5 DEF TypeOK
    <2>. QED
      BY <2>2, <2>3
  <1>5. CASE SaveProfile(p)
    <2>1. UNCHANGED <<emps, depts, recorded>>
      BY <1>1, <1>5 DEF SaveProfile, At, InformedAt, TypeOK
    <2>. QED
      BY <2>1 DEF TypeOK, Linked, Exists, ManagersAreEmployed, Hired, Employed
  <1>6. CASE Assign(p)
    <2>1. /\ l.emp \in Employees /\ l.row \in EmployeeRow /\ Employed(l.emp)
          /\ l.row.manager \notin {Nobody, emps[l.emp].manager} => Employed(l.row.manager)
          /\ depts' = depts
      BY <1>1, <1>6 DEF Assign, At, InformedAt, Handler, ManagerAssignable
    <2>a. \/ UNCHANGED <<emps, recorded>>
          \/ /\ emps' = [emps EXCEPT ![l.emp].manager = l.row.manager,
                                      ![l.emp].department = l.row.department]
             /\ recorded' \in [Employees -> EmployeeRow]
      <3>1. CASE Exists(l.row.department)
        <4>. DEFINE r == recorded[l.emp]
                    m == [r EXCEPT
                !.manager    = IF l.row.manager # l.seen.manager THEN l.row.manager ELSE @,
                !.department = IF l.row.department # l.seen.department THEN l.row.department ELSE @]
        <4>1. m \in EmployeeRow
          BY <2>1, ZenonT(30) DEF TypeOK
        <4>2. recorded' = [recorded EXCEPT ![l.emp] = m]
          BY <1>6, <3>1, <2>1 DEF Assign, TypeOK
        <4>3. recorded' \in [Employees -> EmployeeRow]
          BY <4>1, <4>2, <2>1 DEF TypeOK
        <4>. QED
          BY <1>6, <3>1, <4>3 DEF Assign
      <3>2. CASE ~Exists(l.row.department)
        BY <1>6, <3>2 DEF Assign
      <3>. QED
        BY <3>1, <3>2
    <2>2. emps' \in [Employees -> EmployeeRow] /\ recorded' \in [Employees -> EmployeeRow]
      BY <2>a, <2>1 DEF TypeOK
    <2>3. \A e \in Employees :
             /\ emps'[e].status = emps[e].status
             /\ emps'[e].manager = emps[e].manager \/ (e = l.emp /\ emps'[e].manager = l.row.manager)
      <3>1. CASE UNCHANGED emps
        BY <3>1
      <3>2. CASE emps' = [emps EXCEPT ![l.emp].manager = l.row.manager,
                                      ![l.emp].department = l.row.department]
        BY <3>2, <2>1 DEF TypeOK
      <3>. QED
        BY <2>a, <3>1, <3>2
    <2>4. Linked'
      BY <2>1, <2>2, <2>3 DEF Linked, Exists, Hired, Employed, TypeOK
    <2>5. ManagersAreEmployed'
      BY <2>1, <2>2, <2>3, SMTT(30) DEF ManagersAreEmployed, Employed, TypeOK
    <2>. QED
      BY <2>1, <2>2, <2>4, <2>5 DEF TypeOK
  <1>7. CASE ChangeStatus(p)
    <2>1. /\ l.emp \in Employees /\ Employed(l.emp)
          /\ l.row.status \in {"ACTIVE", "ON_LEAVE"}
          /\ depts' = depts
      BY <1>1, <1>7 DEF ChangeStatus, At, InformedAt
    <2>2. emps' \in [Employees -> EmployeeRow] /\ recorded' \in [Employees -> EmployeeRow]
      BY <1>7, <2>1 DEF ChangeStatus, TypeOK
    <2>3. \A e \in Employees : /\ emps'[e].manager = emps[e].manager
                               /\ Employed(e)' = Employed(e)
                               /\ Hired(e)' = Hired(e)
      BY <1>7, <2>1 DEF ChangeStatus, TypeOK, Employed, Hired
    <2>4. Linked'
      BY <2>1, <2>2, <2>3 DEF Linked, Exists, TypeOK
    <2>5. ManagersAreEmployed'
      BY <2>1, <2>2, <2>3 DEF ManagersAreEmployed, TypeOK
    <2>. QED
      BY <2>1, <2>2, <2>4, <2>5 DEF TypeOK
  <1>8. CASE Terminate(p)
    <2>1. l.emp \in Employees /\ Employed(l.emp) /\ l.seen = emps[l.emp]
      BY <1>1, <1>8 DEF Terminate, At, InformedAt
    <2>2. \A e \in Employees :
             /\ emps'[e].status = IF e = l.emp THEN "TERMINATED" ELSE emps[e].status
             /\ emps'[e].manager = IF emps[e].manager = l.emp THEN emps[l.emp].manager
                                   ELSE emps[e].manager
      BY <1>8, <2>1 DEF Terminate, TypeOK
    <2>3. emps' \in [Employees -> EmployeeRow]
      BY <1>8, <2>1 DEF Terminate, TypeOK
    <2>4. recorded' \in [Employees -> EmployeeRow]
      BY <1>8, <2>1, SMTT(30) DEF Terminate, TypeOK
    <2>5. /\ depts' \in [Departments -> DepartmentRow]
          /\ \A d \in Departments :
                /\ depts'[d].status = depts[d].status /\ depts'[d].parent = depts[d].parent
                /\ depts'[d].head = IF depts[d].head = l.emp THEN Nobody ELSE depts[d].head
      BY <1>8, <2>1 DEF Terminate, TypeOK
    <2>6. Linked'
      BY <2>1, <2>2, <2>3, <2>5 DEF Linked, Exists, Hired, TypeOK
    <2>7. \A e \in Employees :
             emps'[e].status \notin {"NONE", "TERMINATED"} <=> Employed(e) /\ e # l.emp
      BY <2>1, <2>2 DEF Employed, TypeOK
    <2>8. emps[l.emp].manager # l.emp
      <3>1. {l.emp} \in SUBSET Employees /\ {l.emp} # {}
        BY <2>1
      <3>. QED
        BY <3>1 DEF NoReportingCycle
    <2>9. ASSUME NEW e \in Employees, Employed(e), e # l.emp, emps'[e].manager # Nobody
          PROVE  emps'[emps'[e].manager].status \notin {"NONE", "TERMINATED"}
      <3>1. emps'[e].manager \in Employees
        BY <2>3, <2>9
      <3>2. emps'[e].manager # l.emp /\ Employed(emps'[e].manager)
        BY <2>1, <2>2, <2>8, <2>9 DEF ManagersAreEmployed
      <3>. QED
        BY <3>1, <3>2, <2>7
    <2>10. ASSUME NEW d \in Departments, depts'[d].head # Nobody
           PROVE  emps'[depts'[d].head].status \notin {"NONE", "TERMINATED"}
      <3>1. depts[d].head \in Employees /\ depts[d].head # l.emp /\ depts'[d].head = depts[d].head
        BY <2>5, <2>10 DEF TypeOK
      <3>2. Employed(depts[d].head)
        BY <3>1, OrganisationAssumption DEF ManagersAreEmployed
      <3>. QED
        BY <3>1, <3>2, <2>7
    <2>11. ManagersAreEmployed'
      BY <2>7, <2>9, <2>10 DEF ManagersAreEmployed, Employed
    <2>. QED
      BY <2>3, <2>4, <2>5, <2>6, <2>11
  <1>9. CASE SaveDepartment(p)
    <2>1. /\ l.dept \in Departments /\ l.drow \in DepartmentRow /\ l.drow.status = "THERE"
          /\ l.drow.parent # Nowhere => Exists(l.drow.parent)
          /\ l.drow.head # Nobody => Employed(l.drow.head)
          /\ UNCHANGED <<emps, recorded>>
      BY <1>1, <1>9 DEF SaveDepartment, At, InformedAt, Handler
    <2>2. depts' = depts \/ depts' = [depts EXCEPT ![l.dept] = l.drow]
      BY <1>9 DEF SaveDepartment
    <2>3. depts' \in [Departments -> DepartmentRow]
      BY <2>1, <2>2 DEF TypeOK
    <2>4. Linked'
      BY <2>1, <2>2, <2>3 DEF Linked, Exists, Hired, TypeOK
    <2>5. ManagersAreEmployed'
      BY <2>1, <2>2, <2>3 DEF ManagersAreEmployed, Employed, TypeOK
    <2>. QED
      BY <2>1, <2>3, <2>4, <2>5 DEF TypeOK
  <1>10. CASE RemoveDepartment(p)
    <2>1. l.dept \in Departments /\ UNCHANGED <<emps, recorded>>
      BY <1>1, <1>10 DEF RemoveDepartment, At, InformedAt
    <2>2. \/ depts' = depts
          \/ Children(l.dept) = {} /\ depts' = [depts EXCEPT ![l.dept] = NoDepartment]
      <3>1. depts' = IF Children(l.dept) = {} /\ Members(l.dept) = {}
                     THEN [depts EXCEPT ![l.dept] = NoDepartment] ELSE depts
        BY <1>10 DEF RemoveDepartment
      <3>. QED
        BY <3>1
    <2>3. depts' \in [Departments -> DepartmentRow]
      BY <2>1, <2>2 DEF TypeOK, NoDepartment
    <2>4. Linked'
      <3>1. CASE depts' = depts
        BY <2>1, <3>1 DEF Linked, Exists, Hired
      <3>2. CASE Children(l.dept) = {} /\ depts' = [depts EXCEPT ![l.dept] = NoDepartment]
        <4>1. \A d \in Departments : Exists(d) => depts[d].parent # l.dept
          BY <3>2 DEF Children, Exists
        <4>. QED
          BY <2>1, <2>3, <3>2, <4>1 DEF Linked, Exists, Hired, TypeOK, NoDepartment
      <3>. QED
        BY <2>2, <3>1, <3>2
    <2>5. ManagersAreEmployed'
      BY <2>1, <2>2, <2>3 DEF ManagersAreEmployed, Employed, TypeOK, NoDepartment
    <2>. QED
      BY <2>1, <2>3, <2>4, <2>5 DEF TypeOK
  <1>. QED
    BY <1>4, <1>5, <1>6, <1>7, <1>8, <1>9, <1>10 DEF Write

LEMMA StepSound == Sound /\ LinesFit /\ ~Interleaved /\ [Next]_vars => Sound'
  <1>. SUFFICES ASSUME Sound, LinesFit, ~Interleaved, [Next]_vars PROVE Sound'
    OBVIOUS
  <1>1. CASE UNCHANGED vars
    <2>1. TypeOK' /\ OneAtATime' /\ Linked' /\ ManagersAreEmployed'
      BY <1>1 DEF vars, Sound, TypeOK, OneAtATime, Linked, Exists, ManagersAreEmployed, Hired,
         Employed
    <2>2. NoReportingCycle' /\ NoDepartmentCycle'
      BY <1>1 DEF vars, Sound, NoReportingCycle, NoDepartmentCycle
    <2>3. \A d, c : IsDescendant(c, d)' = IsDescendant(c, d)
      BY <1>1 DEF vars, IsDescendant, Children, Exists
    <2>4. Informed'
      BY <1>1, <2>3 DEF vars, Sound, Informed, InformedAt, Exists, Hired, Employed,
         ManagerAssignable
    <2>. QED
      BY <2>1, <2>2, <2>4 DEF Sound
  <1>2. CASE Next
    BY <1>2, StartSound, WriteSound DEF Next
  <1>. QED
    BY <1>1, <1>2

(* Sound is inductive.                                                     *)
THEOREM SoundnessIsInvariant ==
    ASSUME ~Interleaved
    PROVE  Spec /\ []LinesFit => []Sound
  <1>1. Sound /\ LinesFit /\ [Next]_vars => Sound'
    BY StepSound
  <1>. QED
    BY <1>1, InitSound, PTL DEF Spec

(* README.md, "Reporting cycles are rejected": for any number of employees *)
(* and any history of assignments and terminations served one at a time,   *)
(* while no reporting line is longer than isInReportingChain follows.      *)
THEOREM ReportingLinesAreTrees ==
    ASSUME ~Interleaved
    PROVE  Spec /\ []LinesFit => []NoReportingCycle
  <1>1. Sound => NoReportingCycle
    BY DEF Sound
  <1>. QED
    BY <1>1, SoundnessIsInvariant, PTL

(* README.md, "Departments form a tree": isDescendant keeps every move     *)
(* from closing a cycle.                                                   *)
THEOREM DepartmentsAreTrees ==
    ASSUME ~Interleaved
    PROVE  Spec /\ []LinesFit => []NoDepartmentCycle
  <1>1. Sound => NoDepartmentCycle
    BY DEF Sound
  <1>. QED
    BY <1>1, SoundnessIsInvariant, PTL

(* terminate leaves nobody behind who is employed and reports to a leaver, *)
(* and no department headed by one.                                        *)
THEOREM NobodyReportsToALeaver ==
    ASSUME ~Interleaved
    PROVE  Spec /\ []LinesFit => []ManagersAreEmployed
  <1>1. Sound => ManagersAreEmployed
    BY DEF Sound
  <1>. QED
    BY <1>1, SoundnessIsInvariant, PTL

(* What holds however handlers overlap: the rows have their columns, and a *)
(* handler about to write a status has read the row it writes about.       *)
Columns == {"status", "manager", "department"}

Read(l) ==
    /\ DOMAIN l.row = Columns
    /\ l.pc = "profile" => l.row = l.seen
    /\ l.pc = "status" => l.seen.status # "TERMINATED"

Wired ==
    /\ DOMAIN procs = Procs /\ DOMAIN emps = Employees
    /\ \A e \in Employees : DOMAIN emps[e] = Columns
    /\ \A p \in Procs : Read(procs[p])

LEMMA IdleIsRead == Read(Idle) /\ Idle.pc = "idle"
  BY DEF Read, Idle, NoEmployee, Columns

LEMMA InitWired == Init => Wired
  BY IdleIsRead DEF Init, Wired, NoEmployee, Columns

(* A handler starts with what it has just read.                            *)
LEMMA StartWired ==
    ASSUME Wired, NEW p \in Procs, Start(p)
    PROVE  Wired' /\ emps' = emps
  <1>1. ASSUME NEW l, Begin(p, l), Read(l)
        PROVE  Wired' /\ emps' = emps
    BY <1>1 DEF Begin, Wired
  <1>2. ASSUME NEW e \in Employees, NEW m, NEW d, NEW s
        PROVE  /\ StartHire(p, e, s, m, d) => Wired' /\ emps' = emps
               /\ StartAssignment(p, e, m, d) => Wired' /\ emps' = emps
    <2>1. \A t : LET row == Placement(t, m, d)
                 IN  /\ Read([Idle EXCEPT !.pc = "hire", !.emp = e, !.row = row])
                     /\ Read([Idle EXCEPT !.pc = "assign", !.emp = e, !.seen = emps[e],
                                          !.row = row])
      BY DEF Read, Idle, Placement, Columns
    <2>. QED
      BY <1>1, <2>1 DEF StartHire, StartAssignment
  <1>3. ASSUME NEW e \in Employees
        PROVE  /\ StartProfile(p, e) => Wired' /\ emps' = emps
               /\ StartTerminate(p, e) => Wired' /\ emps' = emps
    <2>1. DOMAIN emps[e] = Columns
      BY DEF Wired
    <2>2. Read([Idle EXCEPT !.pc = "profile", !.emp = e, !.seen = emps[e], !.row = emps[e]])
      BY <2>1 DEF Read, Idle
    <2>3. Read([Idle EXCEPT !.pc = "terminate", !.emp = e, !.seen = emps[e],
                            !.row = [emps[e] EXCEPT !.status = "TERMINATED"]])
      BY <2>1 DEF Read, Idle
    <2>. QED
      BY <1>1, <2>2, <2>3 DEF StartProfile, StartTerminate
  <1>4. ASSUME NEW e \in Employees, NEW s, StartStatus(p, e, s)
        PROVE  Wired' /\ emps' = emps
    <2>1. DOMAIN emps[e] = Columns
      BY DEF Wired
    <2>2. emps[e].status # "TERMINATED"
      BY <1>4 DEF StartStatus, StatusTransitions
    <2>3. Read([Idle EXCEPT !.pc = "status", !.emp = e, !.seen = emps[e],
                            !.row = [emps[e] EXCEPT !.status = s]])
      BY <2>1, <2>2 DEF Read, Idle
    <2>. QED
      BY <1>1, <1>4, <2>3 DEF StartStatus
  <1>5. ASSUME NEW d, NEW up, NEW h
        PROVE  /\ StartFound(p, d, up, h) => Wired' /\ emps' = emps
               /\ StartUpdate(p, d, up, h) => Wired' /\ emps' = emps
               /\ StartRemove(p, d) => Wired' /\ emps' = emps
    <2>1. \A row : /\ Read([Idle EXCEPT !.pc = "found", !.dept = d, !.drow = row])
                   /\ Read([Idle EXCEPT !.pc = "update", !.dept = d, !.drow = row])
                   /\ Read([Idle EXCEPT !.pc = "remove", !.dept = d])
      BY DEF Read, Idle, NoEmployee, Columns
    <2>. QED
      BY <1>1, <2>1 DEF StartFound, StartUpdate, StartRemove
  <1>. QED
    BY <1>2, <1>3, <1>4, <1>5 DEF Start

(* What a write leaves of an employee who has left.                        *)
Comeback(p, e) ==
    /\ procs[p].pc \in {"status", "profile"}
    /\ procs[p].emp = e /\ procs[p].seen.status # "TERMINATED"
    /\ procs'[p].pc = "idle"

LEMMA WriteWired ==
    ASSUME Wired, NEW p \in Procs, Write(p)
    PROVE  /\ Wired'
           /\ \A e \in Employees :
                  emps[e].status = "TERMINATED" /\ emps'[e].status # "TERMINATED"
                      => Comeback(p, e)
  <1>. DEFINE l == procs[p]
              Rows == DOMAIN emps' = Employees /\ \A e \in Employees : DOMAIN emps'[e] = Columns
              Back == \A e \in Employees :
                  emps[e].status = "TERMINATED" /\ emps'[e].status # "TERMINATED"
                      => Comeback(p, e)
  <1>1. /\ Read(l) /\ DOMAIN emps = Employees /\ DOMAIN procs = Procs
        /\ \A e \in Employees : DOMAIN emps[e] = Columns
    BY DEF Wired
  <1>2. procs' = [procs EXCEPT ![p] = Idle]
    BY DEF Write, Hire, SaveProfile, Assign, ChangeStatus, Terminate, SaveDepartment,
       RemoveDepartment, End
  <1>3. procs'[p].pc = "idle" /\ \A q \in Procs : Read(procs'[q])
    BY <1>2, IdleIsRead DEF Wired
  <1>4. CASE Hire(p)
    <2>1. emps' = emps \/ (~Hired(l.emp) /\ emps' = [emps EXCEPT ![l.emp] = l.row])
      <3>1. CASE Hired(l.emp) \/ ~Exists(l.row.department)
        BY <1>4, <3>1 DEF Hire
      <3>2. CASE ~Hired(l.emp) /\ Exists(l.row.department)
        BY <1>4, <3>2 DEF Hire
      <3>. QED
        BY <3>1, <3>2
    <2>2. Rows
      BY <1>1, <2>1 DEF Read
    <2>3. Back
      BY <1>1, <2>1 DEF Hired
    <2>. QED
      BY <1>2, <1>3, <2>2, <2>3 DEF Wired
  <1>5. CASE SaveProfile(p)
    <2>1. /\ l.pc = "profile"
          /\ emps' = emps \/ emps' = [emps EXCEPT ![l.emp] = l.row]
      BY <1>5 DEF SaveProfile, At
    <2>2. Rows
      BY <1>1, <2>1 DEF Read
    <2>3. Back
      BY <1>1, <1>3, <2>1 DEF Comeback, Read
    <2>. QED
      BY <1>2, <1>3, <2>2, <2>3 DEF Wired
  <1>6. CASE Assign(p)
    <2>1. \/ emps' = emps
          \/ emps' = [emps EXCEPT ![l.emp].manager = l.row.manager,
                                  ![l.emp].department = l.row.department]
      BY <1>6 DEF Assign
    <2>2. Rows
      BY <1>1, <2>1
    <2>3. \A e \in Employees : emps'[e].status = emps[e].status
      BY <1>1, <2>1 DEF Columns
    <2>. QED
      BY <1>2, <1>3, <2>2, <2>3 DEF Wired
  <1>7. CASE ChangeStatus(p)
    <2>1. l.pc = "status" /\ emps' = [emps EXCEPT ![l.emp].status = l.row.status]
      BY <1>7 DEF ChangeStatus, At
    <2>2. Rows
      BY <1>1, <2>1
    <2>3. Back
      BY <1>1, <1>3, <2>1 DEF Comeback, Read
    <2>. QED
      BY <1>2, <1>3, <2>2, <2>3 DEF Wired
  <1>8. CASE Terminate(p)
    <2>. DEFINE moved(r) == IF r.manager = l.emp THEN [r EXCEPT !.manager = l.seen.manager] ELSE r
                left(r) == [r EXCEPT !.status = "TERMINATED"]
    <2>1. emps' = [e \in Employees |->
               moved(IF e = l.emp THEN left(emps[e]) ELSE emps[e])]
      BY <1>8 DEF Terminate
    <2>2. ASSUME NEW r, DOMAIN r = Columns
          PROVE  /\ DOMAIN left(r) = Columns /\ left(r).status = "TERMINATED"
                 /\ DOMAIN moved(r) = Columns /\ moved(r).status = r.status
      BY <2>2 DEF Columns
    <2>. HIDE DEF moved, left
    <2>3. Rows
      BY <1>1, <2>1, <2>2
    <2>4. Back
      BY <1>1, <2>1, <2>2
    <2>. QED
      BY <1>2, <1>3, <2>3, <2>4 DEF Wired
  <1>9. CASE SaveDepartment(p) \/ RemoveDepartment(p)
    BY <1>1, <1>2, <1>3, <1>9 DEF SaveDepartment, RemoveDepartment, Wired
  <1>. QED
    BY <1>4, <1>5, <1>6, <1>7, <1>8, <1>9 DEF Write

(* STATUS_TRANSITIONS has no way out of TERMINATED: however handlers       *)
(* overlap, only a status change or a profile save that had read the row   *)
(* before the termination brings a leaver back.                            *)
THEOREM LeaversStayLeavers == Spec => TerminatedIsFinal
  <1>. DEFINE Final == \A e \in Employees :
        emps[e].status = "TERMINATED" /\ emps'[e].status # "TERMINATED" =>
            \E p \in Procs : /\ procs[p].pc \in {"status", "profile"}
                             /\ procs[p].emp = e /\ procs[p].seen.status # "TERMINATED"
                             /\ procs'[p].pc = "idle"
  <1>1. Wired /\ [Next]_vars => Wired'
    BY StartWired, WriteWired DEF Next, vars, Wired
  <1>2. Wired /\ [Next]_vars => [Final]_vars
    BY StartWired, WriteWired DEF Next, Comeback
  <1>. QED
    BY <1>1, <1>2, InitWired, PTL DEF Spec, TerminatedIsFinal

(* Employment history accounts for every record, except for moves up from  *)
(* a manager who left; only Sound says that those stay leavers.            *)
THEOREM HistoryAccountsForRecords ==
    ASSUME ~Interleaved
    PROVE  Spec /\ []LinesFit => []HistoryExplains
  <1>1. Init => HistoryExplains
    BY DEF Init, HistoryExplains
  <1>2. ASSUME Sound, HistoryExplains, [Next]_vars PROVE HistoryExplains'
    <2>1. CASE UNCHANGED <<emps, recorded>>
      BY <1>2, <2>1 DEF HistoryExplains
    <2>2. CASE \E p \in Procs : Write(p) /\ ~UNCHANGED <<emps, recorded>>
      <3>1. PICK p \in Procs : Write(p) /\ ~UNCHANGED <<emps, recorded>>
        BY <2>2
      <3>. DEFINE l == procs[p]
      <3>2. /\ InformedAt(p) /\ l \in Handler
            /\ emps \in [Employees -> EmployeeRow] /\ recorded \in [Employees -> EmployeeRow]
        BY <1>2 DEF Sound, Informed, TypeOK
      <3>3. CASE Hire(p)
        <4>1. /\ l.emp \in Employees /\ ~Hired(l.emp)
              /\ emps' = [emps EXCEPT ![l.emp] = l.row]
              /\ recorded' = [recorded EXCEPT ![l.emp] = l.row]
          BY <3>1, <3>2, <3>3 DEF Hire, At, InformedAt
        <4>. QED
          BY <1>2, <3>2, <4>1 DEF HistoryExplains, Hired, EmployeeRow
      <3>4. CASE SaveProfile(p)
        BY <3>1, <3>2, <3>4 DEF SaveProfile, At, InformedAt
      <3>5. CASE Assign(p)
        <4>1. l.emp \in Employees /\ l.seen = emps[l.emp] /\ Exists(l.row.department)
          BY <3>1, <3>2, <3>5 DEF Assign, At, InformedAt
        <4>2. /\ emps' = [emps EXCEPT ![l.emp].manager = l.row.manager,
                                       ![l.emp].department = l.row.department]
              /\ \A e \in Employees : e # l.emp => recorded'[e] = recorded[e]
              /\ recorded'[l.emp].status = recorded[l.emp].status
              /\ recorded'[l.emp].manager =
                     IF l.row.manager # l.seen.manager THEN l.row.manager
                     ELSE recorded[l.emp].manager
              /\ recorded'[l.emp].department =
                     IF l.row.department # l.seen.department THEN l.row.department
                     ELSE recorded[l.emp].department
          BY <3>2, <3>5, <4>1 DEF Assign, EmployeeRow
        <4>3. \A e \in Employees : emps'[e].status = emps[e].status
          BY <3>2, <4>1, <4>2 DEF EmployeeRow
        <4>4. /\ emps'[l.emp].manager = l.row.manager
              /\ emps'[l.emp].department = l.row.department
              /\ \A e \in Employees : e # l.emp => emps'[e] = emps[e]
          BY <3>2, <4>1, <4>2 DEF EmployeeRow
        <4>. QED
          <5>1. ASSUME NEW e \in Employees
                PROVE  /\ recorded'[e].status = emps'[e].status
                       /\ recorded'[e].department = emps'[e].department
                       /\ recorded'[e].manager # emps'[e].manager =>
                              /\ recorded'[e].manager = recorded[e].manager
                              /\ recorded[e].manager # emps[e].manager
            <6>1. /\ recorded[e].status = emps[e].status
                  /\ recorded[e].department = emps[e].department
              BY <1>2 DEF HistoryExplains
            <6>2. CASE e = l.emp
              <7>1. recorded'[e].status = emps'[e].status
                BY <4>2, <4>3, <6>1, <6>2
              <7>2. recorded'[e].department = emps'[e].department
                BY <4>1, <4>2, <4>4, <6>1, <6>2
              <7>3. recorded'[e].manager # emps'[e].manager =>
                        /\ recorded'[e].manager = recorded[e].manager
                        /\ recorded[e].manager # emps[e].manager
                BY <4>1, <4>2, <4>4, <6>2
              <7>. QED
                BY <7>1, <7>2, <7>3
            <6>3. CASE e # l.emp
              BY <4>2, <4>4, <6>1, <6>3
            <6>. QED
              BY <6>2, <6>3
          <5>2. ASSUME NEW e \in Employees, recorded[e].manager # emps[e].manager
                PROVE  /\ recorded[e].manager # Nobody
                       /\ emps'[recorded[e].manager].status = "TERMINATED"
            <6>1. /\ recorded[e].manager # Nobody
                  /\ emps[recorded[e].manager].status = "TERMINATED"
              BY <1>2, <5>2 DEF HistoryExplains
            <6>2. recorded[e].manager \in Employees
              BY <3>2, <6>1 DEF EmployeeRow
            <6>. QED
              BY <4>3, <6>1, <6>2
          <5>. QED
            BY <5>1, <5>2 DEF HistoryExplains
      <3>6. CASE ChangeStatus(p)
        BY <1>2, <3>2, <3>6 DEF ChangeStatus, At, InformedAt, Employed, HistoryExplains,
           EmployeeRow
      <3>7. CASE Terminate(p)
        <4>1. l.emp \in Employees /\ l.seen = emps[l.emp]
          BY <3>2, <3>7 DEF Terminate, At, InformedAt
        <4>2. \A e \in Employees :
                  /\ emps'[e].status = IF e = l.emp THEN "TERMINATED" ELSE emps[e].status
                  /\ emps'[e].department = emps[e].department
                  /\ emps[e].manager # l.emp => emps'[e].manager = emps[e].manager
          BY <3>2, <3>7, <4>1 DEF Terminate, EmployeeRow
        <4>3. \A e \in Employees :
                  /\ recorded'[e].status = IF e = l.emp THEN "TERMINATED" ELSE recorded[e].status
                  /\ recorded'[e].department = recorded[e].department
                  /\ recorded'[e].manager = recorded[e].manager
          BY <3>2, <3>7, <4>1 DEF Terminate, EmployeeRow
        <4>. QED
          BY <1>2, <3>2, <4>1, <4>2, <4>3, OrganisationAssumption
             DEF HistoryExplains, EmployeeRow
      <3>. QED
        BY <3>1, <3>3, <3>4, <3>5, <3>6, <3>7 DEF Write, SaveDepartment, RemoveDepartment
    <2>3. ASSUME NEW p \in Procs, Start(p) PROVE UNCHANGED <<emps, recorded>>
      <3>1. PICK start : Begin(p, start)
        BY <2>3 DEF Start, StartHire, StartAssignment, StartProfile, StartTerminate,
           StartStatus, StartFound, StartUpdate, StartRemove
      <3>. QED
        BY <3>1 DEF Begin
    <2>. QED
      BY <1>2, <2>1, <2>2, <2>3 DEF Next, vars
  <1>. QED
    BY <1>1, <1>2, SoundnessIsInvariant, PTL DEF Spec

-----------------------------------------------------------------------------
(* The org chart.  A step can be repeated any number of times: what the    *)
(* two recursive queries need.                                             *)
Repeats(f, b, g, n) == f[0] = b /\ \A i \in 1..n : f[i] = g[f[i - 1]]

LEMMA Iterates ==
    ASSUME NEW n \in Nat, NEW X, NEW b \in X, NEW g \in [X -> X]
    PROVE  \E f \in [0..n -> X] : Repeats(f, b, g, n)
<1> DEFINE Iterated(f, m) == f[0] = b /\ \A i \in 1..m : f[i] = g[f[i - 1]]
           Bad == {m \in 0..n : ~ \E f \in [0..m -> X] : Iterated(f, m)}
<1> SUFFICES ASSUME Bad # {} PROVE FALSE
    <2>1. n \in 0..n
        OBVIOUS
    <2> QED
        BY <2>1 DEF Repeats
<1>1. Bad \subseteq Nat
    OBVIOUS
<1>2. PICK m \in Bad : \A k \in Bad : m <= k
    <2> HIDE DEF Bad
    <2> QED
        BY <1>1, LeastNumber
<1>3. m # 0
    <2> SUFFICES ASSUME m = 0 PROVE FALSE
        OBVIOUS
    <2> DEFINE f == [i \in 0..0 |-> b]
    <2>1. f \in [0..0 -> X] /\ f[0] = b /\ 1..0 = {}
        OBVIOUS
    <2> HIDE DEF f
    <2> QED
        BY <2>1
<1>4. m - 1 \in 0..n /\ m - 1 \notin Bad /\ m \in Nat
    <2>1. m \in Nat /\ m <= n
        OBVIOUS
    <2>2. m - 1 \in 0..n /\ ~(m <= m - 1)
        BY <1>3, <2>1
    <2> HIDE DEF Bad
    <2> QED
        BY <1>2, <2>1, <2>2
<1>5. PICK f \in [0..(m - 1) -> X] : Iterated(f, m - 1)
    BY <1>4
<1> DEFINE h == [i \in 0..m |-> IF i = m THEN g[f[m - 1]] ELSE f[i]]
<1>6. h \in [0..m -> X]
    <2>1. \A i \in 0..m : i # m => f[i] \in X
        BY <1>4
    <2>2. f[m - 1] \in X
        BY <1>3, <1>4
    <2> QED
        BY <2>1, <2>2
<1>7. Iterated(h, m)
    <2>1. h[0] = b
        BY <1>3, <1>4, <1>5
    <2>2. ASSUME NEW i \in 1..m PROVE h[i] = g[h[i - 1]]
        <3>1. h[i - 1] = f[i - 1]
            BY <1>4
        <3>2. CASE i = m
            BY <1>4, <3>1, <3>2
        <3>3. CASE i # m
            <4>1. i \in 1..(m - 1) /\ i \in 0..m
                BY <1>4, <3>3
            <4>2. f[i] = g[f[i - 1]]
                BY <1>5, <4>1
            <4> QED
                BY <3>1, <3>3, <4>1, <4>2
        <3> QED
            BY <3>2, <3>3
    <2> QED
        BY <2>1, <2>2
<1> HIDE DEF h, Iterated
<1> QED
    BY <1>6, <1>7

(* The levels of the chart, as orgChart computes them.                     *)
LEMMA ChartLevelsAre ==
    ASSUME TypeOK
    PROVE  /\ \A e \in Employees :
                  e \in ChartLevels[0] <=> Employed(e) /\ emps[e].manager = Nobody
           /\ \A i \in 1..DepthLimit, e \in Employees :
                  e \in ChartLevels[i] <=> Employed(e) /\ emps[e].manager \in ChartLevels[i - 1]
           /\ \A i \in 0..DepthLimit : ChartLevels[i] \subseteq Employees
<1> DEFINE employed == {e \in Employees : Employed(e)}
           roots == {e \in employed : emps[e].manager = Nobody}
           Below(S) == {e \in employed : emps[e].manager \in S}
           g == [S \in SUBSET Employees |-> Below(S)]
           Levels(k) == k = [depth \in 0..DepthLimit |->
                                IF depth = 0 THEN roots ELSE Below(k[depth - 1])]
           h == CHOOSE k : Levels(k)
<1>1. DepthLimit \in Nat
    BY OrganisationAssumption
<1>2. PICK f \in [0..DepthLimit -> SUBSET Employees] :
        f[0] = roots /\ \A i \in 1..DepthLimit : f[i] = g[f[i - 1]]
    <2>1. g \in [SUBSET Employees -> SUBSET Employees] /\ roots \in SUBSET Employees
        OBVIOUS
    <2> DEFINE groups == SUBSET Employees
    <2>2. g \in [groups -> groups] /\ roots \in groups
        BY <2>1
    <2> HIDE DEF g, roots, groups
    <2>3. \E k \in [0..DepthLimit -> groups] : Repeats(k, roots, g, DepthLimit)
        BY <1>1, <2>2, Iterates
    <2> QED
        BY <2>3 DEF groups, Repeats
<1>3. Levels(f)
    <2>1. \A i \in 0..DepthLimit : i # 0 => i \in 1..DepthLimit /\ i - 1 \in 0..DepthLimit
        BY <1>1
    <2>2. \A i \in 0..DepthLimit : i # 0 => f[i] = Below(f[i - 1])
        BY <1>2, <2>1
    <2> HIDE DEF roots, Below, g
    <2> QED
        BY <1>2, <2>2
<1>4. Levels(h)
    <2> HIDE DEF Levels
    <2> QED
        BY <1>3
<1>5. ChartLevels = h
    BY DEF ChartLevels
<1> HIDE DEF h
<1>6. /\ h[0] = roots
      /\ \A i \in 1..DepthLimit : h[i] = Below(h[i - 1])
      /\ \A i \in 0..DepthLimit : h[i] \subseteq Employees
    <2>1. 0 \in 0..DepthLimit /\ \A i \in 1..DepthLimit : i \in 0..DepthLimit /\ i # 0
        BY <1>1
    <2>2. h[0] = roots /\ \A i \in 1..DepthLimit : h[i] = Below(h[i - 1])
        BY <1>4, <2>1
    <2>3. \A i \in 0..DepthLimit : i = 0 \/ i \in 1..DepthLimit
        BY <1>1
    <2> QED
        BY <2>2, <2>3
<1> QED
    BY <1>5, <1>6

(* The line above e, as isInReportingChain computes it: c[0] is e alone,   *)
(* and c[i + 1] the managers of c[i].                                      *)
Climbs(c, e) ==
    /\ c \in [0..DepthLimit -> SUBSET (Employees \cup {Nobody})]
    /\ c[0] = {e}
    /\ \A i \in 1..DepthLimit : c[i] = {emps[x].manager : x \in c[i - 1] \ {Nobody}}

LEMMA ReportingChainIs ==
    ASSUME TypeOK, NEW e \in Employees
    PROVE  \E c : /\ Climbs(c, e)
                  /\ \A x : IsInReportingChain(emps, x, e) <=>
                         x # e /\ \E i \in 1..DepthLimit : x \in c[i]
<1> DEFINE Above(S) == {emps[x].manager : x \in S \ {Nobody}}
           groups == SUBSET (Employees \cup {Nobody})
           g == [S \in groups |-> Above(S)]
           Chains(k) == k = [depth \in 1..DepthLimit |->
                                IF depth = 1 THEN {emps[e].manager} ELSE Above(k[depth - 1])]
           h == CHOOSE k : Chains(k)
<1>1. DepthLimit \in Nat \ {0}
    BY OrganisationAssumption
<1>2. g \in [groups -> groups] /\ {e} \in groups
    <2>1. \A x \in Employees : emps[x].manager \in Employees \cup {Nobody}
        BY DEF TypeOK, EmployeeRow
    <2> QED
        BY <2>1
<1>3. PICK c \in [0..DepthLimit -> groups] : Repeats(c, {e}, g, DepthLimit)
    <2> HIDE DEF g, groups
    <2> QED
        BY <1>1, <1>2, Iterates
<1>4. \A i \in 1..DepthLimit : i \in 0..DepthLimit /\ i - 1 \in 0..DepthLimit
    BY <1>1
<1>5. c[0] = {e} /\ \A i \in 1..DepthLimit : c[i] = Above(c[i - 1])
    BY <1>3, <1>4 DEF Repeats
<1>6. Climbs(c, e)
    BY <1>3, <1>5 DEF Climbs
<1> DEFINE k0 == [depth \in 1..DepthLimit |-> c[depth]]
<1>7. Chains(k0)
    <2>1. e # Nobody
        BY OrganisationAssumption
    <2>2. Above({e}) = {emps[e].manager}
        BY <2>1
    <2>3. \A i \in 1..DepthLimit : i # 1 => i - 1 \in 1..DepthLimit
        BY <1>1
    <2> HIDE DEF Above, groups, g
    <2>4. 1 \in 1..DepthLimit /\ 1 - 1 = 0
        BY <1>1
    <2>5. c[1] = {emps[e].manager}
        BY <1>5, <2>2, <2>4
    <2>6. \A i \in 1..DepthLimit : i # 1 => k0[i - 1] = c[i - 1]
        BY <2>3
    <2> QED
        BY <1>5, <2>5, <2>6
<1>8. Chains(h)
    <2> HIDE DEF Chains
    <2> QED
        BY <1>7
<1>9. \A i \in 1..DepthLimit : h[i] = c[i]
    <2> DEFINE Bad == {i \in 1..DepthLimit : h[i] # c[i]}
    <2> SUFFICES ASSUME Bad # {} PROVE FALSE
        OBVIOUS
    <2>1. Bad \subseteq Nat
        OBVIOUS
    <2>2. PICK i \in Bad : \A j \in Bad : i <= j
        <3> HIDE DEF Bad
        <3> QED
            BY <2>1, LeastNumber
    <2> HIDE DEF h
    <2>3. i \in 1..DepthLimit /\ h[i] # c[i] /\ i \in Nat
        OBVIOUS
    <2>4. k0[i] = c[i]
        BY <2>3
    <2>5. CASE i = 1
        <3> HIDE DEF k0, Above
        <3>1. h[1] = {emps[e].manager} /\ k0[1] = {emps[e].manager}
            BY <1>7, <1>8, <2>3, <2>5
        <3> QED
            BY <2>3, <2>4, <2>5, <3>1
    <2>6. CASE i # 1
        <3>1. i - 1 \in 1..DepthLimit /\ ~(i <= i - 1)
            BY <1>1, <2>3, <2>6
        <3>2. h[i - 1] = c[i - 1]
            BY <2>2, <3>1
        <3> HIDE DEF k0, Above
        <3>3. h[i] = Above(h[i - 1])
            BY <1>8, <2>3, <2>6
        <3> QED
            BY <1>5, <2>3, <3>2, <3>3
    <2> QED
        BY <2>5, <2>6
<1>10. \A x : IsInReportingChain(emps, x, e) <=> x # e /\ \E i \in 1..DepthLimit : x \in h[i]
    BY DEF IsInReportingChain
<1> HIDE DEF h
<1> QED
    BY <1>6, <1>9, <1>10

(* Everyone employed is on a level of the chart.                           *)
LEMMA EveryoneHasALevel ==
    ASSUME Sound, LinesFit, NEW e \in Employees, Employed(e)
    PROVE  \E d \in 0..DepthLimit : e \in ChartLevels[d]
<1>0. TypeOK /\ ManagersAreEmployed /\ NoReportingCycle
    BY DEF Sound
<1>1. DepthLimit \in Nat \ {0} /\ Nobody \notin Employees
    BY OrganisationAssumption
<1>2. PICK c : /\ Climbs(c, e)
               /\ \A x : IsInReportingChain(emps, x, e) <=>
                      x # e /\ \E i \in 1..DepthLimit : x \in c[i]
    BY <1>0, ReportingChainIs
<1>3. c[0] = {e} /\ \A i \in 1..DepthLimit : c[i] = {emps[x].manager : x \in c[i - 1] \ {Nobody}}
    BY <1>2 DEF Climbs
<1>4. \A i \in 0..DepthLimit : \A x \in c[i] : x = Nobody \/ (x \in Employees /\ Employed(x))
    <2> DEFINE Bad == {i \in 0..DepthLimit :
                          \E x \in c[i] : ~(x = Nobody \/ (x \in Employees /\ Employed(x)))}
    <2> SUFFICES ASSUME Bad # {} PROVE FALSE
        OBVIOUS
    <2>1. Bad \subseteq Nat
        OBVIOUS
    <2>2. PICK i \in Bad : \A j \in Bad : i <= j
        <3> HIDE DEF Bad
        <3> QED
            BY <2>1, LeastNumber
    <2>3. i \in 0..DepthLimit /\ i \in Nat
        OBVIOUS
    <2>4. PICK x \in c[i] : ~(x = Nobody \/ (x \in Employees /\ Employed(x)))
        OBVIOUS
    <2>5. i # 0
        BY <1>3, <2>4
    <2>6. i \in 1..DepthLimit /\ i - 1 \in 0..DepthLimit /\ ~(i <= i - 1)
        BY <1>1, <2>3, <2>5
    <2>7. PICK y \in c[i - 1] \ {Nobody} : x = emps[y].manager
        BY <1>3, <2>4, <2>6
    <2>8. y \in Employees /\ Employed(y)
        BY <2>2, <2>6, <2>7
    <2>9. x \in Employees \cup {Nobody}
        BY <1>0, <2>7, <2>8 DEF TypeOK, EmployeeRow
    <2> QED
        BY <1>0, <2>4, <2>7, <2>8, <2>9 DEF ManagersAreEmployed
<1> DEFINE line == {x \in Employees : x = e \/ IsInReportingChain(emps, x, e)}
<1>5. PICK x \in line : emps[x].manager \notin line
    <2>1. line \in SUBSET Employees /\ e \in line
        OBVIOUS
    <2> HIDE DEF line
    <2> QED
        BY <1>0, <2>1 DEF NoReportingCycle
<1>6. emps[x].manager = Nobody
    <2>1. emps[x].manager \in Employees \cup {Nobody}
        BY <1>0 DEF TypeOK, EmployeeRow
    <2>2. \/ emps[x].manager \in {Nobody, e}
          \/ IsInReportingChain(emps, emps[x].manager, e)
        BY <1>5 DEF LinesFit
    <2> QED
        BY <1>5, <2>1, <2>2
<1>7. PICK d \in 0..DepthLimit : x \in c[d]
    <2>1. 0 \in 0..DepthLimit /\ \A i \in 1..DepthLimit : i \in 0..DepthLimit
        BY <1>1
    <2> QED
        BY <1>2, <1>3, <1>5, <2>1
<1>8. x \in Employees /\ Employed(x) /\ d \in Nat /\ d <= DepthLimit
    BY <1>1, <1>4, <1>5, <1>7
<1>9. x \in ChartLevels[0]
    BY <1>0, <1>6, <1>8, ChartLevelsAre
<1> DEFINE met == {k \in 0..d : \E y \in c[k] : y \in Employees /\ y \in ChartLevels[d - k]}
<1>10. d \in met
    <2>1. d \in 0..d /\ d - d = 0
        BY <1>8
    <2> QED
        BY <1>7, <1>8, <1>9, <2>1
<1>11. PICK k \in met : \A j \in met : k <= j
    <2>1. met \subseteq Nat
        OBVIOUS
    <2> HIDE DEF met
    <2> QED
        BY <1>10, <2>1, LeastNumber
<1>12. PICK y \in c[k] : y \in Employees /\ y \in ChartLevels[d - k]
    OBVIOUS
<1>13. k \in Nat /\ k <= d
    OBVIOUS
<1>14. k = 0
    <2> SUFFICES ASSUME k # 0 PROVE FALSE
        OBVIOUS
    <2>1. /\ k \in 1..DepthLimit /\ k - 1 \in 0..DepthLimit /\ k - 1 \in 0..d /\ ~(k <= k - 1)
          /\ d - (k - 1) \in 1..DepthLimit /\ d - (k - 1) - 1 = d - k
        BY <1>1, <1>8, <1>13
    <2>2. PICK z \in c[k - 1] \ {Nobody} : y = emps[z].manager
        BY <1>3, <1>12, <2>1
    <2>3. z \in Employees /\ Employed(z)
        BY <1>4, <2>1, <2>2
    <2>4. z \in ChartLevels[d - (k - 1)]
        BY <1>0, <1>12, <2>1, <2>2, <2>3, ChartLevelsAre
    <2>5. k - 1 \in met
        BY <2>1, <2>2, <2>3, <2>4
    <2> QED
        BY <1>11, <2>1, <2>5
<1> QED
    BY <1>3, <1>8, <1>12, <1>14

(* Nobody is on two.                                                       *)
LEMMA LevelsAreDisjoint ==
    ASSUME TypeOK, NEW i \in 0..DepthLimit, NEW j \in 0..DepthLimit, i < j, NEW e \in Employees,
           e \in ChartLevels[i], e \in ChartLevels[j]
    PROVE  FALSE
<1>1. DepthLimit \in Nat /\ Nobody \notin Employees
    BY OrganisationAssumption
<1> DEFINE Twice(a) == \E b \in 0..DepthLimit, x \in Employees :
                          a < b /\ x \in ChartLevels[a] /\ x \in ChartLevels[b]
           Bad == {a \in 0..DepthLimit : Twice(a)}
<1>2. Bad \subseteq Nat /\ Bad # {}
    OBVIOUS
<1>3. PICK a \in Bad : \A x \in Bad : a <= x
    <2> HIDE DEF Bad
    <2> QED
        BY <1>2, LeastNumber
<1>4. a \in 0..DepthLimit /\ a \in Nat
    OBVIOUS
<1>5. PICK b \in 0..DepthLimit, x \in Employees :
        a < b /\ x \in ChartLevels[a] /\ x \in ChartLevels[b]
    OBVIOUS
<1>6. b \in 1..DepthLimit /\ b - 1 \in 0..DepthLimit
    BY <1>1, <1>4, <1>5
<1>7. emps[x].manager \in ChartLevels[b - 1] /\ emps[x].manager \in Employees
    BY <1>5, <1>6, ChartLevelsAre
<1>8. CASE a = 0
    BY <1>1, <1>5, <1>7, <1>8, ChartLevelsAre
<1>9. CASE a # 0
    <2>1. a \in 1..DepthLimit /\ a - 1 \in 0..DepthLimit /\ a - 1 < b - 1 /\ ~(a <= a - 1)
        BY <1>1, <1>4, <1>5, <1>6, <1>9
    <2>2. emps[x].manager \in ChartLevels[a - 1]
        BY <1>5, <2>1, ChartLevelsAre
    <2>3. a - 1 \in Bad
        BY <1>6, <1>7, <2>1, <2>2
    <2> QED
        BY <1>3, <2>1, <2>3
<1> QED
    BY <1>8, <1>9

(* README.md, "Reporting cycles are rejected" and "Departments form a      *)
(* tree": reporting lines and departments are trees, and orgChart shows    *)
(* everyone employed exactly once and no leaver, for any number of         *)
(* employees and departments and any history of handlers served one at a   *)
(* time, while no reporting line is longer than the queries follow.        *)
THEOREM ChartStaysSound ==
    ASSUME ~Interleaved
    PROVE  Spec /\ []LinesFit => []ChartIsSound
<1>1. Sound /\ LinesFit => ChartIsSound
    <2> SUFFICES ASSUME Sound, LinesFit PROVE ChartIsSound
        OBVIOUS
    <2>1. TypeOK /\ NoReportingCycle /\ NoDepartmentCycle
        BY DEF Sound
    <2>2. ASSUME NEW e \in Employees
          PROVE  Cardinality({depth \in 0..DepthLimit : e \in ChartLevels[depth]})
                     = IF Employed(e) THEN 1 ELSE 0
        <3> DEFINE levels == {depth \in 0..DepthLimit : e \in ChartLevels[depth]}
        <3>1. CASE Employed(e)
            <4>1. PICK d \in 0..DepthLimit : e \in ChartLevels[d]
                BY <3>1, EveryoneHasALevel
            <4>2. \A k \in levels : k = d
                <5>1. \A i, j \in levels : ~(i < j)
                    BY <2>1, LevelsAreDisjoint
                <5>2. d \in levels /\ d \in Int /\ \A k \in levels : k \in Int
                    BY <4>1
                <5> HIDE DEF levels
                <5> QED
                    BY <5>1, <5>2
            <4>3. levels = {d}
                BY <4>1, <4>2
            <4> HIDE DEF levels
            <4>4. Cardinality(levels) = 1
                BY <4>3, FS_Singleton
            <4> QED
                BY <3>1, <4>4 DEF levels
        <3>2. CASE ~Employed(e)
            <4>1. \A d \in 0..DepthLimit : d = 0 \/ d \in 1..DepthLimit
                BY OrganisationAssumption
            <4>2. levels = {}
                BY <2>1, <3>2, <4>1, ChartLevelsAre
            <4> HIDE DEF levels
            <4>3. Cardinality(levels) = 0
                BY <4>2, FS_EmptySet
            <4> QED
                BY <3>2, <4>3 DEF levels
        <3> QED
            BY <3>1, <3>2
    <2> QED
        BY <2>1, <2>2 DEF ChartIsSound, ChartIsComplete
<1> QED
    BY <1>1, SoundnessIsInvariant, PTL

-----------------------------------------------------------------------------
(* Reminders.  What the job holds between its reads and its writes.        *)
Job == [on : Calendar, due : SUBSET (Users \X Tasks), told : Users \cup {NoLogin}]
Edit == [task : Tasks, row : ChecklistTask]

RemindersTyped ==
    /\ RemindersTypeOK
    /\ desks \in [Desks -> Edit \cup {NoEdit}]
    /\ runners \in [Runners -> Job \cup {NoRun}]
    /\ checklist = "NONE" =>
           /\ \A key \in Users \X Calendar : digests[key] = {}
           /\ \A d \in Desks : desks[d] = NoEdit
           /\ \A w \in Runners : runners[w] = NoRun
           /\ \A t \in Tasks : tasks[t].status = "NONE"

(* One job runs at a time, and none while a request holds a task.          *)
Undisturbed ==
    /\ \A v, w \in Runners : runners[v] # NoRun /\ runners[w] # NoRun => v = w
    /\ \A d \in Desks, w \in Runners : desks[d] = NoEdit \/ runners[w] = NoRun

(* What is in a digest has been marked for the day, or is about to be.     *)
Marked(u, d, t) ==
    \/ tasks[t].reminded >= d
    \/ \E w \in Runners : /\ runners[w].on = d /\ runners[w].told = u
                          /\ <<u, t>> \in runners[w].due

(* A request holds the date of the last reminder, a job holds tasks that   *)
(* are not yet reminded on its day, each for one user.                     *)
Remembered ==
    /\ \A d \in Desks : desks[d] # NoEdit =>
           desks[d].row.reminded = tasks[desks[d].task].reminded
    /\ \A w \in Runners, u \in Users, t \in Tasks : <<u, t>> \in runners[w].due =>
           /\ tasks[t].reminded < runners[w].on
           /\ \A v \in Users : <<v, t>> \in runners[w].due => v = u
    /\ \A u \in Users, d \in Calendar : \A t \in digests[<<u, d>>] : Marked(u, d, t)

OneDigest ==
    \A u, v \in Users, d \in Calendar, t \in Tasks :
        t \in digests[<<u, d>>] /\ t \in digests[<<v, d>>] => u = v

RemindersInv == RemindersTyped /\ (causes = {} => Undisturbed /\ Remembered /\ OneDigest)

LEMMA NoRunIs == NoRun.on = -1 /\ NoRun.due = {} /\ NoRun.told = NoLogin /\ NoRun \notin Job
    BY RemindersAssumption DEF NoRun, Never, Job, Calendar

LEMMA InitReminders == RemindersInit => RemindersInv
<1> SUFFICES ASSUME RemindersInit PROVE RemindersInv
    OBVIOUS
<1>1. NoTask \in ChecklistTask
    BY DEF NoTask, ChecklistTask
<1>2. RemindersTyped
    BY <1>1, RemindersAssumption DEF RemindersInit, RemindersTyped, RemindersTypeOK, Calendar, NoTask
<1>3. Undisturbed /\ Remembered /\ OneDigest
    BY NoRunIs DEF RemindersInit, Undisturbed, Remembered, OneDigest, NoEdit
<1> QED
    BY <1>2, <1>3 DEF RemindersInv

(* Requests: the task saved has the reminder of the task loaded.           *)
LEMMA LoadReminders ==
    ASSUME RemindersInv, NEW d \in Desks, NEW t \in Tasks, NEW row \in ChecklistTask,
           row.reminded = tasks[t].reminded, Load(d, t, row)
    PROVE  RemindersInv'
<1>1. /\ desks' = [desks EXCEPT ![d] = [task |-> t, row |-> row]]
      /\ causes' = causes \cup {"edit with job" : w \in Running}
      /\ UNCHANGED <<checklist, tasks, runners, digests, day>>
      /\ tasks[t].status # "NONE"
    BY DEF Load
<1> DEFINE edit == [task |-> t, row |-> row]
<1>2. edit \in Edit /\ edit.task = t /\ edit.row = row
    BY DEF Edit
<1> HIDE DEF edit
<1>3. /\ desks'[d] = edit /\ \A c \in Desks \ {d} : desks'[c] = desks[c]
      /\ desks' \in [Desks -> Edit \cup {NoEdit}]
    BY <1>1, <1>2 DEF RemindersInv, RemindersTyped, edit
<1>4. checklist # "NONE"
    BY <1>1 DEF RemindersInv, RemindersTyped
<1>5. RemindersTyped'
    BY <1>1, <1>3, <1>4 DEF RemindersInv, RemindersTyped, RemindersTypeOK
<1>6. ASSUME causes' = {}
      PROVE  (Undisturbed /\ Remembered /\ OneDigest)'
    <2>1. causes = {} /\ Running = {}
        BY <1>1, <1>6
    <2>2. \A w \in Runners : runners[w] = NoRun
        BY <2>1 DEF Running
    <2>3. Undisturbed'
        BY <1>1, <2>2 DEF Undisturbed
    <2>4. Remembered'
        <3>1. \A c \in Desks : desks'[c] # NoEdit =>
                  desks'[c].row.reminded = tasks[desks'[c].task].reminded
            BY <1>2, <1>3, <2>1 DEF RemindersInv, Remembered
        <3> QED
            BY <1>1, <2>1, <3>1 DEF RemindersInv, Remembered, Marked
    <2>5. OneDigest'
        BY <1>1, <2>1 DEF RemindersInv, OneDigest
    <2> QED
        BY <2>3, <2>4, <2>5
<1> QED
    BY <1>5, <1>6 DEF RemindersInv

LEMMA SaveReminders ==
    ASSUME RemindersInv, NEW d \in Desks, SaveTaskRow(d)
    PROVE  RemindersInv'
<1> DEFINE t == desks[d].task
           row == desks[d].row
<1>1. /\ desks[d] # NoEdit
      /\ tasks' = [tasks EXCEPT ![t] = row]
      /\ desks' = [desks EXCEPT ![d] = NoEdit]
      /\ UNCHANGED <<checklist, runners, digests, day, causes>>
    BY DEF SaveTaskRow
<1>2. t \in Tasks /\ row \in ChecklistTask /\ checklist # "NONE"
    BY <1>1 DEF RemindersInv, RemindersTyped, Edit
<1>3. tasks' \in [Tasks -> ChecklistTask] /\ desks' \in [Desks -> Edit \cup {NoEdit}]
    BY <1>1, <1>2 DEF RemindersInv, RemindersTyped, RemindersTypeOK
<1>4. RemindersTyped'
    BY <1>1, <1>2, <1>3 DEF RemindersInv, RemindersTyped, RemindersTypeOK
<1>5. ASSUME causes = {}
      PROVE  (Undisturbed /\ Remembered /\ OneDigest)'
    <2>1. row.reminded = tasks[t].reminded
        BY <1>1, <1>5 DEF RemindersInv, Remembered
    <2>2. \A x \in Tasks : tasks'[x].reminded = tasks[x].reminded
        BY <1>1, <1>2, <2>1 DEF RemindersInv, RemindersTyped, RemindersTypeOK
    <2>3. \A c \in Desks : desks'[c] = NoEdit \/ desks'[c] = desks[c]
        BY <1>1 DEF RemindersInv, RemindersTyped
    <2>4. Undisturbed'
        BY <1>1, <1>5, <2>3 DEF RemindersInv, Undisturbed
    <2>5. \A c \in Desks : desks[c] # NoEdit => desks[c].task \in Tasks
        BY DEF RemindersInv, RemindersTyped, Edit
    <2>6. \A u \in Users, day0 \in Calendar : digests[<<u, day0>>] \subseteq Tasks
        BY DEF RemindersInv, RemindersTyped, RemindersTypeOK
    <2>7. Remembered'
        <3>1. \A c \in Desks : desks'[c] # NoEdit =>
                  desks'[c].row.reminded = tasks'[desks'[c].task].reminded
            BY <1>5, <2>2, <2>3, <2>5 DEF RemindersInv, Remembered
        <3>2. \A w \in Runners, u \in Users, x \in Tasks : <<u, x>> \in runners[w].due =>
                 /\ tasks'[x].reminded < runners[w].on
                 /\ \A v \in Users : <<v, x>> \in runners[w].due => v = u
            BY <1>5, <2>2 DEF RemindersInv, Remembered
        <3>3. \A u \in Users, day0 \in Calendar : \A x \in digests[<<u, day0>>] :
                 Marked(u, day0, x)'
            BY <1>1, <1>5, <2>2, <2>6 DEF RemindersInv, Remembered, Marked
        <3> QED
            BY <1>1, <3>1, <3>2, <3>3 DEF Remembered
    <2>8. OneDigest'
        BY <1>1, <1>5 DEF RemindersInv, OneDigest
    <2> QED
        BY <2>4, <2>7, <2>8
<1> QED
    BY <1>1, <1>4, <1>5 DEF RemindersInv

(* The checklist starts and ends, and days pass.                           *)
LEMMA ChecklistReminders ==
    ASSUME RemindersInv, StartChecklist \/ EndChecklist \/ DayPasses
    PROVE  RemindersInv'
<1>1. CASE StartChecklist
    <2>1. PICK anchorDate \in day..LastDay, logins \in Logins :
            tasks' = [t \in Tasks |->
                        [status |-> "OPEN", user |-> ResolveAssignee(Rule[t], logins),
                         role |-> NamesRole(Rule[t]), due |-> anchorDate + Offset[t],
                         reminded |-> Never]]
        BY <1>1 DEF StartChecklist
    <2>2. /\ checklist = "NONE" /\ checklist' = "IN_PROGRESS"
          /\ UNCHANGED <<desks, runners, digests, day, causes>>
        BY <1>1 DEF StartChecklist
    <2>3. tasks' \in [Tasks -> ChecklistTask]
        <3>1. anchorDate \in Int
            BY DEF RemindersInv, RemindersTyped, RemindersTypeOK, Calendar
        <3>2. \A t \in Tasks : anchorDate + Offset[t] \in Int
            BY <3>1, RemindersAssumption
        <3>3. logins.EMPLOYEE \in Users \cup {NoLogin} /\ logins.MANAGER \in Users \cup {NoLogin}
            BY RemindersAssumption
        <3>4. \A t \in Tasks : ResolveAssignee(Rule[t], logins) \in Users \cup {NoLogin}
            BY <3>3 DEF ResolveAssignee
        <3>5. \A t \in Tasks : NamesRole(Rule[t]) \in BOOLEAN
            BY DEF NamesRole
        <3> QED
            BY <2>1, <3>2, <3>4, <3>5 DEF ChecklistTask
    <2>4. RemindersTyped'
        BY <2>2, <2>3 DEF RemindersInv, RemindersTyped, RemindersTypeOK
    <2>5. Undisturbed' /\ Remembered' /\ OneDigest'
        BY <2>2, NoRunIs DEF RemindersInv, RemindersTyped, Undisturbed, Remembered, OneDigest
    <2> QED
        BY <2>4, <2>5 DEF RemindersInv
<1>2. CASE EndChecklist
    BY <1>2 DEF EndChecklist, RemindersInv, RemindersTyped, RemindersTypeOK, Undisturbed,
                Remembered, Marked, OneDigest
<1>3. CASE DayPasses
    <2>1. day' \in Calendar
        BY <1>3, RemindersAssumption
           DEF DayPasses, RemindersInv, RemindersTyped, RemindersTypeOK, Calendar
    <2> QED
        BY <1>3, <2>1 DEF DayPasses, RemindersInv, RemindersTyped, RemindersTypeOK, Undisturbed,
                          Remembered, Marked, OneDigest
<1> QED
    BY <1>1, <1>2, <1>3

(* A job starts with tasks that nothing has reminded on its day.           *)
LEMMA SendRemindersKeeps ==
    ASSUME RemindersInv, NEW w \in Runners, SendReminders(w)
    PROVE  RemindersInv'
<1> DEFINE fresh == {t \in Tasks : Fresh(t) /\ tasks[t].user # NoLogin}
           pairs == {<<tasks[t].user, t>> : t \in fresh}
           run == [on |-> day, due |-> pairs, told |-> NoLogin]
<1>1. runners[w] = NoRun /\ UNCHANGED <<checklist, tasks, desks, digests, day>>
    BY DEF SendReminders
<1>2. CASE fresh = {}
    <2>1. UNCHANGED <<runners, causes>>
        BY <1>2 DEF SendReminders
    <2> QED
        BY <1>1, <2>1 DEF RemindersInv, RemindersTyped, RemindersTypeOK, Undisturbed,
                          Remembered, Marked, OneDigest
<1>3. CASE fresh # {}
    <2>1. /\ runners' = [runners EXCEPT ![w] = run]
          /\ causes' = causes \cup {"two jobs" : v \in Running}
                              \cup {"edit with job" : d \in Editing}
        BY <1>3 DEF SendReminders
    <2>2. checklist # "NONE"
        BY <1>3 DEF Fresh, Due
    <2>3. day \in Calendar /\ \A t \in Tasks : tasks[t] \in ChecklistTask
        BY DEF RemindersInv, RemindersTyped, RemindersTypeOK
    <2>4. pairs \subseteq Users \X Tasks
        BY <2>3 DEF ChecklistTask
    <2>5. /\ \A u \in Users, t \in Tasks : <<u, t>> \in pairs =>
                 tasks[t].reminded < day /\ u = tasks[t].user
        BY DEF Fresh
    <2> HIDE DEF pairs
    <2>6. run \in Job /\ run.on = day /\ run.due = pairs
        BY <2>3, <2>4 DEF Job
    <2> HIDE DEF run
    <2>7. /\ runners'[w] = run /\ \A v \in Runners \ {w} : runners'[v] = runners[v]
          /\ runners' \in [Runners -> Job \cup {NoRun}]
        BY <2>1, <2>6 DEF RemindersInv, RemindersTyped
    <2>8. RemindersTyped'
        BY <1>1, <2>2, <2>7 DEF RemindersInv, RemindersTyped, RemindersTypeOK
    <2>9. ASSUME causes' = {}
          PROVE  (Undisturbed /\ Remembered /\ OneDigest)'
        <3>1. causes = {} /\ Running = {} /\ Editing = {}
            BY <2>1, <2>9
        <3>2. /\ \A v \in Runners : runners[v] = NoRun
              /\ \A d \in Desks : desks[d] = NoEdit
            BY <3>1 DEF Running, Editing
        <3>3. Undisturbed'
            BY <1>1, <2>7, <3>2 DEF Undisturbed
        <3>4. \A v \in Runners, u \in Users, t \in Tasks : <<u, t>> \in runners'[v].due =>
                 /\ tasks[t].reminded < runners'[v].on
                 /\ \A x \in Users : <<x, t>> \in runners'[v].due => x = u
            BY <2>5, <2>6, <2>7, <3>2, NoRunIs
        <3>5. \A u \in Users, d \in Calendar : \A t \in digests[<<u, d>>] : tasks[t].reminded >= d
            <4>1. \A v \in Runners : runners[v].due = {}
                BY <3>2, NoRunIs
            <4>2. \A u \in Users, d \in Calendar : \A t \in digests[<<u, d>>] : Marked(u, d, t)
                BY <3>1 DEF RemindersInv, Remembered
            <4> QED
                BY <4>1, <4>2 DEF Marked
        <3>6. Remembered'
            BY <1>1, <3>2, <3>4, <3>5 DEF Remembered, Marked
        <3>7. OneDigest'
            BY <1>1, <3>1 DEF RemindersInv, OneDigest
        <3> QED
            BY <3>3, <3>6, <3>7
    <2> QED
        BY <2>8, <2>9 DEF RemindersInv
<1> QED
    BY <1>2, <1>3

(* A runner with something to do is running.                               *)
LEMMA BusyRunner ==
    ASSUME RemindersInv, NEW w \in Runners, runners[w].due # {} \/ runners[w].told # NoLogin
    PROVE  /\ runners[w] \in Job /\ runners[w] # NoRun /\ checklist # "NONE"
           /\ causes = {} => /\ \A v \in Runners \ {w} : runners[v] = NoRun
                             /\ \A d \in Desks : desks[d] = NoEdit
<1>1. runners[w] # NoRun
    BY NoRunIs
<1> QED
    BY <1>1 DEF RemindersInv, RemindersTyped, Undisturbed

LEMMA NotifyKeeps ==
    ASSUME RemindersInv, NEW w \in Runners, NEW u \in Users, Notify(w, u)
    PROVE  RemindersInv'
<1> DEFINE run == runners[w]
           key == <<u, run.on>>
           told == [run EXCEPT !.told = u]
<1>1. /\ run.told = NoLogin /\ Group(w, u) # {}
      /\ digests' = IF digests[key] # {} THEN digests ELSE [digests EXCEPT ![key] = Group(w, u)]
      /\ runners' = [runners EXCEPT ![w].told = u]
      /\ UNCHANGED <<checklist, tasks, desks, day, causes>>
    BY DEF Notify
<1>2. run.due # {}
    BY <1>1 DEF Group
<1>3. /\ run \in Job /\ run # NoRun /\ checklist # "NONE"
      /\ causes = {} => /\ \A v \in Runners \ {w} : runners[v] = NoRun
                        /\ \A d \in Desks : desks[d] = NoEdit
    BY <1>2, BusyRunner
<1>4. /\ told \in Job /\ told.on = run.on /\ told.due = run.due /\ told.told = u
    BY <1>3 DEF Job
<1>5. runners' = [runners EXCEPT ![w] = told]
    BY <1>1
<1> HIDE DEF told
<1>6. /\ runners'[w] = told /\ \A v \in Runners \ {w} : runners'[v] = runners[v]
      /\ runners' \in [Runners -> Job \cup {NoRun}]
    BY <1>4, <1>5 DEF RemindersInv, RemindersTyped
<1>7. run.on \in Calendar /\ key \in Users \X Calendar
    BY <1>3 DEF Job
<1>8. /\ Group(w, u) \subseteq Tasks
      /\ \A t \in Tasks : t \in Group(w, u) <=> <<u, t>> \in run.due
    BY DEF Group
<1> HIDE DEF key
<1>9. /\ digests' \in [Users \X Calendar -> SUBSET Tasks]
      /\ \A k \in Users \X Calendar : k # key => digests'[k] = digests[k]
      /\ digests'[key] = digests[key] \/ digests'[key] = Group(w, u)
    BY <1>1, <1>7, <1>8 DEF RemindersInv, RemindersTyped, RemindersTypeOK
<1>10. RemindersTyped'
    BY <1>1, <1>3, <1>6, <1>9 DEF RemindersInv, RemindersTyped, RemindersTypeOK
<1>11. ASSUME causes = {}
       PROVE  (Undisturbed /\ Remembered /\ OneDigest)'
    <2>1. /\ \A v \in Runners \ {w} : runners[v] = NoRun
          /\ \A d \in Desks : desks[d] = NoEdit
        BY <1>3, <1>11
    <2>2. Undisturbed'
        BY <1>1, <1>6, <2>1 DEF Undisturbed
    <2>3. \A x \in Users, t \in Tasks : <<x, t>> \in run.due =>
             /\ tasks[t].reminded < run.on
             /\ \A v \in Users : <<v, t>> \in run.due => v = x
        BY <1>11 DEF RemindersInv, Remembered
    <2>4. \A x \in Users, d \in Calendar : \A t \in digests[<<x, d>>] : tasks[t].reminded >= d
        <3> SUFFICES ASSUME NEW x \in Users, NEW d \in Calendar, NEW t \in digests[<<x, d>>]
                     PROVE  tasks[t].reminded >= d
            OBVIOUS
        <3>1. Marked(x, d, t)
            BY <1>11 DEF RemindersInv, Remembered
        <3>2. \A v \in Runners : runners[v].told # x
            BY <1>1, <2>1, NoRunIs, RemindersAssumption
        <3> QED
            BY <3>1, <3>2 DEF Marked
    <2>5. \A x \in Users, d \in Calendar : \A t \in digests'[<<x, d>>] :
              t \in digests[<<x, d>>] \/ (x = u /\ d = run.on /\ t \in Group(w, u))
        BY <1>7, <1>9 DEF key
    <2>6. Remembered'
        <3>1. \A v \in Runners, x \in Users, t \in Tasks : <<x, t>> \in runners'[v].due =>
                 /\ tasks[t].reminded < runners'[v].on
                 /\ \A y \in Users : <<y, t>> \in runners'[v].due => y = x
            BY <1>4, <1>6, <2>1, <2>3, NoRunIs
        <3>2. ASSUME NEW x \in Users, NEW d \in Calendar, NEW t \in digests'[<<x, d>>]
              PROVE  Marked(x, d, t)'
            <4>1. CASE t \in digests[<<x, d>>]
                BY <1>1, <2>4, <4>1 DEF Marked
            <4>2. CASE x = u /\ d = run.on /\ t \in Group(w, u)
                <5>1. <<u, t>> \in run.due
                    BY <1>8, <4>2
                <5> QED
                    BY <1>4, <1>6, <4>2, <5>1 DEF Marked
            <4> QED
                BY <2>5, <4>1, <4>2
        <3> QED
            BY <1>1, <2>1, <3>1, <3>2 DEF Remembered
    <2>7. OneDigest'
        <3> SUFFICES ASSUME NEW x \in Users, NEW y \in Users, NEW d \in Calendar, NEW t \in Tasks,
                            t \in digests'[<<x, d>>], t \in digests'[<<y, d>>]
                     PROVE  x = y
            BY DEF OneDigest
        <3>1. \A z \in Users : t \in Group(w, u) /\ t \in digests[<<z, d>>] => d # run.on
            <4> SUFFICES ASSUME NEW z \in Users, t \in Group(w, u), t \in digests[<<z, d>>],
                                d = run.on
                         PROVE  FALSE
                OBVIOUS
            <4>1. tasks[t].reminded < run.on /\ tasks[t].reminded >= run.on
                BY <1>8, <2>3, <2>4
            <4>2. tasks[t].reminded \in Int /\ run.on \in Int
                BY <1>7, RemindersAssumption
                   DEF RemindersInv, RemindersTyped, RemindersTypeOK, ChecklistTask, Calendar, Never
            <4> QED
                BY <4>1, <4>2
        <3>2. t \in digests[<<x, d>>] /\ t \in digests[<<y, d>>] => x = y
            BY <1>11 DEF RemindersInv, OneDigest
        <3> QED
            BY <2>5, <3>1, <3>2
    <2> QED
        BY <2>2, <2>6, <2>7
<1> QED
    BY <1>1, <1>10, <1>11 DEF RemindersInv

LEMMA MarkRemindedKeeps ==
    ASSUME RemindersInv, NEW w \in Runners, MarkReminded(w)
    PROVE  RemindersInv'
<1> DEFINE run == runners[w]
           rest == {p \in run.due : p[1] # run.told}
           next == IF rest = {} THEN NoRun ELSE [run EXCEPT !.due = rest, !.told = NoLogin]
<1>1. /\ run.told # NoLogin
      /\ tasks' = [t \in Tasks |-> IF t \in Group(w, run.told)
                                   THEN [tasks[t] EXCEPT !.reminded = run.on] ELSE tasks[t]]
      /\ runners' = [runners EXCEPT ![w] = next]
      /\ UNCHANGED <<checklist, desks, digests, day, causes>>
    BY DEF MarkReminded
<1>2. /\ run \in Job /\ run # NoRun /\ checklist # "NONE"
      /\ causes = {} => /\ \A v \in Runners \ {w} : runners[v] = NoRun
                        /\ \A d \in Desks : desks[d] = NoEdit
    BY <1>1, BusyRunner
<1>3. /\ run.on \in Calendar /\ run.due \subseteq Users \X Tasks /\ run.told \in Users
    BY <1>1, <1>2 DEF Job
<1>4. /\ next \in Job \cup {NoRun} /\ next.due = rest /\ next.told = NoLogin
      /\ rest # {} => next.on = run.on
    <2>1. CASE rest = {}
        BY <2>1, NoRunIs
    <2>2. CASE rest # {}
        <3> DEFINE m == [run EXCEPT !.due = rest, !.told = NoLogin]
        <3>1. rest \in SUBSET (Users \X Tasks)
            BY <1>3
        <3> HIDE DEF rest
        <3>2. m \in Job /\ m.due = rest /\ m.told = NoLogin /\ m.on = run.on
            BY <1>2, <3>1 DEF Job
        <3>3. next = m
            BY <2>2
        <3> HIDE DEF m, next
        <3> QED
            BY <3>2, <3>3
    <2> QED
        BY <2>1, <2>2
<1>5. \A u \in Users, t \in Tasks : <<u, t>> \in rest <=> <<u, t>> \in run.due /\ u # run.told
    OBVIOUS
<1> HIDE DEF next, rest
<1>6. /\ runners'[w] = next /\ \A v \in Runners \ {w} : runners'[v] = runners[v]
      /\ runners' \in [Runners -> Job \cup {NoRun}]
    BY <1>1, <1>4 DEF RemindersInv, RemindersTyped
<1>7. /\ \A t \in Tasks : t \in Group(w, run.told) <=> <<run.told, t>> \in run.due
    BY DEF Group
<1>8. /\ tasks' \in [Tasks -> ChecklistTask]
      /\ \A t \in Group(w, run.told) : t \in Tasks => tasks'[t].reminded = run.on
      /\ \A t \in Tasks : t \notin Group(w, run.told) => tasks'[t] = tasks[t]
    <2>1. \A t \in Tasks : tasks[t] \in ChecklistTask
        BY DEF RemindersInv, RemindersTyped, RemindersTypeOK
    <2>2. \A t \in Tasks : /\ [tasks[t] EXCEPT !.reminded = run.on] \in ChecklistTask
                           /\ [tasks[t] EXCEPT !.reminded = run.on].reminded = run.on
        BY <1>3, <2>1 DEF ChecklistTask
    <2> QED
        BY <1>1, <2>1, <2>2
<1>9. RemindersTyped'
    BY <1>1, <1>2, <1>6, <1>8 DEF RemindersInv, RemindersTyped, RemindersTypeOK
<1>10. ASSUME causes = {}
       PROVE  (Undisturbed /\ Remembered /\ OneDigest)'
    <2>1. /\ \A v \in Runners \ {w} : runners[v] = NoRun
          /\ \A d \in Desks : desks[d] = NoEdit
        BY <1>2, <1>10
    <2>2. Undisturbed'
        BY <1>1, <1>6, <2>1 DEF Undisturbed
    <2>3. \A u \in Users, t \in Tasks : <<u, t>> \in run.due =>
             /\ tasks[t].reminded < run.on
             /\ \A v \in Users : <<v, t>> \in run.due => v = u
        BY <1>10 DEF RemindersInv, Remembered
    <2>4. \A v \in Runners, u \in Users, t \in Tasks : <<u, t>> \in runners'[v].due =>
             /\ tasks'[t].reminded < runners'[v].on
             /\ \A x \in Users : <<x, t>> \in runners'[v].due => x = u
        <3> SUFFICES ASSUME NEW v \in Runners, NEW u \in Users, NEW t \in Tasks,
                            <<u, t>> \in runners'[v].due
                     PROVE  /\ tasks'[t].reminded < runners'[v].on
                            /\ \A x \in Users : <<x, t>> \in runners'[v].due => x = u
            OBVIOUS
        <3>1. v = w
            BY <1>6, <2>1, NoRunIs
        <3>2. runners'[v] = next /\ <<u, t>> \in run.due /\ u # run.told /\ next.on = run.on
            BY <1>4, <1>5, <1>6, <3>1
        <3>3. t \notin Group(w, run.told)
            BY <1>3, <1>7, <2>3, <3>2
        <3> QED
            BY <1>4, <1>5, <1>8, <2>3, <3>2, <3>3
    <2>5. ASSUME NEW u \in Users, NEW d \in Calendar, NEW t \in digests[<<u, d>>]
          PROVE  tasks'[t].reminded >= d
        <3>1. Marked(u, d, t) /\ t \in Tasks
            BY <1>10 DEF RemindersInv, Remembered, RemindersTyped, RemindersTypeOK
        <3>2. tasks[t].reminded \in Int /\ run.on \in Int /\ d \in Int
            BY <1>3, <3>1, RemindersAssumption
               DEF RemindersInv, RemindersTyped, RemindersTypeOK, ChecklistTask, Calendar, Never
        <3>3. CASE tasks[t].reminded >= d
            <4>1. CASE t \in Group(w, run.told)
                <5>1. tasks[t].reminded < run.on
                    BY <1>3, <1>7, <2>3, <3>1, <4>1
                <5> QED
                    BY <1>8, <3>1, <3>2, <3>3, <4>1, <5>1
            <4>2. CASE t \notin Group(w, run.told)
                BY <1>8, <3>1, <3>3, <4>2
            <4> QED
                BY <4>1, <4>2
        <3>4. CASE \E v \in Runners : /\ runners[v].on = d /\ runners[v].told = u
                                      /\ <<u, t>> \in runners[v].due
            <4>1. run.on = d /\ run.told = u /\ <<u, t>> \in run.due
                BY <2>1, <3>4, NoRunIs
            <4>2. tasks'[t].reminded = d
                BY <1>7, <1>8, <3>1, <4>1
            <4> QED
                BY <3>2, <4>2
        <3> QED
            BY <3>1, <3>3, <3>4 DEF Marked
    <2>6. Remembered'
        BY <1>1, <2>1, <2>4, <2>5 DEF Remembered, Marked
    <2>7. OneDigest'
        BY <1>1, <1>10 DEF RemindersInv, OneDigest
    <2> QED
        BY <2>2, <2>6, <2>7
<1> QED
    BY <1>1, <1>9, <1>10 DEF RemindersInv

LEMMA RemindersStep ==
    ASSUME RemindersInv, [RemindersNext]_reminders
    PROVE  RemindersInv'
<1>1. CASE UNCHANGED reminders
    BY <1>1 DEF reminders, RemindersInv, RemindersTyped, RemindersTypeOK, Undisturbed,
                Remembered, Marked, OneDigest
<1>2. CASE StartChecklist \/ EndChecklist \/ DayPasses
    BY <1>2, ChecklistReminders
<1>3. ASSUME NEW d \in Desks, RemindersRequest(d)
      PROVE  RemindersInv'
    <2>1. ASSUME NEW t \in Tasks, ReassignTask(d, t)
          PROVE  RemindersInv'
        <3>1. PICK user \in Users \cup {NoLogin}, role \in BOOLEAN :
                Load(d, t, [tasks[t] EXCEPT !.user = user, !.role = role])
            BY <2>1 DEF ReassignTask
        <3> DEFINE row == [tasks[t] EXCEPT !.user = user, !.role = role]
        <3>2. row \in ChecklistTask /\ row.reminded = tasks[t].reminded
            BY DEF RemindersInv, RemindersTyped, RemindersTypeOK, ChecklistTask
        <3> HIDE DEF row
        <3> QED
            BY <3>1, <3>2, LoadReminders DEF row
    <2>2. ASSUME NEW t \in Tasks, NEW actor, UpdateTask(d, t, actor)
          PROVE  RemindersInv'
        <3>1. PICK status \in {"OPEN", "CLOSED"} : Load(d, t, [tasks[t] EXCEPT !.status = status])
            BY <2>2 DEF UpdateTask
        <3> DEFINE row == [tasks[t] EXCEPT !.status = status]
        <3>2. row \in ChecklistTask /\ row.reminded = tasks[t].reminded
            BY DEF RemindersInv, RemindersTyped, RemindersTypeOK, ChecklistTask
        <3> HIDE DEF row
        <3> QED
            BY <3>1, <3>2, LoadReminders DEF row
    <2> QED
        BY <1>3, <2>1, <2>2, SaveReminders DEF RemindersRequest
<1>4. ASSUME NEW w \in Runners, ReminderJob(w)
      PROVE  RemindersInv'
    <2>1. CASE JobStops(w)
        <3>1. /\ causes' # {} /\ runners' = [runners EXCEPT ![w] = NoRun]
              /\ UNCHANGED <<checklist, tasks, desks, digests, day>>
            BY <2>1 DEF JobStops
        <3>2. /\ runners' \in [Runners -> Job \cup {NoRun}]
              /\ \A v \in Runners : runners'[v] = runners[v] \/ runners'[v] = NoRun
            BY <3>1 DEF RemindersInv, RemindersTyped
        <3> QED
            BY <3>1, <3>2 DEF RemindersInv, RemindersTyped, RemindersTypeOK
    <2> QED
        BY <1>4, <2>1, SendRemindersKeeps, MarkRemindedKeeps, NotifyKeeps DEF ReminderJob
<1> QED
    BY <1>1, <1>2, <1>3, <1>4 DEF RemindersNext

(* "At most once per calendar day per task": for any number of tasks,      *)
(* users and servers, a task is in one digest of a day however often the   *)
(* job runs and whoever gets the task between two runs, as long as no job  *)
(* stopped half-way or overlapped another job or a request on a task.      *)
THEOREM TasksAreRemindedOnceADay ==
    RemindersSpec => []RemindedOnceADay
<1>1. RemindersInit => RemindersInv
    BY InitReminders
<1>2. RemindersInv /\ [RemindersNext]_reminders => RemindersInv'
    BY RemindersStep
<1>3. RemindersInv => RemindedOnceADay
    BY DEF RemindersInv, RemindersTyped, RemindersTypeOK, OneDigest, RemindedOnceADay
<1> QED
    BY <1>1, <1>2, <1>3, PTL DEF RemindersSpec
=============================================================================
