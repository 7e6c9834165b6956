--------------------------- MODULE PayrollProofs ---------------------------
(***************************************************************************)
(* Proofs about PayrollRuns when its handlers are served one at a time,    *)
(* for any number of runs, employees, handlers and failures: approved runs *)
(* stay as they are and are documented, and structures that succeed each   *)
(* other pay every day once.                                               *)
(* And about TaxYear, for any structures and any order of the months: PAYE *)
(* is even on steady pay, and right by the end of the year.                *)
(***************************************************************************)
EXTENDS PayrollRuns, TaxYear, SumTheorems, SequenceTheorems

Writing == {"delete", "slip", "remove"}
Approving == {"load", "render", "link"}
Forward == {<<"NONE", "DRAFT">>, <<"DRAFT", "CALCULATED">>,
            <<"CALCULATED", "APPROVED">>, <<"APPROVED", "PAID">>}

ProcFields == {"pc", "kind", "run", "row", "slips", "todo", "emp", "totals", "current", "new"}
RunFields == {"status", "scope", "period", "fx", "totals"}

(* The rows and the handlers have their columns and variables.             *)
Shape ==
    /\ DOMAIN procs = Procs
    /\ \A p \in Procs : /\ DOMAIN procs[p] = ProcFields
                        /\ DOMAIN procs[p].row = RunFields
    /\ DOMAIN runs = RunIds
    /\ \A r \in RunIds : DOMAIN runs[r] = RunFields
    /\ DOMAIN slips = RunIds

(* One handler is in flight at most.                                       *)
OneAtATime == \A p, q \in Procs : p # q => At(p, "idle") \/ At(q, "idle")

(* What a handler has learnt of its run is still true: a calculation or a  *)
(* removal works on an open run, an approval on a calculated one, and the  *)
(* row to be saved takes the run one step forward or leaves it.            *)
Informed(l, rs) ==
    /\ l.pc \in Writing \cup Approving \cup {"save"} => l.run \in RunIds
    /\ l.pc \in Writing => rs[l.run].status \in Open
    /\ l.pc \in Approving => rs[l.run].status = "CALCULATED" /\ l.row.status = "CALCULATED"
    /\ l.pc = "save" => \/ l.row.status = rs[l.run].status
                        \/ <<rs[l.run].status, l.row.status>> \in Forward

(* It is, for every handler that has not been overtaken.                   *)
Known ==
    /\ Shape
    /\ \A p \in Procs : p \notin overtaken => Informed(procs[p], runs)

Serial ==
    /\ Known
    /\ OneAtATime
    /\ overtaken = {}

(* The rows a handler writes: those of its own run; and whoever else is at *)
(* work on that run is overtaken.                                          *)
OwnRows(p) ==
    \/ UNCHANGED <<runs, overtaken>>
    \/ /\ runs' = runs /\ overtaken' = overtaken \ {p}
    \/ /\ \A r \in RunIds : r # procs[p].run => runs'[r] = runs[r]
       /\ overtaken' = overtaken \cup Others(p, procs[p].run)

-----------------------------------------------------------------------------
(* A handler that goes on keeps the invariant if what it now knows is      *)
(* true.                                                                   *)
LEMMA GoesOn ==
    ASSUME Known, NEW p \in Procs, NEW l, Goto(p, l), OwnRows(p),
           DOMAIN l = ProcFields, DOMAIN l.row = RunFields,
           DOMAIN runs' = RunIds, \A r \in RunIds : DOMAIN runs'[r] = RunFields,
           DOMAIN slips' = RunIds,
           p \notin overtaken' => Informed(l, runs')
    PROVE  Known'
<1>1. procs' = [procs EXCEPT ![p] = l]
    BY DEF Goto
<1>2. DOMAIN procs' = Procs /\ procs'[p] = l /\ \A q \in Procs \ {p} : procs'[q] = procs[q]
    BY <1>1 DEF Known, Shape
<1>3. Shape'
    BY <1>2 DEF Known, Shape
<1>4. ASSUME NEW q \in Procs \ {p}, q \notin overtaken'
      PROVE  Informed(procs[q], runs')
    <2>1. q \notin overtaken
        BY <1>4 DEF OwnRows
    <2>2. Informed(procs[q], runs)
        BY <2>1 DEF Known
    <2>3. CASE runs' = runs
        BY <2>2, <2>3
    <2>4. CASE /\ \A r \in RunIds : r # procs[p].run => runs'[r] = runs[r]
               /\ overtaken' = overtaken \cup Others(p, procs[p].run)
        <3>1. procs[q].pc = "idle" \/ procs[q].run # procs[p].run
            BY <1>4, <2>4 DEF Others, At
        <3> QED
            BY <2>2, <2>4, <3>1 DEF Informed, Writing, Approving
    <2> QED
        BY <2>3, <2>4 DEF OwnRows
<1> QED
    BY <1>2, <1>3, <1>4 DEF Known

LEMMA IdleShape == DOMAIN Idle = ProcFields /\ DOMAIN Idle.row = RunFields /\ Idle.pc = "idle"
BY DEF Idle, NoRun, ProcFields, RunFields

LEMMA IdleIsInformed == \A rs : Informed(Idle, rs)
BY DEF Idle, Informed, Writing, Approving

(* Initial states.                                                         *)
LEMMA InitSerial == Init => Serial
<1> SUFFICES ASSUME Init PROVE Serial
    OBVIOUS
<1>1. \A p \in Procs : procs[p] = Idle
    BY DEF Init, InitRuns
<1>2. Shape
    BY <1>1, IdleShape DEF Init, InitRuns, Shape, NoRun, RunFields
<1> QED
    BY <1>1, <1>2, IdleShape, IdleIsInformed DEF Serial, Known, OneAtATime, At, Init, InitRuns

(* Starting a handler.                                                     *)
LEMMA BeginKnown ==
    ASSUME Known, NEW p \in Procs, NEW kind, NEW l, Begin(p, kind, l),
           DOMAIN l = ProcFields, DOMAIN l.row = RunFields, Informed(l, runs)
    PROVE  Known'
<1> DEFINE m == [l EXCEPT !.kind = kind]
<1>1. /\ DOMAIN m = ProcFields
      /\ m.pc = l.pc /\ m.run = l.run /\ m.row = l.row
    BY DEF ProcFields
<1>2. Informed(m, runs)
    BY <1>1 DEF Informed
<1>3. Goto(p, m) /\ runs' = runs /\ slips' = slips /\ overtaken' = overtaken \ {p}
    BY DEF Begin
<1>4. OwnRows(p)
    BY <1>3 DEF OwnRows
<1> HIDE DEF m
<1> QED
    BY <1>1, <1>2, <1>3, <1>4, GoesOn DEF Known, Shape

-----------------------------------------------------------------------------
(* The handlers start with what they have just read.                       *)
LEMMA StartKnown ==
    ASSUME Known, NEW p \in Procs, Start(p)
    PROVE  Known'
<1>1. ASSUME NEW e, NEW from, NEW pay, StartStructure(p, e, from, pay)
      PROVE  Known'
    <2>1. PICK i : Begin(p, "structure",
            [Idle EXCEPT !.pc = IF i = 0 THEN "insert" ELSE "close", !.emp = e,
                         !.current = i, !.new = NewStructure(from, pay)])
        BY <1>1 DEF StartStructure
    <2> DEFINE l == [Idle EXCEPT !.pc = IF i = 0 THEN "insert" ELSE "close", !.emp = e,
                         !.current = i, !.new = NewStructure(from, pay)]
    <2>2. DOMAIN l = ProcFields /\ l.row = Idle.row /\ l.pc \in {"insert", "close"}
        BY DEF Idle, ProcFields
    <2>3. Informed(l, runs)
        BY <2>2 DEF Informed, Writing, Approving
    <2> QED
        BY <2>1, <2>2, <2>3, IdleShape, BeginKnown
<1>2. ASSUME NEW r \in RunIds, NEW scope, NEW period, NEW fx,
             StartCreate(p, r, scope, period, fx)
      PROVE  Known'
    <2> DEFINE row == [status |-> "DRAFT", scope |-> scope, period |-> period, fx |-> fx,
                       totals |-> NoTotals]
               l == [Idle EXCEPT !.pc = "save", !.run = r, !.row = row]
    <2>1. /\ DOMAIN l = ProcFields /\ l.row = row /\ l.pc = "save" /\ l.run = r
        BY DEF Idle, ProcFields
    <2>2. DOMAIN row = RunFields /\ row.status = "DRAFT"
        BY DEF RunFields
    <2>3. runs[r].status = "NONE" /\ Begin(p, "create", l)
        BY <1>2 DEF StartCreate
    <2> HIDE DEF l, row
    <2>4. Informed(l, runs)
        BY <2>1, <2>2, <2>3 DEF Informed, Writing, Approving, Forward
    <2> QED
        BY <2>1, <2>2, <2>3, <2>4, BeginKnown
<1>3. ASSUME NEW r \in RunIds, NEW fx, StartRates(p, r, fx)
      PROVE  Known'
    <2> DEFINE row == [runs[r] EXCEPT !.fx = fx]
               l == [Idle EXCEPT !.pc = "save", !.run = r, !.row = row]
    <2>1. DOMAIN l = ProcFields /\ l.row = row /\ l.pc = "save" /\ l.run = r
        BY DEF Idle, ProcFields
    <2>2. DOMAIN row = RunFields /\ row.status = runs[r].status
        BY DEF Known, Shape, RunFields
    <2>3. Begin(p, "rates", l)
        BY <1>3 DEF StartRates
    <2> HIDE DEF l, row
    <2>4. Informed(l, runs)
        BY <2>1, <2>2 DEF Informed, Writing, Approving
    <2> QED
        BY <2>1, <2>2, <2>3, <2>4, BeginKnown
<1>4. ASSUME NEW r \in RunIds, StartCalculate(p, r)
      PROVE  Known'
    <2> DEFINE l == [Idle EXCEPT !.pc = "delete", !.run = r, !.row = runs[r],
                                 !.todo = InScope(runs[r])]
    <2>1. DOMAIN l = ProcFields /\ l.row = runs[r] /\ l.pc = "delete" /\ l.run = r
        BY DEF Idle, ProcFields
    <2>2. runs[r].status \in Open /\ Begin(p, "calculate", l)
        BY <1>4 DEF StartCalculate
    <2> HIDE DEF l
    <2>3. DOMAIN l.row = RunFields
        BY <2>1 DEF Known, Shape
    <2>4. Informed(l, runs)
        BY <2>1, <2>2 DEF Informed, Writing, Approving
    <2> QED
        BY <2>1, <2>2, <2>3, <2>4, BeginKnown
<1>5. ASSUME NEW r \in RunIds, StartApprove(p, r)
      PROVE  Known'
    <2> DEFINE l == [Idle EXCEPT !.pc = "load", !.run = r, !.row = runs[r]]
    <2>1. DOMAIN l = ProcFields /\ l.row = runs[r] /\ l.pc = "load" /\ l.run = r
        BY DEF Idle, ProcFields
    <2>2. runs[r].status = "CALCULATED" /\ Begin(p, "approve", l)
        BY <1>5 DEF StartApprove
    <2> HIDE DEF l
    <2>3. DOMAIN l.row = RunFields
        BY <2>1 DEF Known, Shape
    <2>4. Informed(l, runs)
        BY <2>1, <2>2 DEF Informed, Writing, Approving
    <2> QED
        BY <2>1, <2>2, <2>3, <2>4, BeginKnown
<1>6. ASSUME NEW r \in RunIds, StartPay(p, r)
      PROVE  Known'
    <2> DEFINE row == [runs[r] EXCEPT !.status = "PAID"]
               l == [Idle EXCEPT !.pc = "save", !.run = r, !.row = row]
    <2>1. DOMAIN l = ProcFields /\ l.row = row /\ l.pc = "save" /\ l.run = r
        BY DEF Idle, ProcFields
    <2>2. DOMAIN row = RunFields /\ row.status = "PAID"
        BY DEF Known, Shape, RunFields
    <2>3. runs[r].status = "APPROVED" /\ Begin(p, "pay", l)
        BY <1>6 DEF StartPay
    <2> HIDE DEF l, row
    <2>4. Informed(l, runs)
        BY <2>1, <2>2, <2>3 DEF Informed, Writing, Approving, Forward
    <2> QED
        BY <2>1, <2>2, <2>3, <2>4, BeginKnown
<1>7. ASSUME NEW r \in RunIds, StartDelete(p, r)
      PROVE  Known'
    <2> DEFINE l == [Idle EXCEPT !.pc = "remove", !.run = r]
    <2>1. DOMAIN l = ProcFields /\ l.row = Idle.row /\ l.pc = "remove" /\ l.run = r
        BY DEF Idle, ProcFields
    <2>2. runs[r].status \in Open /\ Begin(p, "delete", l)
        BY <1>7 DEF StartDelete
    <2> HIDE DEF l
    <2>3. Informed(l, runs)
        BY <2>1, <2>2 DEF Informed, Writing, Approving
    <2> QED
        BY <2>1, <2>2, <2>3, IdleShape, BeginKnown
<1> QED
    BY <1>1, <1>2, <1>3, <1>4, <1>5, <1>6, <1>7 DEF Start

-----------------------------------------------------------------------------
(* The calculation in its loop knows as much as before.                    *)
LEMMA ComputedIsInformed ==
    ASSUME NEW l, DOMAIN l = ProcFields, DOMAIN l.row = RunFields, NEW rs
    PROVE  /\ DOMAIN Computed(l) = ProcFields /\ DOMAIN Computed(l).row = RunFields
           /\ l.run \in RunIds /\ rs[l.run].status \in Open => Informed(Computed(l), rs)
<1>1. CASE l.todo # {}
    <2> DEFINE m == [l EXCEPT !.pc = "slip"]
    <2>1. Computed(l) = m
        BY <1>1 DEF Computed
    <2>2. DOMAIN m = ProcFields /\ m.pc = "slip" /\ m.run = l.run /\ m.row = l.row
        BY DEF ProcFields
    <2> HIDE DEF m
    <2> QED
        BY <2>1, <2>2 DEF Informed, Writing, Approving
<1>2. CASE l.todo = {}
    <2> DEFINE m == [l EXCEPT !.pc = "save", !.row.status = "CALCULATED",
                              !.row.totals = l.totals]
    <2>1. Computed(l) = m
        BY <1>2 DEF Computed
    <2>2. /\ DOMAIN m = ProcFields /\ m.pc = "save" /\ m.run = l.run
          /\ DOMAIN m.row = RunFields /\ m.row.status = "CALCULATED"
        BY DEF ProcFields, RunFields
    <2> HIDE DEF m
    <2> QED
        BY <2>1, <2>2 DEF Informed, Writing, Approving, Forward, Open
<1> QED
    BY <1>1, <1>2

(* The steps of the handlers.                                              *)
LEMMA StepKnown ==
    ASSUME Known, NEW p \in Procs, Step(p)
    PROVE  Known'
<1> DEFINE l == procs[p]
<1>1. /\ DOMAIN l = ProcFields /\ DOMAIN l.row = RunFields
      /\ p \notin overtaken => Informed(l, runs)
      /\ DOMAIN runs = RunIds /\ DOMAIN slips = RunIds
      /\ \A r \in RunIds : DOMAIN runs[r] = RunFields
    BY DEF Known, Shape
<1>2. CASE DeleteSlips(p)
    <2>1. /\ l.pc = "delete" /\ Goto(p, Computed(l)) /\ UNCHANGED <<runs, overtaken>>
          /\ DOMAIN slips' = RunIds
        BY <1>1, <1>2 DEF DeleteSlips, At, ghosts
    <2>2. p \notin overtaken => l.run \in RunIds /\ runs[l.run].status \in Open
        BY <1>1, <2>1 DEF Informed, Writing
    <2> QED
        BY <1>1, <2>1, <2>2, ComputedIsInformed, GoesOn DEF OwnRows
<1>3. CASE SaveSlip(p)
    <2>1. PICK e \in l.todo :
            /\ \/ Goto(p, Idle)
               \/ Goto(p, Computed([l EXCEPT !.todo = @ \ {e},
                                             !.totals = Tally(@, Due(e, l.row))]))
            /\ DOMAIN slips' = RunIds
        BY <1>1, <1>3 DEF SaveSlip, ghosts
    <2>2. l.pc = "slip" /\ UNCHANGED <<runs, overtaken>>
        BY <1>3 DEF SaveSlip, At, ghosts
    <2>3. p \notin overtaken => l.run \in RunIds /\ runs[l.run].status \in Open
        BY <1>1, <2>2 DEF Informed, Writing
    <2> DEFINE m == [l EXCEPT !.todo = @ \ {e}, !.totals = Tally(@, Due(e, l.row))]
    <2>4. DOMAIN m = ProcFields /\ m.row = l.row /\ m.run = l.run
        BY <1>1 DEF ProcFields
    <2> HIDE DEF m
    <2>5. CASE Goto(p, Idle)
        BY <1>1, <2>1, <2>2, <2>5, IdleShape, IdleIsInformed, GoesOn DEF OwnRows
    <2>6. CASE Goto(p, Computed(m))
        BY <1>1, <2>1, <2>2, <2>3, <2>4, <2>6, ComputedIsInformed, GoesOn DEF OwnRows
    <2> QED
        BY <2>1, <2>5, <2>6 DEF m
<1>4. CASE LoadSlips(p)
    <2> DEFINE there == {e \in Employees : slips[l.run][e].calc # 0}
               m == [l EXCEPT !.pc = "render", !.slips = slips[l.run], !.todo = there]
    <2>1. l.pc = "load" /\ (Goto(p, Idle) \/ Goto(p, m)) /\ UNCHANGED <<runs, slips, overtaken>>
        BY <1>4 DEF LoadSlips, At, ghosts
    <2>2. DOMAIN m = ProcFields /\ m.row = l.row /\ m.run = l.run /\ m.pc = "render"
        BY <1>1 DEF ProcFields
    <2> HIDE DEF m
    <2>3. p \notin overtaken => Informed(m, runs)
        BY <1>1, <2>1, <2>2 DEF Informed, Writing, Approving
    <2>4. CASE Goto(p, Idle)
        BY <1>1, <2>1, <2>4, IdleShape, IdleIsInformed, GoesOn DEF OwnRows
    <2>5. CASE Goto(p, m)
        BY <1>1, <2>1, <2>2, <2>3, <2>5, GoesOn DEF OwnRows
    <2> QED
        BY <2>1, <2>4, <2>5
<1>5. CASE Render(p)
    <2>1. PICK e : Goto(p, [l EXCEPT !.pc = "link", !.emp = e])
        BY <1>5 DEF Render, ghosts
    <2> DEFINE m == [l EXCEPT !.pc = "link", !.emp = e]
    <2>2. l.pc = "render" /\ UNCHANGED <<runs, slips, overtaken>>
        BY <1>5 DEF Render, At, ghosts
    <2>3. DOMAIN m = ProcFields /\ m.row = l.row /\ m.run = l.run /\ m.pc = "link"
        BY <1>1 DEF ProcFields
    <2>4. Goto(p, m)
        BY <2>1
    <2> HIDE DEF m
    <2>5. p \notin overtaken => Informed(m, runs)
        BY <1>1, <2>2, <2>3 DEF Informed, Writing, Approving
    <2> QED
        BY <1>1, <2>2, <2>3, <2>4, <2>5, GoesOn DEF OwnRows
<1>6. CASE Link(p)
    <2> DEFINE left == l.todo \ {l.emp}
               m == [l EXCEPT !.pc = "render", !.todo = left, !.emp = "none"]
               n == [l EXCEPT !.pc = "save", !.row.status = "APPROVED", !.emp = "none",
                        !.todo = {e \in Employees : l.slips[e].calc # 0}]
    <2>1. l.pc = "link" /\ (Goto(p, m) \/ Goto(p, n)) /\ UNCHANGED <<runs, overtaken>>
        BY <1>6 DEF Link, At, ghosts
    <2>2. DOMAIN slips' = RunIds
        BY <1>1, <1>6 DEF Link, ghosts
    <2>3. p \notin overtaken =>
            l.run \in RunIds /\ runs[l.run].status = "CALCULATED" /\ l.row.status = "CALCULATED"
        BY <1>1, <2>1 DEF Informed, Approving
    <2>4. DOMAIN m = ProcFields /\ m.row = l.row /\ m.run = l.run /\ m.pc = "render"
        BY <1>1 DEF ProcFields
    <2>5. /\ DOMAIN n = ProcFields /\ n.run = l.run /\ n.pc = "save"
          /\ DOMAIN n.row = RunFields /\ n.row.status = "APPROVED"
        BY <1>1 DEF ProcFields, RunFields
    <2> HIDE DEF m, n
    <2>6. p \notin overtaken => Informed(m, runs)
        BY <2>3, <2>4 DEF Informed, Writing, Approving
    <2>7. p \notin overtaken => Informed(n, runs)
        BY <2>3, <2>5 DEF Informed, Writing, Approving, Forward
    <2>8. CASE Goto(p, m)
        BY <1>1, <2>1, <2>2, <2>4, <2>6, <2>8, GoesOn DEF OwnRows
    <2>9. CASE Goto(p, n)
        BY <1>1, <2>1, <2>2, <2>5, <2>7, <2>9, GoesOn DEF OwnRows
    <2> QED
        BY <2>1, <2>8, <2>9
<1>7. CASE SaveRun(p)
    <2> DEFINE m == [l EXCEPT !.pc = "tell"]
    <2>1. /\ l.pc = "save" /\ (Goto(p, m) \/ Goto(p, Idle))
          /\ runs' = [runs EXCEPT ![l.run] = l.row] /\ slips' = slips
          /\ overtaken' = overtaken \cup Others(p, l.run)
        BY <1>7 DEF SaveRun, At, Overtake
    <2>2. DOMAIN m = ProcFields /\ m.row = l.row /\ m.pc = "tell"
        BY <1>1 DEF ProcFields
    <2> HIDE DEF m
    <2>3. Informed(m, runs')
        BY <2>2 DEF Informed, Writing, Approving
    <2>4. /\ DOMAIN runs' = RunIds /\ \A r \in RunIds : DOMAIN runs'[r] = RunFields
          /\ OwnRows(p)
        BY <1>1, <2>1 DEF OwnRows
    <2>5. CASE Goto(p, m)
        BY <1>1, <2>1, <2>2, <2>3, <2>4, <2>5, GoesOn DEF OwnRows
    <2>6. CASE Goto(p, Idle)
        BY <1>1, <2>1, <2>4, <2>6, IdleShape, IdleIsInformed, GoesOn DEF OwnRows
    <2> QED
        BY <2>1, <2>5, <2>6
<1>8. CASE Tell(p)
    <2>1. PICK e : Goto(p, Idle) \/ Goto(p, [l EXCEPT !.todo = @ \ {e}])
        BY <1>8 DEF Tell, ghosts
    <2> DEFINE m == [l EXCEPT !.todo = @ \ {e}]
    <2>2. l.pc = "tell" /\ UNCHANGED <<runs, slips, overtaken>>
        BY <1>8 DEF Tell, At, ghosts
    <2>3. DOMAIN m = ProcFields /\ m.row = l.row /\ m.pc = l.pc
        BY <1>1 DEF ProcFields
    <2> HIDE DEF m
    <2>4. Informed(m, runs)
        BY <2>2, <2>3 DEF Informed, Writing, Approving
    <2>5. CASE Goto(p, Idle)
        BY <1>1, <2>2, <2>5, IdleShape, IdleIsInformed, GoesOn DEF OwnRows
    <2>6. CASE Goto(p, m)
        BY <1>1, <2>2, <2>3, <2>4, <2>6, GoesOn DEF OwnRows
    <2> QED
        BY <2>1, <2>5, <2>6 DEF m
<1>9. CASE Remove(p)
    <2>1. /\ l.pc = "remove" /\ Goto(p, Idle)
          /\ runs' = [runs EXCEPT ![l.run] = [NoRun EXCEPT !.status = "DELETED"]]
          /\ overtaken' = overtaken \cup Others(p, l.run)
          /\ DOMAIN slips' = RunIds
        BY <1>1, <1>9 DEF Remove, At, Overtake
    <2>2. DOMAIN [NoRun EXCEPT !.status = "DELETED"] = RunFields
        BY DEF NoRun, RunFields
    <2>3. /\ DOMAIN runs' = RunIds /\ \A r \in RunIds : DOMAIN runs'[r] = RunFields
          /\ OwnRows(p)
        BY <1>1, <2>1, <2>2 DEF OwnRows
    <2> QED
        BY <1>1, <2>1, <2>3, IdleShape, IdleIsInformed, GoesOn DEF OwnRows
<1>10. CASE CloseStructure(p)
    <2> DEFINE m == [l EXCEPT !.pc = "insert"]
    <2>1. l.pc = "close" /\ Goto(p, m) /\ UNCHANGED <<runs, slips, overtaken>>
        BY <1>10 DEF CloseStructure, At, ghosts
    <2>2. DOMAIN m = ProcFields /\ m.row = l.row /\ m.pc = "insert"
        BY <1>1 DEF ProcFields
    <2> HIDE DEF m
    <2>3. p \notin overtaken => Informed(m, runs)
        BY <2>2 DEF Informed, Writing, Approving
    <2> QED
        BY <1>1, <2>1, <2>2, <2>3, GoesOn DEF OwnRows
<1>11. CASE InsertStructure(p)
    BY <1>1, <1>11, IdleShape, IdleIsInformed, GoesOn DEF InsertStructure, OwnRows, ghosts
<1> QED
    BY <1>2, <1>3, <1>4, <1>5, <1>6, <1>7, <1>8, <1>9, <1>10, <1>11 DEF Step

(* A handler that ends in the middle leaves the rows as they are.          *)
LEMMA DieKnown ==
    ASSUME Known, NEW p \in Procs, Die(p)
    PROVE  Known'
<1>1. Goto(p, Idle) /\ OwnRows(p)
    BY DEF Die, OwnRows, ghosts
<1>2. DOMAIN runs' = RunIds /\ DOMAIN slips' = RunIds
      /\ \A r \in RunIds : DOMAIN runs'[r] = RunFields
    BY DEF Die, Known, Shape
<1> QED
    BY <1>1, <1>2, IdleShape, IdleIsInformed, GoesOn

(* However handlers overlap and wherever they end, one whose run no other  *)
(* handler has written since it was read acts on what is still true: it    *)
(* calculates or removes an open run, approves a calculated one, and saves *)
(* the next status of the run or the one it has.                           *)
THEOREM OnlyTheOvertakenAreStale == Spec => []Known
<1>1. Init => Known
    BY InitSerial DEF Serial
<1>2. Known /\ [Next]_vars => Known'
    <2> SUFFICES ASSUME Known, [Next]_vars PROVE Known'
        OBVIOUS
    <2>1. CASE UNCHANGED vars
        BY <2>1 DEF vars, ghosts, Known, Shape
    <2>2. CASE Next
        BY <2>2, StartKnown, StepKnown, DieKnown DEF Next
    <2> QED
        BY <2>1, <2>2
<1> QED
    BY <1>1, <1>2, PTL DEF Spec

(* Served one at a time, handlers are never overtaken.                     *)
LEMMA AloneStep ==
    ASSUME Serial, ~Interleaved, NEW p \in Procs, Start(p) \/ Step(p) \/ Die(p)
    PROVE  OneAtATime' /\ overtaken' = {}
<1>1. ASSUME NEW kind, NEW l, Begin(p, kind, l)
      PROVE  OneAtATime' /\ overtaken' = {}
    <2>1. Quiet /\ overtaken' = {}
        BY <1>1 DEF Begin, Serial
    <2>2. \A q \in Procs \ {p} : procs'[q] = procs[q]
        BY <1>1 DEF Begin, Goto, Serial, Known, Shape
    <2> QED
        BY <2>1, <2>2 DEF OneAtATime, Quiet, At
<1>2. CASE Start(p)
    BY <1>1, <1>2 DEF Start, StartStructure, StartCreate, StartRates, StartCalculate,
                      StartApprove, StartPay, StartDelete
<1>3. CASE Step(p) \/ Die(p)
    <2>1. /\ ~At(p, "idle") /\ \E l : Goto(p, l)
          /\ UNCHANGED overtaken \/ overtaken' = overtaken \cup Others(p, procs[p].run)
        BY <1>3 DEF Step, Die, DeleteSlips, SaveSlip, LoadSlips, Render, Link, SaveRun, Tell,
                    Remove, CloseStructure, InsertStructure, Overtake, ghosts, At
    <2>2. \A q \in Procs \ {p} : At(q, "idle") /\ procs'[q] = procs[q]
        BY <2>1 DEF Goto, Serial, OneAtATime
    <2> QED
        BY <2>1, <2>2 DEF Serial, OneAtATime, Others, At
<1> QED
    BY <1>2, <1>3

(* Then what every handler has read is still true.                         *)
LEMMA SerialHandlersAreInformed ==
    ASSUME ~Interleaved
    PROVE  Spec => []Serial
<1>1. Init => Serial
    BY InitSerial
<1>2. Serial /\ [Next]_vars => Serial'
    <2> SUFFICES ASSUME Serial, [Next]_vars PROVE Serial'
        OBVIOUS
    <2>1. CASE UNCHANGED vars
        BY <2>1 DEF vars, ghosts, Serial, Known, Shape, OneAtATime, At
    <2>2. CASE Next
        BY <2>2, StartKnown, StepKnown, DieKnown, AloneStep DEF Next, Serial
    <2> QED
        BY <2>1, <2>2
<1> QED
    BY <1>1, <1>2, PTL DEF Spec

-----------------------------------------------------------------------------
(* Starting, announcing and failing touch neither runs nor slips.          *)
LEMMA BystandersKeepRows ==
    ASSUME NEW p, Start(p) \/ LoadSlips(p) \/ Render(p) \/ Tell(p) \/ Die(p)
                  \/ CloseStructure(p) \/ InsertStructure(p)
    PROVE  runs' = runs /\ slips' = slips
<1>1. CASE Start(p)
    <2>1. \A kind, l : Begin(p, kind, l) => runs' = runs /\ slips' = slips
        BY DEF Begin
    <2> QED
        BY <1>1, <2>1 DEF Start, StartStructure, StartCreate, StartRates, StartCalculate,
                          StartApprove, StartPay, StartDelete
<1>2. CASE ~Start(p)
    BY <1>2 DEF LoadSlips, Render, Tell, Die, CloseStructure, InsertStructure
<1> QED
    BY <1>1, <1>2

(* A handler at work on its slips is changed by every step it takes.       *)
LEMMA SlipStepsMove ==
    ASSUME Shape, NEW p \in Procs, DeleteSlips(p) \/ SaveSlip(p) \/ Remove(p) \/ Link(p)
    PROVE  procs'[p] # procs[p]
<1> DEFINE l == procs[p]
<1>1. DOMAIN l = ProcFields /\ \A m : Goto(p, m) => procs'[p] = m
    BY DEF Goto, Shape
<1>2. \A m : Computed(m).pc # "slip" \/ Computed(m).todo = m.todo
    BY DEF Computed, ProcFields
<1>3. \A m : DOMAIN m = ProcFields => Computed(m).pc \in {"slip", "save"}
    BY DEF Computed, ProcFields
<1>4. CASE DeleteSlips(p)
    BY <1>1, <1>3, <1>4 DEF DeleteSlips, At
<1>5. CASE SaveSlip(p)
    <2>1. PICK e \in l.todo :
            \/ Goto(p, Idle)
            \/ Goto(p, Computed([l EXCEPT !.todo = @ \ {e},
                                          !.totals = Tally(@, Due(e, l.row))]))
        BY <1>5 DEF SaveSlip
    <2> DEFINE m == [l EXCEPT !.todo = @ \ {e}, !.totals = Tally(@, Due(e, l.row))]
    <2>2. m.todo # l.todo
        BY <1>1 DEF ProcFields
    <2>3. l.pc = "slip" /\ Idle.pc # "slip"
        BY <1>5, IdleShape DEF SaveSlip, At
    <2>4. Goto(p, Idle) \/ Goto(p, Computed(m))
        BY <2>1
    <2> HIDE DEF m
    <2> QED
        BY <1>1, <1>2, <2>2, <2>3, <2>4
<1>6. CASE Remove(p)
    BY <1>1, <1>6, IdleShape DEF Remove, At
<1>7. CASE Link(p)
    <2>1. l.pc = "link" /\ procs'[p].pc \in {"render", "save"}
        BY <1>1, <1>7 DEF Link, At, ProcFields
    <2> QED
        BY <2>1
<1> QED
    BY <1>4, <1>5, <1>6, <1>7

(* "Never recalculated after approval": however handlers overlap and       *)
(* wherever they end, a slip of an approved or paid run is changed only by *)
(* a handler that another one has overtaken.                               *)
THEOREM SlipsStayFrozen == Spec => SlipsAreFrozen
<1> DEFINE Kept == \A r \in RunIds : runs[r].status \in Frozen /\ slips'[r] # slips[r]
                                         => ByTheOvertaken(r)
<1>1. Known /\ [Next]_vars => [Kept]_vars
    <2> SUFFICES ASSUME Known, NEW p \in Procs, Start(p) \/ Step(p) \/ Die(p),
                        NEW r \in RunIds, runs[r].status \in Frozen, slips'[r] # slips[r]
                 PROVE  ByTheOvertaken(r)
        BY DEF Next, vars
    <2>1. (p \notin overtaken => Informed(procs[p], runs)) /\ DOMAIN slips = RunIds
        BY DEF Known, Shape
    <2>2. DeleteSlips(p) \/ SaveSlip(p) \/ Remove(p) \/ Link(p)
        BY BystandersKeepRows DEF Step, SaveRun
    <2>3. procs[p].pc \in Writing \cup Approving
        BY <2>2 DEF DeleteSlips, SaveSlip, Remove, Link, At, Writing, Approving
    <2>4. procs[p].run = r
        <3>1. CASE DeleteSlips(p)
            BY <3>1, <2>1 DEF DeleteSlips
        <3>2. CASE SaveSlip(p)
            BY <3>2, <2>1 DEF SaveSlip
        <3>3. CASE Remove(p)
            BY <3>3, <2>1 DEF Remove
        <3>4. CASE Link(p)
            BY <3>4, <2>1 DEF Link
        <3> QED
            BY <2>2, <3>1, <3>2, <3>3, <3>4
    <2>5. p \in overtaken
        BY <2>1, <2>3, <2>4 DEF Informed, Open, Frozen
    <2>6. procs'[p] # procs[p]
        BY <2>2, SlipStepsMove DEF Known
    <2> QED
        BY <2>4, <2>5, <2>6 DEF ByTheOvertaken
<1>2. Spec => []Known
    BY OnlyTheOvertakenAreStale
<1> QED
    BY <1>1, <1>2, PTL DEF Spec, SlipsAreFrozen

(* "Runs move DRAFT -> CALCULATED -> APPROVED -> PAID", one step at a time *)
(* and never back, for every run and every history of overlaps and         *)
(* failures, but for the stale save of a handler that was overtaken.       *)
THEOREM RunsOnlyMoveForward == Spec => RunsMoveForward
<1> DEFINE Allowed == {<<"NONE", "DRAFT">>, <<"DRAFT", "CALCULATED">>,
                       <<"CALCULATED", "APPROVED">>, <<"APPROVED", "PAID">>}
                          \cup (Open \X {"DELETED"})
           Moved == \A r \in RunIds :
                        runs'[r].status # runs[r].status =>
                            \/ <<runs[r].status, runs'[r].status>> \in Allowed
                            \/ ByTheOvertaken(r)
<1>1. Known /\ [Next]_vars => [Moved]_vars
    <2> SUFFICES ASSUME Known, NEW p \in Procs, Start(p) \/ Step(p) \/ Die(p),
                        NEW r \in RunIds, runs'[r].status # runs[r].status
                 PROVE  <<runs[r].status, runs'[r].status>> \in Allowed \/ ByTheOvertaken(r)
        BY DEF Next, vars
    <2> DEFINE l == procs[p]
    <2>1. /\ p \notin overtaken => Informed(l, runs)
          /\ DOMAIN runs = RunIds /\ DOMAIN l = ProcFields
          /\ \A m : Goto(p, m) => procs'[p] = m
        BY DEF Known, Shape, Goto
    <2>2. SaveRun(p) \/ Remove(p)
        BY BystandersKeepRows DEF Step, DeleteSlips, SaveSlip, Link
    <2>3. l.run = r /\ procs'[p] # l
        <3>1. CASE SaveRun(p)
            <4>1. l.pc = "save" /\ procs'[p].pc \in {"tell", "idle"}
                BY <2>1, <3>1, IdleShape DEF SaveRun, At, ProcFields
            <4> QED
                BY <2>1, <3>1, <4>1 DEF SaveRun
        <3>2. CASE Remove(p)
            BY <2>1, <3>2, IdleShape DEF Remove, At
        <3> QED
            BY <2>2, <3>1, <3>2
    <2>4. CASE p \in overtaken
        BY <2>3, <2>4 DEF ByTheOvertaken
    <2>5. CASE p \notin overtaken /\ SaveRun(p)
        <3>1. l.pc = "save" /\ runs'[r] = l.row
            BY <2>1, <2>3, <2>5 DEF SaveRun, At
        <3> QED
            BY <2>1, <2>3, <2>5, <3>1 DEF Informed, Forward
    <2>6. CASE p \notin overtaken /\ Remove(p)
        <3>1. l.pc = "remove" /\ runs'[r].status = "DELETED"
            BY <2>1, <2>3, <2>6 DEF Remove, At, NoRun
        <3> QED
            BY <2>1, <2>3, <2>6, <3>1 DEF Informed, Writing
    <2> QED
        BY <2>2, <2>4, <2>5, <2>6
<1>2. Spec => []Known
    BY OnlyTheOvertakenAreStale
<1> QED
    BY <1>1, <1>2, PTL DEF Spec, RunsMoveForward

-----------------------------------------------------------------------------
(* What an employee is paid.  The structures of an employee follow one     *)
(* another: each ends, on or after its first day, before the next starts.  *)
Chain(rows) ==
    /\ rows \in Seq(Structure)
    /\ \A i \in DOMAIN rows :
           rows[i].effectiveTo = 0 \/ rows[i].effectiveFrom <= rows[i].effectiveTo
    /\ \A i, j \in DOMAIN rows :
           i < j => rows[i].effectiveTo # 0 /\ rows[i].effectiveTo < rows[j].effectiveFrom

LEMMA StructureType ==
    ASSUME NEW s \in Structure
    PROVE  s.effectiveFrom \in Nat \ {0} /\ s.effectiveTo \in Nat /\ s.pay \in Nat
<1>1. s.effectiveFrom \in Dates /\ s.effectiveTo \in Nat /\ s.pay \in Amounts
    BY DEF Structure
<1> QED
    BY <1>1, StructuresAssumption

LEMMA ChainType ==
    ASSUME NEW rows, Chain(rows), NEW i \in DOMAIN rows
    PROVE  /\ rows[i] \in Structure /\ i \in 1..Len(rows)
           /\ rows[i].effectiveFrom \in Nat \ {0} /\ rows[i].effectiveTo \in Nat
           /\ rows[i].pay \in Nat
<1>1. rows \in Seq(Structure)
    BY DEF Chain
<1>2. i \in 1..Len(rows)
    BY <1>1
<1>3. rows[i] \in Structure
    BY <1>1, <1>2, ElementOfSeq
<1> QED
    BY <1>2, <1>3, StructureType

(* On no day are two structures of a chain in force.                       *)
LEMMA OneInForce ==
    ASSUME NEW rows, Chain(rows), NEW d \in Int, NEW i \in DOMAIN rows, NEW j \in DOMAIN rows,
           InForce(rows[i], d), InForce(rows[j], d)
    PROVE  i = j
<1>1. i \in Nat /\ j \in Nat
    BY DEF Chain
<1>2. /\ rows[i].effectiveFrom \in Int /\ rows[i].effectiveTo \in Int
      /\ rows[j].effectiveFrom \in Int /\ rows[j].effectiveTo \in Int
    BY ChainType
<1>3. ~(i < j) /\ ~(j < i)
    BY <1>2 DEF Chain, InForce
<1> QED
    BY <1>1, <1>3

(* structureOn finds that structure.                                       *)
LEMMA PayOfTheDay ==
    ASSUME NEW e \in Employees, Chain(structures[e]), NEW d \in Int
    PROVE  /\ \A i \in DOMAIN structures[e] :
                  InForce(structures[e][i], d) => PayOn(e, d) = structures[e][i].pay
           /\ (\A i \in DOMAIN structures[e] : ~InForce(structures[e][i], d)) => PayOn(e, d) = 0
<1> DEFINE rows == structures[e]
           there == {i \in DOMAIN rows : InForce(rows[i], d)}
           Latest(i) == \A j \in there : rows[j].effectiveFrom <= rows[i].effectiveFrom
<1>1. ASSUME NEW i \in DOMAIN rows, InForce(rows[i], d)
      PROVE  PayOn(e, d) = rows[i].pay
    <2>1. there = {i}
        BY <1>1, OneInForce
    <2>2. rows[i].effectiveFrom \in Int
        BY ChainType
    <2>3. (CHOOSE k \in there : Latest(k)) = i
        BY <2>1, <2>2
    <2> QED
        BY <2>1, <2>3 DEF PayOn
<1>2. ASSUME \A i \in DOMAIN rows : ~InForce(rows[i], d)
      PROVE  PayOn(e, d) = 0
    BY <1>2 DEF PayOn
<1> QED
    BY <1>1, <1>2

(* The employed days of a structure's segment are the days of the period   *)
(* and of the employment on which it is in force.                          *)
LEMMA SegmentDays ==
    ASSUME NEW e \in Employees, NEW period \in Nat \X Nat, NEW s \in Structure
    PROVE  LET on == {d \in DaysPaid(e, period) : InForce(s, d)}
           IN  /\ IsFiniteSet(on)
               /\ Cardinality(on) = EmployedDays(e, Segment(s, period))
               /\ EmployedDays(e, Segment(s, period)) \in Nat
<1> DEFINE on == {d \in DaysPaid(e, period) : InForce(s, d)}
           seg == Segment(s, period)
           from == IF Employment[e][1] > seg[1] THEN Employment[e][1] ELSE seg[1]
           to == IF Employment[e][2] < seg[2] THEN Employment[e][2] ELSE seg[2]
<1>1. /\ s.effectiveFrom \in Int /\ s.effectiveTo \in Int
      /\ period[1] \in Int /\ period[2] \in Int
      /\ Employment[e][1] \in Int /\ Employment[e][2] \in Int
    <2>1. s.effectiveFrom \in Int /\ s.effectiveTo \in Int
        BY StructureType
    <2>2. Employment[e] \in Nat \X Nat
        BY StructuresAssumption
    <2> QED
        BY <2>1, <2>2
<1>2. seg[1] \in Int /\ seg[2] \in Int
    BY <1>1 DEF Segment
<1>3. from \in Int /\ to \in Int
    BY <1>1, <1>2
<1>4. \A d \in Int : (seg[1] <= d /\ d <= seg[2])
                        <=> (period[1] <= d /\ d <= period[2] /\ InForce(s, d))
    BY <1>1 DEF Segment, InForce
<1>5. \A d \in Int : (from <= d /\ d <= to)
                        <=> /\ seg[1] <= d /\ d <= seg[2]
                            /\ Employment[e][1] <= d /\ d <= Employment[e][2]
    BY <1>1, <1>2
<1>6. on = from..to
    <2>1. \A d : d \in on => d \in Int /\ from <= d /\ d <= to
        BY <1>1, <1>4, <1>5 DEF DaysPaid
    <2>2. \A d \in Int : from <= d /\ d <= to => d \in on
        BY <1>1, <1>4, <1>5 DEF DaysPaid
    <2>3. \A d : d \in from..to <=> d \in Int /\ from <= d /\ d <= to
        BY <1>3
    <2> HIDE DEF on, from, to
    <2>4. \A d : d \in on <=> d \in from..to
        BY <2>1, <2>2, <2>3
    <2> QED
        BY <2>4
<1>7. EmployedDays(e, seg) = IF to < from THEN 0 ELSE to - from + 1
    BY DEF EmployedDays
<1> HIDE DEF from, to, seg
<1>8. /\ IsFiniteSet(from..to)
      /\ Cardinality(from..to) = IF from > to THEN 0 ELSE to - from + 1
    BY <1>3, FS_Interval
<1>9. /\ EmployedDays(e, seg) = Cardinality(from..to)
      /\ EmployedDays(e, seg) \in Nat
    BY <1>3, <1>7, <1>8
<1> QED
    BY <1>6, <1>8, <1>9 DEF seg

(* contractualPay pays a chain by the day.                                 *)
LEMMA ChainPaysByTheDay ==
    ASSUME NEW e \in Employees, Chain(structures[e]), NEW period \in Nat \X Nat
    PROVE  ContractualPay(e, period) = PayByTheDay(e, period)
<1> DEFINE rows == structures[e]
           days == DaysPaid(e, period)
           keys == 0..Len(rows)
           On(i) == {d \in days : InForce(rows[i], d)}
           f == [d \in days |-> PayOn(e, d)]
           key == [d \in days |-> IF \E i \in DOMAIN rows : InForce(rows[i], d)
                                  THEN CHOOSE i \in DOMAIN rows : InForce(rows[i], d)
                                  ELSE 0]
           group(k) == {d \in days : key[d] = k}
           t == [k \in keys |-> SumOver(f, group(k))]
           there == SegmentRows(e, period)
           paid == [i \in there |-> rows[i].pay * EmployedDays(e, Segment(rows[i], period))]
<1>1. rows \in Seq(Structure) /\ Len(rows) \in Nat /\ DOMAIN rows = 1..Len(rows)
    BY DEF Chain
<1>2. IsFiniteSet(days) /\ days \subseteq Int
    <2>1. period[1] \in Int /\ period[2] \in Int
        OBVIOUS
    <2>2. IsFiniteSet(period[1]..period[2])
        BY <2>1, FS_Interval
    <2> QED
        BY <2>2, FS_Subset DEF DaysPaid
<1>3. IsFiniteSet(keys) /\ 0 \in keys /\ DOMAIN rows \subseteq keys
    <2>1. PICK n \in Nat : n = Len(rows)
        BY <1>1
    <2>2. IsFiniteSet(0..n)
        BY FS_Interval
    <2> QED
        BY <1>1, <2>1, <2>2
<1>4. ASSUME NEW d \in days
      PROVE  /\ \A i \in DOMAIN rows : key[d] = i <=> InForce(rows[i], d)
             /\ key[d] = 0 <=> \A i \in DOMAIN rows : ~InForce(rows[i], d)
             /\ key[d] \in keys
    <2>1. d \in Int
        BY <1>2
    <2>2. \A i, j \in DOMAIN rows : InForce(rows[i], d) /\ InForce(rows[j], d) => i = j
        BY <2>1, OneInForce
    <2>3. \A i \in DOMAIN rows : i # 0
        BY <1>1
    <2>4. CASE \E i \in DOMAIN rows : InForce(rows[i], d)
        <3>1. PICK i \in DOMAIN rows : InForce(rows[i], d)
            BY <2>4
        <3>2. (CHOOSE k \in DOMAIN rows : InForce(rows[k], d)) = i
            BY <2>2, <3>1
        <3>3. key[d] = i
            BY <2>4, <3>2
        <3> HIDE DEF key
        <3> QED
            BY <1>3, <2>2, <2>3, <3>1, <3>3
    <2>5. CASE \A i \in DOMAIN rows : ~InForce(rows[i], d)
        <3>1. key[d] = 0
            BY <2>5
        <3> HIDE DEF key
        <3> QED
            BY <1>3, <2>3, <2>5, <3>1
    <2> QED
        BY <2>4, <2>5
<1> HIDE DEF key
<1>5. \A d \in days : f[d] = PayOn(e, d)
    OBVIOUS
<1> HIDE DEF f
<1>6. ASSUME NEW i \in DOMAIN rows
      PROVE  /\ group(i) = On(i)
             /\ SumOver(f, group(i)) = rows[i].pay * EmployedDays(e, Segment(rows[i], period))
             /\ SumOver(f, group(i)) \in Int
             /\ i \notin there => SumOver(f, group(i)) = 0
    <2>1. group(i) = On(i)
        BY <1>4
    <2>2. /\ IsFiniteSet(On(i)) /\ Cardinality(On(i)) = EmployedDays(e, Segment(rows[i], period))
          /\ EmployedDays(e, Segment(rows[i], period)) \in Nat
        BY ChainType, SegmentDays
    <2>3. rows[i].pay \in Nat
        BY ChainType
    <2>4. \A d \in On(i) : f[d] = rows[i].pay
        BY <1>2, <1>5, PayOfTheDay
    <2>5. SumOver(f, On(i)) = rows[i].pay * Cardinality(On(i))
        <3> HIDE DEF On
        <3>1. PICK c \in Int : c = rows[i].pay
            BY <2>3
        <3>2. PICK g : g = On(i)
            OBVIOUS
        <3>3. IsFiniteSet(g) /\ \A d \in g : f[d] = c
            BY <2>2, <2>4, <3>1, <3>2
        <3>4. SumOver(f, g) = c * Cardinality(g)
            BY <3>3, SumConstant
        <3> QED
            BY <3>1, <3>2, <3>4
    <2>6. i \notin there => On(i) = {}
        <3>1. rows[i].effectiveFrom \in Int /\ rows[i].effectiveTo \in Int
            BY ChainType
        <3>2. \A d \in days : d \in Int /\ period[1] <= d /\ d <= period[2]
            BY DEF DaysPaid
        <3>3. period[1] \in Int /\ period[2] \in Int
            OBVIOUS
        <3> QED
            BY <3>1, <3>2, <3>3 DEF SegmentRows, InForce
    <2> HIDE DEF group, On
    <2>7. SumOver(f, {}) = 0
        BY SumEmpty
    <2> QED
        BY <2>1, <2>2, <2>3, <2>5, <2>6, <2>7
<1>7. SumOver(f, group(0)) = 0
    <2>1. IsFiniteSet(group(0))
        BY <1>2, FS_Subset
    <2>2. \A d \in group(0) : f[d] = 0
        BY <1>2, <1>4, <1>5, PayOfTheDay
    <2> HIDE DEF group
    <2> QED
        BY <2>1, <2>2, SumZero
<1>8. \A d \in days : f[d] \in Int
    <2> TAKE d \in days
    <2>1. CASE \E i \in DOMAIN rows : InForce(rows[i], d)
        BY <1>2, <1>5, <2>1, PayOfTheDay, ChainType, SMTT(30)
    <2>2. CASE \A i \in DOMAIN rows : ~InForce(rows[i], d)
        BY <1>2, <1>5, <2>2, PayOfTheDay
    <2> QED
        BY <2>1, <2>2
<1>9. SumOver(f, days) = SumOver(t, keys)
    <2>1. \A d \in days : key[d] \in keys
        BY <1>4
    <2> HIDE DEF days, keys, t, group
    <2>2. SumOver(f, days) = SumOver([k \in keys |-> SumOver(f, {d \in days : key[d] = k})], keys)
        <3>1. IsFiniteSet(days) /\ IsFiniteSet(keys)
            BY <1>2, <1>3
        <3> QED
            BY ONLY <3>1, <1>8, <2>1, SumPartition
    <2>3. t = [k \in keys |-> SumOver(f, {d \in days : key[d] = k})]
        BY DEF t, group
    <2> QED
        BY <2>2, <2>3
<1>10. \A k \in keys : /\ t[k] = SumOver(f, group(k)) /\ t[k] \in Int
                       /\ k = 0 \/ k \in DOMAIN rows
    <2>1. \A k \in keys : k = 0 \/ k \in DOMAIN rows
        BY <1>1
    <2>2. \A k \in keys : t[k] = SumOver(f, group(k))
        OBVIOUS
    <2> HIDE DEF t, group, keys
    <2> QED
        BY <1>6, <1>7, <2>1, <2>2
<1>11. there \subseteq DOMAIN rows
    BY DEF SegmentRows
<1>12. IsFiniteSet(there) /\ there \subseteq keys
    BY <1>3, <1>11, FS_Subset
<1>13. \A k \in keys \ there : t[k] = 0
    <2> HIDE DEF t, group, keys, there
    <2> QED
        BY <1>6, <1>7, <1>10
<1>14. \A i \in there : t[i] \in Int /\ t[i] = paid[i]
    <2>1. \A i \in there : paid[i] = rows[i].pay * EmployedDays(e, Segment(rows[i], period))
        OBVIOUS
    <2> HIDE DEF t, group, keys, there, paid
    <2> QED
        BY <1>6, <1>10, <1>11, <1>12, <2>1
<1>15. ContractualPay(e, period) = SumOver(paid, there)
    BY DEF ContractualPay
<1>16. PayByTheDay(e, period) = SumOver(f, days)
    BY DEF PayByTheDay, f
<1> HIDE DEF t, group, keys, there, paid, days
<1>17. SumOver(t, keys) = SumOver(t, there)
    BY <1>3, <1>10, <1>12, <1>13, SumSupport
<1>18. SumOver(t, there) = SumOver(paid, there)
    BY <1>12, <1>14, SumEqual
<1> QED
    BY <1>9, <1>15, <1>16, <1>17, <1>18

-----------------------------------------------------------------------------
(* createStructure at work: the row it closes is the last one and starts   *)
(* before the new structure; when it inserts, every row has ended before.  *)
Fresh(s) == s \in Structure /\ s.effectiveTo = 0

Filing(l, ss) ==
    /\ l.pc \in {"close", "insert"} => l.emp \in Employees /\ Fresh(l.new)
    /\ l.pc = "close" =>
           /\ l.current \in DOMAIN ss[l.emp] /\ l.current = Len(ss[l.emp])
           /\ ss[l.emp][l.current].effectiveFrom < l.new.effectiveFrom
    /\ l.pc = "insert" =>
           \A i \in DOMAIN ss[l.emp] : /\ ss[l.emp][i].effectiveTo # 0
                                       /\ ss[l.emp][i].effectiveTo < l.new.effectiveFrom

(* The last structure is current, unless its successor is being inserted.  *)
Continued(e, ss, ps) ==
    \/ ss[e] = <<>>
    \/ ss[e][Len(ss[e])].effectiveTo = 0
    \/ \E p \in Procs : ps[p].pc = "insert" /\ ps[p].emp = e

(* As long as no handler has ended half-way, structures form chains.       *)
Filed ==
    /\ deaths \in Nat
    /\ deaths = 0 =>
           /\ DOMAIN structures = Employees
           /\ \A e \in Employees : Chain(structures[e]) /\ Continued(e, structures, procs)
           /\ \A p \in Procs : Filing(procs[p], structures)

LEMMA InitFiled == Init => Filed
<1> SUFFICES ASSUME Init PROVE Filed
    OBVIOUS
<1>1. \A e \in Employees : structures[e] = <<>>
    BY DEF Init, InitRuns
<1>2. Chain(<<>>)
    <2>1. <<>> \in Seq(Structure) /\ DOMAIN <<>> = {}
        OBVIOUS
    <2> QED
        BY <2>1 DEF Chain
<1>3. \A p \in Procs : procs[p].pc = "idle"
    BY IdleShape DEF Init, InitRuns
<1> QED
    BY <1>1, <1>2, <1>3 DEF Init, InitRuns, Filed, Filing, Continued

(* A handler that goes on without touching structures.                     *)
LEMMA OthersKeepFiled ==
    ASSUME Filed, Serial, NEW p \in Procs, NEW l, Goto(p, l), procs[p].pc # "insert",
           l.pc \notin {"close", "insert"}, structures' = structures, deaths' = deaths
    PROVE  Filed'
<1>1. procs'[p] = l /\ \A q \in Procs \ {p} : procs'[q] = procs[q]
    BY DEF Goto, Serial, Known, Shape
<1>2. ASSUME deaths = 0, NEW e \in Employees
      PROVE  Continued(e, structures, procs')
    BY <1>1, <1>2 DEF Filed, Continued
<1>3. ASSUME deaths = 0, NEW q \in Procs
      PROVE  Filing(procs'[q], structures)
    <2>1. CASE q = p
        BY <1>1, <2>1 DEF Filing
    <2>2. CASE q # p
        BY <1>1, <1>3, <2>2 DEF Filed
    <2> QED
        BY <2>1, <2>2
<1> QED
    BY <1>2, <1>3 DEF Filed

LEMMA StartStructureFiled ==
    ASSUME Filed, Serial, ~Interleaved, NEW p \in Procs, NEW e \in Employees,
           NEW from \in Dates, NEW pay \in Amounts, StartStructure(p, e, from, pay)
    PROVE  Filed'
<1> DEFINE new == NewStructure(from, pay)
           Load(i) == [Idle EXCEPT !.pc = IF i = 0 THEN "insert" ELSE "close", !.emp = e,
                                   !.current = i, !.new = new]
<1>1. PICK i : /\ Begin(p, "structure", Load(i))
               /\ \/ i = 0 /\ CurrentRows(e) = {}
                  \/ i \in CurrentRows(e) /\ from > structures[e][i].effectiveFrom
    BY DEF StartStructure
<1> DEFINE l == [Load(i) EXCEPT !.kind = "structure"]
<1>2. /\ Goto(p, l) /\ Quiet
      /\ structures' = structures /\ deaths' = deaths
    BY <1>1 DEF Begin
<1>3. /\ l.pc = IF i = 0 THEN "insert" ELSE "close"
      /\ l.emp = e /\ l.current = i /\ l.new = new
    BY DEF Idle
<1> HIDE DEF l, Load
<1>4. procs'[p] = l /\ \A q \in Procs \ {p} : procs'[q] = procs[q]
    BY <1>2 DEF Goto, Serial, Known, Shape
<1>5. \A q \in Procs : procs[q].pc = "idle"
    BY <1>2 DEF Quiet, At
<1>6. Fresh(new) /\ new.effectiveFrom = from /\ new.effectiveTo = 0
    BY DEF NewStructure, Fresh, Structure
<1> HIDE DEF new
<1> SUFFICES ASSUME deaths = 0 PROVE Filed'
    BY <1>2 DEF Filed
<1> DEFINE rows == structures[e]
<1>7. Chain(rows) /\ Continued(e, structures, procs)
    BY DEF Filed
<1>8. rows \in Seq(Structure) /\ Len(rows) \in Nat /\ DOMAIN rows = 1..Len(rows)
    BY <1>7 DEF Chain
<1>9. Filing(l, structures)
    <2>1. CASE i = 0 /\ CurrentRows(e) = {}
        <3>1. rows = <<>>
            <4> SUFFICES ASSUME rows # <<>> PROVE FALSE
                OBVIOUS
            <4>1. Len(rows) \in DOMAIN rows
                BY <1>8
            <4>2. rows[Len(rows)].effectiveTo = 0
                BY <1>5, <1>7 DEF Continued
            <4> QED
                BY <2>1, <4>1, <4>2 DEF CurrentRows
        <3>2. DOMAIN rows = {}
            BY <3>1
        <3> QED
            BY <1>3, <1>6, <2>1, <3>2 DEF Filing
    <2>2. CASE i \in CurrentRows(e) /\ from > rows[i].effectiveFrom
        <3>1. i \in DOMAIN rows /\ rows[i].effectiveTo = 0 /\ i # 0
            BY <1>8, <2>2 DEF CurrentRows
        <3>2. ~(i < Len(rows))
            BY <1>7, <1>8, <3>1 DEF Chain
        <3>3. i = Len(rows)
            BY <1>8, <3>1, <3>2
        <3>4. rows[i].effectiveFrom < from
            <4>1. rows[i].effectiveFrom \in Int /\ from \in Int
                BY <1>7, <3>1, ChainType, StructuresAssumption
            <4> QED
                BY <2>2, <4>1
        <3> QED
            BY <1>3, <1>6, <3>1, <3>3, <3>4 DEF Filing
    <2> QED
        BY <1>1, <2>1, <2>2
<1>10. \A d \in Employees : Continued(d, structures, procs')
    BY <1>5 DEF Filed, Continued
<1>11. \A q \in Procs : Filing(procs'[q], structures)
    BY <1>4, <1>9 DEF Filed
<1> QED
    BY <1>2, <1>10, <1>11 DEF Filed

(* What a handler alone in flight knows of structures, and that the others *)
(* are idle.                                                               *)
LEMMA FilingAlone ==
    ASSUME Filed, Serial, deaths = 0, NEW p \in Procs, procs[p].pc \in {"close", "insert"}
    PROVE  /\ \A q \in Procs \ {p} : procs[q].pc = "idle"
           /\ procs[p].emp \in Employees /\ Fresh(procs[p].new)
           /\ Chain(structures[procs[p].emp])
           /\ Filing(procs[p], structures)
<1>1. \A q \in Procs \ {p} : procs[q].pc = "idle"
    BY DEF Serial, OneAtATime, At
<1>2. Filing(procs[p], structures)
    BY DEF Filed
<1>3. procs[p].emp \in Employees /\ Fresh(procs[p].new)
    BY <1>2 DEF Filing
<1> QED
    BY <1>1, <1>2, <1>3 DEF Filed

LEMMA CloseFiled ==
    ASSUME Filed, Serial, NEW p \in Procs, CloseStructure(p)
    PROVE  Filed'
<1> DEFINE l == procs[p]
           e == l.emp
           rows == structures[e]
           n == l.current
           from == l.new.effectiveFrom
           row == Closed(rows[n], from)
           rows1 == [rows EXCEPT ![n] = row]
           m == [l EXCEPT !.pc = "insert"]
<1>1. /\ l.pc = "close" /\ Goto(p, m) /\ deaths' = deaths
      /\ structures' = [structures EXCEPT ![e] = rows1]
    BY DEF CloseStructure, At
<1> SUFFICES ASSUME deaths = 0 PROVE Filed'
    BY <1>1 DEF Filed
<1>2. /\ \A q \in Procs \ {p} : procs[q].pc = "idle"
      /\ e \in Employees /\ Fresh(l.new) /\ Chain(rows) /\ Filing(l, structures)
    BY <1>1, FilingAlone
<1>3. m.pc = "insert" /\ m.emp = e /\ m.new = l.new
    BY DEF Serial, Known, Shape, ProcFields
<1>4. procs'[p] = m /\ \A q \in Procs \ {p} : procs'[q] = procs[q]
    BY <1>1 DEF Goto, Serial, Known, Shape
<1>5. DOMAIN structures' = Employees /\ structures'[e] = rows1
      /\ \A d \in Employees \ {e} : structures'[d] = structures[d]
    BY <1>1, <1>2 DEF Filed
<1>6. /\ n \in DOMAIN rows /\ n = Len(rows) /\ rows[n].effectiveFrom < from
    BY <1>1, <1>2 DEF Filing
<1>7. /\ rows \in Seq(Structure) /\ DOMAIN rows = 1..Len(rows) /\ Len(rows) \in Nat
    BY <1>2 DEF Chain
<1>8. /\ rows[n] \in Structure /\ rows[n].effectiveFrom \in Nat \ {0}
      /\ from \in Nat
    BY <1>2, <1>6, ChainType, StructureType DEF Fresh
<1>9. /\ row \in Structure /\ row.effectiveFrom = rows[n].effectiveFrom
      /\ row.effectiveTo = from - 1
    BY <1>6, <1>8 DEF Closed, Structure
<1> HIDE DEF row
<1>10. /\ rows1 \in Seq(Structure) /\ Len(rows1) = Len(rows) /\ DOMAIN rows1 = DOMAIN rows
       /\ rows1[n] = row /\ \A i \in DOMAIN rows \ {n} : rows1[i] = rows[i]
    <2>1. DOMAIN rows1 = DOMAIN rows /\ rows1[n] = row
          /\ \A i \in DOMAIN rows \ {n} : rows1[i] = rows[i]
        BY <1>6
    <2>2. rows1 \in Seq(Structure)
        BY <1>6, <1>7, <1>9, ExceptSeq
    <2> HIDE DEF rows1
    <2>3. Len(rows1) = Len(rows)
        BY <1>7, <2>1, <2>2
    <2> QED
        BY <2>1, <2>2, <2>3
<1> HIDE DEF rows1, m
<1>11. \A i \in DOMAIN rows \ {n} : /\ rows[i].effectiveTo # 0 /\ rows[i].effectiveTo \in Nat
                                    /\ rows[i].effectiveTo < rows[n].effectiveFrom
    <2> TAKE i \in DOMAIN rows \ {n}
    <2>1. i < n
        BY <1>6, <1>7
    <2>2. rows[i].effectiveTo \in Nat
        BY <1>2, ChainType
    <2> QED
        BY <1>2, <1>6, <2>1, <2>2 DEF Chain
<1>12. Chain(rows1)
    <2>1. \A i \in DOMAIN rows1 : rows1[i].effectiveTo = 0
                                  \/ rows1[i].effectiveFrom <= rows1[i].effectiveTo
        BY <1>2, <1>6, <1>8, <1>9, <1>10, SMTT(30) DEF Chain
    <2>2. ASSUME NEW i \in DOMAIN rows1, NEW j \in DOMAIN rows1, i < j
          PROVE  rows1[i].effectiveTo # 0 /\ rows1[i].effectiveTo < rows1[j].effectiveFrom
        <3>1. i # n /\ i \in DOMAIN rows /\ j \in DOMAIN rows /\ rows1[i] = rows[i]
            BY <1>6, <1>7, <1>10, <2>2
        <3>2. rows1[j].effectiveFrom = rows[j].effectiveFrom
            BY <1>9, <1>10, <3>1
        <3> QED
            BY <1>2, <2>2, <3>1, <3>2 DEF Chain
    <2> QED
        BY <1>10, <2>1, <2>2 DEF Chain
<1>13. Filing(m, structures')
    <2>1. \A i \in DOMAIN rows1 : rows1[i].effectiveTo # 0 /\ rows1[i].effectiveTo < from
        <3> TAKE i \in DOMAIN rows1
        <3>1. CASE i = n
            BY <1>6, <1>8, <1>9, <1>10, <3>1
        <3>2. CASE i # n
            <4>1. i \in DOMAIN rows \ {n} /\ rows1[i] = rows[i]
                BY <1>10, <3>2
            <4> QED
                BY <1>6, <1>8, <1>11, <4>1
        <3> QED
            BY <3>1, <3>2
    <2> QED
        BY <1>2, <1>3, <1>5, <2>1 DEF Filing
<1>14. \A d \in Employees : Continued(d, structures', procs')
    <2> TAKE d \in Employees
    <2>1. CASE d = e
        BY <1>3, <1>4, <2>1 DEF Continued
    <2>2. CASE d # e
        BY <1>1, <1>2, <1>4, <1>5, <2>2 DEF Filed, Continued
    <2> QED
        BY <2>1, <2>2
<1>15. \A q \in Procs : Filing(procs'[q], structures')
    BY <1>2, <1>4, <1>13 DEF Filing
<1>16. \A d \in Employees : Chain(structures'[d])
    BY <1>5, <1>12 DEF Filed
<1> QED
    BY <1>1, <1>5, <1>14, <1>15, <1>16 DEF Filed

LEMMA InsertFiled ==
    ASSUME Filed, Serial, NEW p \in Procs, InsertStructure(p)
    PROVE  Filed'
<1> DEFINE l == procs[p]
           e == l.emp
           rows == structures[e]
           rows1 == Append(rows, l.new)
<1>1. /\ l.pc = "insert" /\ Goto(p, Idle) /\ deaths' = deaths
      /\ structures' = [structures EXCEPT ![e] = rows1]
    BY DEF InsertStructure, At
<1> SUFFICES ASSUME deaths = 0 PROVE Filed'
    BY <1>1 DEF Filed
<1>2. /\ \A q \in Procs \ {p} : procs[q].pc = "idle"
      /\ e \in Employees /\ Fresh(l.new) /\ Chain(rows) /\ Filing(l, structures)
    BY <1>1, FilingAlone
<1>3. procs'[p] = Idle /\ \A q \in Procs \ {p} : procs'[q] = procs[q]
    BY <1>1 DEF Goto, Serial, Known, Shape
<1>4. DOMAIN structures' = Employees /\ structures'[e] = rows1
      /\ \A d \in Employees \ {e} : structures'[d] = structures[d]
    BY <1>1, <1>2 DEF Filed
<1>5. /\ rows \in Seq(Structure) /\ DOMAIN rows = 1..Len(rows) /\ Len(rows) \in Nat
    BY <1>2 DEF Chain
<1>6. PICK k \in Nat : k = Len(rows) + 1
    BY <1>5
<1>7. /\ rows1 \in Seq(Structure) /\ Len(rows1) = k /\ DOMAIN rows1 = 1..k
      /\ rows1[k] = l.new /\ \A i \in DOMAIN rows : rows1[i] = rows[i]
    BY <1>2, <1>5, <1>6, AppendProperties DEF Fresh
<1> HIDE DEF rows1
<1>8. \A i \in DOMAIN rows : rows[i].effectiveTo # 0
                             /\ rows[i].effectiveTo < l.new.effectiveFrom
    BY <1>1, <1>2 DEF Filing
<1>9. DOMAIN rows1 = DOMAIN rows \cup {k} /\ \A i \in DOMAIN rows : i < k
    BY <1>5, <1>6, <1>7
<1>10. Chain(rows1)
    <2>1. \A i \in DOMAIN rows1 : rows1[i].effectiveTo = 0
                                  \/ rows1[i].effectiveFrom <= rows1[i].effectiveTo
        BY <1>2, <1>7, <1>9 DEF Chain, Fresh
    <2>2. ASSUME NEW i \in DOMAIN rows1, NEW j \in DOMAIN rows1, i < j
          PROVE  rows1[i].effectiveTo # 0 /\ rows1[i].effectiveTo < rows1[j].effectiveFrom
        <3>1. i \in DOMAIN rows /\ rows1[i] = rows[i]
            BY <1>5, <1>6, <1>7, <1>9, <2>2
        <3>2. CASE j = k
            BY <1>7, <1>8, <3>1, <3>2
        <3>3. CASE j \in DOMAIN rows
            BY <1>2, <1>7, <2>2, <3>1, <3>3 DEF Chain
        <3> QED
            BY <1>9, <3>2, <3>3
    <2> QED
        BY <1>7, <2>1, <2>2 DEF Chain
<1>11. \A d \in Employees : Continued(d, structures', procs')
    <2> TAKE d \in Employees
    <2>1. CASE d = e
        BY <1>2, <1>4, <1>7, <2>1 DEF Continued, Fresh
    <2>2. CASE d # e
        BY <1>2, <1>3, <1>4, <2>2 DEF Filed, Continued
    <2> QED
        BY <2>1, <2>2
<1>12. \A q \in Procs : Filing(procs'[q], structures')
    BY <1>2, <1>3, IdleShape DEF Filing
<1>13. \A d \in Employees : Chain(structures'[d])
    BY <1>4, <1>10 DEF Filed
<1> QED
    BY <1>1, <1>4, <1>11, <1>12, <1>13 DEF Filed

(* The handlers of runs do not touch structures.                           *)
LEMMA RunsKeepFiled ==
    ASSUME Filed, Serial, ~Interleaved, NEW p \in Procs, NEW l,
           \/ \E kind, m : Begin(p, kind, m) /\ l = [m EXCEPT !.kind = kind]
                           /\ DOMAIN m = ProcFields /\ m.pc \notin {"close", "insert"}
           \/ /\ procs[p].pc \notin {"close", "insert"}
              /\ Goto(p, l) /\ l.pc \notin {"close", "insert"}
              /\ structures' = structures /\ deaths' = deaths
    PROVE  Filed'
<1>1. CASE \E kind, m : Begin(p, kind, m) /\ l = [m EXCEPT !.kind = kind]
                        /\ DOMAIN m = ProcFields /\ m.pc \notin {"close", "insert"}
    <2>1. PICK kind, m : Begin(p, kind, m) /\ l = [m EXCEPT !.kind = kind]
                         /\ DOMAIN m = ProcFields /\ m.pc \notin {"close", "insert"}
        BY <1>1
    <2>2. l.pc = m.pc
        BY <2>1 DEF ProcFields
    <2>3. Goto(p, l) /\ procs[p].pc = "idle" /\ structures' = structures /\ deaths' = deaths
        BY <2>1 DEF Begin, At
    <2> QED
        BY <2>1, <2>2, <2>3, OthersKeepFiled
<1>2. CASE /\ procs[p].pc \notin {"close", "insert"}
           /\ Goto(p, l) /\ l.pc \notin {"close", "insert"}
           /\ structures' = structures /\ deaths' = deaths
    BY <1>2, OthersKeepFiled
<1> QED
    BY <1>1, <1>2

LEMMA ComputedPc ==
    ASSUME NEW l, DOMAIN l = ProcFields
    PROVE  Computed(l).pc \in {"slip", "save"}
BY DEF Computed, ProcFields

LEMMA NextFiled ==
    ASSUME Filed, Serial, ~Interleaved, [Next]_vars
    PROVE  Filed'
<1>1. CASE UNCHANGED vars
    BY <1>1 DEF vars, ghosts, Filed, Filing, Continued
<1>2. ASSUME NEW p \in Procs, Start(p)
      PROVE  Filed'
    <2>1. ASSUME NEW kind, NEW m, Begin(p, kind, m), DOMAIN m = ProcFields,
                 m.pc \notin {"close", "insert"}
          PROVE  Filed'
        BY <2>1, RunsKeepFiled
    <2>2. ASSUME NEW e \in Employees, NEW from \in Dates, NEW pay \in Amounts,
                 StartStructure(p, e, from, pay)
          PROVE  Filed'
        BY <2>2, StartStructureFiled
    <2>3. ASSUME NEW r \in RunIds, NEW scope, NEW period, NEW fx,
                 StartCreate(p, r, scope, period, fx)
          PROVE  Filed'
        <3> DEFINE m == [Idle EXCEPT !.pc = "save", !.run = r,
                            !.row = [status |-> "DRAFT", scope |-> scope, period |-> period,
                                     fx |-> fx, totals |-> NoTotals]]
        <3>1. DOMAIN m = ProcFields /\ m.pc = "save"
            BY DEF Idle, ProcFields
        <3>2. Begin(p, "create", m)
            BY <2>3 DEF StartCreate
        <3> HIDE DEF m
        <3> QED
            BY <2>1, <3>1, <3>2
    <2>4. ASSUME NEW r \in RunIds, NEW fx, StartRates(p, r, fx)
          PROVE  Filed'
        <3> DEFINE m == [Idle EXCEPT !.pc = "save", !.run = r,
                                     !.row = [runs[r] EXCEPT !.fx = fx]]
        <3>1. DOMAIN m = ProcFields /\ m.pc = "save"
            BY DEF Idle, ProcFields
        <3>2. Begin(p, "rates", m)
            BY <2>4 DEF StartRates
        <3> HIDE DEF m
        <3> QED
            BY <2>1, <3>1, <3>2
    <2>5. ASSUME NEW r \in RunIds, StartCalculate(p, r)
          PROVE  Filed'
        <3> DEFINE m == [Idle EXCEPT !.pc = "delete", !.run = r, !.row = runs[r],
                                     !.todo = InScope(runs[r])]
        <3>1. DOMAIN m = ProcFields /\ m.pc = "delete"
            BY DEF Idle, ProcFields
        <3>2. Begin(p, "calculate", m)
            BY <2>5 DEF StartCalculate
        <3> HIDE DEF m
        <3> QED
            BY <2>1, <3>1, <3>2
    <2>6. ASSUME NEW r \in RunIds, StartApprove(p, r)
          PROVE  Filed'
        <3> DEFINE m == [Idle EXCEPT !.pc = "load", !.run = r, !.row = runs[r]]
        <3>1. DOMAIN m = ProcFields /\ m.pc = "load"
            BY DEF Idle, ProcFields
        <3>2. Begin(p, "approve", m)
            BY <2>6 DEF StartApprove
        <3> HIDE DEF m
        <3> QED
            BY <2>1, <3>1, <3>2
    <2>7. ASSUME NEW r \in RunIds, StartPay(p, r)
          PROVE  Filed'
        <3> DEFINE m == [Idle EXCEPT !.pc = "save", !.run = r,
                                     !.row = [runs[r] EXCEPT !.status = "PAID"]]
        <3>1. DOMAIN m = ProcFields /\ m.pc = "save"
            BY DEF Idle, ProcFields
        <3>2. Begin(p, "pay", m)
            BY <2>7 DEF StartPay
        <3> HIDE DEF m
        <3> QED
            BY <2>1, <3>1, <3>2
    <2>8. ASSUME NEW r \in RunIds, StartDelete(p, r)
          PROVE  Filed'
        <3> DEFINE m == [Idle EXCEPT !.pc = "remove", !.run = r]
        <3>1. DOMAIN m = ProcFields /\ m.pc = "remove"
            BY DEF Idle, ProcFields
        <3>2. Begin(p, "delete", m)
            BY <2>8 DEF StartDelete
        <3> HIDE DEF m
        <3> QED
            BY <2>1, <3>1, <3>2
    <2> QED
        BY <1>2, <2>2, <2>3, <2>4, <2>5, <2>6, <2>7, <2>8 DEF Start
<1>3. ASSUME NEW p \in Procs, Step(p)
      PROVE  Filed'
    <2> DEFINE l == procs[p]
               Elsewhere == {"close", "insert"}
    <2>0. DOMAIN l = ProcFields
        BY DEF Serial, Known, Shape
    <2>1. ASSUME l.pc \notin Elsewhere, NEW m, Goto(p, m), m.pc \notin Elsewhere,
                 structures' = structures, deaths' = deaths
          PROVE  Filed'
        BY <2>1, RunsKeepFiled
    <2>2. Idle.pc \notin Elsewhere
        BY IdleShape
    <2>3. CASE DeleteSlips(p)
        BY <2>0, <2>1, <2>3, ComputedPc DEF DeleteSlips, At
    <2>4. CASE SaveSlip(p)
        <3>1. PICK e : \/ Goto(p, Idle)
                       \/ Goto(p, Computed([l EXCEPT !.todo = @ \ {e},
                                                     !.totals = Tally(@, Due(e, l.row))]))
            BY <2>4 DEF SaveSlip
        <3> DEFINE m == [l EXCEPT !.todo = @ \ {e}, !.totals = Tally(@, Due(e, l.row))]
        <3>2. DOMAIN m = ProcFields
            BY <2>0
        <3>3. l.pc = "slip" /\ structures' = structures /\ deaths' = deaths
            BY <2>4 DEF SaveSlip, At
        <3> HIDE DEF m
        <3>4. Goto(p, Idle) \/ Goto(p, Computed(m))
            BY <3>1 DEF m
        <3> QED
            BY <2>1, <2>2, <3>2, <3>3, <3>4, ComputedPc
    <2>5. CASE LoadSlips(p)
        <3>1. PICK x, y : Goto(p, Idle)
                          \/ Goto(p, [l EXCEPT !.pc = "render", !.slips = x, !.todo = y])
            BY <2>5 DEF LoadSlips
        <3> DEFINE m == [l EXCEPT !.pc = "render", !.slips = x, !.todo = y]
        <3>2. m.pc = "render"
            BY <2>0 DEF ProcFields
        <3>3. l.pc = "load" /\ structures' = structures /\ deaths' = deaths
            BY <2>5 DEF LoadSlips, At
        <3> HIDE DEF m
        <3> QED
            BY <2>1, <2>2, <3>1, <3>2, <3>3 DEF m
    <2>6. CASE Render(p)
        <3>1. PICK e : Goto(p, [l EXCEPT !.pc = "link", !.emp = e])
            BY <2>6 DEF Render
        <3>2. [l EXCEPT !.pc = "link", !.emp = e].pc = "link"
            BY <2>0 DEF ProcFields
        <3>3. l.pc = "render" /\ structures' = structures /\ deaths' = deaths
            BY <2>6 DEF Render, At
        <3> QED
            BY <2>1, <3>1, <3>2, <3>3
    <2>7. CASE Link(p)
        <3> DEFINE m == [l EXCEPT !.pc = "render", !.todo = l.todo \ {l.emp}, !.emp = "none"]
                   n == [l EXCEPT !.pc = "save", !.row.status = "APPROVED", !.emp = "none",
                                  !.todo = {e \in Employees : l.slips[e].calc # 0}]
        <3>1. l.pc = "link" /\ (Goto(p, m) \/ Goto(p, n))
              /\ structures' = structures /\ deaths' = deaths
            BY <2>7 DEF Link, At
        <3>2. m.pc = "render" /\ n.pc = "save"
            BY <2>0 DEF ProcFields
        <3> HIDE DEF m, n
        <3> QED
            BY <2>1, <3>1, <3>2
    <2>8. CASE SaveRun(p)
        <3>1. [l EXCEPT !.pc = "tell"].pc = "tell"
            BY <2>0 DEF ProcFields
        <3> QED
            BY <2>1, <2>2, <2>8, <3>1 DEF SaveRun, At
    <2>9. CASE Tell(p)
        <3>1. PICK e : Goto(p, Idle) \/ Goto(p, [l EXCEPT !.todo = @ \ {e}])
            BY <2>9 DEF Tell
        <3>2. [l EXCEPT !.todo = @ \ {e}].pc = l.pc
            BY <2>0 DEF ProcFields
        <3>3. l.pc = "tell" /\ structures' = structures /\ deaths' = deaths
            BY <2>9 DEF Tell, At
        <3> QED
            BY <2>1, <2>2, <3>1, <3>2, <3>3
    <2>10. CASE Remove(p)
        BY <2>1, <2>2, <2>10 DEF Remove, At
    <2>11. CASE CloseStructure(p)
        BY <2>11, CloseFiled
    <2>12. CASE InsertStructure(p)
        BY <2>12, InsertFiled
    <2> QED
        BY <1>3, <2>3, <2>4, <2>5, <2>6, <2>7, <2>8, <2>9, <2>10, <2>11, <2>12 DEF Step
<1>4. ASSUME NEW p \in Procs, Die(p)
      PROVE  Filed'
    BY <1>4 DEF Die, Filed
<1> QED
    BY <1>1, <1>2, <1>3, <1>4 DEF Next

(* However often pay changes, inside or outside a period, contractualPay   *)
(* pays every employed day of every period once, at the rate that          *)
(* structureOn gives for the day, when createStructure is served alone and *)
(* has never ended between closing the old structure and inserting the     *)
(* new one.                                                                *)
THEOREM EveryDayIsPaidOnce ==
    ASSUME ~Interleaved
    PROVE  Spec => []PaidByTheDay
<1>1. Init => Filed
    BY InitFiled
<1>2. Filed /\ Serial /\ [Next]_vars => Filed'
    BY NextFiled
<1>3. Filed => PaidByTheDay
    <2> SUFFICES ASSUME Filed, deaths = 0, NEW e \in Employees, NEW period \in Periods
                 PROVE  ContractualPay(e, period) = PayByTheDay(e, period)
        BY DEF PaidByTheDay
    <2>1. period \in Nat \X Nat
        BY PayrollAssumption
    <2>2. Chain(structures[e])
        BY DEF Filed
    <2> QED
        BY <2>1, <2>2, ChainPaysByTheDay
<1>4. Spec => []Serial
    BY SerialHandlersAreInformed
<1> QED
    BY <1>1, <1>2, <1>3, <1>4, PTL DEF Spec

-----------------------------------------------------------------------------
(* The PDFs of an approved run.  s and ps are the slips and the PDFs of    *)
(* one run.                                                                *)
SlipFields == {"calc", "amount", "pdf"}

LinkedSlip(e, s, ps) == s[e].pdf = s[e].amount /\ s[e].amount \in ps[e]

Documented(s, ps) ==
    /\ \E e \in Employees : s[e].calc # 0
    /\ \A e \in Employees : s[e].calc # 0 => LinkedSlip(e, s, ps)

(* An approval works on the slips it has loaded, has linked all it is      *)
(* through with, and has stored the PDF it is about to link; whoever saves *)
(* an approved or paid row knows the run to be documented.                 *)
Preparing(l, s, ps) ==
    /\ l.pc \in {"render", "link"} =>
           /\ \E e \in Employees : s[e].calc # 0
           /\ \A e \in Employees : /\ l.slips[e].calc = s[e].calc
                                   /\ l.slips[e].amount = s[e].amount
                                   /\ s[e].calc # 0 /\ e \notin l.todo => LinkedSlip(e, s, ps)
           /\ l.todo \subseteq Employees
    /\ l.pc = "link" => l.emp \in l.todo /\ s[l.emp].amount \in ps[l.emp]
    /\ l.pc = "save" /\ l.row.status \in Frozen => Documented(s, ps)

PaperShape ==
    /\ DOMAIN pdfs = RunIds
    /\ \A r \in RunIds : /\ DOMAIN pdfs[r] = Employees
                         /\ DOMAIN slips[r] = Employees
                         /\ \A e \in Employees : DOMAIN slips[r][e] = SlipFields

Papers ==
    /\ PaperShape
    /\ \A r \in RunIds : runs[r].status \in Frozen => Documented(slips[r], pdfs[r])
    /\ \A p \in Procs : Preparing(procs[p], slips[procs[p].run], pdfs[procs[p].run])

LEMMA InitPapers == Init => Papers
<1> SUFFICES ASSUME Init PROVE Papers
    OBVIOUS
<1>1. \A p \in Procs : procs[p].pc = "idle"
    BY IdleShape DEF Init, InitRuns
<1>2. PaperShape
    BY DEF Init, InitRuns, PaperShape, NoSlips, NoSlip, SlipFields
<1>3. \A r \in RunIds : runs[r].status \notin Frozen
    BY DEF Init, InitRuns, NoRun, Frozen
<1> QED
    BY <1>1, <1>2, <1>3 DEF Papers, Preparing

(* A handler that goes on alone keeps the papers in order if its own part  *)
(* is in order.                                                            *)
LEMMA PapersGoOn ==
    ASSUME Papers, Serial, NEW p \in Procs, NEW l, Goto(p, l), Quiet \/ ~At(p, "idle"),
           PaperShape', Preparing(l, slips'[l.run], pdfs'[l.run]),
           \A r \in RunIds : runs'[r].status \in Frozen => Documented(slips'[r], pdfs'[r])
    PROVE  Papers'
<1>1. procs'[p] = l /\ \A q \in Procs \ {p} : procs'[q] = procs[q]
    BY DEF Goto, Serial, Known, Shape
<1>2. \A q \in Procs \ {p} : procs[q].pc = "idle"
    BY DEF Serial, OneAtATime, Quiet, At
<1>3. \A q \in Procs \ {p} : Preparing(procs'[q], slips'[procs'[q].run], pdfs'[procs'[q].run])
    BY <1>1, <1>2 DEF Preparing
<1> QED
    BY <1>1, <1>3 DEF Papers

(* The same for a handler that changes no row, and for one that starts.    *)
LEMMA PapersUntouched ==
    ASSUME Papers, Serial, NEW p \in Procs, NEW l, Goto(p, l), Quiet \/ ~At(p, "idle"),
           runs' = runs, slips' = slips, pdfs' = pdfs,
           Preparing(l, slips[l.run], pdfs[l.run])
    PROVE  Papers'
<1>1. PaperShape'
    BY DEF Papers, PaperShape
<1>2. \A r \in RunIds : runs'[r].status \in Frozen => Documented(slips'[r], pdfs'[r])
    BY DEF Papers
<1> QED
    BY <1>1, <1>2, PapersGoOn

LEMMA BeginPapers ==
    ASSUME Papers, Serial, ~Interleaved, NEW p \in Procs, NEW kind, NEW l, Begin(p, kind, l),
           DOMAIN l = ProcFields, l.pc \notin {"render", "link"},
           l.pc = "save" /\ l.row.status \in Frozen =>
               Documented(slips[l.run], pdfs[l.run])
    PROVE  Papers'
<1> DEFINE m == [l EXCEPT !.kind = kind]
<1>1. m.pc = l.pc /\ m.run = l.run /\ m.row = l.row
    BY DEF ProcFields
<1>2. /\ Goto(p, m) /\ Quiet /\ runs' = runs /\ slips' = slips /\ pdfs' = pdfs
    BY DEF Begin
<1> HIDE DEF m
<1>3. Preparing(m, slips[m.run], pdfs[m.run])
    BY <1>1 DEF Preparing
<1> QED
    BY <1>2, <1>3, PapersUntouched

LEMMA StartPapers ==
    ASSUME Papers, Serial, ~Interleaved, NEW p \in Procs, Start(p)
    PROVE  Papers'
<1>1. ASSUME NEW e, NEW from, NEW pay, StartStructure(p, e, from, pay)
      PROVE  Papers'
    <2>1. PICK i : Begin(p, "structure",
            [Idle EXCEPT !.pc = IF i = 0 THEN "insert" ELSE "close", !.emp = e,
                         !.current = i, !.new = NewStructure(from, pay)])
        BY <1>1 DEF StartStructure
    <2> DEFINE l == [Idle EXCEPT !.pc = IF i = 0 THEN "insert" ELSE "close", !.emp = e,
                         !.current = i, !.new = NewStructure(from, pay)]
    <2>2. DOMAIN l = ProcFields /\ l.pc \in {"insert", "close"}
        BY DEF Idle, ProcFields
    <2> QED
        BY <2>1, <2>2, BeginPapers
<1>2. ASSUME NEW r \in RunIds, NEW scope, NEW period, NEW fx,
             StartCreate(p, r, scope, period, fx)
      PROVE  Papers'
    <2> DEFINE row == [status |-> "DRAFT", scope |-> scope, period |-> period, fx |-> fx,
                       totals |-> NoTotals]
               l == [Idle EXCEPT !.pc = "save", !.run = r, !.row = row]
    <2>1. DOMAIN l = ProcFields /\ l.pc = "save" /\ l.row = row /\ row.status = "DRAFT"
        BY DEF Idle, ProcFields
    <2>2. Begin(p, "create", l)
        BY <1>2 DEF StartCreate
    <2> HIDE DEF l, row
    <2> QED
        BY <2>1, <2>2, BeginPapers DEF Frozen
<1>3. ASSUME NEW r \in RunIds, NEW fx, StartRates(p, r, fx)
      PROVE  Papers'
    <2> DEFINE row == [runs[r] EXCEPT !.fx = fx]
               l == [Idle EXCEPT !.pc = "save", !.run = r, !.row = row]
    <2>1. DOMAIN l = ProcFields /\ l.pc = "save" /\ l.row = row
        BY DEF Idle, ProcFields
    <2>2. row.status = runs[r].status
        BY DEF Serial, Known, Shape, RunFields
    <2>3. Begin(p, "rates", l) /\ runs[r].status \in Open
        BY <1>3 DEF StartRates
    <2> HIDE DEF l, row
    <2> QED
        BY <2>1, <2>2, <2>3, BeginPapers DEF Frozen, Open
<1>4. ASSUME NEW r \in RunIds, StartCalculate(p, r)
      PROVE  Papers'
    <2> DEFINE l == [Idle EXCEPT !.pc = "delete", !.run = r, !.row = runs[r],
                                 !.todo = InScope(runs[r])]
    <2>1. DOMAIN l = ProcFields /\ l.pc = "delete"
        BY DEF Idle, ProcFields
    <2>2. Begin(p, "calculate", l)
        BY <1>4 DEF StartCalculate
    <2> HIDE DEF l
    <2> QED
        BY <2>1, <2>2, BeginPapers
<1>5. ASSUME NEW r \in RunIds, StartApprove(p, r)
      PROVE  Papers'
    <2> DEFINE l == [Idle EXCEPT !.pc = "load", !.run = r, !.row = runs[r]]
    <2>1. DOMAIN l = ProcFields /\ l.pc = "load"
        BY DEF Idle, ProcFields
    <2>2. Begin(p, "approve", l)
        BY <1>5 DEF StartApprove
    <2> HIDE DEF l
    <2> QED
        BY <2>1, <2>2, BeginPapers
<1>6. ASSUME NEW r \in RunIds, StartPay(p, r)
      PROVE  Papers'
    <2> DEFINE l == [Idle EXCEPT !.pc = "save", !.run = r,
                                 !.row = [runs[r] EXCEPT !.status = "PAID"]]
    <2>1. DOMAIN l = ProcFields /\ l.pc = "save" /\ l.run = r
        BY DEF Idle, ProcFields
    <2>2. Begin(p, "pay", l) /\ runs[r].status = "APPROVED"
        BY <1>6 DEF StartPay
    <2>3. Documented(slips[r], pdfs[r])
        BY <2>2 DEF Papers, Frozen
    <2> HIDE DEF l
    <2> QED
        BY <2>1, <2>2, <2>3, BeginPapers
<1>7. ASSUME NEW r \in RunIds, StartDelete(p, r)
      PROVE  Papers'
    <2> DEFINE l == [Idle EXCEPT !.pc = "remove", !.run = r]
    <2>1. DOMAIN l = ProcFields /\ l.pc = "remove"
        BY DEF Idle, ProcFields
    <2>2. Begin(p, "delete", l)
        BY <1>7 DEF StartDelete
    <2> HIDE DEF l
    <2> QED
        BY <2>1, <2>2, BeginPapers
<1> QED
    BY <1>1, <1>2, <1>3, <1>4, <1>5, <1>6, <1>7 DEF Start

LEMMA ComputedIsPreparing ==
    ASSUME NEW l, DOMAIN l = ProcFields, DOMAIN l.row = RunFields, NEW s, NEW ps
    PROVE  Preparing(Computed(l), s, ps)
<1>1. CASE l.todo # {}
    <2> DEFINE m == [l EXCEPT !.pc = "slip"]
    <2>1. Computed(l) = m /\ m.pc = "slip"
        BY <1>1 DEF Computed, ProcFields
    <2> HIDE DEF m
    <2> QED
        BY <2>1 DEF Preparing
<1>2. CASE l.todo = {}
    <2> DEFINE m == [l EXCEPT !.pc = "save", !.row.status = "CALCULATED",
                              !.row.totals = l.totals]
    <2>1. Computed(l) = m
        BY <1>2 DEF Computed
    <2>2. m.pc = "save" /\ m.row.status = "CALCULATED"
        BY DEF ProcFields, RunFields
    <2> HIDE DEF m
    <2> QED
        BY <2>1, <2>2 DEF Preparing, Frozen
<1> QED
    BY <1>1, <1>2

(* Slips are written and removed in open runs only.                        *)
LEMMA OpenRunsPapers ==
    ASSUME Papers, Serial, NEW p \in Procs, procs[p].pc \in Writing, NEW l, Goto(p, l),
           DOMAIN slips' = RunIds, DOMAIN slips'[procs[p].run] = Employees,
           \A e \in Employees : DOMAIN slips'[procs[p].run][e] = SlipFields,
           \A r \in RunIds \ {procs[p].run} : slips'[r] = slips[r] /\ runs'[r] = runs[r],
           runs'[procs[p].run].status \notin Frozen, pdfs' = pdfs,
           Preparing(l, slips'[l.run], pdfs'[l.run])
    PROVE  Papers'
<1>1. PaperShape'
    BY DEF Papers, PaperShape
<1>2. \A r \in RunIds : runs'[r].status \in Frozen => Documented(slips'[r], pdfs'[r])
    BY DEF Papers
<1>3. ~At(p, "idle")
    BY DEF Writing, At
<1> QED
    BY <1>1, <1>2, <1>3, PapersGoOn

LEMMA LinkPapers ==
    ASSUME Papers, Serial, NEW p \in Procs, Link(p)
    PROVE  Papers'
<1> DEFINE l == procs[p]
           r == l.run
           e == l.emp
           s == slips[r]
           ps == pdfs[r]
           s1 == [s EXCEPT ![e].pdf = l.slips[e].amount]
           left == l.todo \ {e}
           m == [l EXCEPT !.pc = "render", !.todo = left, !.emp = "none"]
           n == [l EXCEPT !.pc = "save", !.row.status = "APPROVED", !.emp = "none",
                          !.todo = {d \in Employees : l.slips[d].calc # 0}]
<1>1. l.pc = "link" /\ runs' = runs /\ pdfs' = pdfs
    BY DEF Link, At
<1>2. DOMAIN l = ProcFields /\ Informed(l, runs) /\ DOMAIN slips = RunIds
    BY DEF Serial, Known, Shape
<1>3. r \in RunIds /\ runs[r].status = "CALCULATED"
    BY <1>1, <1>2 DEF Informed, Approving
<1>4. Preparing(l, s, ps)
    BY DEF Papers
<1>5. /\ e \in Employees /\ e \in l.todo /\ l.todo \subseteq Employees
      /\ s[e].amount \in ps[e]
      /\ \E d \in Employees : s[d].calc # 0
      /\ \A d \in Employees : /\ l.slips[d].calc = s[d].calc
                              /\ l.slips[d].amount = s[d].amount
                              /\ s[d].calc # 0 /\ d \notin l.todo => LinkedSlip(d, s, ps)
    BY <1>1, <1>4 DEF Preparing
<1>6. slips' = [slips EXCEPT ![r] = s1]
    <2>1. slips' = [slips EXCEPT ![r][e].pdf = l.slips[e].amount]
        BY <1>5 DEF Link
    <2> QED
        BY <2>1
<1>7. slips'[r] = s1 /\ \A q \in RunIds \ {r} : slips'[q] = slips[q]
    BY <1>2, <1>3, <1>6
<1>8. /\ DOMAIN s = Employees /\ \A d \in Employees : DOMAIN s[d] = SlipFields
    BY <1>3 DEF Papers, PaperShape
<1>9. /\ DOMAIN s1 = Employees /\ \A d \in Employees : DOMAIN s1[d] = SlipFields
      /\ \A d \in Employees \ {e} : s1[d] = s[d]
      /\ s1[e].pdf = l.slips[e].amount /\ s1[e].amount = s[e].amount
      /\ s1[e].calc = s[e].calc
    BY <1>5, <1>8 DEF SlipFields
<1>10. /\ m.pc = "render" /\ m.todo = left /\ m.slips = l.slips /\ m.run = r
       /\ n.pc = "save" /\ n.run = r
    BY <1>2 DEF ProcFields
<1>11. (left # {} /\ Goto(p, m)) \/ (left = {} /\ Goto(p, n))
    BY DEF Link
<1> HIDE DEF s1, m, n
<1>12. \A d \in Employees : s1[d].calc # 0 /\ d \notin left => LinkedSlip(d, s1, ps)
    <2> SUFFICES ASSUME NEW d \in Employees, s1[d].calc # 0, d \notin left
                 PROVE  LinkedSlip(d, s1, ps)
        OBVIOUS
    <2>1. CASE d = e
        BY <1>5, <1>9, <2>1 DEF LinkedSlip
    <2>2. CASE d # e
        BY <1>5, <1>9, <2>2 DEF LinkedSlip
    <2> QED
        BY <2>1, <2>2
<1>13. \E d \in Employees : s1[d].calc # 0
    BY <1>5, <1>9
<1>14. /\ left # {} => Preparing(m, s1, ps)
       /\ left = {} => Preparing(n, s1, ps)
    <2>1. Preparing(m, s1, ps)
        <3>1. \A d \in Employees : l.slips[d].calc = s1[d].calc /\ l.slips[d].amount = s1[d].amount
            BY <1>5, <1>9, SMTT(30)
        <3>2. left \subseteq Employees
            BY <1>5
        <3> HIDE DEF left
        <3> QED
            BY <1>10, <1>12, <1>13, <3>1, <3>2 DEF Preparing
    <2>2. left = {} => Documented(s1, ps)
        BY <1>12, <1>13 DEF Documented
    <2> QED
        BY <1>10, <2>1, <2>2 DEF Preparing
<1>15. PaperShape'
    BY <1>1, <1>7, <1>9 DEF Papers, PaperShape
<1>16. \A q \in RunIds : runs'[q].status \in Frozen => Documented(slips'[q], pdfs'[q])
    BY <1>1, <1>3, <1>7 DEF Papers, Frozen
<1>17. ~At(p, "idle")
    BY <1>1 DEF At
<1> QED
    BY <1>1, <1>7, <1>10, <1>11, <1>14, <1>15, <1>16, <1>17, PapersGoOn

LEMMA StepPapers ==
    ASSUME Papers, Serial, NEW p \in Procs, Step(p)
    PROVE  Papers'
<1> DEFINE l == procs[p]
           r == l.run
<1>1. /\ DOMAIN l = ProcFields /\ DOMAIN l.row = RunFields /\ Informed(l, runs)
      /\ DOMAIN runs = RunIds /\ DOMAIN slips = RunIds /\ PaperShape
      /\ Preparing(l, slips[r], pdfs[r])
    BY DEF Serial, Known, Shape, Papers
<1>2. \A s, ps : Preparing(Idle, s, ps)
    BY IdleShape DEF Preparing
<1>3. DOMAIN NoSlips = Employees /\ \A e \in Employees : DOMAIN NoSlips[e] = SlipFields
    BY DEF NoSlips, NoSlip, SlipFields
<1>4. CASE DeleteSlips(p)
    <2>1. l.pc \in Writing /\ Goto(p, Computed(l)) /\ runs' = runs /\ pdfs' = pdfs
          /\ slips' = [slips EXCEPT ![r] = NoSlips]
        BY <1>4 DEF DeleteSlips, At, Writing
    <2>2. r \in RunIds /\ runs[r].status \notin Frozen
        BY <1>1, <2>1 DEF Informed, Open, Frozen
    <2>3. Preparing(Computed(l), slips'[Computed(l).run], pdfs'[Computed(l).run])
        BY <1>1, ComputedIsPreparing
    <2> QED
        BY <1>1, <1>3, <2>1, <2>2, <2>3, OpenRunsPapers
<1>5. CASE SaveSlip(p)
    <2>1. l.pc \in Writing /\ runs' = runs /\ pdfs' = pdfs
        BY <1>5 DEF SaveSlip, At, Writing
    <2>2. r \in RunIds /\ runs[r].status \notin Frozen
        BY <1>1, <2>1 DEF Informed, Open, Frozen
    <2>3. PICK e, amount :
            /\ e \in l.todo
            /\ \/ Goto(p, Idle)
               \/ Goto(p, Computed([l EXCEPT !.todo = @ \ {e}, !.totals = Tally(@, amount)]))
            /\ \/ slips' = slips
               \/ slips' = [slips EXCEPT ![r][e] =
                                [calc |-> calcs[r], amount |-> amount, pdf |-> 0]]
        BY <1>5 DEF SaveSlip
    <2> DEFINE m == [l EXCEPT !.todo = @ \ {e}, !.totals = Tally(@, amount)]
               slip == [calc |-> calcs[r], amount |-> amount, pdf |-> 0]
    <2>4. DOMAIN m = ProcFields /\ DOMAIN m.row = RunFields
        BY <1>1 DEF ProcFields
    <2>5. DOMAIN slip = SlipFields
        BY DEF SlipFields
    <2> HIDE DEF m, slip
    <2>6. slips' = slips \/ slips' = [slips EXCEPT ![r][e] = slip]
        BY <2>3 DEF slip
    <2>7. /\ DOMAIN slips' = RunIds /\ DOMAIN slips'[r] = Employees
          /\ \A d \in Employees : DOMAIN slips'[r][d] = SlipFields
          /\ \A q \in RunIds \ {r} : slips'[q] = slips[q]
        <3>1. DOMAIN slips[r] = Employees /\ \A d \in Employees : DOMAIN slips[r][d] = SlipFields
            BY <1>1, <2>2 DEF PaperShape
        <3> QED
            BY <1>1, <2>2, <2>5, <2>6, <3>1
    <2>8. PICK k : Goto(p, k) /\ \A s, ps : Preparing(k, s, ps)
        <3>1. Goto(p, Idle) \/ Goto(p, Computed(m))
            BY <2>3 DEF m
        <3> QED
            BY <1>2, <2>4, <3>1, ComputedIsPreparing
    <2> QED
        BY <2>1, <2>2, <2>7, <2>8, OpenRunsPapers
<1>6. CASE Remove(p)
    <2>1. l.pc \in Writing /\ Goto(p, Idle) /\ pdfs' = pdfs
          /\ slips' = [slips EXCEPT ![r] = NoSlips]
          /\ runs' = [runs EXCEPT ![r] = [NoRun EXCEPT !.status = "DELETED"]]
        BY <1>6 DEF Remove, At, Writing
    <2>2. r \in RunIds
        BY <1>1, <2>1 DEF Informed
    <2>3. [NoRun EXCEPT !.status = "DELETED"].status \notin Frozen
        BY DEF NoRun, Frozen
    <2>4. /\ runs'[r].status \notin Frozen /\ slips'[r] = NoSlips /\ DOMAIN slips' = RunIds
          /\ \A q \in RunIds \ {r} : slips'[q] = slips[q] /\ runs'[q] = runs[q]
        BY <1>1, <2>1, <2>2, <2>3
    <2> QED
        BY <1>2, <1>3, <2>1, <2>4, OpenRunsPapers
<1>7. CASE LoadSlips(p)
    <2> DEFINE there == {e \in Employees : slips[r][e].calc # 0}
               m == [l EXCEPT !.pc = "render", !.slips = slips[r], !.todo = there]
    <2>1. /\ l.pc = "load" /\ runs' = runs /\ slips' = slips /\ pdfs' = pdfs
          /\ Goto(p, Idle) \/ (there # {} /\ Goto(p, m))
        BY <1>7 DEF LoadSlips, At
    <2>2. m.pc = "render" /\ m.slips = slips[r] /\ m.todo = there /\ m.run = r
        BY <1>1 DEF ProcFields
    <2> HIDE DEF m
    <2>3. there # {} => Preparing(m, slips[r], pdfs[r])
        BY <2>2 DEF Preparing
    <2>4. ~At(p, "idle")
        BY <2>1 DEF At
    <2> QED
        BY <1>2, <2>1, <2>2, <2>3, <2>4, PapersUntouched
<1>8. CASE Render(p)
    <2>1. PICK e \in l.todo : /\ pdfs' = [pdfs EXCEPT ![r][e] = @ \cup {l.slips[e].amount}]
                              /\ Goto(p, [l EXCEPT !.pc = "link", !.emp = e])
        BY <1>8 DEF Render
    <2> DEFINE m == [l EXCEPT !.pc = "link", !.emp = e]
    <2>2. l.pc = "render" /\ runs' = runs /\ slips' = slips
        BY <1>8 DEF Render, At
    <2>3. r \in RunIds /\ runs[r].status = "CALCULATED"
        BY <1>1, <2>2 DEF Informed, Approving
    <2>4. /\ l.todo \subseteq Employees
          /\ \E d \in Employees : slips[r][d].calc # 0
          /\ \A d \in Employees :
                /\ l.slips[d].calc = slips[r][d].calc
                /\ l.slips[d].amount = slips[r][d].amount
                /\ slips[r][d].calc # 0 /\ d \notin l.todo => LinkedSlip(d, slips[r], pdfs[r])
        BY <1>1, <2>2 DEF Preparing
    <2>5. /\ m.pc = "link" /\ m.emp = e /\ m.todo = l.todo /\ m.slips = l.slips /\ m.run = r
        BY <1>1 DEF ProcFields
    <2>6. Goto(p, m)
        BY <2>1
    <2> HIDE DEF m
    <2>7. /\ DOMAIN pdfs' = RunIds /\ \A q \in RunIds : DOMAIN pdfs'[q] = Employees
          /\ \A q \in RunIds, d \in Employees : pdfs[q][d] \subseteq pdfs'[q][d]
          /\ l.slips[e].amount \in pdfs'[r][e]
        <3>1. /\ DOMAIN pdfs = RunIds /\ \A q \in RunIds : DOMAIN pdfs[q] = Employees
            BY <1>1 DEF PaperShape
        <3>2. e \in Employees
            BY <2>4
        <3> QED
            BY <2>1, <2>3, <3>1, <3>2
    <2>8. PaperShape'
        BY <1>1, <2>2, <2>7 DEF PaperShape
    <2>9. \A q \in RunIds : runs'[q].status \in Frozen => Documented(slips'[q], pdfs'[q])
        BY <2>2, <2>7 DEF Papers, Documented, LinkedSlip
    <2>10. Preparing(m, slips'[m.run], pdfs'[m.run])
        <3>1. \A d \in Employees : slips[r][d].calc # 0 /\ d \notin l.todo
                                     => LinkedSlip(d, slips[r], pdfs'[r])
            BY <2>3, <2>4, <2>7 DEF LinkedSlip
        <3> QED
            BY <2>1, <2>2, <2>4, <2>5, <2>7, <3>1 DEF Preparing
    <2>11. ~At(p, "idle")
        BY <2>2 DEF At
    <2> QED
        BY <2>6, <2>8, <2>9, <2>10, <2>11, PapersGoOn
<1>9. CASE Link(p)
    BY <1>9, LinkPapers
<1>10. CASE SaveRun(p)
    <2> DEFINE m == [l EXCEPT !.pc = "tell"]
    <2>1. /\ l.pc = "save" /\ slips' = slips /\ pdfs' = pdfs
          /\ runs' = [runs EXCEPT ![r] = l.row]
          /\ Goto(p, m) \/ Goto(p, Idle)
        BY <1>10 DEF SaveRun, At
    <2>2. m.pc = "tell" /\ r \in RunIds
        BY <1>1, <2>1 DEF ProcFields, Informed
    <2> HIDE DEF m
    <2>3. \A s, ps : Preparing(m, s, ps)
        BY <2>2 DEF Preparing
    <2>4. l.row.status \in Frozen => Documented(slips[r], pdfs[r])
        BY <1>1, <2>1 DEF Preparing
    <2>5. \A q \in RunIds : runs'[q].status \in Frozen => Documented(slips'[q], pdfs'[q])
        BY <1>1, <2>1, <2>2, <2>4 DEF Papers
    <2>6. PaperShape' /\ ~At(p, "idle")
        BY <1>1, <2>1 DEF PaperShape, At
    <2> QED
        BY <1>2, <2>1, <2>3, <2>5, <2>6, PapersGoOn
<1>11. CASE Tell(p)
    <2>1. PICK e : Goto(p, Idle) \/ Goto(p, [l EXCEPT !.todo = @ \ {e}])
        BY <1>11 DEF Tell
    <2> DEFINE m == [l EXCEPT !.todo = @ \ {e}]
    <2>2. l.pc = "tell" /\ runs' = runs /\ slips' = slips /\ pdfs' = pdfs
        BY <1>11 DEF Tell, At
    <2>3. m.pc = "tell"
        BY <1>1, <2>2 DEF ProcFields
    <2>4. Goto(p, Idle) \/ Goto(p, m)
        BY <2>1
    <2> HIDE DEF m
    <2>5. \A s, ps : Preparing(m, s, ps)
        BY <2>3 DEF Preparing
    <2> QED
        BY <1>2, <2>2, <2>4, <2>5, PapersUntouched DEF At
<1>12. CASE CloseStructure(p)
    <2> DEFINE m == [l EXCEPT !.pc = "insert"]
    <2>1. /\ l.pc = "close" /\ Goto(p, m) /\ runs' = runs /\ slips' = slips /\ pdfs' = pdfs
        BY <1>12 DEF CloseStructure, At
    <2>2. m.pc = "insert"
        BY <1>1 DEF ProcFields
    <2> HIDE DEF m
    <2>3. \A s, ps : Preparing(m, s, ps)
        BY <2>2 DEF Preparing
    <2> QED
        BY <2>1, <2>3, PapersUntouched DEF At
<1>13. CASE InsertStructure(p)
    BY <1>2, <1>13, PapersUntouched DEF InsertStructure, At
<1> QED
    BY <1>4, <1>5, <1>6, <1>7, <1>8, <1>9, <1>10, <1>11, <1>12, <1>13 DEF Step

(* An approved or paid run has payslips, and the PDF each of them is       *)
(* linked to exists and shows the amount of the slip, for any number of    *)
(* runs and employees and wherever earlier calculations and approvals of   *)
(* the run ended, when handlers are served one at a time.                  *)
THEOREM ApprovedRunsAreDocumented ==
    ASSUME ~Interleaved
    PROVE  Spec => []ApprovedIsDocumented
<1>1. Init => Papers
    BY InitPapers
<1>2. Papers /\ Serial /\ [Next]_vars => Papers'
    <2> SUFFICES ASSUME Papers, Serial, [Next]_vars PROVE Papers'
        OBVIOUS
    <2>1. CASE UNCHANGED vars
        BY <2>1 DEF vars, ghosts, Papers, PaperShape
    <2>2. ASSUME NEW p \in Procs, Die(p)
          PROVE  Papers'
        <3>1. \A s, ps : Preparing(Idle, s, ps)
            BY IdleShape DEF Preparing
        <3> QED
            BY <2>2, <3>1, PapersUntouched DEF Die
    <2> QED
        BY <2>1, <2>2, StartPapers, StepPapers DEF Next
<1>3. Papers => ApprovedIsDocumented
    BY DEF Papers, ApprovedIsDocumented, Slipped, Documented, LinkedSlip
<1>4. Spec => []Serial
    BY SerialHandlersAreInformed
<1> QED
    BY <1>1, <1>2, <1>3, <1>4, PTL DEF Spec

-----------------------------------------------------------------------------
(* Numbers: the larger and the smaller of two, and rounding.               *)
LEMMA LargerOfTwo ==
    ASSUME NEW a \in Int, NEW b \in Int
    PROVE  Max({a, b}) = IF a >= b THEN a ELSE b
<1> DEFINE c == IF a >= b THEN a ELSE b
<1>1. c \in {a, b} /\ \A y \in {a, b} : c >= y
    OBVIOUS
<1>2. \A x \in {a, b} : (\A y \in {a, b} : x >= y) => x = c
    OBVIOUS
<1> HIDE DEF c
<1>3. Max({a, b}) \in {a, b} /\ \A y \in {a, b} : Max({a, b}) >= y
    BY <1>1 DEF Max
<1>4. Max({a, b}) = c
    BY <1>2, <1>3
<1> QED BY <1>4 DEF c

LEMMA SmallerOfTwo ==
    ASSUME NEW a \in Int, NEW b \in Int
    PROVE  Min({a, b}) = IF a <= b THEN a ELSE b
<1> DEFINE c == IF a <= b THEN a ELSE b
<1>1. c \in {a, b} /\ \A y \in {a, b} : c <= y
    OBVIOUS
<1>2. \A x \in {a, b} : (\A y \in {a, b} : x <= y) => x = c
    OBVIOUS
<1> HIDE DEF c
<1>3. Min({a, b}) \in {a, b} /\ \A y \in {a, b} : Min({a, b}) <= y
    BY <1>1 DEF Min
<1>4. Min({a, b}) = c
    BY <1>2, <1>3
<1> QED BY <1>4 DEF c

LEMMA RoundNearest ==
    ASSUME NEW n \in Nat, NEW d \in Nat \ {0}
    PROVE  /\ Round(n, d) \in Nat
           /\ 2 * (d * Round(n, d)) <= 2 * n + d
           /\ 2 * n + d < 2 * (d * Round(n, d)) + 2 * d
<1>1. PICK q : q = (2 * n + d) \div (2 * d)
    OBVIOUS
<1>2. PICK x \in Nat, y \in Nat \ {0} : x = 2 * n + d /\ y = 2 * d
    OBVIOUS
<1>3. PICK r : r = x % y
    OBVIOUS
<1>4. q = x \div y
    BY <1>1, <1>2
<1>5. q \in Nat /\ r \in 0..(y - 1) /\ x = y * q + r
    BY <1>3, <1>4
<1>6. y * q = 2 * (d * q)
    BY <1>2, <1>5
<1>7. d * q \in Nat
    BY <1>5
<1> QED BY <1>1, <1>2, <1>5, <1>6, <1>7 DEF Round

(* A share of a whole is the whole when it is all of it.                   *)
LEMMA RoundWhole ==
    ASSUME NEW a \in Nat, NEW p \in Nat \ {0}
    PROVE  Round(a * p, p) = a
<1>1. PICK q \in Nat : q = Round(a * p, p)
    <2>1. a * p \in Nat
        OBVIOUS
    <2> QED BY <2>1, RoundNearest
<1>2. a * p \in Nat /\ p * q \in Nat
    BY <1>1
<1>3. 2 * (p * q) <= 2 * (a * p) + p /\ 2 * (a * p) + p < 2 * (p * q) + 2 * p
    BY <1>1, <1>2, RoundNearest
<1>4. CASE q < a
    <2>1. a - q - 1 \in Nat
        BY <1>4
    <2>2. p * (a - q - 1) \in Nat
        BY <2>1
    <2>3. p * (a - q - 1) = a * p - p * q - p
        BY <1>1
    <2> QED BY <1>2, <1>3, <2>2, <2>3
<1>5. CASE q > a
    <2>1. q - a - 1 \in Nat
        BY <1>5
    <2>2. p * (q - a - 1) \in Nat
        BY <2>1
    <2>3. p * (q - a - 1) = p * q - a * p - p
        BY <1>1
    <2> QED BY <1>2, <1>3, <2>2, <2>3
<1> QED BY <1>1, <1>4, <1>5

-----------------------------------------------------------------------------
(* Pay: finitely many lines, each of an amount that is not negative.       *)
Payables(S) == IsFiniteSet(S) /\ \A l \in S : l.amount \in Nat
Terms(s) == s \in SalaryTerms /\ IsFiniteSet(s.lines)

LEMMA ValuesAreFinite ==
    ASSUME NEW S, IsFiniteSet(S), NEW f, DOMAIN f = S
    PROVE  IsFiniteSet({f[x] : x \in S})
<1> DEFINE T == {f[x] : x \in S}
           g == [x \in S |-> f[x]]
<1>1. g \in Surjection(S, T)
    BY DEF Surjection
<1> QED BY <1>1, FS_Surjection

LEMMA TotalIsNat ==
    ASSUME NEW S, Payables(S)
    PROVE  Total(S) \in Nat
<1> DEFINE v == [l \in S |-> l.amount]
<1>1. Total(S) = SumOver(v, S)
    <2>1. MapThenSumSet(LAMBDA l : l.amount, S) = MapThenSumSet(LAMBDA l : v[l], S)
        BY DEF MapThenSumSet, MapThenFoldSet
    <2> QED BY <2>1 DEF Total, SumOver
<1>2. \A l \in S : v[l] \in Nat
    BY DEF Payables
<1> HIDE DEF v
<1> QED BY <1>1, <1>2, SumNat DEF Payables

LEMMA ProrateTerms ==
    ASSUME NEW s, Terms(s), NEW days \in Nat, NEW n \in Nat \ {0}
    PROVE  Terms(Prorate(s, days, n))
<1> DEFINE new(l) == IF l.type = "EARNING" /\ l.method = "FIXED"
                     THEN [l EXCEPT !.value = Round(@ * days, n)] ELSE l
           f == [l \in s.lines |-> new(l)]
<1>1. \A a \in Nat : Round(a * days, n) \in Nat
    <2> TAKE a \in Nat
    <2>1. a * days \in Nat
        OBVIOUS
    <2> QED BY <2>1, RoundNearest
<1>2. \A l \in s.lines : f[l] \in StructureLine
    <2> TAKE l \in s.lines
    <2>1. l \in StructureLine
        BY DEF Terms, SalaryTerms
    <2>2. l.value \in Nat
        BY <2>1 DEF StructureLine
    <2>3. PICK r \in Nat : r = Round(l.value * days, n)
        BY <1>1, <2>2
    <2>4. [l EXCEPT !.value = r] \in StructureLine
        BY <2>1 DEF StructureLine
    <2> QED BY <2>1, <2>3, <2>4
<1>3. IsFiniteSet({f[l] : l \in s.lines}) /\ {f[l] : l \in s.lines} \subseteq StructureLine
    <2> HIDE DEF f
    <2>1. DOMAIN f = s.lines
        BY DEF f
    <2> QED BY <1>2, <2>1, ValuesAreFinite DEF Terms
<1>4. {f[l] : l \in s.lines} = {new(l) : l \in s.lines}
    OBVIOUS
<1>5. PICK L : L = {new(l) : l \in s.lines}
    OBVIOUS
<1>6. Prorate(s, days, n) = [s EXCEPT !.base = Round(@ * days, n), !.lines = L]
    BY <1>5 DEF Prorate
<1>7. s.base \in Nat
    BY DEF Terms, SalaryTerms
<1>8. PICK b \in Nat : b = Round(s.base * days, n)
    BY <1>1, <1>7
<1>9. Prorate(s, days, n) = [s EXCEPT !.base = b, !.lines = L]
    BY <1>6, <1>8
<1>10. L \in SUBSET StructureLine /\ IsFiniteSet(L)
    BY <1>3, <1>4, <1>5
<1> QED BY <1>8, <1>9, <1>10 DEF Terms, SalaryTerms

LEMMA AmountIsNat ==
    ASSUME NEW l \in StructureLine, NEW base \in Nat, NEW gross \in Nat
    PROVE  AmountFor(l, base, gross) \in Nat
<1>1. l.value \in Nat /\ l.method \in LineMethod
    BY DEF StructureLine
<1>2. base * l.value \in Nat /\ gross * l.value \in Nat
    BY <1>1
<1>3. \A x \in Nat : Round(x, 100) \in Nat
    BY RoundNearest
<1> QED BY <1>1, <1>2, <1>3 DEF AmountFor, LineMethod

LEMMA AmountsArePayable ==
    ASSUME NEW E, IsFiniteSet(E), E \subseteq StructureLine, NEW base \in Nat, NEW gross \in Nat
    PROVE  Payables({Payable(l, AmountFor(l, base, gross)) : l \in E})
<1> DEFINE f == [l \in E |-> Payable(l, AmountFor(l, base, gross))]
<1>1. {f[l] : l \in E} = {Payable(l, AmountFor(l, base, gross)) : l \in E}
    OBVIOUS
<1>2. \A l \in E : Payable(l, AmountFor(l, base, gross)).amount \in Nat
    BY AmountIsNat DEF Payable
<1>3. IsFiniteSet({f[l] : l \in E})
    <2> HIDE DEF f
    <2>1. DOMAIN f = E
        BY DEF f
    <2> QED BY <2>1, ValuesAreFinite
<1> QED BY <1>1, <1>2, <1>3 DEF Payables

LEMMA BothPayable ==
    ASSUME NEW S, NEW T, Payables(S), Payables(T)
    PROVE  Payables(S \cup T)
BY FS_Union DEF Payables

LEMMA StructureIsPayable ==
    ASSUME NEW s, Terms(s)
    PROVE  Payables(StructureLines(s))
<1> DEFINE of(type)  == {l \in s.lines : l.type = type}
           base      == {[code |-> "BASE", type |-> "EARNING", amount |-> s.base]}
           earnings  == base \cup {Payable(l, AmountFor(l, s.base, 0)) : l \in of("EARNING")}
<1>1. s.base \in Nat /\ s.lines \subseteq StructureLine /\ IsFiniteSet(s.lines)
    BY DEF Terms, SalaryTerms
<1>2. \A type : IsFiniteSet(of(type)) /\ of(type) \subseteq StructureLine
    <2> TAKE type
    <2>1. of(type) \subseteq s.lines
        OBVIOUS
    <2> QED BY <1>1, <2>1, FS_Subset
<1>3. Payables(base)
    <2>1. IsFiniteSet(base)
        BY FS_Singleton
    <2> QED BY <1>1, <2>1 DEF Payables
<1>4. Payables({Payable(l, AmountFor(l, s.base, 0)) : l \in of("EARNING")})
    <2> HIDE DEF of
    <2> QED BY <1>1, <1>2, AmountsArePayable
<1>5. Payables(earnings)
    <2> HIDE DEF of
    <2> QED BY <1>3, <1>4, BothPayable
<1>6. PICK g \in Nat : g = Total(earnings)
    BY <1>5, TotalIsNat
<1>7. Payables({Payable(l, AmountFor(l, s.base, g)) : l \in of("DEDUCTION")})
    <2> HIDE DEF of, earnings
    <2> QED BY <1>1, <1>2, AmountsArePayable
<1>8. StructureLines(s) = earnings \cup {Payable(l, AmountFor(l, s.base, g)) : l \in of("DEDUCTION")}
    BY <1>6 DEF StructureLines
<1> QED BY <1>5, <1>7, <1>8, BothPayable

LEMMA MergedArePayable ==
    ASSUME NEW parts, IsFiniteSet(DOMAIN parts), \A i \in DOMAIN parts : Payables(parts[i])
    PROVE  Payables(MergedLines(parts))
<1> DEFINE same(l, part) == {k \in part : k.type = l.type /\ k.code = l.code}
           sum(l) == MapThenSumSet(LAMBDA i : Total(same(l, parts[i])), DOMAIN parts)
           all == UNION {parts[i] : i \in DOMAIN parts}
           f == [l \in all |-> Payable(l, sum(l))]
<1>1. IsFiniteSet(all)
    <2>1. IsFiniteSet({parts[i] : i \in DOMAIN parts})
        BY ValuesAreFinite
    <2>2. \A T \in {parts[i] : i \in DOMAIN parts} : IsFiniteSet(T)
        BY DEF Payables
    <2> QED BY <2>1, <2>2, FS_UNION
<1>2. \A l : sum(l) \in Nat
    <2> TAKE l
    <2> DEFINE v == [i \in DOMAIN parts |-> Total(same(l, parts[i]))]
    <2>1. \A i \in DOMAIN parts : v[i] \in Nat
        <3> TAKE i \in DOMAIN parts
        <3>1. Payables(same(l, parts[i]))
            <4>1. same(l, parts[i]) \subseteq parts[i]
                OBVIOUS
            <4>2. Payables(parts[i])
                OBVIOUS
            <4> QED BY <4>1, <4>2, FS_Subset DEF Payables
        <3>2. Total(same(l, parts[i])) \in Nat
            BY <3>1, TotalIsNat
        <3> QED BY <3>2
    <2>2. sum(l) = SumOver(v, DOMAIN parts)
        BY DEF SumOver, MapThenSumSet, MapThenFoldSet
    <2> HIDE DEF v, sum
    <2> QED BY <2>1, <2>2, SumNat
<1>3. IsFiniteSet({f[l] : l \in all})
    <2>1. DOMAIN f = all
        OBVIOUS
    <2> HIDE DEF f, all
    <2> QED BY <1>1, <2>1, ValuesAreFinite
<1>4. MergedLines(parts) = {Payable(l, sum(l)) : l \in all}
    BY DEF MergedLines
<1> HIDE DEF sum, all
<1>5. {f[l] : l \in all} = {Payable(l, sum(l)) : l \in all}
    BY DEF f
<1> HIDE DEF f
<1>6. \A l \in all : Payable(l, sum(l)).amount \in Nat
    BY <1>2 DEF Payable
<1> QED BY <1>3, <1>4, <1>5, <1>6 DEF Payables

(* What is known of the months and the deals.                              *)
LEMMA DealTerms ==
    ASSUME NEW deal \in Deals, NEW i \in DOMAIN deal
    PROVE  /\ i \in 1..Len(deal) /\ Len(deal) \in Nat
           /\ Terms(deal[i].structure) /\ deal[i].from \in Nat
           /\ deal[i].structure.annualRent \in Nat
           /\ deal[i].structure.payFrequency \in DOMAIN PayFrequency
<1>1. deal \in Seq([structure : SalaryTerms, from : Nat])
    BY TaxAssumption
<1>2. deal[i] \in [structure : SalaryTerms, from : Nat] /\ i \in 1..Len(deal) /\ Len(deal) \in Nat
    <2>1. PICK S : S = [structure : SalaryTerms, from : Nat]
        OBVIOUS
    <2>2. deal \in Seq(S)
        BY <1>1, <2>1
    <2>3. deal[i] \in S /\ i \in 1..Len(deal) /\ Len(deal) \in Nat
        BY <2>2
    <2> QED BY <2>1, <2>3
<1>3. IsFiniteSet(deal[i].structure.lines)
    BY TaxAssumption
<1>4. deal[i].structure \in SalaryTerms /\ deal[i].from \in Nat
    BY <1>2
<1> QED BY <1>2, <1>3, <1>4 DEF Terms, SalaryTerms

LEMMA DaysAreNat ==
    ASSUME hireDate \in HireDates, NEW m \in Months, NEW deal \in Deals, NEW i \in DOMAIN deal
    PROVE  DaysOf(m, deal, i) \in Nat
<1>1. FirstDay[m] \in Int /\ LastDay[m] \in Int /\ hireDate \in Int
    BY TaxAssumption
<1>2. \A j \in DOMAIN deal : deal[j].from \in Int
    BY DealTerms
<1> DEFINE start == FirstDay[m] + deal[i].from - 1
           end   == IF i = Len(deal) THEN LastDay[m] ELSE FirstDay[m] + deal[i + 1].from - 2
           x     == end - Max({start, hireDate}) + 1
<1>3. start \in Int
    BY <1>1, <1>2
<1>4. end \in Int
    <2>1. i = Len(deal) \/ i + 1 \in DOMAIN deal
        BY DealTerms, TaxAssumption
    <2> QED BY <1>1, <1>2, <2>1
<1>5. Max({start, hireDate}) \in Int
    <2> HIDE DEF start
    <2> QED BY <1>1, <1>3, LargerOfTwo
<1>6. x \in Int
    <2> HIDE DEF start, end
    <2> QED BY <1>4, <1>5
<1>7. DaysOf(m, deal, i) = Max({0, x})
    BY DEF DaysOf
<1> HIDE DEF x
<1>8. Max({0, x}) \in Nat
    BY <1>6, LargerOfTwo
<1> QED BY <1>7, <1>8

LEMMA ContractIsPayable ==
    ASSUME hireDate \in HireDates, NEW m \in Months, NEW deal \in Deals
    PROVE  Payables(ContractualLines(m, deal))
<1> DEFINE n    == LastDay[m] - FirstDay[m] + 1
           paid == {i \in DOMAIN deal : DaysOf(m, deal, i) > 0}
           parts == [i \in paid |-> StructureLines(Prorate(deal[i].structure, DaysOf(m, deal, i), n))]
<1>1. n \in Nat \ {0}
    BY TaxAssumption
<1>2. IsFiniteSet(paid)
    <2>1. deal \in Seq([structure : SalaryTerms, from : Nat])
        BY TaxAssumption
    <2>2. Len(deal) \in Int /\ 1 \in Int /\ DOMAIN deal = 1..Len(deal)
        BY <2>1
    <2>3. IsFiniteSet(1..Len(deal))
        BY <2>2, FS_Interval
    <2>4. paid \subseteq 1..Len(deal)
        BY <2>2
    <2> QED BY <2>3, <2>4, FS_Subset
<1>3. \A i \in paid : Payables(parts[i])
    <2> SUFFICES ASSUME NEW i \in paid PROVE Payables(parts[i])
        OBVIOUS
    <2>1. Terms(deal[i].structure) /\ DaysOf(m, deal, i) \in Nat
        BY DealTerms, DaysAreNat
    <2> HIDE DEF n
    <2>2. Terms(Prorate(deal[i].structure, DaysOf(m, deal, i), n))
        BY <1>1, <2>1, ProrateTerms
    <2>3. Payables(StructureLines(Prorate(deal[i].structure, DaysOf(m, deal, i), n)))
        BY <2>2, StructureIsPayable
    <2> QED BY <2>3
<1>4. DOMAIN parts = paid
    OBVIOUS
<1>5. Payables(MergedLines(parts))
    <2> HIDE DEF parts, paid
    <2> QED BY <1>2, <1>3, <1>4, MergedArePayable
<1> QED BY <1>5 DEF ContractualLines

-----------------------------------------------------------------------------
(* Tax: nothing on nothing, and never less than nothing.                   *)
LEMMA TaxIsNat ==
    ASSUME NEW t \in Nat
    PROVE  AnnualPaye(t) \in Nat
<1> DEFINE lower(i) == IF i = 1 THEN 0 ELSE TaxBands[i - 1].upTo
           within(i) == Max({0, Min({t, TaxBands[i].upTo}) - lower(i)})
           v == [i \in 1..6 |-> within(i) * TaxBands[i].rate]
<1>1. DOMAIN TaxBands = 1..6
    BY DEF TaxBands
<1>2. \A i \in 1..6 : TaxBands[i].upTo \in Nat /\ TaxBands[i].rate \in Nat /\ lower(i) \in Nat
    BY DEF TaxBands
<1>3. \A i \in 1..6 : v[i] \in Nat
    <2> TAKE i \in 1..6
    <2> HIDE DEF lower
    <2>1. Min({t, TaxBands[i].upTo}) \in Int
        BY <1>2, SmallerOfTwo
    <2>2. Min({t, TaxBands[i].upTo}) - lower(i) \in Int
        BY <1>2, <2>1
    <2>3. within(i) \in Nat
        BY <2>2, LargerOfTwo
    <2> HIDE DEF within
    <2> QED BY <1>2, <2>3
<1>4. AnnualPaye(t) = Round(SumOver(v, 1..6), 100)
    <2>1. MapThenSumSet(LAMBDA i : within(i) * TaxBands[i].rate, 1..6) = SumOver(v, 1..6)
        BY DEF SumOver, MapThenSumSet, MapThenFoldSet
    <2> QED BY <1>1, <2>1 DEF AnnualPaye
<1>5. SumOver(v, 1..6) \in Nat
    <2>1. 1 \in Int /\ 6 \in Int
        OBVIOUS
    <2>2. IsFiniteSet(1..6)
        BY <2>1, FS_Interval
    <2> HIDE DEF v
    <2> QED BY <1>3, <2>2, SumNat
<1> QED BY <1>4, <1>5, RoundNearest

LEMMA NothingIsUntaxed == AnnualPaye(0) = 0
<1> DEFINE lower(i) == IF i = 1 THEN 0 ELSE TaxBands[i - 1].upTo
           within(i) == Max({0, Min({0, TaxBands[i].upTo}) - lower(i)})
           v == [i \in 1..6 |-> within(i) * TaxBands[i].rate]
<1>1. DOMAIN TaxBands = 1..6
    BY DEF TaxBands
<1>2. \A i \in 1..6 : TaxBands[i].upTo \in Nat /\ TaxBands[i].rate \in Nat /\ lower(i) \in Nat
    BY DEF TaxBands
<1>3. \A i \in 1..6 : v[i] = 0
    <2> TAKE i \in 1..6
    <2> HIDE DEF lower
    <2>1. Min({0, TaxBands[i].upTo}) = 0
        BY <1>2, SmallerOfTwo
    <2>2. 0 - lower(i) \in Int /\ 0 - lower(i) <= 0
        BY <1>2, <2>1
    <2>3. within(i) = 0
        <3>1. PICK x \in Int : x = 0 - lower(i) /\ x <= 0
            BY <2>2
        <3>2. Max({0, x}) = 0
            BY <3>1, LargerOfTwo
        <3> QED BY <2>1, <3>1, <3>2
    <2> HIDE DEF within
    <2> QED BY <1>2, <2>3
<1>4. AnnualPaye(0) = Round(SumOver(v, 1..6), 100)
    <2>1. MapThenSumSet(LAMBDA i : within(i) * TaxBands[i].rate, 1..6) = SumOver(v, 1..6)
        BY DEF SumOver, MapThenSumSet, MapThenFoldSet
    <2> QED BY <1>1, <2>1 DEF AnnualPaye
<1>5. SumOver(v, 1..6) = 0
    <2>1. 1 \in Int /\ 6 \in Int
        OBVIOUS
    <2>2. IsFiniteSet(1..6)
        BY <2>1, FS_Interval
    <2> HIDE DEF v
    <2> QED BY <1>3, <2>2, SumZero
<1>6. Round(0, 100) = 0
    BY DEF Round
<1> QED BY <1>4, <1>5, <1>6

-----------------------------------------------------------------------------
(* Payslips, and what their PAYE was computed from.                        *)
Payslip == [status : {"NONE", "CALCULATED", "APPROVED"}, gross : Nat, deductions : Nat, net : Int,
            taxable : Nat \cup {NoTaxable}, paye : Nat, seen : SUBSET Months,
            computed : BOOLEAN, relief : Nat]
Before(m, f) == PeriodsBetween(Max({hireDate, YearStart(m)}), FirstDay[m], f)
After(m, f) == PeriodsBetween(LastDay[m], YearEnd(m), f)
PaidAs(m, slip, f) == slip.paye = CumulativePaye(slip.taxable, slip.seen, Before(m, f), After(m, f), slip.relief)

(* The frequencies in which somebody may be paid at the end of a month.    *)
Frequencies == {deal[Len(deal)].structure.payFrequency : deal \in {d \in Deals : d # <<>>}}

(* A payslip is computed on approved payslips that are not computed again, *)
(* so its PAYE is still what the calculator makes of them.                 *)
Slips ==
    /\ hireDate \in HireDates
    /\ payslips \in [Months -> Payslip]
Traced(m) ==
    LET slip == payslips[m]
    IN  /\ slip.seen \subseteq YearToDate(m)
        /\ slip.computed => slip.taxable # NoTaxable /\ \E f \in Frequencies : PaidAs(m, slip, f)
TaxInv == Slips /\ \A m \in Months : Traced(m)

LEMMA SlipSums ==
    ASSUME Slips, NEW ms, ms \subseteq Months
    PROVE  /\ IsFiniteSet(ms)
           /\ SumOf(ms, "paye") = SumOver([k \in Months |-> payslips[k].paye], ms)
           /\ SumOf(ms, "paye") \in Nat
           /\ SumOf(ms, "taxable") = SumOver([k \in Months |-> payslips[k].taxable], ms)
           /\ (\A k \in ms : payslips[k].taxable # NoTaxable) => SumOf(ms, "taxable") \in Nat
<1> DEFINE p == [k \in Months |-> payslips[k]["paye"]]
           t == [k \in Months |-> payslips[k]["taxable"]]
           pp == [k \in Months |-> payslips[k].paye]
           tt == [k \in Months |-> payslips[k].taxable]
<1>1. IsFiniteSet(ms)
    BY TaxAssumption, FS_Subset
<1>2. SumOf(ms, "paye") = SumOver(p, ms) /\ SumOf(ms, "taxable") = SumOver(t, ms)
    BY DEF SumOf
<1>3. \A k \in ms : /\ p[k] \in Nat /\ p[k] = pp[k] /\ pp[k] \in Nat
                    /\ t[k] \in Int /\ t[k] = tt[k] /\ tt[k] \in Int
                    /\ payslips[k].taxable # NoTaxable => tt[k] \in Nat
    BY DEF Slips, Payslip, NoTaxable
<1> HIDE DEF p, t, pp, tt
<1>4. SumOver(p, ms) = SumOver(pp, ms) /\ SumOver(t, ms) = SumOver(tt, ms)
    BY <1>1, <1>3, SumEqual
<1>5. SumOver(pp, ms) \in Nat
    BY <1>1, <1>3, SumNat
<1>6. (\A k \in ms : payslips[k].taxable # NoTaxable) => SumOver(tt, ms) \in Nat
    BY <1>1, <1>3, SumNat
<1> QED BY <1>1, <1>2, <1>4, <1>5, <1>6 DEF pp, tt

LEMMA PeriodsAreNat ==
    ASSUME Slips, NEW m \in Months, NEW f \in DOMAIN PayFrequency
    PROVE  /\ Before(m, f) \in Nat /\ After(m, f) \in Nat
           /\ YearStart(m) \in Int /\ YearEnd(m) \in Int
           /\ Max({hireDate, YearStart(m)}) \in Int
<1>1. FirstDay[m] \in Int /\ LastDay[m] \in Int /\ hireDate \in Int
    BY TaxAssumption DEF Slips
<1>2. YearStart(m) \in Int /\ YearEnd(m) \in Int
    BY <1>1 DEF YearStart, YearEnd
<1>3. Max({hireDate, YearStart(m)}) \in Int
    BY <1>1, <1>2, LargerOfTwo
<1>4. PayFrequency[f] \in Nat
    BY DEF PayFrequency
<1>5. ASSUME NEW a \in Int, NEW b \in Int PROVE PeriodsBetween(a, b, f) \in Nat
    <2>1. CASE b <= a
        BY <2>1 DEF PeriodsBetween
    <2>2. CASE ~(b <= a)
        <3>1. b - a \in Nat
            BY <2>2, <1>5
        <3>2. (b - a) * PayFrequency[f] \in Nat
            BY <1>4, <3>1
        <3>3. Round((b - a) * PayFrequency[f], 365) \in Nat
            BY <3>2, RoundNearest
        <3> QED BY <2>2, <3>3 DEF PeriodsBetween
    <2> QED BY <2>1, <2>2
<1> QED BY <1>1, <1>2, <1>3, <1>5 DEF Before, After

LEMMA PayeIsNat ==
    ASSUME Slips, NEW t \in Nat, NEW ytd, ytd \subseteq Months,
           \A k \in ytd : payslips[k].taxable # NoTaxable,
           NEW before \in Nat, NEW after \in Nat, NEW relief \in Nat
    PROVE  CumulativePaye(t, ytd, before, after, relief) \in Nat
<1> DEFINE ytdTaxable == IF ytd # {} THEN SumOf(ytd, "taxable") ELSE t * before
           projected == ytdTaxable + t * (1 + after)
           annualTax == AnnualPaye(Max({0, projected - relief}))
<1>1. ytdTaxable \in Nat
    <2>1. t * before \in Nat
        OBVIOUS
    <2>2. SumOf(ytd, "taxable") \in Nat
        BY SlipSums
    <2> QED BY <2>1, <2>2
<1>2. t * (1 + after) \in Nat
    OBVIOUS
<1>3. projected \in Nat
    <2> HIDE DEF ytdTaxable
    <2> QED BY <1>1, <1>2
<1>4. annualTax \in Nat
    <2> HIDE DEF projected
    <2>1. projected - relief \in Int
        BY <1>3
    <2>2. Max({0, projected - relief}) \in Nat
        BY <2>1, LargerOfTwo
    <2> QED BY <2>2, TaxIsNat
<1>5. PICK y \in Nat, p \in Nat, a \in Nat : y = ytdTaxable /\ p = projected /\ a = annualTax
    BY <1>1, <1>3, <1>4
<1>6. a * (y + t) \in Nat /\ a * t \in Nat
    OBVIOUS
<1>7. CASE p <= 0
    BY <1>5, <1>7 DEF CumulativePaye
<1>8. CASE ~(p <= 0)
    <2>1. Round(a * (y + t), p) \in Nat /\ Round(a * t, p) \in Nat
        <3>1. p \in Nat \ {0}
            BY <1>8
        <3>2. \A n \in Nat : Round(n, p) \in Nat
            BY <3>1, RoundNearest
        <3> QED BY <1>6, <3>2
    <2>2. SumOf(ytd, "paye") \in Nat
        BY SlipSums
    <2>3. Round(a * (y + t), p) - SumOf(ytd, "paye") \in Int
        BY <2>1, <2>2
    <2>4. Max({0, Round(a * (y + t), p) - SumOf(ytd, "paye")}) \in Nat
        BY <2>3, LargerOfTwo
    <2>5. CumulativePaye(t, ytd, before, after, relief)
              = IF ytd # {} THEN Max({0, Round(a * (y + t), p) - SumOf(ytd, "paye")})
                ELSE Round(a * t, p)
        BY <1>5, <1>8 DEF CumulativePaye
    <2> QED BY <2>1, <2>4, <2>5
<1> QED BY <1>7, <1>8

(* What the calculator makes of a month.                                   *)
LEMMA ComputationIsTraced ==
    ASSUME Slips, NEW m \in Months, NEW deal \in Deals, NEW i \in DOMAIN deal
    PROVE  LET c == Computation(m, deal)
           IN  /\ c \in Payslip /\ c.status = "CALCULATED"
               /\ c.seen \subseteq YearToDate(m)
               /\ c.computed => c.taxable # NoTaxable /\ \E f \in Frequencies : PaidAs(m, c, f)
<1> DEFINE lines      == ContractualLines(m, deal)
           of(type, codes) == {l \in lines : l.type = type /\ l.code \in codes}
           own(codes) == of("DEDUCTION", codes)
           last       == deal[Len(deal)].structure
           gross      == Total({l \in lines : l.type = "EARNING"})
           agreed     == Total({l \in lines : l.type = "DEDUCTION"})
           or(codes, amount) == IF own(codes) = {} THEN amount ELSE Total(own(codes))
           pension    == or({"PENSION"}, Round(Total(of("EARNING", Pensionable)) * 8, 100))
           nhf        == or({"NHF"}, Round(Total(of("EARNING", {"BASE"})) * 25, 1000))
           taxable    == Max({0, gross - pension - nhf - Total(own(TaxDeductible))})
           relief     == RentRelief(last.annualRent)
           ytd        == YearToDate(m)
           before     == PeriodsBetween(Max({hireDate, YearStart(m)}), FirstDay[m], last.payFrequency)
           after      == PeriodsBetween(LastDay[m], YearEnd(m), last.payFrequency)
           paye       == or({"PAYE", "TAX"}, CumulativePaye(taxable, ytd, before, after, relief))
           added(codes, amount) == IF own(codes) = {} THEN amount ELSE 0
           deductions == agreed + added({"PENSION"}, pension) + added({"NHF"}, nhf)
                             + added({"PAYE", "TAX"}, paye)
           contract   == [NoPayslip EXCEPT !.status = "CALCULATED", !.gross = gross,
                              !.deductions = agreed, !.net = gross - agreed]
           full       == [contract EXCEPT !.deductions = deductions, !.net = gross - deductions,
                              !.taxable = taxable, !.paye = paye, !.seen = ytd,
                              !.computed = (own({"PAYE", "TAX"}) = {}), !.relief = relief]
<1>1. Computation(m, deal) = IF last.currency # "NGN" THEN contract ELSE full
    BY DEF Computation
<1>2. Payables(lines)
    BY ContractIsPayable DEF Slips
<1>3. \A S : S \subseteq lines => Total(S) \in Nat
    <2> HIDE DEF lines
    <2> TAKE S
    <2> HAVE S \subseteq lines
    <2>1. Payables(S)
        BY <1>2, FS_Subset DEF Payables
    <2> QED BY <2>1, TotalIsNat
<1>4. gross \in Nat /\ agreed \in Nat
    <2> HIDE DEF lines
    <2> QED BY <1>3
<1>5. \A type, codes : Total(of(type, codes)) \in Nat
    <2> HIDE DEF lines
    <2> TAKE type, codes
    <2>1. of(type, codes) \subseteq lines
        OBVIOUS
    <2> QED BY <1>3, <2>1
<1>6. \A codes, x : x \in Nat => or(codes, x) \in Nat /\ added(codes, x) \in Nat
    <2> HIDE DEF of
    <2> QED BY <1>5
<1>7. \A n \in Nat : Round(n * 8, 100) \in Nat /\ Round(n * 25, 1000) \in Nat /\ Round(n * 20, 100) \in Nat
    <2> TAKE n \in Nat
    <2>1. PICK a \in Nat, b \in Nat, c \in Nat : a = n * 8 /\ b = n * 25 /\ c = n * 20
        OBVIOUS
    <2>2. \A x \in Nat : Round(x, 100) \in Nat
        BY RoundNearest
    <2>3. \A x \in Nat : Round(x, 1000) \in Nat
        BY RoundNearest
    <2> QED BY <2>1, <2>2, <2>3
<1>8. pension \in Nat /\ nhf \in Nat
    <2> HIDE DEF of, or
    <2> QED BY <1>5, <1>6, <1>7
<1>9. taxable \in Nat
    <2> HIDE DEF gross, pension, nhf, of
    <2>1. gross - pension - nhf - Total(own(TaxDeductible)) \in Int
        BY <1>4, <1>5, <1>8
    <2> QED BY <2>1, LargerOfTwo
<1>10. last.annualRent \in Nat /\ last.payFrequency \in DOMAIN PayFrequency /\ last.payFrequency \in Frequencies
    <2>1. Len(deal) \in DOMAIN deal /\ deal # <<>>
        <3>1. deal \in Seq([structure : SalaryTerms, from : Nat])
            BY TaxAssumption
        <3> QED BY <3>1
    <2> QED BY <2>1, DealTerms DEF Frequencies
<1>11. relief \in Nat
    <2>1. Round(last.annualRent * 20, 100) \in Nat
        BY <1>7, <1>10
    <2>2. Min({Round(last.annualRent * 20, 100), 5000}) \in Nat
        BY <2>1, SmallerOfTwo
    <2> QED BY <2>2 DEF RentRelief
<1>12. before \in Nat /\ after \in Nat
    BY <1>10, PeriodsAreNat DEF Before, After
<1>13. ytd \subseteq Months /\ \A k \in ytd : payslips[k].taxable # NoTaxable
    BY DEF YearToDate
<1>14. CumulativePaye(taxable, ytd, before, after, relief) \in Nat
    <2> HIDE DEF taxable, ytd, before, after, relief
    <2> QED BY <1>9, <1>11, <1>12, <1>13, PayeIsNat
<1>15. paye \in Nat
    <2> HIDE DEF taxable, ytd, before, after, relief, or
    <2> QED BY <1>6, <1>14
<1>16. deductions \in Nat
    <2> HIDE DEF agreed, pension, nhf, paye, own
    <2> QED BY <1>4, <1>6, <1>8, <1>15
<1>17. contract \in Payslip /\ contract.status = "CALCULATED" /\ contract.seen = {} /\ ~contract.computed
    <2> HIDE DEF gross, agreed
    <2>1. gross - agreed \in Int
        BY <1>4
    <2> QED BY <1>4, <2>1 DEF NoPayslip, Payslip
<1>18. own({"PAYE", "TAX"}) = {} => paye = CumulativePaye(taxable, ytd, before, after, relief)
    <2> HIDE DEF own, taxable, ytd, before, after, relief
    <2> QED OBVIOUS
<1>19. /\ full \in Payslip /\ full.status = "CALCULATED" /\ full.seen = ytd /\ full.taxable = taxable
       /\ full.relief = relief /\ full.paye = paye /\ full.computed = (own({"PAYE", "TAX"}) = {})
    <2>1. gross - deductions \in Int
        <3> HIDE DEF gross, deductions
        <3> QED BY <1>4, <1>16
    <2>2. PICK o \in BOOLEAN : o = (own({"PAYE", "TAX"}) = {})
        OBVIOUS
    <2> HIDE DEF gross, agreed, deductions, taxable, paye, ytd, relief, own
    <2> QED BY <1>4, <1>9, <1>11, <1>13, <1>15, <1>16, <2>1, <2>2 DEF NoPayslip, Payslip
<1>20. CASE last.currency # "NGN"
    <2> HIDE DEF contract, full, last
    <2> QED BY <1>1, <1>17, <1>20
<1>21. CASE last.currency = "NGN"
    <2>1. full.computed => PaidAs(m, full, last.payFrequency)
        <3>1. before = Before(m, last.payFrequency) /\ after = After(m, last.payFrequency)
            BY DEF Before, After
        <3> HIDE DEF full, own, taxable, paye, ytd, relief, before, after, last
        <3> QED BY <1>18, <1>19, <3>1 DEF PaidAs
    <2>2. taxable # NoTaxable
        <3> HIDE DEF taxable
        <3> QED BY <1>9 DEF NoTaxable
    <2> HIDE DEF contract, full, taxable, own, paye
    <2>3. Computation(m, deal) = full
        BY <1>1, <1>21
    <2> QED BY <1>10, <1>19, <2>1, <2>2, <2>3
<1> QED BY <1>20, <1>21

(* The calculator looks at nothing but the payslips of the year to date.   *)
LEMMA SameHistory ==
    ASSUME Slips, Slips', UNCHANGED hireDate, NEW m \in Months, NEW ytd, ytd \subseteq Months,
           \A k \in ytd : payslips'[k].taxable = payslips[k].taxable /\ payslips'[k].paye = payslips[k].paye,
           NEW slip, NEW f
    PROVE  /\ SumOf(ytd, "paye")' = SumOf(ytd, "paye")
           /\ SumOf(ytd, "taxable")' = SumOf(ytd, "taxable")
           /\ slip.seen = ytd => (PaidAs(m, slip, f)' <=> PaidAs(m, slip, f))
<1> DEFINE p == [k \in Months |-> payslips[k].paye]
           t == [k \in Months |-> payslips[k].taxable]
           q == [k \in Months |-> payslips'[k]["paye"]]
           u == [k \in Months |-> payslips'[k]["taxable"]]
<1>1. IsFiniteSet(ytd) /\ SumOf(ytd, "paye") = SumOver(p, ytd) /\ SumOf(ytd, "taxable") = SumOver(t, ytd)
    BY SlipSums
<1>2. SumOf(ytd, "paye")' = SumOver(q, ytd) /\ SumOf(ytd, "taxable")' = SumOver(u, ytd)
    <2>1. SumOf(ytd, "paye")' = SumOver([k \in Months |-> payslips[k]["paye"]], ytd)'
        BY DEF SumOf
    <2>2. SumOf(ytd, "taxable")' = SumOver([k \in Months |-> payslips[k]["taxable"]], ytd)'
        BY DEF SumOf
    <2> QED BY <2>1, <2>2
<1>3. \A k \in ytd : p[k] \in Int /\ p[k] = q[k] /\ t[k] \in Int /\ t[k] = u[k]
    BY DEF Slips, Payslip, NoTaxable
<1> HIDE DEF p, t, q, u
<1>4. SumOver(p, ytd) = SumOver(q, ytd) /\ SumOver(t, ytd) = SumOver(u, ytd)
    BY <1>1, <1>3, SumEqual
<1>5. SumOf(ytd, "paye")' = SumOf(ytd, "paye") /\ SumOf(ytd, "taxable")' = SumOf(ytd, "taxable")
    BY <1>1, <1>2, <1>4
<1>6. ASSUME NEW a, NEW b, NEW c, NEW d
      PROVE  CumulativePaye(a, ytd, b, c, d)' = CumulativePaye(a, ytd, b, c, d)
    BY <1>5 DEF CumulativePaye
<1>7. Before(m, f)' = Before(m, f) /\ After(m, f)' = After(m, f)
    BY DEF Before, After
<1>8. ASSUME slip.seen = ytd
      PROVE  PaidAs(m, slip, f)' <=> PaidAs(m, slip, f)
    <2>1. PICK b, c : b = Before(m, f) /\ c = After(m, f)
        OBVIOUS
    <2>2. CumulativePaye(slip.taxable, ytd, b, c, slip.relief)' = CumulativePaye(slip.taxable, ytd, b, c, slip.relief)
        BY <1>6
    <2>3. PaidAs(m, slip, f)' <=> slip.paye = CumulativePaye(slip.taxable, ytd, Before(m, f), After(m, f), slip.relief)'
        BY <1>8 DEF PaidAs
    <2> QED BY <1>7, <1>8, <2>1, <2>2, <2>3 DEF PaidAs
<1> QED BY <1>5, <1>8

LEMMA TaxStarts == TaxInit => TaxInv
<1> SUFFICES ASSUME TaxInit PROVE TaxInv
    OBVIOUS
<1>1. NoPayslip \in Payslip /\ NoPayslip.seen = {} /\ ~NoPayslip.computed
    BY DEF NoPayslip, Payslip
<1>2. Slips
    BY <1>1 DEF TaxInit, Slips
<1>3. \A m \in Months : Traced(m)
    BY <1>1 DEF TaxInit, Traced
<1> QED BY <1>2, <1>3 DEF TaxInv

(* Payslips of the year to date that keep their columns keep what was      *)
(* computed from them.                                                     *)
LEMMA TracedStays ==
    ASSUME Slips, Slips', UNCHANGED hireDate, NEW m \in Months, Traced(m),
           \A k \in Months : payslips[k].status = "APPROVED" => payslips'[k] = payslips[k],
           payslips'[m].seen = payslips[m].seen, payslips'[m].computed = payslips[m].computed,
           payslips'[m].taxable = payslips[m].taxable, payslips'[m].paye = payslips[m].paye,
           payslips'[m].relief = payslips[m].relief
    PROVE  Traced(m)'
<1> DEFINE slip == payslips[m]
<1>1. PICK ytd : ytd = slip.seen
    OBVIOUS
<1>2. ytd \subseteq Months /\ \A k \in ytd : payslips'[k] = payslips[k] /\ k \in YearToDate(m)
    BY <1>1 DEF Traced, YearToDate
<1>3. ytd \subseteq YearToDate(m)'
    BY <1>2 DEF YearToDate, YearStart
<1>4. PICK t, p, r : t = slip.taxable /\ p = slip.paye /\ r = slip.relief
    OBVIOUS
<1>5. ASSUME NEW f \in Frequencies, PaidAs(m, slip, f)
      PROVE  PaidAs(m, slip, f)'
    <2> DEFINE c == [taxable |-> t, paye |-> p, seen |-> ytd, relief |-> r]
    <2>1. PaidAs(m, c, f)
        BY <1>1, <1>4, <1>5 DEF PaidAs
    <2>2. c.seen = ytd
        OBVIOUS
    <2>3. PaidAs(m, c, f)'
        <3> HIDE DEF c
        <3> QED BY <1>2, <2>1, <2>2, SameHistory
    <2>4. payslips'[m].taxable = t /\ payslips'[m].paye = p /\ payslips'[m].seen = ytd /\ payslips'[m].relief = r
        BY <1>1, <1>4
    <2> QED BY <2>3, <2>4 DEF PaidAs
<1>6. payslips'[m].computed => payslips'[m].taxable # NoTaxable /\ \E f \in Frequencies : PaidAs(m, slip, f)'
    BY <1>5 DEF Traced
<1> QED BY <1>1, <1>3, <1>6 DEF Traced

LEMMA TaxStep == TaxInv /\ [TaxNext]_tax => TaxInv'
<1> SUFFICES ASSUME TaxInv, [TaxNext]_tax PROVE TaxInv'
    OBVIOUS
<1>1. CASE UNCHANGED tax
    <2>1. Slips' /\ UNCHANGED <<hireDate, payslips>>
        BY <1>1 DEF tax, TaxInv, Slips
    <2>2. \A m \in Months : Traced(m)'
        BY <2>1, TracedStays DEF TaxInv
    <2> QED BY <2>1, <2>2 DEF TaxInv
<1>2. ASSUME NEW m \in Months, NEW deal \in Deals, Calculate(m, deal)
      PROVE  TaxInv'
    <2>1. PICK i \in DOMAIN deal : TRUE
        BY <1>2 DEF Calculate
    <2>2. PICK c : c = Computation(m, deal)
        OBVIOUS
    <2>3. /\ c \in Payslip /\ c.status = "CALCULATED" /\ c.seen \subseteq YearToDate(m)
          /\ c.computed => c.taxable # NoTaxable /\ \E f \in Frequencies : PaidAs(m, c, f)
        BY <2>1, <2>2, ComputationIsTraced DEF TaxInv
    <2>4. /\ payslips' = [payslips EXCEPT ![m] = c] /\ UNCHANGED hireDate
          /\ payslips[m].status # "APPROVED"
        BY <1>2, <2>2 DEF Calculate
    <2>5. Slips'
        BY <2>3, <2>4 DEF TaxInv, Slips
    <2>6. /\ payslips'[m] = c /\ \A k \in Months \ {m} : payslips'[k] = payslips[k]
          /\ \A k \in Months : payslips[k].status = "APPROVED" => payslips'[k] = payslips[k]
        BY <2>4 DEF TaxInv, Slips
    <2>7. \A k \in Months \ {m} : Traced(k)'
        <3> TAKE k \in Months \ {m}
        <3>1. Traced(k) /\ payslips'[k] = payslips[k]
            BY <2>6 DEF TaxInv
        <3> QED BY <2>4, <2>5, <2>6, <3>1, TracedStays DEF TaxInv
    <2>8. Traced(m)'
        <3>1. PICK ytd : ytd = c.seen
            OBVIOUS
        <3>2. ytd \subseteq Months /\ \A k \in ytd : payslips[k].status = "APPROVED" /\ k \in YearToDate(m)
            BY <2>3, <3>1 DEF YearToDate
        <3>3. \A k \in ytd : payslips'[k] = payslips[k]
            BY <2>6, <3>2
        <3>4. ytd \subseteq YearToDate(m)'
            BY <3>2, <3>3 DEF YearToDate, YearStart
        <3>5. \A f : PaidAs(m, c, f) => PaidAs(m, c, f)'
            <4> TAKE f
            <4> QED BY <2>4, <2>5, <3>1, <3>2, <3>3, SameHistory DEF TaxInv
        <3> QED BY <2>3, <2>6, <3>1, <3>4, <3>5 DEF Traced, PaidAs
    <2> QED BY <2>5, <2>7, <2>8 DEF TaxInv
<1>3. ASSUME NEW m \in Months, ApproveMonth(m)
      PROVE  TaxInv'
    <2>1. /\ payslips' = [payslips EXCEPT ![m].status = "APPROVED"] /\ UNCHANGED hireDate
          /\ payslips[m].status = "CALCULATED"
        BY <1>3 DEF ApproveMonth
    <2>2. \A k \in Months : payslips[k] \in Payslip
        BY DEF TaxInv, Slips
    <2>3. /\ \A k \in Months \ {m} : payslips'[k] = payslips[k]
          /\ payslips'[m] = [payslips[m] EXCEPT !.status = "APPROVED"]
        BY <2>1 DEF TaxInv, Slips
    <2>4. payslips'[m] \in Payslip
        BY <2>2, <2>3 DEF Payslip
    <2>5. Slips'
        BY <2>1, <2>4 DEF TaxInv, Slips
    <2>6. \A k \in Months : payslips[k].status = "APPROVED" => payslips'[k] = payslips[k]
        BY <2>1, <2>3
    <2>7. \A k \in Months : /\ payslips'[k].seen = payslips[k].seen /\ payslips'[k].computed = payslips[k].computed
                            /\ payslips'[k].taxable = payslips[k].taxable /\ payslips'[k].paye = payslips[k].paye
                            /\ payslips'[k].relief = payslips[k].relief
        BY <2>2, <2>3 DEF Payslip
    <2>8. \A k \in Months : Traced(k)'
        BY <2>1, <2>5, <2>6, <2>7, TracedStays DEF TaxInv
    <2> QED BY <2>5, <2>8 DEF TaxInv
<1> QED BY <1>1, <1>2, <1>3 DEF TaxNext

-----------------------------------------------------------------------------
(* The last month of a year on the approved payslips of all the others     *)
(* projects nothing.                                                       *)
LEMMA YearIsCorrected == TaxInv => YearSelfCorrects
<1> SUFFICES ASSUME TaxInv, NEW m \in Months,
                    NEW others, others = {k \in Months \ {m} : /\ YearStart(k) = YearStart(m)
                                                   /\ payslips[k].taxable # NoTaxable},
                    payslips[m].computed, LastDay[m] = YearEnd(m),
                    others # {}, payslips[m].seen = others
             PROVE  SumOf(others \cup {m}, "paye")
                        = Max({SumOf(others, "paye"),
                               AnnualPaye(Max({0, SumOf(others \cup {m}, "taxable") - payslips[m].relief}))})
    BY DEF YearSelfCorrects
<1> DEFINE slip == payslips[m]
<1>1. slip \in Payslip /\ slip.taxable # NoTaxable /\ Slips
    BY DEF TaxInv, Slips, Traced
<1>2. PICK f \in Frequencies : PaidAs(m, slip, f)
    BY DEF TaxInv, Traced
<1>3. PICK t \in Nat, r \in Nat, p \in Nat : t = slip.taxable /\ r = slip.relief /\ p = slip.paye
    BY <1>1 DEF Payslip
<1>4. others \subseteq Months /\ m \notin others /\ \A k \in others : payslips[k].taxable # NoTaxable
    OBVIOUS
<1>5. PICK y \in Nat, s \in Nat : y = SumOf(others, "taxable") /\ s = SumOf(others, "paye")
    BY <1>1, <1>4, SlipSums
<1>6. SumOf(others \cup {m}, "taxable") = y + t /\ SumOf(others \cup {m}, "paye") = s + p
    <2> DEFINE pp == [k \in Months |-> payslips[k].paye]
               tt == [k \in Months |-> payslips[k].taxable]
    <2>1. IsFiniteSet(others) /\ y = SumOver(tt, others) /\ s = SumOver(pp, others)
        BY <1>1, <1>4, <1>5, SlipSums
    <2>2. \A k \in others \cup {m} : pp[k] \in Int /\ tt[k] \in Int
        BY <1>1, <1>4 DEF Slips, Payslip, NoTaxable
    <2>3. tt[m] = t /\ pp[m] = p
        BY <1>3
    <2>4. others \cup {m} \subseteq Months
        BY <1>4
    <2>5. /\ SumOf(others \cup {m}, "paye") = SumOver(pp, others \cup {m})
          /\ SumOf(others \cup {m}, "taxable") = SumOver(tt, others \cup {m})
        BY <1>1, <2>4, SlipSums
    <2> HIDE DEF pp, tt
    <2>6. /\ SumOver(pp, others \cup {m}) = SumOver(pp, others) + pp[m]
          /\ SumOver(tt, others \cup {m}) = SumOver(tt, others) + tt[m]
        BY <1>4, <2>1, <2>2, SumAdd
    <2> QED BY <2>1, <2>3, <2>5, <2>6
<1>7. After(m, f) = 0
    <2>1. YearEnd(m) <= LastDay[m]
        BY TaxAssumption
    <2> QED BY <2>1 DEF After, PeriodsBetween
<1> DEFINE due == AnnualPaye(Max({0, y + t - r}))
<1>8. p = IF y + t <= 0 THEN 0 ELSE Max({0, Round(due * (y + t), y + t) - s})
    <2>1. p = CumulativePaye(t, others, Before(m, f), 0, r)
        BY <1>2, <1>3, <1>7 DEF PaidAs
    <2>2. y + t * (1 + 0) = y + t
        OBVIOUS
    <2>3. CumulativePaye(t, others, Before(m, f), 0, r)
              = IF y + t * (1 + 0) <= 0 THEN 0
                ELSE Max({0, Round(AnnualPaye(Max({0, (y + t * (1 + 0)) - r})) * (y + t), y + t * (1 + 0)) - s})
        BY <1>5 DEF CumulativePaye
    <2> DEFINE G(q) == IF q <= 0 THEN 0
                       ELSE Max({0, Round(AnnualPaye(Max({0, q - r})) * (y + t), q) - s})
    <2>4. p = G(y + t * (1 + 0))
        BY <2>1, <2>3
    <2> HIDE DEF G
    <2>5. p = G(y + t)
        BY <2>2, <2>4
    <2> QED BY <2>5 DEF G
<1>9. due \in Nat
    <2>1. y + t - r \in Int
        OBVIOUS
    <2>2. Max({0, y + t - r}) \in Nat
        BY <2>1, LargerOfTwo
    <2> QED BY <2>2, TaxIsNat
<1>10. AnnualPaye(Max({0, SumOf(others \cup {m}, "taxable") - payslips[m].relief})) = due
    <2>1. SumOf(others \cup {m}, "taxable") - payslips[m].relief = y + t - r
        BY <1>3, <1>6
    <2> QED BY <2>1, Zenon
<1> HIDE DEF due
<1> SUFFICES s + p = Max({s, due})
    BY <1>5, <1>6, <1>10
<1>11. CASE y + t <= 0
    <2>1. y + t - r \in Int /\ y + t - r <= 0 /\ p = 0
        BY <1>8, <1>11
    <2>2. Max({0, y + t - r}) = 0
        BY <2>1, LargerOfTwo
    <2>3. due = 0
        BY <2>2, NothingIsUntaxed DEF due
    <2>4. Max({s, 0}) = s
        BY LargerOfTwo
    <2> QED BY <2>1, <2>3, <2>4
<1>12. CASE ~(y + t <= 0)
    <2>1. PICK d \in Nat : d = due
        BY <1>9
    <2>2. y + t \in Nat \ {0}
        BY <1>12
    <2>3. Round(d * (y + t), y + t) = d
        BY <2>2, RoundWhole
    <2>4. p = Max({0, d - s})
        BY <1>8, <1>12, <2>1, <2>3
    <2>5. Max({0, d - s}) = (IF 0 >= d - s THEN 0 ELSE d - s) /\ Max({s, d}) = IF s >= d THEN s ELSE d
        <3>1. d - s \in Int
            OBVIOUS
        <3> QED BY <3>1, LargerOfTwo
    <2>6. s + p = Max({s, d})
        BY <2>4, <2>5
    <2> QED BY <2>1, <2>6
<1> QED BY <1>11, <1>12

(* In any order of calculating, repeating and approving the months: once   *)
(* the last period of a year is calculated on the approved payslips of the *)
(* others, the PAYE of the year is the tax on what was earned, or what had *)
(* been deducted if that is more.                                          *)
THEOREM YearsAreCorrected == TaxSpec => []YearSelfCorrects
BY TaxStarts, TaxStep, YearIsCorrected, PTL DEF TaxSpec

-----------------------------------------------------------------------------
(* Steady pay.  The tax of i months out of n, and one more payslip.        *)
Near(x, b) == x \in Int /\ -b <= x /\ x <= b

LEMMA ShareOfTax ==
    ASSUME NEW a \in Nat, NEW i \in Nat, NEW t \in Nat \ {0}, NEW n \in Nat \ {0}
    PROVE  /\ Round(a * (t * i), n * t) \in Nat
           /\ Near(2 * (n * Round(a * (t * i), n * t) - i * a), n)
<1>1. PICK x \in Nat, d \in Nat \ {0} : x = a * (t * i) /\ d = n * t
    OBVIOUS
<1>2. PICK q \in Nat : /\ q = Round(a * (t * i), n * t)
                       /\ 2 * (d * q) <= 2 * x + d /\ 2 * x + d < 2 * (d * q) + 2 * d
    BY <1>1, RoundNearest
<1>3. PICK u \in Nat, v \in Nat : u = n * q /\ v = i * a
    BY <1>2
<1>4. d * q = t * u /\ x = t * v /\ d = t * n
    BY <1>1, <1>2, <1>3
<1>5. ~(2 * u - 2 * v - n > 0)
    <2> SUFFICES ASSUME 2 * u - 2 * v - n > 0 PROVE FALSE
        OBVIOUS
    <2>0. 2 * u - 2 * v - n \in Nat \ {0}
        OBVIOUS
    <2>1. PICK w \in Nat \ {0} : w = 2 * u - 2 * v - n
        BY <2>0
    <2>2. t * w \in Nat \ {0}
        BY <2>1
    <2>3. t * w = 2 * (t * u) - 2 * (t * v) - t * n
        BY <2>1
    <2> QED BY <1>2, <1>4, <2>2, <2>3
<1>6. ~(2 * v - n - 2 * u > 0)
    <2> SUFFICES ASSUME 2 * v - n - 2 * u > 0 PROVE FALSE
        OBVIOUS
    <2>0. 2 * v - n - 2 * u \in Nat \ {0}
        OBVIOUS
    <2>1. PICK w \in Nat \ {0} : w = 2 * v - n - 2 * u
        BY <2>0
    <2>2. t * w \in Nat \ {0}
        BY <2>1
    <2>3. t * w = 2 * (t * v) - t * n - 2 * (t * u)
        BY <2>1
    <2> QED BY <1>2, <1>4, <2>2, <2>3
<1>7. Near(2 * (u - v), n)
    BY <1>5, <1>6 DEF Near
<1> QED BY <1>2, <1>3, <1>7

LEMMA OneMorePayslip ==
    ASSUME NEW n \in Nat \ {0}, NEW a \in Nat, NEW c \in Nat, NEW s \in Nat, NEW p \in Nat,
           Near(2 * (n * s - c * a), n * c),
           \/ Near(2 * (n * p - a), n)
           \/ \E r \in Nat : /\ Near(2 * (n * r - (c + 1) * a), n)
                             /\ p = IF r >= s THEN r - s ELSE 0
    PROVE  /\ Near(2 * (n * (s + p) - (c + 1) * a), n * (c + 1))
           /\ Near(2 * (n * p - a), n * (c + 1))
<1>1. PICK ns \in Nat, ca \in Nat, nc \in Nat, np \in Nat : ns = n * s /\ ca = c * a /\ nc = n * c /\ np = n * p
    OBVIOUS
<1>2. n * (s + p) = ns + np /\ (c + 1) * a = ca + a /\ n * (c + 1) = nc + n
    BY <1>1
<1>3. Near(2 * (ns - ca), nc)
    BY <1>1
<1> SUFFICES Near(2 * (ns + np - (ca + a)), nc + n) /\ Near(2 * (np - a), nc + n)
    BY <1>1, <1>2
<1>4. CASE Near(2 * (n * p - a), n)
    BY <1>1, <1>3, <1>4 DEF Near
<1>5. ASSUME NEW r \in Nat, Near(2 * (n * r - (c + 1) * a), n), p = IF r >= s THEN r - s ELSE 0
      PROVE  Near(2 * (ns + np - (ca + a)), nc + n) /\ Near(2 * (np - a), nc + n)
    <2>1. PICK nr \in Nat : nr = n * r
        OBVIOUS
    <2>2. Near(2 * (nr - (ca + a)), n)
        BY <1>2, <1>5, <2>1
    <2>3. CASE r >= s
        <3>1. p = r - s
            BY <1>5, <2>3
        <3>2. np = nr - ns
            BY <1>1, <2>1, <3>1
        <3> QED BY <1>3, <2>2, <3>2 DEF Near
    <2>4. CASE ~(r >= s)
        <3>1. p = 0 /\ s - r \in Nat
            BY <1>5, <2>4
        <3>2. np = 0
            BY <1>1, <3>1
        <3>3. n * (s - r) \in Nat /\ n * (s - r) = ns - nr
            BY <1>1, <2>1, <3>1
        <3>4. nr <= ns
            BY <3>3
        <3> QED BY <1>3, <2>2, <3>2, <3>4 DEF Near
    <2> QED BY <2>3, <2>4
<1> QED BY <1>4, <1>5

-----------------------------------------------------------------------------
(* The calendar.  The months that are paid before m are whole periods: as  *)
(* many as the calculator assumes where there is no history, and with      *)
(* those that follow as many in every month.  True of months of a calendar *)
(* and an employee who joins in the first half of one.                     *)
PaidMonthly == Frequencies \subseteq {"MONTHLY"}
Since(m) == Max({hireDate, YearStart(m)})
OnRecord(m) == Since(m) >= FirstDay[Min({k \in Months : LastDay[k] > YearStart(m)})]
PeriodsOfYear(m) == Cardinality(Earlier(m)) + After(m, "MONTHLY")
WholePeriods ==
    \A m \in Months : OnRecord(m) =>
        /\ Before(m, "MONTHLY") = Cardinality(Earlier(m))
        /\ \A k \in Earlier(m) : PeriodsOfYear(k) = PeriodsOfYear(m)

LEMMA EarlierMonths ==
    ASSUME Slips, NEW m \in Months
    PROVE  /\ Earlier(m) \subseteq Months /\ IsFiniteSet(Earlier(m)) /\ Cardinality(Earlier(m)) \in Nat
           /\ \A k \in Earlier(m) : /\ k < m /\ YearStart(k) = YearStart(m) /\ Since(k) = Since(m)
                                    /\ Earlier(k) = {x \in Earlier(m) : x < k}
                                    /\ OnRecord(k) <=> OnRecord(m)
<1>1. Earlier(m) \subseteq Months /\ IsFiniteSet(Earlier(m)) /\ Cardinality(Earlier(m)) \in Nat
    <2>1. Earlier(m) \subseteq Months
        BY DEF Earlier
    <2> QED BY <2>1, TaxAssumption, FS_Subset, FS_CardinalityType
<1>2. ASSUME NEW k \in Earlier(m)
      PROVE  /\ k < m /\ YearStart(k) = YearStart(m) /\ Since(k) = Since(m)
             /\ Earlier(k) = {x \in Earlier(m) : x < k}
             /\ OnRecord(k) <=> OnRecord(m)
    <2>1. k \in Months /\ k < m /\ LastDay[k] >= Since(m)
        BY DEF Earlier, Since
    <2>2. /\ LastDay[k] \in Nat /\ LastDay[m] \in Nat /\ LastDay[k] < FirstDay[m]
          /\ FirstDay[m] \in Nat /\ FirstDay[m] <= LastDay[m]
        BY <2>1, TaxAssumption
    <2>3. hireDate \in Nat /\ YearStart(m) \in Int
        BY <2>2, TaxAssumption DEF Slips, YearStart
    <2>4. Since(m) >= YearStart(m)
        BY <2>3, LargerOfTwo DEF Since
    <2>5. Since(m) \in Int
        BY <2>3, LargerOfTwo DEF Since
    <2>6. YearStart(m) <= LastDay[k] /\ LastDay[k] <= LastDay[m]
        BY <2>1, <2>2, <2>3, <2>4, <2>5
    <2>7. YearStart(k) = YearStart(m)
        <3>1. PICK a \in Int, b \in Int : a = LastDay[k] - 1 /\ b = LastDay[m] - 1
            BY <2>2
        <3>2. 365 * (b \div 365) <= a /\ a <= b
            BY <2>2, <2>6, <3>1 DEF YearStart
        <3>3. a \div 365 = b \div 365
            BY <3>1, <3>2
        <3> QED BY <3>1, <3>3 DEF YearStart
    <2>8. Since(k) = Since(m)
        BY <2>7 DEF Since
    <2>9. Earlier(k) = {x \in Earlier(m) : x < k}
        <3>1. \A x \in Months : x < k => x < m
            BY <2>1, TaxAssumption
        <3> QED BY <2>1, <2>8, <3>1 DEF Earlier, Since
    <2>10. OnRecord(k) <=> OnRecord(m)
        BY <2>7, <2>8 DEF OnRecord
    <2> QED BY <2>1, <2>7, <2>8, <2>9, <2>10
<1> QED BY <1>1, <1>2

(* One of n months that are paid alike, a is the tax on all of them.       *)
SteadyIn(k, t, n, a) ==
    /\ payslips[k].computed /\ payslips[k].seen \in {Earlier(k), {}}
    /\ payslips[k].taxable = t /\ \A x \in Earlier(k) : payslips[x].taxable = t
    /\ Before(k, "MONTHLY") = Cardinality(Earlier(k)) /\ n = PeriodsOfYear(k) + 1
    /\ a = AnnualPaye(Max({0, n * t - payslips[k].relief}))

(* Its PAYE when there are c months before it.                             *)
LEMMA SteadyMonth ==
    ASSUME TaxInv, PaidMonthly, NEW k \in Months, NEW t \in Nat, NEW n \in Nat \ {0}, NEW a \in Nat,
           SteadyIn(k, t, n, a), NEW c \in Nat, c = Cardinality(Earlier(k))
    PROVE  \/ Near(2 * (n * payslips[k].paye - a), n)
           \/ /\ payslips[k].seen = Earlier(k)
              /\ \E r \in Nat :
                     /\ Near(2 * (n * r - (c + 1) * a), n)
                     /\ payslips[k].paye = IF r >= SumOf(Earlier(k), "paye")
                                           THEN r - SumOf(Earlier(k), "paye") ELSE 0
<1> USE DEF SteadyIn
<1> DEFINE slip == payslips[k]
<1>1. Slips /\ slip \in Payslip
    BY DEF TaxInv, Slips
<1>2. PaidAs(k, slip, "MONTHLY")
    BY DEF TaxInv, Traced, PaidMonthly
<1>3. PICK s \in Nat, y \in Int, rel \in Nat : /\ s = SumOf(Earlier(k), "paye") /\ y = SumOf(Earlier(k), "taxable")
                                               /\ rel = slip.relief
    <2>1. \A x \in Earlier(k) : payslips[x].taxable # NoTaxable
        BY DEF NoTaxable
    <2>2. slip.relief \in Nat
        BY <1>1 DEF Payslip
    <2>3. Earlier(k) \subseteq Months
        BY DEF Earlier
    <2>4. SumOf(Earlier(k), "paye") \in Nat /\ SumOf(Earlier(k), "taxable") \in Nat
        BY <1>1, <2>1, <2>3, SlipSums
    <2> QED BY <2>2, <2>4
<1>4. y = t * c
    <2> DEFINE tt == [x \in Months |-> payslips[x].taxable]
    <2>1. IsFiniteSet(Earlier(k)) /\ Earlier(k) \subseteq Months
        BY <1>1, EarlierMonths
    <2>2. y = SumOver(tt, Earlier(k))
        BY <1>1, <1>3, <2>1, SlipSums
    <2>3. \A x \in Earlier(k) : tt[x] = t
        BY <2>1
    <2> HIDE DEF tt
    <2>4. t \in Int
        OBVIOUS
    <2>5. SumOver(tt, Earlier(k)) = t * Cardinality(Earlier(k))
        BY <2>1, <2>3, <2>4, SumConstant
    <2> QED BY <2>2, <2>5
<1>5. PICK after \in Nat : after = After(k, "MONTHLY") /\ n = c + after + 1
    <2>1. "MONTHLY" \in DOMAIN PayFrequency
        BY DEF PayFrequency
    <2> QED BY <1>1, <2>1, PeriodsAreNat DEF PeriodsOfYear
<1>6. t * c + t * (1 + after) = n * t /\ n * t \in Nat
    BY <1>5
<1>7. t * c + t = t * (c + 1) /\ c + 1 \in Nat
    <2>1. t * (c + 1) = t * c + t * 1
        OBVIOUS
    <2>2. t * 1 = t /\ c + 1 \in Nat
        OBVIOUS
    <2> QED BY <2>1, <2>2
<1> DEFINE G(q) == IF q <= 0 THEN 0
                   ELSE IF slip.seen # {}
                   THEN Max({0, Round(AnnualPaye(Max({0, q - rel})) * (t * c + t), q) - s})
                   ELSE Round(AnnualPaye(Max({0, q - rel})) * t, q)
<1>8. slip.paye = G(n * t)
    <2>1. slip.paye = CumulativePaye(t, slip.seen, c, after, rel)
        BY <1>2, <1>3, <1>5 DEF PaidAs
    <2>2. slip.seen = {} => CumulativePaye(t, slip.seen, c, after, rel) = G(t * c + t * (1 + after))
        BY DEF CumulativePaye
    <2>3. slip.seen # {} => SumOf(slip.seen, "paye") = s /\ SumOf(slip.seen, "taxable") = t * c
        BY <1>3, <1>4
    <2>4. slip.seen # {} => CumulativePaye(t, slip.seen, c, after, rel) = G(t * c + t * (1 + after))
        BY <2>3 DEF CumulativePaye
    <2> HIDE DEF G
    <2> QED BY <1>6, <2>1, <2>2, <2>4
<1>9. a = AnnualPaye(Max({0, n * t - rel}))
    BY <1>3
<1>10. CASE t = 0
    <2>1. n * t = 0
        BY <1>10
    <2>2. slip.paye = 0
        BY <1>8, <2>1
    <2>3. a = 0
        <3>1. a = AnnualPaye(Max({0, 0 - rel}))
            BY <1>9, <2>1
        <3>2. PICK x \in Int : x = 0 - rel /\ x <= 0
            OBVIOUS
        <3>3. Max({0, x}) = 0
            BY <3>2, LargerOfTwo
        <3> QED BY <3>1, <3>2, <3>3, NothingIsUntaxed
    <2> QED BY <2>2, <2>3 DEF Near
<1>11. CASE t # 0
    <2>1. t \in Nat \ {0} /\ n * t \in Nat \ {0}
        BY <1>11
    <2>2. CASE slip.seen = {}
        <3>1. slip.paye = Round(a * t, n * t)
            BY <1>8, <1>9, <2>1, <2>2
        <3>2. t * 1 = t /\ 1 * a = a
            OBVIOUS
        <3>3. Near(2 * (n * Round(a * (t * 1), n * t) - 1 * a), n)
            BY <2>1, ShareOfTax
        <3> QED BY <3>1, <3>2, <3>3
    <2>3. CASE slip.seen # {}
        <3>0. slip.paye = Max({0, Round(AnnualPaye(Max({0, n * t - rel})) * (t * c + t), n * t) - s})
            BY <1>8, <2>1, <2>3
        <3>1. slip.paye = Max({0, Round(a * (t * c + t), n * t) - s})
            BY <1>9, <3>0, Zenon
        <3>2. PICK r \in Nat : r = Round(a * (t * (c + 1)), n * t) /\ Near(2 * (n * r - (c + 1) * a), n)
            BY <1>7, <2>1, ShareOfTax
        <3>3. slip.paye = Max({0, r - s})
            BY <1>7, <3>1, <3>2
        <3>4. r - s \in Int /\ Max({0, r - s}) = IF 0 >= r - s THEN 0 ELSE r - s
            <4>1. r - s \in Int
                OBVIOUS
            <4> QED BY <4>1, LargerOfTwo
        <3>5. slip.paye = IF r >= s THEN r - s ELSE 0
            BY <3>3, <3>4
        <3> QED BY <1>3, <2>3, <3>2, <3>5
    <2> QED BY <2>2, <2>3
<1> QED BY <1>10, <1>11

(* Month by month what has been deducted stays within half a unit per      *)
(* payslip of the share of the tax.                                        *)
LEMMA SteadyPay ==
    ASSUME TaxInv, PaidMonthly, WholePeriods, NEW m \in Months, SteadyUpTo(m), OnRecord(m)
    PROVE  EvenShare(m, Cardinality(payslips[m].seen) + 1 + After(m, "MONTHLY"))
<1> DEFINE E == Earlier(m)
           Count(k) == Cardinality(Earlier(k))
           Paid(k) == SumOf(Earlier(k), "paye")
<1>1. Slips /\ payslips[m] \in Payslip
    BY DEF TaxInv, Slips
<1>2. /\ payslips[m].computed /\ payslips[m].seen = E
      /\ \A k \in E : /\ payslips[k].computed /\ payslips[k].seen \in {Earlier(k), {}}
                      /\ payslips[k].taxable = payslips[m].taxable /\ payslips[k].relief = payslips[m].relief
    BY DEF SteadyUpTo
<1>3. PICK t \in Nat, rel \in Nat : t = payslips[m].taxable /\ rel = payslips[m].relief
    BY <1>1, <1>2 DEF TaxInv, Traced, Payslip
<1>4. E \subseteq Months /\ IsFiniteSet(E) /\ Count(m) \in Nat
    BY <1>1, EarlierMonths
<1>5. PICK n \in Nat \ {0} : n = PeriodsOfYear(m) + 1
    <2>1. "MONTHLY" \in DOMAIN PayFrequency
        BY DEF PayFrequency
    <2>2. After(m, "MONTHLY") \in Nat
        BY <1>1, <2>1, PeriodsAreNat
    <2> QED BY <1>4, <2>2 DEF PeriodsOfYear
<1>6. PICK a \in Nat : a = AnnualPaye(Max({0, n * t - rel}))
    <2>1. n * t - rel \in Int
        OBVIOUS
    <2>2. Max({0, n * t - rel}) \in Nat
        BY <2>1, LargerOfTwo
    <2> QED BY <2>2, TaxIsNat
(* Every month up to m is paid in one of the two ways.                     *)
<1>7. ASSUME NEW k \in E \cup {m}
      PROVE  /\ k \in Months /\ k \in Nat /\ Count(k) \in Nat /\ Paid(k) \in Nat /\ payslips[k].paye \in Nat
             /\ Earlier(k) = {x \in E : x < k} /\ IsFiniteSet(Earlier(k))
             /\ \/ Near(2 * (n * payslips[k].paye - a), n)
                \/ \E r \in Nat : /\ Near(2 * (n * r - (Count(k) + 1) * a), n)
                                  /\ payslips[k].paye = IF r >= Paid(k) THEN r - Paid(k) ELSE 0
    <2>1. k \in Months /\ k \in Nat
        BY <1>4, TaxAssumption
    <2>2. Count(k) \in Nat /\ Earlier(k) \subseteq Months /\ IsFiniteSet(Earlier(k))
        BY <1>1, <2>1, EarlierMonths
    <2>3. Paid(k) \in Nat
        BY <1>1, <2>2, SlipSums
    <2>4. payslips[k].paye \in Nat
        BY <1>1, <2>1 DEF Slips, Payslip
    <2>5. Earlier(k) = {x \in E : x < k}
        BY <1>1, EarlierMonths
    <2>6. OnRecord(k) /\ PeriodsOfYear(k) = PeriodsOfYear(m)
        BY <1>1, EarlierMonths DEF WholePeriods
    <2>7. /\ payslips[k].computed /\ payslips[k].seen \in {Earlier(k), {}}
          /\ payslips[k].taxable = t /\ payslips[k].relief = rel
        BY <1>2, <1>3
    <2>8. \A x \in Earlier(k) : payslips[x].taxable = t
        BY <1>2, <1>3, <2>5
    <2>9. Before(k, "MONTHLY") = Count(k)
        BY <2>1, <2>6 DEF WholePeriods
    <2>10. n = PeriodsOfYear(k) + 1 /\ a = AnnualPaye(Max({0, n * t - payslips[k].relief}))
        BY <1>5, <1>6, <2>6, <2>7
    <2>11. PICK c \in Nat : c = Cardinality(Earlier(k))
        BY <2>2
    <2>12. \/ Near(2 * (n * payslips[k].paye - a), n)
           \/ \E r \in Nat : /\ Near(2 * (n * r - (c + 1) * a), n)
                             /\ payslips[k].paye = IF r >= Paid(k) THEN r - Paid(k) ELSE 0
        <3> HIDE DEF E
        <3>1. SteadyIn(k, t, n, a)
            BY <2>7, <2>8, <2>9, <2>10 DEF SteadyIn
        <3>2. \/ Near(2 * (n * payslips[k].paye - a), n)
              \/ /\ payslips[k].seen = Earlier(k)
                 /\ \E r \in Nat :
                        /\ Near(2 * (n * r - (c + 1) * a), n)
                        /\ payslips[k].paye = IF r >= SumOf(Earlier(k), "paye")
                                              THEN r - SumOf(Earlier(k), "paye") ELSE 0
            <4> HIDE DEF Count, Paid
            <4> QED BY <2>1, <2>11, <3>1, SteadyMonth
        <3> QED BY <3>2
    <2> QED BY <2>1, <2>2, <2>3, <2>4, <2>5, <2>11, <2>12
<1> DEFINE Fair(k) == Near(2 * (n * Paid(k) - Count(k) * a), n * Count(k))
<1>8. ASSUME NEW k \in E \cup {m}, Fair(k)
      PROVE  /\ Near(2 * (n * (Paid(k) + payslips[k].paye) - (Count(k) + 1) * a), n * (Count(k) + 1))
             /\ Near(2 * (n * payslips[k].paye - a), n * (Count(k) + 1))
    <2> HIDE DEF Count, Paid, E
    <2>1. PICK c \in Nat, s \in Nat, p \in Nat : c = Count(k) /\ s = Paid(k) /\ p = payslips[k].paye
        BY <1>7
    <2>2. Near(2 * (n * s - c * a), n * c)
        BY <1>8, <2>1
    <2>3. \/ Near(2 * (n * p - a), n)
          \/ \E r \in Nat : Near(2 * (n * r - (c + 1) * a), n) /\ p = IF r >= s THEN r - s ELSE 0
        BY <1>7, <2>1
    <2> QED BY <2>1, <2>2, <2>3, OneMorePayslip
(* The first month after which too much or too little was deducted.        *)
<1>9. \A k \in E \cup {m} : Fair(k)
    <2> DEFINE Bad == {k \in E \cup {m} : ~Fair(k)}
    <2> SUFFICES ASSUME Bad # {} PROVE FALSE
        OBVIOUS
    <2>1. Bad \subseteq Nat
        BY <1>7
    <2>2. PICK k \in Bad : \A x \in Bad : k <= x
        <3> HIDE DEF Bad
        <3> QED BY <2>1, LeastNumber
    <2>3. /\ k \in E \cup {m} /\ ~Fair(k) /\ k \in Nat /\ k \in Months
          /\ Earlier(k) = {x \in E : x < k} /\ IsFiniteSet(Earlier(k))
        BY <1>7
    <2>4. CASE Earlier(k) = {}
        <3>1. Count(k) = 0
            BY <2>4, FS_EmptySet
        <3>2. Paid(k) = 0
            BY <2>4, SumEmpty DEF SumOf
        <3> HIDE DEF Count, Paid
        <3> QED BY <2>3, <3>1, <3>2 DEF Near
    <2>5. CASE Earlier(k) # {}
        <3>1. \A x \in Earlier(k) : x \in E /\ x \in Int
            BY <1>7, <2>3
        <3>2. PICK l \in Earlier(k) : \A x \in Earlier(k) : l >= x
            BY <2>3, <2>5, <3>1, MaxIsOne
        <3>3. l \in E /\ l < k /\ l \in Nat /\ l \in Months
            BY <1>7, <2>3, <3>2
        <3>4. Fair(l)
            <4> HIDE DEF Fair
            <4> QED BY <2>2, <3>3, <2>3
        <3>5. Earlier(l) = {x \in E : x < l} /\ IsFiniteSet(Earlier(l)) /\ payslips[l].paye \in Nat
              /\ Count(l) \in Nat /\ Paid(l) \in Nat
            BY <1>7, <3>3
        <3>6. Earlier(k) = Earlier(l) \cup {l} /\ l \notin Earlier(l)
            <4>1. \A x \in E : x \in Nat
                BY <1>7
            <4>2. \A x \in Earlier(k) : x = l \/ x < l
                BY <3>1, <3>2, <3>3, <4>1
            <4>3. Earlier(k) \subseteq Earlier(l) \cup {l}
                BY <3>1, <3>5, <4>2
            <4>4. \A x \in E : x < l => x < k
                BY <2>3, <3>3, <4>1
            <4>5. Earlier(l) \subseteq Earlier(k)
                BY <2>3, <3>5, <4>4
            <4> HIDE DEF E
            <4>6. l \notin Earlier(l)
                BY <3>3, <3>5
            <4> QED BY <4>3, <4>5, <4>6
        <3>7. Count(k) = Count(l) + 1
            BY <3>5, <3>6, FS_AddElement
        <3>8. Paid(k) = Paid(l) + payslips[l].paye
            <4> DEFINE pp == [x \in Months |-> payslips[x].paye]
            <4>1. Earlier(l) \subseteq Months /\ Earlier(k) \subseteq Months
                BY DEF Earlier
            <4>2. Paid(l) = SumOver(pp, Earlier(l)) /\ Paid(k) = SumOver(pp, Earlier(k))
                BY <1>1, <4>1, SlipSums
            <4>3. \A x \in Earlier(l) \cup {l} : pp[x] \in Int
                BY <1>1, <3>3, <4>1 DEF Slips, Payslip
            <4>4. pp[l] = payslips[l].paye
                BY <3>3
            <4> HIDE DEF pp
            <4>5. SumOver(pp, Earlier(l) \cup {l}) = SumOver(pp, Earlier(l)) + pp[l]
                BY <3>5, <3>6, <4>3, SumAdd
            <4> QED BY <3>6, <4>2, <4>4, <4>5
        <3>9. Near(2 * (n * (Paid(l) + payslips[l].paye) - (Count(l) + 1) * a), n * (Count(l) + 1))
            <4> HIDE DEF Fair, E
            <4> QED BY <1>8, <3>3, <3>4
        <3> HIDE DEF Count, Paid
        <3> QED BY <2>3, <3>7, <3>8, <3>9
    <2> QED BY <2>4, <2>5
<1>10. Near(2 * (n * payslips[m].paye - a), n * (Count(m) + 1))
    <2> HIDE DEF Fair
    <2> QED BY <1>8, <1>9
<1>11. Cardinality(payslips[m].seen) = Count(m) /\ n = Count(m) + 1 + After(m, "MONTHLY")
    <2>1. "MONTHLY" \in DOMAIN PayFrequency
        BY DEF PayFrequency
    <2>2. After(m, "MONTHLY") \in Nat
        BY <1>1, <2>1, PeriodsAreNat
    <2> QED BY <1>2, <1>4, <1>5, <2>2 DEF PeriodsOfYear
<1> HIDE DEF Count
<1>12. PICK c \in Nat, p \in Nat : c = Count(m) /\ p = payslips[m].paye
    BY <1>7
<1>13. 2 * (n * p - a) \in (-n * (c + 1))..(n * (c + 1))
    <2>1. PICK x \in Int, b \in Nat : x = 2 * (n * p - a) /\ b = n * (c + 1)
        OBVIOUS
    <2>2. -n * (c + 1) = -b
        BY <2>1
    <2> QED BY <1>10, <1>12, <2>1, <2>2 DEF Near
<1>14. EvenShare(m, n)
    BY <1>3, <1>6, <1>11, <1>12, <1>13 DEF EvenShare
<1> QED BY <1>11, <1>14

LEMMA SteadyPayIsTaxedEvenly == TaxInv /\ PaidMonthly /\ WholePeriods => SteadyPayIsEven
<1> SUFFICES ASSUME TaxInv, PaidMonthly, WholePeriods, NEW m \in Months, SteadyUpTo(m),
                    Max({hireDate, YearStart(m)}) >= FirstDay[Min({k \in Months : LastDay[k] > YearStart(m)})]
             PROVE  EvenShare(m, Cardinality(payslips[m].seen) + 1
                                     + PeriodsBetween(LastDay[m], YearEnd(m), "MONTHLY"))
    BY DEF SteadyPayIsEven
<1>1. OnRecord(m)
    BY DEF OnRecord, Since
<1> QED BY <1>1, SteadyPay DEF After

LEMMA PeriodsStay == WholePeriods /\ [TaxNext]_tax => WholePeriods'
<1> SUFFICES ASSUME WholePeriods, [TaxNext]_tax PROVE WholePeriods'
    OBVIOUS
<1>1. UNCHANGED hireDate
    BY DEF TaxNext, Calculate, ApproveMonth, tax
<1>2. \A m : Since(m)' = Since(m) /\ YearStart(m)' = YearStart(m)
    BY <1>1 DEF Since, YearStart
<1>3. \A m : OnRecord(m)' <=> OnRecord(m)
    BY <1>1 DEF OnRecord, Since, YearStart
<1>4. \A m : Earlier(m)' = Earlier(m)
    BY <1>1 DEF Earlier, YearStart
<1>5. \A m : Before(m, "MONTHLY")' = Before(m, "MONTHLY") /\ After(m, "MONTHLY")' = After(m, "MONTHLY")
    BY <1>1 DEF Before, After, YearStart, YearEnd, PeriodsBetween
<1>6. \A m : PeriodsOfYear(m)' = PeriodsOfYear(m)
    BY <1>4, <1>5 DEF PeriodsOfYear
<1> QED BY <1>3, <1>4, <1>5, <1>6 DEF WholePeriods

(* For everybody paid monthly whose months are whole periods: whatever was *)
(* calculated, repeated and approved, and in which order, PAYE is even on  *)
(* steady pay and right by the end of the year.                            *)
THEOREM PayeAddsUp == TaxSpec /\ PaidMonthly /\ WholePeriods => []PayeIsCumulative
<1>1. PaidMonthly => (WholePeriods /\ TaxInv => PayeIsCumulative)
    BY YearIsCorrected, SteadyPayIsTaxedEvenly DEF PayeIsCumulative
<1>2. PaidMonthly => [](WholePeriods /\ TaxInv => PayeIsCumulative)
    <2> SUFFICES ASSUME PaidMonthly PROVE [](WholePeriods /\ TaxInv => PayeIsCumulative)
        OBVIOUS
    <2>1. WholePeriods /\ TaxInv => PayeIsCumulative
        BY <1>1
    <2> QED BY <2>1, PTL
<1> QED BY <1>2, TaxStarts, TaxStep, PeriodsStay, PTL DEF TaxSpec
=============================================================================
