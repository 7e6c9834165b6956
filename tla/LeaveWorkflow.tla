--------------------------- MODULE LeaveWorkflow ---------------------------
(***************************************************************************)
(* The handlers of the leave component, split at their awaits.  Nothing in *)
(* LeaveRequestsService or LeavePolicyService runs in a transaction: each  *)
(* handler is a sequence of separate reads and writes, and TypeORM's save  *)
(* of an entity writes back every column of the row that was read.  A      *)
(* process is one HTTP request or job in flight.                           *)
(*                                                                         *)
(* With Interleaved = FALSE one handler runs at a time, and the workflow   *)
(* implements LeaveLedger; base remembers the tables as they were when the *)
(* running handler started (a history variable for that mapping).          *)
(***************************************************************************)
EXTENDS LeaveLedger

CONSTANTS
    Procs,          \* requests and jobs that may be in flight together
    Interleaved,    \* may handlers overlap?
    MayDie,         \* may a handler end in the middle?
    Handlers        \* the handlers an instance starts

VARIABLES
    procs,          \* what each process is doing
    base            \* the tables when the running handler started

wvars == <<today, policy, holidays, balances, requests, empStatus, procs, base>>

ASSUME WorkflowAssumption ==
    /\ Interleaved \in BOOLEAN /\ MayDie \in BOOLEAN
    /\ Handlers \subseteq {"submit", "approve", "reject", "cancel", "sync",
                           "adjust", "view"}

(* A process: where it is (pc), which handler runs, the request row it has *)
(* loaded or is about to insert (id, req), whether its type is tracked and *)
(* its employee was ACTIVE then, the balance keys still to visit (todo), the   *)
(* balance row it will write (row), HR's delta, the requests still to flip *)
(* (queue) in which loop of the job (ending).                              *)
Idle == [pc |-> "idle", kind |-> "none", id |-> "none",
         req |-> NoRequest, tracked |-> FALSE, active |-> FALSE, todo |-> {}, row |-> NoRow,
         delta |-> 0, queue |-> {}, ending |-> FALSE]

NoTables == <<>>
Tables == <<balances, requests, empStatus>>

Quiet == \A p \in Procs : procs[p].pc = "idle"

WInit == Init /\ procs = [p \in Procs |-> Idle] /\ base = NoTables

(* A handler starts: it takes a free process.                              *)
Begin(p, kind, start) ==
    /\ kind \in Handlers
    /\ procs[p].pc = "idle"
    /\ Interleaved \/ Quiet
    /\ procs' = [procs EXCEPT ![p] = [start EXCEPT !.kind = kind]]
    /\ base' = IF Interleaved THEN base ELSE Tables
    /\ UNCHANGED <<today, policy, holidays, balances, requests, empStatus>>

(* A process moves to next; a process that is idle again has answered.     *)
Goto(p, next) ==
    /\ procs' = [procs EXCEPT ![p] = next]
    /\ base' = IF next.pc = "idle" THEN NoTables ELSE base
    /\ UNCHANGED <<today, policy, holidays>>

At(p, pc) == procs[p].pc = pc

(* Mutant: only the year of the start date is charged.                     *)
KeysOfStartYear(r) ==
    {k \in Keys : /\ k[1] = r.employee /\ k[2] = r.type
                  /\ r.allocations[k[3]] > 0 /\ k[3] = YearOf(r.startDate)}

(* The balance rows a request is charged to.                               *)
KeysOf(r) == {k \in Keys : /\ k[1] = r.employee /\ k[2] = r.type
                           /\ r.allocations[k[3]] > 0}

(* The allocations are visited in order of their years.                    *)
FirstKey(ks) == CHOOSE k \in ks : \A l \in ks : k[3] <= l[3]

-----------------------------------------------------------------------------
(* The handlers' first reads and early returns.                            *)

(* submit up to the working-day count: employee, type and holidays.        *)
StartSubmit(p, i, e, t, start, end, half) ==
    /\ requests[i].status = "NONE"
    /\ \A q \in Procs : procs[q].kind = "submit" => procs[q].id # i
    /\ empStatus[e] # "TERMINATED"
    /\ policy[t].isActive
    /\ half => policy[t].allowHalfDay
    /\ YearOf(end) <= YearOf(start) + 1
    /\ start >= HireDate[e]
    /\ ValidParts(start, end, half)
    /\ \E y \in Years : Allocate(start, end, half)[y] > 0
    /\ Begin(p, "submit", [Idle EXCEPT !.pc = "overlap", !.id = i,
                 !.req = NewRequest(e, t, start, end, half),
                 !.tracked = policy[t].requiresBalance])

(* A loaded request: its row, its type's setting, its employee's status at *)
(* the moment of the read.                                                 *)
Loaded(i) ==
    LET tracked == policy[requests[i].type].requiresBalance
    IN  [Idle EXCEPT !.pc = IF tracked THEN "balance" ELSE "record",
                     !.id = i, !.req = requests[i], !.tracked = tracked,
                     !.todo = IF tracked THEN KeysOf(requests[i]) ELSE {},
                     !.active = empStatus[requests[i].employee] = "ACTIVE"]

StartDecision(p, i, actor) ==
    /\ MayDecide(i, actor)
    /\ Begin(p, "approve", Loaded(i)) \/ Begin(p, "reject", Loaded(i))

StartCancel(p, i, actor) ==
    /\ actor.hr \/ actor.owner
    /\ requests[i].status \in ActiveStatuses
    /\ requests[i].status = "APPROVED" /\ ~actor.hr => requests[i].startDate > today
    /\ Begin(p, "cancel", Loaded(i))

(* The job reads the requests to start, with their employees.              *)
StartSync(p) ==
    /\ \A q \in Procs : procs[q].kind # "sync"
    /\ Begin(p, "sync", [Idle EXCEPT !.pc = "next", !.queue = Starting])

StartAdjust(p, e, t, y, delta) ==
    /\ policy[t].requiresBalance
    /\ balances[<<e, t, y>>].adjustment + delta <= MaxAdjustment
    /\ Begin(p, "adjust", [Idle EXCEPT !.pc = "balance", !.todo = {<<e, t, y>>},
                                       !.delta = delta])

StartView(p, e, y) ==
    LET ks == {k \in Keys : /\ k[1] = e /\ k[3] = y
                            /\ policy[k[2]].isActive /\ policy[k[2]].requiresBalance}
    IN  /\ ks # {}
        /\ Begin(p, "view", [Idle EXCEPT !.pc = "balance", !.todo = ks])

-----------------------------------------------------------------------------
(* Balances.                                                               *)

(* submit's overlap query.                                                 *)
CheckOverlap(p) ==
    LET l == procs[p]
    IN  /\ At(p, "overlap")
        /\ Goto(p, IF ~NoConflict(l.req.employee, l.req.startDate, l.req.endDate)
                   THEN Idle
                   ELSE IF l.tracked
                   THEN [l EXCEPT !.pc = "check", !.todo = KeysOf(l.req)]
                   ELSE [l EXCEPT !.pc = "record"])
        /\ UNCHANGED <<balances, requests, empStatus>>

(* ensureBalance finds no row and computes one from the type and from the  *)
(* previous year's row.                                                    *)
ComputeRow(p) ==
    LET l == procs[p]
        k == FirstKey(l.todo)
    IN  /\ l.pc \in {"check", "balance"}
        /\ ~balances[k].exists
        /\ Goto(p, [l EXCEPT !.pc = IF @ = "check" THEN "insertC" ELSE "insertB",
                             !.row = Provision(balances, k[1], k[2], k[3])])
        /\ UNCHANGED <<balances, requests, empStatus>>

(* Mutant: a save, which overwrites the row of whoever was first.          *)
InsertRowOverwriting(p) ==
    LET l == procs[p]
        k == FirstKey(l.todo)
    IN  /\ l.pc \in {"insertC", "insertB"}
        /\ balances' = [balances EXCEPT ![k] = l.row]
        /\ Goto(p, [l EXCEPT !.pc = IF @ = "insertC" THEN "check" ELSE "balance",
                             !.row = NoRow])
        /\ UNCHANGED <<requests, empStatus>>

(* Its insert; a row that meanwhile exists makes it fail, which is caught. *)
(* Either way the row is read again.                                       *)
InsertRow(p) ==
    LET l == procs[p]
        k == FirstKey(l.todo)
    IN  /\ l.pc \in {"insertC", "insertB"}
        /\ balances' = IF balances[k].exists THEN balances
                       ELSE [balances EXCEPT ![k] = l.row]
        /\ Goto(p, [l EXCEPT !.pc = IF @ = "insertC" THEN "check" ELSE "balance",
                             !.row = NoRow])
        /\ UNCHANGED <<requests, empStatus>>

(* submit's check of one year.                                             *)
CheckFunds(p) ==
    LET l    == procs[p]
        k    == FirstKey(l.todo)
        left == l.todo \ {k}
    IN  /\ At(p, "check")
        /\ balances[k].exists
        /\ Goto(p, IF ~Funded(balances, k[1], k[2], l.req.startDate,
                              l.req.allocations, k[3])
                   THEN Idle
                   ELSE IF left # {} THEN [l EXCEPT !.todo = left]
                   ELSE [l EXCEPT !.pc = "balance", !.todo = KeysOf(l.req)])
        /\ UNCHANGED <<balances, requests, empStatus>>

(* The row as the handler is going to write it, from what it just read.    *)
Changed(l, row, days) ==
    CASE l.kind = "submit"  -> ApplyToBalance(row, days, 0)
      [] l.kind = "approve" -> ApplyToBalance(row, -days, days)
      [] l.kind = "reject"  -> ApplyToBalance(row, -days, 0)
      [] l.kind = "cancel"  -> IF l.req.status = "PENDING"
                               THEN ApplyToBalance(row, -days, 0)
                               ELSE ApplyToBalance(row, 0, -days)
      [] l.kind = "adjust"  -> [row EXCEPT !.adjustment = @ + l.delta]

(* ensureBalance returns the row: balancesFor is done with it, adjust      *)
(* refuses a negative balance, everybody else computes the new row.        *)
ReadBalance(p) ==
    LET l    == procs[p]
        k    == FirstKey(l.todo)
        left == l.todo \ {k}
    IN  /\ At(p, "balance")
        /\ balances[k].exists
        /\ Goto(p,
               IF l.kind = "view"
               THEN (IF left = {} THEN Idle ELSE [l EXCEPT !.todo = left])
               ELSE IF l.kind = "adjust" /\ Available(balances[k], today) + l.delta < 0
               THEN Idle
               ELSE [l EXCEPT !.pc = "save",
                        !.row = Changed(l, balances[k], l.req.allocations[k[3]])])
        /\ UNCHANGED <<balances, requests, empStatus>>

(* balances.save: the whole row goes back, over whatever is there now.     *)
SaveBalance(p) ==
    LET l    == procs[p]
        k    == FirstKey(l.todo)
        left == l.todo \ {k}
    IN  /\ At(p, "save")
        /\ balances' = [balances EXCEPT ![k] = l.row]
        /\ Goto(p, IF left # {} THEN [l EXCEPT !.pc = "balance", !.todo = left, !.row = NoRow]
                   ELSE IF l.kind = "adjust" THEN Idle
                   ELSE [l EXCEPT !.pc = "record", !.todo = {}, !.row = NoRow])
        /\ UNCHANGED <<requests, empStatus>>

-----------------------------------------------------------------------------
(* Requests and employee statuses.                                         *)

(* applyLongLeaveStatus's look at the calendar.                            *)
Running(r) == IsLongLeave(r) /\ r.startDate <= today /\ r.endDate >= today

(* The request's row is inserted, or its status updated by id whatever it  *)
(* is by now.                                                              *)
Record(p) ==
    LET l == procs[p]
        status == CASE l.kind = "approve" -> "APPROVED"
                    [] l.kind = "reject"  -> "REJECTED"
                    [] l.kind = "cancel"  -> "CANCELLED"
                    [] OTHER              -> "PENDING"
    IN  /\ At(p, "record")
        /\ requests' = [requests EXCEPT ![l.id] =
               IF l.kind = "submit" THEN l.req ELSE [@ EXCEPT !.status = status]]
        /\ Goto(p, CASE l.kind = "approve" /\ l.active /\ Running(l.req) ->
                            [l EXCEPT !.pc = "enter"]
                     [] l.kind = "cancel" /\ l.req.statusApplied ->
                            [l EXCEPT !.pc = "revert", !.ending = TRUE]
                     [] OTHER -> Idle)
        /\ UNCHANGED <<balances, empStatus>>

(* changeStatus reads the employee and refuses an illegal transition; the  *)
(* exception ends the handler, the job with all that it had left to do.    *)
CheckTransition(p) ==
    LET l == procs[p]
        from == empStatus[l.req.employee]
    IN  /\ l.pc \in {"enter", "return"}
        /\ Goto(p, IF <<from, IF l.ending THEN "ACTIVE" ELSE "ON_LEAVE">>
                          \notin StatusTransitions
                   THEN Idle ELSE [l EXCEPT !.pc = "write"])
        /\ UNCHANGED <<balances, requests, empStatus>>

(* ... and writes the new status by id.                                    *)
WriteStatus(p) ==
    LET l == procs[p]
    IN  /\ At(p, "write")
        /\ empStatus' = [empStatus EXCEPT ![l.req.employee] =
                            IF l.ending THEN "ACTIVE" ELSE "ON_LEAVE"]
        /\ Goto(p, [l EXCEPT !.pc = "flag"])
        /\ UNCHANGED <<balances, requests>>

(* statusApplied is updated last.                                          *)
WriteFlag(p) ==
    LET l == procs[p]
    IN  /\ At(p, "flag")
        /\ requests' = [requests EXCEPT ![l.id].statusApplied = ~l.ending]
        /\ Goto(p, IF l.kind = "sync" THEN [l EXCEPT !.pc = "next"] ELSE Idle)
        /\ UNCHANGED <<balances, empStatus>>

(* revertLongLeaveStatus reads the employee first.                         *)
Revert(p) ==
    LET l == procs[p]
    IN  /\ At(p, "revert")
        /\ Goto(p, [l EXCEPT !.pc = IF empStatus[l.req.employee] = "ON_LEAVE"
                                    THEN "return" ELSE "flag"])
        /\ UNCHANGED <<balances, requests, empStatus>>

(* The job takes the next request, or reads the ones to end, or is done.   *)
SyncNext(p) ==
    LET l == procs[p]
    IN  /\ At(p, "next")
        /\ \/ \E i \in l.queue :
                  Goto(p, [l EXCEPT !.pc = IF l.ending THEN "revert" ELSE "enter",
                                    !.id = i, !.req = requests[i], !.queue = @ \ {i}])
           \/ /\ l.queue = {} /\ ~l.ending
              /\ Goto(p, [l EXCEPT !.queue = Ending, !.ending = TRUE])
           \/ /\ l.queue = {} /\ l.ending
              /\ Goto(p, Idle)
        /\ UNCHANGED <<balances, requests, empStatus>>

-----------------------------------------------------------------------------
Start(p) ==
    \/ \E i \in RequestIds, e \in Employees, t \in Types, start, end \in Dates,
          half \in BOOLEAN : StartSubmit(p, i, e, t, start, end, half)
    \/ \E i \in RequestIds, actor \in Actors :
           StartDecision(p, i, actor) \/ StartCancel(p, i, actor)
    \/ StartSync(p)
    \/ \E e \in Employees, t \in Types, y \in Years, delta \in Deltas :
           StartAdjust(p, e, t, y, delta)
    \/ \E e \in Employees, y \in Years : StartView(p, e, y)

Step(p) ==
    \/ CheckOverlap(p) \/ ComputeRow(p) \/ InsertRow(p) \/ CheckFunds(p)
    \/ ReadBalance(p) \/ SaveBalance(p) \/ Record(p) \/ CheckTransition(p)
    \/ WriteStatus(p) \/ WriteFlag(p) \/ Revert(p) \/ SyncNext(p)

(* The process dies, or a call to Postgres throws: the handler ends there, *)
(* and what it has written stays.                                          *)
Die(p) ==
    /\ MayDie
    /\ ~At(p, "idle")
    /\ Goto(p, Idle)
    /\ UNCHANGED <<balances, requests, empStatus>>

(* What changes in single statements: policy, holidays, employee records   *)
(* and the calendar.  A job started at 00:05 is over by midnight.          *)
Outside ==
    /\ Interleaved \/ Quiet
    /\ \/ \E t \in Types, pol \in Policies : UpdateType(t, pol)
       \/ \E ds \in SUBSET HolidayDates : AddHolidays(ds)
       \/ \E d \in HolidayDates : RemoveHoliday(d)
       \/ EmployeeStep
       \/ Tick /\ \A p \in Procs : procs[p].kind # "sync"
    /\ UNCHANGED <<procs, base>>

WNext == (\E p \in Procs : Start(p) \/ Step(p) \/ Die(p)) \/ Outside

WSpec == WInit /\ [][WNext]_wvars

(* Every handler that runs keeps running: the event loop resumes it when   *)
(* its database call has answered.                                         *)
FairWSpec == WSpec /\ \A p \in Procs : WF_wvars(Step(p))

-----------------------------------------------------------------------------
(* Refinement: while the one handler is at work the ledger still shows the *)
(* tables it started from; its last step is the ledger's step.             *)
LedgerBalances == IF base = NoTables THEN balances ELSE base[1]
LedgerRequests == IF base = NoTables THEN requests ELSE base[2]
LedgerStatus   == IF base = NoTables THEN empStatus ELSE base[3]

Ledger == INSTANCE LeaveLedger WITH
    balances <- LedgerBalances, requests <- LedgerRequests, empStatus <- LedgerStatus

(* Run one at a time, the handlers' reads and writes add up to exactly the *)
(* ledger's atomic actions: a submission that fails leaves only the rows   *)
(* it provisioned, a decision moves all of its days, the job flips all of  *)
(* its employees.                                                          *)
ImplementsLedger == Ledger!Spec

(* ensureBalance's promise holds with any number of handlers in flight: a  *)
(* row is provisioned once, and neither a lost insert nor a stale save     *)
(* changes its entitlement, its carry-over or its expiry.                  *)
ProvisionedOnceConcurrently ==
    [][\A k \in Keys : balances[k].exists =>
           /\ balances'[k].exists
           /\ balances'[k].entitled = balances[k].entitled
           /\ balances'[k].carriedOver = balances[k].carriedOver
           /\ balances'[k].carryOverExpiresOn = balances[k].carryOverExpiresOn]_wvars
=============================================================================
