----------------------------- MODULE Onboarding -----------------------------
(***************************************************************************)
(* Checklists of joiners and leavers (OnboardingService, its listener and  *)
(* the templates).  Events of the employees module start a checklist from  *)
(* the template in force; tasks are closed and reopened; the last required *)
(* one completes the checklist, and an onboarding checklist activates its  *)
(* employee.  Handlers are split at their awaits and use no transaction.   *)
(*                                                                         *)
(* A task is OPEN (PENDING, IN_PROGRESS) or CLOSED (DONE, SKIPPED).        *)
(* Assignees, due dates and reminders are in Reminders.                    *)
(***************************************************************************)
EXTENDS Naturals, FiniteSets

CONSTANTS
    Employees,      \* people who may be hired (a bound)
    Specialists,    \* those whose department has templates of its own
    ChecklistIds,   \* checklists that may be created (a bound)
    Items,          \* template items, copied into tasks
    Required,       \* the required ones
    ItemLists,      \* the item lists HR may give a template
    MaxEdits,       \* bound on template changes
    Procs,          \* handlers that may be in flight together
    Interleaved,    \* may handlers overlap?
    MaxDeaths       \* bound on handlers that end in the middle

VARIABLES
    staff,      \* employees.status
    posted,     \* employee events whose listener has not started
    templates,  \* items of the active template, by type and scope
    lists,      \* checklists with their tasks
    edits,      \* template changes so far
    procs,      \* what each handler in flight is doing
    deaths      \* handlers that ended in the middle so far

vars == <<staff, posted, templates, lists, edits, procs, deaths>>

ChecklistType == {"ONBOARDING", "OFFBOARDING"}
Scopes == {"department", "company"}

ASSUME OnboardingAssumption ==
    /\ Specialists \subseteq Employees
    /\ Required \subseteq Items
    /\ ItemLists \subseteq SUBSET Items
    /\ MaxEdits \in Nat /\ MaxDeaths \in Nat
    /\ Interleaved \in BOOLEAN

Nobody == "nobody"
NoId == "noId"
NoItem == "noItem"
NoTemplate == {NoItem}   \* no active template

NoTasks == [i \in Items |-> "NONE"]
NoList == [status |-> "NONE", emp |-> Nobody, type |-> "ONBOARDING", tasks |-> NoTasks]
Checklist == [status : {"NONE", "IN_PROGRESS", "COMPLETED", "CANCELLED"},
              emp    : Employees \cup {Nobody},
              type   : ChecklistType,
              tasks  : [Items -> {"NONE", "OPEN", "CLOSED"}]]

(* A handler: the employee and type of the checklist to start and the      *)
(* items it read; or the checklist, the task and the value it will save;   *)
(* or the template it will change.                                         *)
Idle == [pc |-> "idle", emp |-> Nobody, type |-> "ONBOARDING", items |-> {},
         list |-> NoId, item |-> NoItem, task |-> "NONE", scope |-> "best"]
Pcs == {"idle", "template", "insert", "save", "reassign", "check", "complete", "employee",
        "activate", "cancel", "items"}

TypeOK ==
    /\ staff \in [Employees -> {"NONE", "ONBOARDING", "ACTIVE", "TERMINATED"}]
    /\ posted \subseteq {"created", "terminated"} \X Employees
    /\ templates \in [ChecklistType \X Scopes -> (SUBSET Items) \cup {NoTemplate}]
    /\ lists \in [ChecklistIds -> Checklist]
    /\ edits \in 0..MaxEdits
    /\ procs \in [Procs ->
           [pc : Pcs, emp : Employees \cup {Nobody}, type : ChecklistType,
            items : SUBSET Items, list : ChecklistIds \cup {NoId}, item : Items \cup {NoItem},
            task : {"NONE", "OPEN", "CLOSED"}, scope : Scopes \cup {"best"}]]
    /\ deaths \in 0..MaxDeaths

Init ==
    /\ staff = [e \in Employees |-> "NONE"]
    /\ posted = {}
    /\ \E items \in ItemLists :
           templates = [t \in ChecklistType \X Scopes |->
                           IF t[2] = "company" THEN items ELSE NoTemplate]
    /\ lists = [c \in ChecklistIds |-> NoList]
    /\ edits = 0
    /\ procs = [p \in Procs |-> Idle]
    /\ deaths = 0

Quiet == \A p \in Procs : procs[p].pc = "idle"
At(p, pc) == procs[p].pc = pc
Goto(p, next) == procs' = [procs EXCEPT ![p] = next]

(* A handler starts.                                                       *)
Begin(p, start) ==
    /\ At(p, "idle")
    /\ Interleaved \/ Quiet
    /\ Goto(p, start)
    /\ UNCHANGED <<staff, templates, lists, edits, deaths>>

-----------------------------------------------------------------------------
(* What the employees module does: hire, activate by hand, terminate.      *)

Create(e, status) ==
    /\ Interleaved \/ Quiet
    /\ staff[e] = "NONE"
    /\ staff' = [staff EXCEPT ![e] = status]
    /\ posted' = posted \cup {<<"created", e>>}
    /\ UNCHANGED <<templates, lists, edits, procs, deaths>>

ChangeStatus(e) ==
    /\ Interleaved \/ Quiet
    /\ staff[e] = "ONBOARDING"
    /\ staff' = [staff EXCEPT ![e] = "ACTIVE"]
    /\ UNCHANGED <<posted, templates, lists, edits, procs, deaths>>

Terminate(e) ==
    /\ Interleaved \/ Quiet
    /\ staff[e] \in {"ONBOARDING", "ACTIVE"}
    /\ staff' = [staff EXCEPT ![e] = "TERMINATED"]
    /\ posted' = posted \cup {<<"terminated", e>>}
    /\ UNCHANGED <<templates, lists, edits, procs, deaths>>

-----------------------------------------------------------------------------
(* start                                                                   *)

InProgress(e, type) ==
    \E c \in ChecklistIds : lists[c].status = "IN_PROGRESS" /\ lists[c].emp = e /\ lists[c].type = type

(* Checklist ids not yet spoken for (a bound, not a guard of the code).    *)
Room == Cardinality({c \in ChecklistIds : lists[c].status = "NONE"})
            - Cardinality({p \in Procs : procs[p].pc \in {"template", "insert"}})

(* An employee with a checklist of the type in progress is refused.  The   *)
(* template is the best one, or the one HR has named.                      *)
Instantiate(p, e, type, scope) ==
    /\ Room > 0
    /\ Begin(p, IF InProgress(e, type) THEN Idle
                ELSE [Idle EXCEPT !.pc = "template", !.emp = e, !.type = type,
                                  !.scope = scope])

(* By hand: of any employee, joiner or not.                                *)
StartByHand(p, e, type, scope) ==
    /\ staff[e] # "NONE"
    /\ Room > Cardinality(posted)
    /\ Instantiate(p, e, type, scope)
    /\ UNCHANGED posted

(* Mutant: the check is the wrong way round.                               *)
OnCreatedBackfilled(p, e) ==
    /\ <<"created", e>> \in posted
    /\ posted' = posted \ {<<"created", e>>}
    /\ IF staff[e] = "ONBOARDING" THEN Begin(p, Idle) ELSE Instantiate(p, e, "ONBOARDING", "best")

(* onCreated: people backfilled as ACTIVE, or activated meanwhile, get no  *)
(* checklist.  A failure is logged and the event is not repeated.          *)
OnCreated(p, e) ==
    /\ <<"created", e>> \in posted
    /\ posted' = posted \ {<<"created", e>>}
    /\ IF staff[e] = "ONBOARDING" THEN Instantiate(p, e, "ONBOARDING", "best") ELSE Begin(p, Idle)

OnTerminated(p, e) ==
    /\ <<"terminated", e>> \in posted
    /\ posted' = posted \ {<<"terminated", e>>}
    /\ Instantiate(p, e, "OFFBOARDING", "best")

(* resolveFor: the template of the department first, then the company's.   *)
ResolveFor(e, type) ==
    IF e \in Specialists /\ templates[<<type, "department">>] # NoTemplate
    THEN templates[<<type, "department">>]
    ELSE templates[<<type, "company">>]

ReadTemplate(p) ==
    LET l     == procs[p]
        items == IF l.scope = "best" THEN ResolveFor(l.emp, l.type)
                 ELSE templates[<<l.type, l.scope>>]
    IN  /\ At(p, "template")
        /\ Goto(p, IF items = NoTemplate THEN Idle
                   ELSE [l EXCEPT !.pc = "insert", !.items = items])
        /\ UNCHANGED <<staff, posted, templates, lists, edits, deaths>>

(* The checklist and its tasks are saved together; one without tasks is    *)
(* completed at once.                                                      *)
InsertChecklist(p) ==
    LET l == procs[p]
    IN  /\ At(p, "insert")
        /\ \E c \in ChecklistIds :
               /\ lists[c].status = "NONE"
               /\ lists' = [lists EXCEPT ![c] =
                      [status |-> "IN_PROGRESS", emp |-> l.emp, type |-> l.type,
                       tasks |-> [i \in Items |-> IF i \in l.items THEN "OPEN" ELSE "NONE"]]]
               /\ Goto(p, IF l.items = {} THEN [Idle EXCEPT !.pc = "complete", !.list = c]
                          ELSE Idle)
        /\ UNCHANGED <<staff, posted, templates, edits, deaths>>

-----------------------------------------------------------------------------
(* updateTask, reassignTask, cancel                                        *)

StartUpdateTask(p, c, i, task) ==
    /\ lists[c].status = "IN_PROGRESS"
    /\ lists[c].tasks[i] # "NONE"
    /\ UNCHANGED posted
    /\ Begin(p, [Idle EXCEPT !.pc = "save", !.list = c, !.item = i, !.task = task])

(* reassignTask looks at no status; it saves the whole task it has loaded. *)
StartReassign(p, c, i) ==
    /\ lists[c].tasks[i] # "NONE"
    /\ UNCHANGED posted
    /\ Begin(p, [Idle EXCEPT !.pc = "reassign", !.list = c, !.item = i,
                             !.task = lists[c].tasks[i]])

SaveTask(p) ==
    LET l == procs[p]
    IN  /\ At(p, "save") \/ At(p, "reassign")
        /\ lists' = [lists EXCEPT ![l.list].tasks[l.item] = l.task]
        /\ Goto(p, IF At(p, "save") THEN [l EXCEPT !.pc = "check"] ELSE Idle)
        /\ UNCHANGED <<staff, posted, templates, edits, deaths>>

Blocking(c) == \E i \in Required : lists[c].tasks[i] = "OPEN"

(* completeIfFinished                                                      *)
CheckFinished(p) ==
    LET l == procs[p]
    IN  /\ At(p, "check")
        /\ Goto(p, IF lists[l.list].status = "IN_PROGRESS" /\ ~Blocking(l.list)
                   THEN [l EXCEPT !.pc = "complete"] ELSE Idle)
        /\ UNCHANGED <<staff, posted, templates, lists, edits, deaths>>

StartCancel(p, c) ==
    /\ lists[c].status = "IN_PROGRESS"
    /\ UNCHANGED posted
    /\ Begin(p, [Idle EXCEPT !.pc = "cancel", !.list = c])

Cancel(p) ==
    /\ At(p, "cancel")
    /\ lists' = [lists EXCEPT ![procs[p].list].status = "CANCELLED"]
    /\ Goto(p, Idle)
    /\ UNCHANGED <<staff, posted, templates, edits, deaths>>

-----------------------------------------------------------------------------
(* complete: the status is written whatever it is now, then the employee   *)
(* is looked at and activated.                                             *)
Complete(p) ==
    LET l == procs[p]
    IN  /\ At(p, "complete")
        /\ lists' = [lists EXCEPT ![l.list].status = "COMPLETED"]
        /\ Goto(p, IF lists[l.list].type = "ONBOARDING" THEN [l EXCEPT !.pc = "employee"]
                   ELSE Idle)
        /\ UNCHANGED <<staff, posted, templates, edits, deaths>>

(* Mutant: the employee is left alone.                                     *)
CheckEmployeeNever(p) ==
    /\ At(p, "employee")
    /\ Goto(p, Idle)
    /\ UNCHANGED <<staff, posted, templates, lists, edits, deaths>>

CheckEmployee(p) ==
    LET l == procs[p]
    IN  /\ At(p, "employee")
        /\ Goto(p, IF staff[lists[l.list].emp] = "ONBOARDING" THEN [l EXCEPT !.pc = "activate"]
                   ELSE Idle)
        /\ UNCHANGED <<staff, posted, templates, lists, edits, deaths>>

(* The transaction of changeStatus; its own check saw ONBOARDING.          *)
Activate(p) ==
    /\ At(p, "activate")
    /\ staff' = [staff EXCEPT ![lists[procs[p].list].emp] = "ACTIVE"]
    /\ Goto(p, Idle)
    /\ UNCHANGED <<posted, templates, lists, edits, deaths>>

-----------------------------------------------------------------------------
(* Templates: create, update, remove and the changes of single items.  An  *)
(* update with items deletes the old ones first and saves the new later.   *)
EditTemplate(type, scope, items) ==
    /\ Interleaved \/ Quiet
    /\ edits < MaxEdits
    /\ edits' = edits + 1
    /\ templates' = [templates EXCEPT ![<<type, scope>>] = items]
    /\ UNCHANGED <<staff, posted, lists, procs, deaths>>

StartReplaceItems(p, type, scope, items) ==
    /\ At(p, "idle")
    /\ Interleaved \/ Quiet
    /\ edits < MaxEdits
    /\ templates[<<type, scope>>] # NoTemplate
    /\ edits' = edits + 1
    /\ templates' = [templates EXCEPT ![<<type, scope>>] = {}]
    /\ Goto(p, [Idle EXCEPT !.pc = "items", !.type = type, !.scope = scope, !.items = items])
    /\ UNCHANGED <<staff, posted, lists, deaths>>

SaveItems(p) ==
    LET l == procs[p]
    IN  /\ At(p, "items")
        /\ templates' = [templates EXCEPT ![<<l.type, l.scope>>] = l.items]
        /\ Goto(p, Idle)
        /\ UNCHANGED <<staff, posted, lists, edits, deaths>>

-----------------------------------------------------------------------------
(* The process dies, or a call throws: what the handler has written stays. *)
Die(p) ==
    /\ deaths < MaxDeaths
    /\ ~At(p, "idle")
    /\ deaths' = deaths + 1
    /\ Goto(p, Idle)
    /\ UNCHANGED <<staff, posted, templates, lists, edits>>

Listen == \E p \in Procs, e \in Employees : OnCreated(p, e) \/ OnTerminated(p, e)

Ask(p) ==
    \/ \E e \in Employees, type \in ChecklistType, scope \in Scopes \cup {"best"} :
        StartByHand(p, e, type, scope)
    \/ \E c \in ChecklistIds, i \in Items :
        \/ \E task \in {"OPEN", "CLOSED"} : StartUpdateTask(p, c, i, task)
        \/ StartReassign(p, c, i)
    \/ \E c \in ChecklistIds : StartCancel(p, c)
    \/ \E type \in ChecklistType, scope \in Scopes, items \in ItemLists :
        StartReplaceItems(p, type, scope, items)

Step(p) ==
    \/ ReadTemplate(p) \/ InsertChecklist(p) \/ SaveTask(p) \/ CheckFinished(p)
    \/ Complete(p) \/ CheckEmployee(p) \/ Activate(p) \/ Cancel(p) \/ SaveItems(p)

Outside ==
    \/ \E e \in Employees :
        \/ \E status \in {"ONBOARDING", "ACTIVE"} : Create(e, status)
        \/ ChangeStatus(e) \/ Terminate(e)
    \/ \E type \in ChecklistType, scope \in Scopes, items \in ItemLists \cup {NoTemplate} :
        EditTemplate(type, scope, items)

Next == Listen \/ Outside \/ \E p \in Procs : Ask(p) \/ Step(p) \/ Die(p)

Spec == Init /\ [][Next]_vars

(* A handler that has started goes on when its database call answers; a    *)
(* listener is called with its event when the process comes to it.         *)
Fairness ==
    /\ \A p \in Procs : WF_vars(Step(p))
    /\ \A p \in Procs, e \in Employees : SF_vars(OnCreated(p, e))

-----------------------------------------------------------------------------
(* README.md: "for onboarding, the employee is moved ONBOARDING -> ACTIVE  *)
(* automatically", unless the handler ends half-way (nothing repeats it).  *)
CompletionActivates ==
    \A c \in ChecklistIds :
        lists[c].status = "COMPLETED" /\ lists[c].type = "ONBOARDING"
            ~> \/ deaths > 0
               \/ \E e \in Employees : lists[c].emp = e /\ staff[e] # "ONBOARDING"

(* README.md: "Checklists start automatically: employee.created (status    *)
(* ONBOARDING)."  A joiner gets a checklist, unless there is no template,  *)
(* the joiner is not one any more, or the handler ends half-way.           *)
JoinersGetChecklists ==
    \A e \in Employees :
        <<"created", e>> \in posted ~>
            \/ deaths > 0
            \/ staff[e] # "ONBOARDING"
            \/ ResolveFor(e, "ONBOARDING") = NoTemplate
            \/ \E c \in ChecklistIds : lists[c].emp = e /\ lists[c].type = "ONBOARDING"

(* A joiner is taken through onboarding: the checklist appears, and its    *)
(* completion makes the joiner ACTIVE, up to the exceptions above.         *)
JoinersAreOnboarded == JoinersGetChecklists /\ CompletionActivates
=============================================================================
