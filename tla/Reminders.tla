----------------------------- MODULE Reminders ------------------------------
(***************************************************************************)
(* Who has to do the tasks of a checklist, and the daily digests of what   *)
(* is due (OnboardingService: start, updateTask, reassignTask and          *)
(* sendReminders; OnboardingProcessor).  How checklists come and go is in  *)
(* Onboarding; here one of them is open for a while.                       *)
(*                                                                         *)
(* Requests save the whole task they have loaded.  The job is split at its *)
(* awaits: it reads what is due, then tells one assignee after the other   *)
(* and marks their tasks.  It runs on its schedule and whenever it is      *)
(* triggered by hand, in any server.  Notes, evidence and texts are left   *)
(* out.                                                                    *)
(***************************************************************************)
EXTENDS Integers, FiniteSets

CONSTANTS
    Tasks,        \* the tasks of the checklist
    Offset,       \* dueOffsetDays of their items
    Rule,         \* assigneeRule of their items
    Users,        \* logins
    Manage,       \* those with onboarding:manage
    InRole,       \* those who have the role of role-based tasks
    Logins,       \* the logins the employee and the manager may have
    NoLogin,
    Desks,        \* requests that may be in flight together
    Runners,      \* jobs that may run together
    Horizon,      \* horizonDays
    LastDay, MaxRuns, MaxChanges   \* bounds

VARIABLES
    checklist,  \* status of the checklist
    tasks,      \* rows of checklist_tasks
    desks,      \* requests in flight: the task they will save
    runners,    \* jobs running
    digests,    \* the tasks of each digest queued, by user and day
    day,
    runs,       \* jobs started so far
    changes,    \* requests made so far
    causes      \* history: what stopped, and what overlapped

reminders == <<checklist, tasks, desks, runners, digests, day, runs, changes, causes>>

AssigneeRule == {"EMPLOYEE", "MANAGER", "HR", "ROLE"}
Calendar == 0..LastDay
Never == -1

ASSUME RemindersAssumption ==
    /\ Offset \in [Tasks -> Int]
    /\ Rule \in [Tasks -> AssigneeRule]
    /\ Manage \cup InRole \subseteq Users
    /\ NoLogin \notin Users
    /\ Logins \subseteq [EMPLOYEE : Users \cup {NoLogin}, MANAGER : Users \cup {NoLogin}]
    /\ {Horizon, LastDay, MaxRuns, MaxChanges} \subseteq Nat

NoTask == [status |-> "NONE", user |-> NoLogin, role |-> FALSE, due |-> 0, reminded |-> Never]
ChecklistTask ==
    [status : {"NONE", "OPEN", "CLOSED"}, user : Users \cup {NoLogin}, role : BOOLEAN,
     due : Int, reminded : Calendar \cup {Never}]

NoEdit == [task |-> "none", row |-> NoTask]
NoRun == [on |-> Never, due |-> {}, told |-> NoLogin]

-----------------------------------------------------------------------------
(* toItem: HR and role-based items name a role.                            *)
NamesRole(rule) == rule \in {"HR", "ROLE"}

(* resolveAssignee: the others go to the login there is now, if any.       *)
ResolveAssignee(rule, logins) ==
    IF rule \in {"EMPLOYEE", "MANAGER"} THEN logins[rule] ELSE NoLogin

(* start, for someone who joins (or leaves) today or on a later day.       *)
StartChecklist ==
    /\ checklist = "NONE" /\ checklist' = "IN_PROGRESS"
    /\ \E anchorDate \in day..LastDay, logins \in Logins :
           tasks' = [t \in Tasks |->
                        [status |-> "OPEN", user |-> ResolveAssignee(Rule[t], logins),
                         role |-> NamesRole(Rule[t]), due |-> anchorDate + Offset[t],
                         reminded |-> Never]]
    /\ UNCHANGED <<desks, runners, digests, day, runs, changes, causes>>

(* complete and cancel.                                                    *)
EndChecklist ==
    /\ checklist = "IN_PROGRESS" /\ checklist' = "ENDED"
    /\ UNCHANGED <<tasks, desks, runners, digests, day, runs, changes, causes>>

-----------------------------------------------------------------------------
(* Requests                                                                *)
Editing == {d \in Desks : desks[d] # NoEdit}
Running == {w \in Runners : runners[w] # NoRun}

Load(d, t, row) ==
    /\ desks[d] = NoEdit /\ changes < MaxChanges
    /\ tasks[t].status # "NONE"
    /\ changes' = changes + 1
    /\ desks' = [desks EXCEPT ![d] = [task |-> t, row |-> row]]
    /\ causes' = causes \cup {"edit with job" : w \in Running}
    /\ UNCHANGED <<checklist, tasks, runners, digests, day, runs>>

CanActOn(t, actor) ==
    \/ actor \in Manage
    \/ tasks[t].user = actor
    \/ tasks[t].role /\ actor \in InRole

UpdateTask(d, t, actor) ==
    /\ CanActOn(t, actor)
    /\ checklist = "IN_PROGRESS"
    /\ \E status \in {"OPEN", "CLOSED"} : Load(d, t, [tasks[t] EXCEPT !.status = status])

(* By HR, whatever the status of the checklist.                            *)
ReassignTask(d, t) ==
    \E user \in Users \cup {NoLogin}, role \in BOOLEAN :
        /\ user # NoLogin \/ role
        /\ Load(d, t, [tasks[t] EXCEPT !.user = user, !.role = role])

SaveTaskRow(d) ==
    /\ desks[d] # NoEdit
    /\ tasks' = [tasks EXCEPT ![desks[d].task] = desks[d].row]
    /\ desks' = [desks EXCEPT ![d] = NoEdit]
    /\ UNCHANGED <<checklist, runners, digests, day, runs, changes, causes>>

-----------------------------------------------------------------------------
(* sendReminders                                                           *)
Due(t) ==
    /\ checklist = "IN_PROGRESS"
    /\ tasks[t].status = "OPEN" /\ tasks[t].due <= day + Horizon

(* Mutant: tasks reminded today are not left out.                          *)
FreshAlways(t) == Due(t)
Fresh(t) == Due(t) /\ tasks[t].reminded < day

(* What is fresh is grouped by its user; a task without one is left out.   *)
SendReminders(w) ==
    /\ runners[w] = NoRun /\ runs < MaxRuns
    /\ runs' = runs + 1
    /\ LET fresh == {t \in Tasks : Fresh(t) /\ tasks[t].user # NoLogin}
       IN  IF fresh = {} THEN UNCHANGED <<runners, causes>>
           ELSE /\ runners' = [runners EXCEPT ![w] =
                       [on |-> day, due |-> {<<tasks[t].user, t>> : t \in fresh}, told |-> NoLogin]]
                /\ causes' = causes \cup {"two jobs" : v \in Running}
                                    \cup {"edit with job" : d \in Editing}
    /\ UNCHANGED <<checklist, tasks, desks, digests, day, changes>>

Group(w, u) == {t \in Tasks : <<u, t>> \in runners[w].due}

(* notify queues nothing when the user has a digest of the day already.    *)
Notify(w, u) ==
    LET key == <<u, runners[w].on>>
    IN  /\ runners[w].told = NoLogin /\ Group(w, u) # {}
        /\ digests' = IF digests[key] # {} THEN digests
                      ELSE [digests EXCEPT ![key] = Group(w, u)]
        /\ runners' = [runners EXCEPT ![w].told = u]
        /\ UNCHANGED <<checklist, tasks, desks, day, runs, changes, causes>>

(* lastRemindedAt of the tasks of the digest, sent or not.                 *)
MarkReminded(w) ==
    LET run  == runners[w]
        rest == {p \in run.due : p[1] # run.told}
    IN  /\ run.told # NoLogin
        /\ tasks' = [t \in Tasks |-> IF t \in Group(w, run.told)
                                     THEN [tasks[t] EXCEPT !.reminded = run.on] ELSE tasks[t]]
        /\ runners' = [runners EXCEPT ![w] =
               IF rest = {} THEN NoRun ELSE [run EXCEPT !.due = rest, !.told = NoLogin]]
        /\ UNCHANGED <<checklist, desks, digests, day, runs, changes, causes>>

(* A statement fails or the server stops.  When the queue tries the job    *)
(* again, that is another run.                                             *)
JobStops(w) ==
    /\ runners[w] # NoRun
    /\ "stopped" \notin causes
    /\ causes' = causes \cup {"stopped"}
    /\ runners' = [runners EXCEPT ![w] = NoRun]
    /\ UNCHANGED <<checklist, tasks, desks, digests, day, runs, changes>>

DayPasses ==
    /\ day < LastDay /\ day' = day + 1
    /\ UNCHANGED <<checklist, tasks, desks, runners, digests, runs, changes, causes>>

-----------------------------------------------------------------------------
RemindersInit ==
    /\ checklist = "NONE"
    /\ tasks = [t \in Tasks |-> NoTask]
    /\ desks = [d \in Desks |-> NoEdit]
    /\ runners = [w \in Runners |-> NoRun]
    /\ digests = [key \in Users \X Calendar |-> {}]
    /\ day = 0 /\ runs = 0 /\ changes = 0 /\ causes = {}

RemindersRequest(d) ==
    \/ \E t \in Tasks : ReassignTask(d, t) \/ \E actor \in Users : UpdateTask(d, t, actor)
    \/ SaveTaskRow(d)

ReminderJob(w) ==
    \/ SendReminders(w) \/ MarkReminded(w) \/ JobStops(w)
    \/ \E u \in Users : Notify(w, u)

RemindersNext ==
    \/ StartChecklist \/ EndChecklist \/ DayPasses
    \/ \E d \in Desks : RemindersRequest(d)
    \/ \E w \in Runners : ReminderJob(w)

RemindersSpec == RemindersInit /\ [][RemindersNext]_reminders

RemindersTypeOK ==
    /\ checklist \in {"NONE", "IN_PROGRESS", "ENDED"}
    /\ tasks \in [Tasks -> ChecklistTask]
    /\ digests \in [Users \X Calendar -> SUBSET Tasks]
    /\ day \in Calendar

-----------------------------------------------------------------------------
(* sendReminders: "at most once per calendar day per task": a task is in   *)
(* one digest of a day, however often the job runs and whoever the task is *)
(* given to meanwhile, unless a job stopped before it marked what it had   *)
(* sent, or overlapped another job or a request.                           *)
RemindedOnceADay ==
    \/ causes # {}
    \/ \A u, v \in Users, d \in Calendar : digests[<<u, d>>] \cap digests[<<v, d>>] # {} => u = v
=============================================================================
