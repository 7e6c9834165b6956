---------------------------- MODULE Performance ----------------------------
(***************************************************************************)
(* Review cycles (CyclesService), the reviews and peer feedback of a cycle *)
(* (ReviewsService), goals (GoalsService) and the daily reminder job       *)
(* (PerformanceProcessor), for one cycle at a time.  Handlers are atomic   *)
(* except that one may die between its writes: launch and advance write    *)
(* the reviews, then the cycle, then the notifications, without a          *)
(* transaction around them.                                                *)
(*                                                                         *)
(* A login is identified with its employee; texts, competencies and the    *)
(* period of the cycle are left out.  A behaviour exercises one group of   *)
(* operations, its scenario; goals share no state with reviews.            *)
(***************************************************************************)
EXTENDS Integers, FiniteSets, Sums

CONSTANTS
    Employees,     \* employees of the company
    Terminated,    \* those who have left
    Users,         \* logins; an employee in Users has one
    Hr,            \* logins with review:manage_cycles
    Leads,         \* logins with review:write_team
    ManagerOf,     \* the reporting line; Nobody at the top
    Nobody,
    Scenarios,     \* operations, rating values, and employees a cycle may be for
    Ratings,       \* rating values
    GoalIds, Weights,
    Ahead,         \* days before a deadline on which reminders start
    LastDay, MaxDeaths   \* bounds

VARIABLES
    scenario,  \* the scenario of this behaviour
    cycle,     \* the row of review_cycles, NoCycle when there is none
    reviews,   \* reviews of the cycle by employee, NoReview when absent
    feedback,  \* review_feedback by employee and giver
    goals,     \* rows of goals
    today,     \* the date
    ranOn,     \* the date of the last reminder job
    told,      \* dedupe keys of the notifications queued
    shown,     \* history: final ratings employees have been shown or told
    deaths     \* handlers that died half way

vars == <<scenario, cycle, reviews, feedback, goals, today, ranOn, told, shown, deaths>>

ASSUME PerformanceAssumption ==
    /\ Terminated \subseteq Employees
    /\ Hr \cup Leads \subseteq Users
    /\ ManagerOf \in [Employees -> Employees \cup {Nobody}]
    /\ Nobody \notin Employees \cup Users \cup Ratings
    /\ \A s \in Scenarios : s.scopes \subseteq SUBSET Employees /\ s.ratings \subseteq Ratings
    /\ Ratings \subseteq Nat /\ Weights \subseteq 0..100 /\ IsFiniteSet(GoalIds)
    /\ {Ahead, LastDay, MaxDeaths} \subseteq Nat /\ Ahead < LastDay

Days == 0..LastDay
NextPhase == [SELF_REVIEW |-> "MANAGER_REVIEW", MANAGER_REVIEW |-> "CALIBRATION", CALIBRATION |-> "CLOSED"]
NoCycle == [phase |-> "NONE", scale |-> {}, scope |-> {}, self |-> 0, manager |-> 0]
NoReview == [status |-> "NONE", reviewer |-> Nobody, self |-> Nobody, manager |-> Nobody,
             final |-> Nobody, calibrated |-> FALSE]
NoGoal == [employee |-> Nobody, weight |-> 0, status |-> "NONE"]

Cycles ==
    [phase : {"NONE", "DRAFT", "CLOSED"} \cup DOMAIN NextPhase, scale : SUBSET Ratings,
     scope : SUBSET Employees, self : Days, manager : Days]
Review ==
    [status : {"NONE", "PENDING_SELF", "PENDING_MANAGER", "PENDING_CALIBRATION", "COMPLETED", "ACKNOWLEDGED"},
     reviewer : Users \cup {Nobody}, self : Ratings \cup {Nobody}, manager : Ratings \cup {Nobody},
     final : Ratings \cup {Nobody}, calibrated : BOOLEAN]
FeedbackStatus == {"none", "REQUESTED", "SUBMITTED", "DECLINED"}
Goal ==
    [employee : Employees \cup {Nobody}, weight : Weights \cup {0},
     status : {"NONE", "DRAFT", "ACTIVE", "COMPLETED", "CANCELLED"}]

Exists(e) == reviews[e] # NoReview
Login(e) == IF e \in Users THEN e ELSE Nobody

-----------------------------------------------------------------------------
(* Who acts.                                                               *)

(* EmployeesService.isInReportingChain: m is above e, at most 50 levels.   *)
IsInReportingChain(m, e) ==
    LET above[n \in 0..50] == IF n = 0 THEN {e}
                              ELSE {ManagerOf[x] : x \in above[n - 1] \ {Nobody}}
    IN  m # e /\ \E n \in 1..50 : m \in above[n]

RoleFor(e, actor) ==
    CASE actor \in Hr -> "hr"
      [] actor \notin Hr /\ actor = e -> "employee"
      [] actor \notin Hr /\ actor # e
         /\ (reviews[e].reviewer = actor \/ (actor \in Leads /\ IsInReportingChain(actor, e))) -> "reviewer"
      [] OTHER -> "none"

GoalRoleFor(e, actor) ==
    CASE actor \in Hr -> "hr"
      [] actor \notin Hr /\ actor = e -> "owner"
      [] actor \notin Hr /\ actor # e /\ actor \in Leads /\ IsInReportingChain(actor, e) -> "manager"
      [] OTHER -> "none"

-----------------------------------------------------------------------------
(* Requests are made before the last day, which is left to the job.        *)
Open(op) == op \in scenario.ops /\ today < LastDay
Whole == UNCHANGED deaths
Dies == deaths < MaxDeaths /\ deaths' = deaths + 1

(* validateDates, normaliseScale: the deadlines are in order; a scale is a *)
(* set of values.  Dates are varied only where days pass.                  *)
Dates == {d \in Days \X Days : d[1] <= d[2] /\ ("remind" \notin scenario.ops => d = <<LastDay, LastDay>>)}

Create ==
    /\ Open("cycle") /\ cycle = NoCycle
    /\ \E scale \in SUBSET scenario.ratings \ {{}}, scope \in scenario.scopes, d \in Dates :
        cycle' = [phase |-> "DRAFT", scale |-> scale, scope |-> scope, self |-> d[1], manager |-> d[2]]
    /\ UNCHANGED <<scenario, reviews, feedback, goals, today, ranOn, told, shown, deaths>>

Update ==
    /\ Open("cycle") /\ cycle # NoCycle
    /\ \E scale \in SUBSET scenario.ratings \ {{}}, scope \in scenario.scopes, d \in Dates :
        /\ cycle.phase # "DRAFT" => scale = cycle.scale /\ scope = cycle.scope
        /\ cycle' = [cycle EXCEPT !.scale = scale, !.scope = scope, !.self = d[1], !.manager = d[2]]
    /\ UNCHANGED <<scenario, reviews, feedback, goals, today, ranOn, told, shown, deaths>>

(* The reviews and their feedback go with the cycle.                       *)
Remove ==
    /\ Open("cycle") /\ cycle.phase = "DRAFT"
    /\ cycle' = NoCycle
    /\ reviews' = [e \in Employees |-> NoReview]
    /\ feedback' = [e \in Employees |-> [u \in Users |-> "none"]]
    /\ UNCHANGED <<scenario, goals, today, ranOn, told, shown, deaths>>

(* A review per employee in scope: the unique index on cycle and employee  *)
(* refuses the whole launch when one is there already.                     *)
Launch ==
    /\ Open("cycle") /\ cycle.phase = "DRAFT"
    /\ LET emps == cycle.scope \ Terminated
           keys == {<<"launched", e>> : e \in emps \cap Users}
       IN  /\ emps # {}
           /\ \A e \in emps : ~Exists(e)
           /\ reviews' = [e \in Employees |->
                IF e \in emps THEN [NoReview EXCEPT !.status = "PENDING_SELF", !.reviewer = Login(ManagerOf[e])]
                ELSE reviews[e]]
           /\ \/ Whole /\ cycle' = [cycle EXCEPT !.phase = "SELF_REVIEW"] /\ told' = told \cup keys
              \/ Dies /\ cycle' = [cycle EXCEPT !.phase = "SELF_REVIEW"]
                      /\ \E sent \in SUBSET keys : told' = told \cup sent
              \/ Dies /\ UNCHANGED <<cycle, told>>
    /\ UNCHANGED <<scenario, feedback, goals, today, ranOn, shown>>

(* What entering a phase does to a review.                                 *)
Enter(r, phase) ==
    CASE phase = "MANAGER_REVIEW" /\ r.status = "PENDING_SELF" -> [r EXCEPT !.status = "PENDING_MANAGER"]
      [] phase = "CALIBRATION" /\ r.status = "PENDING_MANAGER" -> [r EXCEPT !.status = "PENDING_CALIBRATION"]
      [] phase = "CLOSED" /\ r # NoReview /\ r.status # "ACKNOWLEDGED" ->
            [r EXCEPT !.status = "COMPLETED", !.final = IF @ = Nobody THEN r.manager ELSE @]
      [] OTHER -> r

(* notifyClosed: the label of the final rating, to those who have one.     *)
Closing(rs) == {<<"completed", e, rs[e].final>> : e \in {x \in Users \cap Employees : rs[x].final # Nobody}}

(* Mutant: the ratings are told when the calibration starts.               *)
NoticesEarly(phase, rs) ==
    IF phase = "CALIBRATION"
    THEN {<<"completed", e, rs[e].manager>> : e \in {x \in Users \cap Employees : rs[x].manager # Nobody}}
    ELSE {}
Notices(phase, rs) == IF phase = "CLOSED" THEN Closing(rs) ELSE {}

Advance ==
    /\ Open("cycle") /\ cycle.phase \in DOMAIN NextPhase
    /\ LET phase == NextPhase[cycle.phase]
           after == [e \in Employees |-> Enter(reviews[e], phase)]
           Send(keys) == /\ told' = told \cup keys
                         /\ shown' = shown \cup {<<k[2], k[3]>> : k \in keys}
       IN  /\ reviews' = after
           /\ \/ Whole /\ cycle' = [cycle EXCEPT !.phase = phase] /\ Send(Notices(phase, after))
              \/ Dies /\ cycle' = [cycle EXCEPT !.phase = phase]
                      /\ \E sent \in SUBSET Notices(phase, after) : Send(sent)
              \/ Dies /\ UNCHANGED <<cycle, told, shown>>
    /\ UNCHANGED <<scenario, feedback, goals, today, ranOn>>

(* report, for the whole company: reviews, completed and acknowledged.     *)
Report ==
    LET In(S) == Cardinality({e \in Employees : reviews[e].status \in S})
    IN  [reviews |-> In({"PENDING_SELF", "PENDING_MANAGER", "PENDING_CALIBRATION", "COMPLETED", "ACKNOWLEDGED"}),
         completed |-> In({"COMPLETED", "ACKNOWLEDGED"}),
         acknowledged |-> In({"ACKNOWLEDGED"})]

-----------------------------------------------------------------------------
(* One review.                                                             *)
AssertOnScale(rating) == rating \in cycle.scale

SubmitSelf(e, rating) ==
    /\ Open("assess") /\ Exists(e) /\ e \in Users
    /\ cycle.phase \in {"SELF_REVIEW", "MANAGER_REVIEW"}
    /\ reviews[e].manager = Nobody
    /\ AssertOnScale(rating)
    /\ reviews' = [reviews EXCEPT ![e].self = rating,
                                  ![e].status = IF @ = "PENDING_SELF" THEN "PENDING_MANAGER" ELSE @]
    /\ UNCHANGED <<scenario, cycle, feedback, goals, today, ranOn, told, shown, deaths>>

(* Mutant: an assessment is accepted after the cycle was closed.           *)
SubmitManagerLate(e, actor, rating) ==
    /\ Open("assess") /\ Exists(e) /\ actor \in Leads
    /\ RoleFor(e, actor) \in {"reviewer", "hr"}
    /\ cycle.phase \in {"MANAGER_REVIEW", "CALIBRATION", "CLOSED"}
    /\ AssertOnScale(rating)
    /\ reviews' = [reviews EXCEPT ![e].manager = rating,
                                  ![e].status = IF cycle.phase = "CALIBRATION" THEN "PENDING_CALIBRATION"
                                                ELSE "PENDING_MANAGER"]
    /\ UNCHANGED <<scenario, cycle, feedback, goals, today, ranOn, told, shown, deaths>>

SubmitManager(e, actor, rating) ==
    /\ Open("assess") /\ Exists(e) /\ actor \in Leads
    /\ RoleFor(e, actor) \in {"reviewer", "hr"}
    /\ cycle.phase \in {"MANAGER_REVIEW", "CALIBRATION"}
    /\ AssertOnScale(rating)
    /\ reviews' = [reviews EXCEPT ![e].manager = rating,
                                  ![e].status = IF cycle.phase = "CALIBRATION" THEN "PENDING_CALIBRATION"
                                                ELSE "PENDING_MANAGER"]
    /\ UNCHANGED <<scenario, cycle, feedback, goals, today, ranOn, told, shown, deaths>>

Calibrate(e, rating) ==
    /\ Open("assess") /\ Exists(e)
    /\ cycle.phase = "CALIBRATION"
    /\ AssertOnScale(rating)
    /\ reviews' = [reviews EXCEPT ![e].final = rating, ![e].calibrated = TRUE]
    /\ UNCHANGED <<scenario, cycle, feedback, goals, today, ranOn, told, shown, deaths>>

(* The status is looked at, not the phase.                                 *)
Acknowledge(e) ==
    /\ Open("assess") /\ e \in Users
    /\ reviews[e].status = "COMPLETED"
    /\ reviews' = [reviews EXCEPT ![e].status = "ACKNOWLEDGED"]
    /\ UNCHANGED <<scenario, cycle, feedback, goals, today, ranOn, told, shown, deaths>>

ReassignReviewer(e, reviewer) ==
    /\ Open("reassign") /\ Exists(e)
    /\ reviewer # e
    /\ reviews' = [reviews EXCEPT ![e].reviewer = reviewer]
    /\ UNCHANGED <<scenario, cycle, feedback, goals, today, ranOn, told, shown, deaths>>

(* view, by the employee: ratings are blanked until the cycle is closed.   *)
View(e) ==
    /\ Open("assess") /\ Exists(e) /\ e \in Users \ Hr
    /\ cycle.phase = "CLOSED" /\ reviews[e].final # Nobody
    /\ shown' = shown \cup {<<e, reviews[e].final>>}
    /\ UNCHANGED <<scenario, cycle, reviews, feedback, goals, today, ranOn, told, deaths>>

(* A list of givers is a series of these.                                  *)
RequestFeedback(e, actor, giver) ==
    /\ Open("feedback") /\ Exists(e)
    /\ RoleFor(e, actor) # "none"
    /\ cycle.phase \notin {"CLOSED", "DRAFT"}
    /\ giver # e /\ feedback[e][giver] = "none"
    /\ feedback' = [feedback EXCEPT ![e][giver] = "REQUESTED"]
    /\ told' = told \cup {<<"feedback", e, giver>>}
    /\ UNCHANGED <<scenario, cycle, reviews, goals, today, ranOn, shown, deaths>>

SubmitFeedback(e, giver, answer) ==
    /\ Open("feedback")
    /\ feedback[e][giver] = "REQUESTED"
    /\ cycle.phase # "CLOSED"
    /\ feedback' = [feedback EXCEPT ![e][giver] = answer]
    /\ UNCHANGED <<scenario, cycle, reviews, goals, today, ranOn, told, shown, deaths>>

-----------------------------------------------------------------------------
(* The daily job.  A scheduled job waits for the worker, so the one of a   *)
(* day runs sooner or later, with the date on which it runs.               *)
SelfDue(e) ==
    /\ cycle.phase = "SELF_REVIEW" /\ cycle.self <= today + Ahead
    /\ reviews[e].status = "PENDING_SELF" /\ e \in Users
ManagerDue(e) ==
    /\ cycle.phase = "MANAGER_REVIEW" /\ cycle.manager <= today + Ahead
    /\ reviews[e].status = "PENDING_MANAGER" /\ reviews[e].manager = Nobody
    /\ reviews[e].reviewer # Nobody

(* Mutant: only deadlines that are exactly so many days away.              *)
SelfDueOn(e) ==
    /\ cycle.phase = "SELF_REVIEW" /\ cycle.self = today + Ahead
    /\ reviews[e].status = "PENDING_SELF" /\ e \in Users
SelfRemindedOn == {e \in Employees : SelfDueOn(e)}
SelfReminded == {e \in Employees : SelfDue(e)}

SendReminders ==
    /\ "remind" \in scenario.ops /\ ranOn < today
    /\ told' = told \cup {<<"remindSelf", e, today>> : e \in SelfReminded}
                    \cup {<<"remindManager", reviews[e].reviewer, today>> : e \in {x \in Employees : ManagerDue(x)}}
    /\ ranOn' = today
    /\ UNCHANGED <<scenario, cycle, reviews, feedback, goals, today, shown, deaths>>

NextDay ==
    /\ "remind" \in scenario.ops /\ today < LastDay
    /\ today' = today + 1
    /\ UNCHANGED <<scenario, cycle, reviews, feedback, goals, ranOn, told, shown, deaths>>

-----------------------------------------------------------------------------
(* Goals.                                                                  *)
Counted(e) == {g \in GoalIds : goals[g].employee = e /\ goals[g].status \in {"DRAFT", "ACTIVE"}}
Total(G) == SumOver([g \in GoalIds |-> goals[g].weight], G)
AssertWeight(e, weight, except) == Total(Counted(e) \ except) + weight <= 100

CreateGoal(g, e, actor, weight) ==
    /\ Open("goals") /\ goals[g] = NoGoal
    /\ GoalRoleFor(e, actor) # "none"
    /\ AssertWeight(e, weight, {})
    /\ goals' = [goals EXCEPT ![g] = [employee |-> e, weight |-> weight,
            status |-> IF GoalRoleFor(e, actor) \in {"hr", "manager"} THEN "ACTIVE" ELSE "DRAFT"]]
    /\ UNCHANGED <<scenario, cycle, reviews, feedback, today, ranOn, told, shown, deaths>>

(* Owners re-scope drafts only; the weight is checked when it is given,    *)
(* whatever the status of the goal.                                        *)
(* Mutant: a change of weight is not checked.                              *)
UpdateGoalUnchecked(g, actor, weight, status) ==
    /\ Open("goals") /\ goals[g].status \notin {"NONE", "CANCELLED"}
    /\ GoalRoleFor(goals[g].employee, actor) # "none"
    /\ goals' = [goals EXCEPT ![g].weight = weight, ![g].status = status]
    /\ UNCHANGED <<scenario, cycle, reviews, feedback, today, ranOn, told, shown, deaths>>

UpdateGoal(g, actor, weight, status) ==
    /\ Open("goals") /\ goals[g].status \notin {"NONE", "CANCELLED"}
    /\ status \in {goals[g].status, "COMPLETED", "CANCELLED"}
    /\ LET role == GoalRoleFor(goals[g].employee, actor)
       IN  /\ role # "none"
           /\ role = "owner" /\ goals[g].status # "DRAFT" =>
                weight = goals[g].weight /\ status # "CANCELLED"
    /\ \/ weight = goals[g].weight
       \/ AssertWeight(goals[g].employee, weight, {g})
    /\ goals' = [goals EXCEPT ![g].weight = weight, ![g].status = status]
    /\ UNCHANGED <<scenario, cycle, reviews, feedback, today, ranOn, told, shown, deaths>>

ApproveGoal(g, actor) ==
    /\ Open("goals") /\ goals[g].status = "DRAFT" /\ actor \in Leads
    /\ GoalRoleFor(goals[g].employee, actor) \in {"hr", "manager"}
    /\ goals' = [goals EXCEPT ![g].status = "ACTIVE"]
    /\ UNCHANGED <<scenario, cycle, reviews, feedback, today, ranOn, told, shown, deaths>>

RemoveGoal(g, actor) ==
    /\ Open("goals") /\ goals[g] # NoGoal
    /\ LET role == GoalRoleFor(goals[g].employee, actor)
       IN  role \in {"hr", "manager"} \/ (role = "owner" /\ goals[g].status = "DRAFT")
    /\ goals' = [goals EXCEPT ![g] = NoGoal]
    /\ UNCHANGED <<scenario, cycle, reviews, feedback, today, ranOn, told, shown, deaths>>

-----------------------------------------------------------------------------
Init ==
    /\ scenario \in Scenarios
    /\ cycle = NoCycle
    /\ reviews = [e \in Employees |-> NoReview]
    /\ feedback = [e \in Employees |-> [u \in Users |-> "none"]]
    /\ goals = [g \in GoalIds |-> NoGoal]
    /\ today = 0 /\ ranOn = -1
    /\ told = {} /\ shown = {}
    /\ deaths = 0

ReviewStep(e) ==
    \/ \E r \in Ratings : SubmitSelf(e, r) \/ Calibrate(e, r) \/ \E u \in Users : SubmitManager(e, u, r)
    \/ Acknowledge(e)
    \/ View(e)
    \/ \E u \in Users \cup {Nobody} : ReassignReviewer(e, u)
    \/ \E u, giver \in Users : RequestFeedback(e, u, giver)
    \/ \E giver \in Users, answer \in {"SUBMITTED", "DECLINED"} : SubmitFeedback(e, giver, answer)

GoalStep(g, u) ==
    \/ \E e \in Employees, w \in Weights : CreateGoal(g, e, u, w)
    \/ \E w \in Weights, s \in {"DRAFT", "ACTIVE", "COMPLETED", "CANCELLED"} : UpdateGoal(g, u, w, s)
    \/ ApproveGoal(g, u)
    \/ RemoveGoal(g, u)

CycleStep == Create \/ Update \/ Remove \/ Launch \/ Advance

Next ==
    \/ CycleStep
    \/ \E e \in Employees : ReviewStep(e)
    \/ SendReminders \/ NextDay
    \/ \E g \in GoalIds, u \in Users : GoalStep(g, u)

Spec == Init /\ [][Next]_vars

(* Days pass, and the scheduled job of a day is eventually worked off.     *)
Fairness == WF_vars(NextDay) /\ WF_vars(SendReminders)

-----------------------------------------------------------------------------
TypeOK ==
    /\ scenario \in Scenarios
    /\ cycle \in Cycles
    /\ reviews \in [Employees -> Review]
    /\ feedback \in [Employees -> [Users -> FeedbackStatus]]
    /\ goals \in [GoalIds -> Goal]
    /\ today \in Days /\ ranOn \in -1..LastDay
    /\ shown \subseteq Employees \X Ratings
    /\ deaths \in 0..MaxDeaths

(* Once a cycle is closed its report counts every review as completed,     *)
(* also when a handler died while it advanced; and if none did, a review   *)
(* that was not calibrated has its manager's rating as the final one.      *)
ClosedIsSettled ==
    cycle.phase = "CLOSED" =>
        /\ Report.completed = Report.reviews
        /\ deaths = 0 => \A e \in Employees : ~reviews[e].calibrated => reviews[e].final = reviews[e].manager

(* The rating an employee was told when the cycle closed, or was shown, is *)
(* the one on the review from then on.                                     *)
ShownRatingIsFinal == \A s \in shown : reviews[s[1]].final = s[2]

(* "Active + draft goal weights for an employee may not exceed 100 %",     *)
(* whatever is proposed, approved, re-weighted, finished or deleted.       *)
GoalWeightsFit == \A e \in Employees : Total(Counted(e)) <= 100

(* Again and again there is a time when everyone whose self-review or      *)
(* assessment is due within the days ahead, or overdue, has been reminded. *)
DueIsReminded ==
    []<>(\A e \in Employees :
            /\ SelfDue(e) => \E d \in Days : <<"remindSelf", e, d>> \in told
            /\ ManagerDue(e) => \E d \in Days : <<"remindManager", reviews[e].reviewer, d>> \in told)
=============================================================================
