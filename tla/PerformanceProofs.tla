------------------------- MODULE PerformanceProofs -------------------------
(***************************************************************************)
(* TLAPS proofs about Performance, for every value of its constants.       *)
(***************************************************************************)
EXTENDS Performance, SumTheorems

(* What a handler that touches one review makes of it.                     *)
Rewrites(e, new) == new \in Review /\ reviews' = [reviews EXCEPT ![e] = new]

LEMMA SubmitSelfRewrites ==
    ASSUME TypeOK, NEW e \in Employees, NEW rating \in Ratings, SubmitSelf(e, rating)
    PROVE  \E new : /\ Rewrites(e, new)
                    /\ new.final = reviews[e].final /\ new.manager = reviews[e].manager
                    /\ new.calibrated = reviews[e].calibrated
                    /\ new.status \in {reviews[e].status, "PENDING_MANAGER"}
<1> DEFINE r == reviews[e]
           mid == [r EXCEPT !.self = rating]
           st == IF mid.status = "PENDING_SELF" THEN "PENDING_MANAGER" ELSE mid.status
           new == [mid EXCEPT !.status = st]
<1>1. r \in Review /\ reviews \in [Employees -> Review]
    BY DEF TypeOK
<1>2. mid \in Review /\ mid.status = r.status /\ mid.final = r.final
      /\ mid.manager = r.manager /\ mid.calibrated = r.calibrated
    BY <1>1 DEF Review
<1>3. reviews' = [reviews EXCEPT ![e] = new]
    BY <1>1 DEF SubmitSelf
<1> HIDE DEF mid
<1>4. /\ new \in Review /\ new.final = mid.final /\ new.manager = mid.manager
      /\ new.calibrated = mid.calibrated
      /\ new.status \in {mid.status, "PENDING_MANAGER"}
    BY <1>2 DEF Review
<1> HIDE DEF new
<1> QED
    BY <1>2, <1>3, <1>4 DEF Rewrites

LEMMA SubmitManagerRewrites ==
    ASSUME TypeOK, NEW e \in Employees, NEW actor \in Users, NEW rating \in Ratings,
           SubmitManager(e, actor, rating)
    PROVE  \E new : /\ Rewrites(e, new)
                    /\ new.final = reviews[e].final
                    /\ new.calibrated = reviews[e].calibrated
                    /\ new.status \in {"PENDING_MANAGER", "PENDING_CALIBRATION"}
<1> DEFINE r == reviews[e]
           mid == [r EXCEPT !.manager = rating]
           st == IF cycle.phase = "CALIBRATION" THEN "PENDING_CALIBRATION" ELSE "PENDING_MANAGER"
           new == [mid EXCEPT !.status = st]
<1>1. r \in Review /\ reviews \in [Employees -> Review]
    BY DEF TypeOK
<1>2. mid \in Review /\ mid.final = r.final /\ mid.calibrated = r.calibrated
    BY <1>1 DEF Review
<1>3. reviews' = [reviews EXCEPT ![e] = new]
    BY <1>1 DEF SubmitManager
<1> HIDE DEF mid
<1>4. /\ new \in Review /\ new.final = mid.final
      /\ new.calibrated = mid.calibrated /\ new.status = st
    BY <1>2 DEF Review
<1> HIDE DEF new
<1> QED
    BY <1>2, <1>3, <1>4 DEF Rewrites

LEMMA CalibrateRewrites ==
    ASSUME TypeOK, NEW e \in Employees, NEW rating \in Ratings, Calibrate(e, rating)
    PROVE  \E new : /\ Rewrites(e, new)
                    /\ new.final = rating /\ new.calibrated
                    /\ new.status = reviews[e].status
<1> DEFINE r == reviews[e]
           mid == [r EXCEPT !.final = rating]
           new == [mid EXCEPT !.calibrated = TRUE]
<1>1. r \in Review /\ reviews \in [Employees -> Review]
    BY DEF TypeOK
<1>2. mid \in Review /\ mid.final = rating /\ mid.status = r.status
    BY <1>1 DEF Review
<1>3. reviews' = [reviews EXCEPT ![e] = new]
    BY <1>1 DEF Calibrate
<1> HIDE DEF mid
<1>4. new \in Review /\ new.final = mid.final /\ new.calibrated /\ new.status = mid.status
    BY <1>2 DEF Review
<1> HIDE DEF new
<1> QED
    BY <1>2, <1>3, <1>4 DEF Rewrites

LEMMA AcknowledgeRewrites ==
    ASSUME TypeOK, NEW e \in Employees, Acknowledge(e)
    PROVE  \E new : /\ Rewrites(e, new)
                    /\ new.final = reviews[e].final /\ new.manager = reviews[e].manager
                    /\ new.calibrated = reviews[e].calibrated
                    /\ new.status = "ACKNOWLEDGED"
<1> DEFINE r == reviews[e]
           new == [r EXCEPT !.status = "ACKNOWLEDGED"]
<1>1. r \in Review /\ reviews \in [Employees -> Review]
    BY DEF TypeOK
<1>2. /\ new \in Review /\ new.final = r.final /\ new.manager = r.manager
      /\ new.calibrated = r.calibrated /\ new.status = "ACKNOWLEDGED"
    BY <1>1 DEF Review
<1>3. reviews' = [reviews EXCEPT ![e] = new]
    BY DEF Acknowledge
<1> HIDE DEF new
<1> QED
    BY <1>2, <1>3 DEF Rewrites

LEMMA ReassignRewrites ==
    ASSUME TypeOK, NEW e \in Employees, NEW u \in Users \cup {Nobody}, ReassignReviewer(e, u)
    PROVE  \E new : /\ Rewrites(e, new)
                    /\ new.final = reviews[e].final /\ new.manager = reviews[e].manager
                    /\ new.calibrated = reviews[e].calibrated
                    /\ new.status = reviews[e].status
<1> DEFINE r == reviews[e]
           new == [r EXCEPT !.reviewer = u]
<1>1. r \in Review /\ reviews \in [Employees -> Review]
    BY DEF TypeOK
<1>2. /\ new \in Review /\ new.final = r.final /\ new.manager = r.manager
      /\ new.calibrated = r.calibrated /\ new.status = r.status
    BY <1>1 DEF Review
<1>3. reviews' = [reviews EXCEPT ![e] = new]
    BY DEF ReassignReviewer
<1> HIDE DEF new
<1> QED
    BY <1>2, <1>3 DEF Rewrites

(* What entering a phase makes of a review.                                *)
LEMMA EnterIsTyped ==
    ASSUME NEW r \in Review, NEW phase \in {"MANAGER_REVIEW", "CALIBRATION", "CLOSED"}
    PROVE  /\ Enter(r, phase) \in Review
           /\ Enter(r, phase).calibrated = r.calibrated
           /\ Enter(r, phase).manager = r.manager
           /\ phase # "CLOSED" => /\ Enter(r, phase).final = r.final
                                  /\ Enter(r, phase).status \in {r.status, "PENDING_MANAGER", "PENDING_CALIBRATION"}
           /\ phase = "CLOSED" =>
                /\ Enter(r, phase).status \in {"NONE", "COMPLETED", "ACKNOWLEDGED"}
                /\ r.status # "ACKNOWLEDGED" =>
                     Enter(r, phase).final = IF r.final = Nobody THEN r.manager ELSE r.final
<1>1. CASE phase = "MANAGER_REVIEW"
    <2>1. Enter(r, phase) = IF r.status = "PENDING_SELF" THEN [r EXCEPT !.status = "PENDING_MANAGER"] ELSE r
        BY <1>1 DEF Enter
    <2> QED BY <1>1, <2>1 DEF Review
<1>2. CASE phase = "CALIBRATION"
    <2>1. Enter(r, phase) = IF r.status = "PENDING_MANAGER" THEN [r EXCEPT !.status = "PENDING_CALIBRATION"] ELSE r
        BY <1>2 DEF Enter
    <2> QED BY <1>2, <2>1 DEF Review
<1>3. CASE phase = "CLOSED" /\ r # NoReview /\ r.status # "ACKNOWLEDGED"
    <2> DEFINE mid == [r EXCEPT !.status = "COMPLETED"]
               f == IF mid.final = Nobody THEN r.manager ELSE mid.final
               new == [mid EXCEPT !.final = f]
    <2>1. Enter(r, phase) = new
        BY <1>3 DEF Enter
    <2>2. /\ mid \in Review /\ mid.final = r.final /\ mid.manager = r.manager
          /\ mid.calibrated = r.calibrated /\ mid.status = "COMPLETED"
        BY DEF Review
    <2> HIDE DEF mid
    <2>3. f \in Ratings \cup {Nobody}
        BY <2>2 DEF Review
    <2>4. /\ new \in Review /\ new.manager = mid.manager /\ new.calibrated = mid.calibrated
          /\ new.status = mid.status /\ new.final = f
        BY <2>2, <2>3 DEF Review
    <2> QED BY <1>3, <2>1, <2>2, <2>4
<1>4. CASE phase = "CLOSED" /\ (r = NoReview \/ r.status = "ACKNOWLEDGED")
    <2>1. Enter(r, phase) = r
        BY <1>4 DEF Enter
    <2> QED BY <1>4, <2>1 DEF NoReview
<1> QED
    BY <1>1, <1>2, <1>3, <1>4

-----------------------------------------------------------------------------
(* Types.                                                                  *)

LEMMA UpdateKeepsThePhase ==
    ASSUME TypeOK, Update
    PROVE  cycle' \in Cycles /\ cycle'.phase = cycle.phase
<1>1. cycle \in Cycles /\ scenario \in Scenarios
    BY DEF TypeOK
<1>2. PICK scale \in SUBSET scenario.ratings \ {{}}, scope \in scenario.scopes, d \in Dates :
          cycle' = [cycle EXCEPT !.scale = scale, !.scope = scope, !.self = d[1], !.manager = d[2]]
    BY DEF Update
<1>3. /\ scale \in SUBSET Ratings /\ scope \in SUBSET Employees
      /\ d[1] \in Days /\ d[2] \in Days
    BY <1>1, PerformanceAssumption DEF Dates
<1> DEFINE c1 == [cycle EXCEPT !.scale = scale]
           c2 == [c1 EXCEPT !.scope = scope]
           c3 == [c2 EXCEPT !.self = d[1]]
           c4 == [c3 EXCEPT !.manager = d[2]]
<1>4. cycle' = c4
    BY <1>2, Zenon
<1>5. c1 \in Cycles /\ c1.phase = cycle.phase
    BY <1>1, <1>3 DEF Cycles
<1> HIDE DEF c1
<1>6. c2 \in Cycles /\ c2.phase = cycle.phase
    BY <1>3, <1>5 DEF Cycles
<1> HIDE DEF c2
<1>7. c3 \in Cycles /\ c3.phase = cycle.phase
    BY <1>3, <1>6 DEF Cycles
<1> HIDE DEF c3
<1>8. c4 \in Cycles /\ c4.phase = cycle.phase
    BY <1>3, <1>7 DEF Cycles
<1> QED
    BY <1>4, <1>8

(* The phase a cycle is in, and the one advance takes it to.               *)
LEMMA PhasesFollow ==
    /\ DOMAIN NextPhase = {"SELF_REVIEW", "MANAGER_REVIEW", "CALIBRATION"}
    /\ \A p \in DOMAIN NextPhase : NextPhase[p] \in {"MANAGER_REVIEW", "CALIBRATION", "CLOSED"}
    /\ NextPhase["SELF_REVIEW"] = "MANAGER_REVIEW"
    /\ NextPhase["MANAGER_REVIEW"] = "CALIBRATION"
    /\ NextPhase["CALIBRATION"] = "CLOSED"
BY DEF NextPhase

(* What advance does, whole or dying on its way.                           *)
LEMMA AdvanceEnters ==
    ASSUME TypeOK, Advance
    PROVE  LET phase == NextPhase[cycle.phase]
           IN  /\ cycle.phase \in DOMAIN NextPhase
               /\ phase \in {"MANAGER_REVIEW", "CALIBRATION", "CLOSED"}
               /\ reviews' = [e \in Employees |-> Enter(reviews[e], phase)]
               /\ reviews' \in [Employees -> Review]
               /\ deaths' \in 0..MaxDeaths /\ (deaths' = 0 => deaths = 0)
               /\ \/ cycle' = cycle /\ shown' = shown /\ deaths' # 0
                  \/ /\ cycle' \in Cycles /\ cycle'.phase = phase
                     /\ shown \subseteq shown' /\ shown' \subseteq Employees \X Ratings
                     /\ phase # "CLOSED" => shown' = shown
                     /\ \A s \in shown' \ shown : s[1] \in Employees /\ s[2] = reviews'[s[1]].final
               /\ UNCHANGED <<scenario, feedback, goals, today, ranOn>>
<1> DEFINE phase == NextPhase[cycle.phase]
           after == [e \in Employees |-> Enter(reviews[e], phase)]
           Send(keys) == /\ told' = told \cup keys
                         /\ shown' = shown \cup {<<k[2], k[3]>> : k \in keys}
<1>1. /\ cycle \in Cycles /\ reviews \in [Employees -> Review]
      /\ shown \subseteq Employees \X Ratings /\ deaths \in 0..MaxDeaths
    BY DEF TypeOK
<1>2. cycle.phase \in DOMAIN NextPhase /\ phase \in {"MANAGER_REVIEW", "CALIBRATION", "CLOSED"}
    BY PhasesFollow DEF Advance
<1>3. reviews' = after
    BY DEF Advance
<1>4. after \in [Employees -> Review]
    BY <1>1, <1>2, EnterIsTyped
<1>5. MaxDeaths \in Nat
    BY PerformanceAssumption
<1>6. ASSUME NEW keys \in SUBSET Notices(phase, after), Send(keys)
      PROVE  /\ shown \subseteq shown' /\ shown' \subseteq Employees \X Ratings
             /\ phase # "CLOSED" => shown' = shown
             /\ \A s \in shown' \ shown : s[1] \in Employees /\ s[2] = after[s[1]].final
    <2> HIDE DEF after, phase
    <2>1. \A k \in keys : /\ phase = "CLOSED" /\ k[2] \in Employees
                          /\ k[3] = after[k[2]].final /\ k[3] \in Ratings
        BY <1>4 DEF Notices, Closing, Review
    <2> QED
        BY <1>1, <1>6, <2>1
<1>7. [cycle EXCEPT !.phase = phase] \in Cycles /\ [cycle EXCEPT !.phase = phase].phase = phase
    <2> HIDE DEF phase
    <2> QED
        BY <1>1, <1>2, PhasesFollow DEF Cycles
<1>8. UNCHANGED <<scenario, feedback, goals, today, ranOn>>
    BY DEF Advance
<1>9. CASE Whole /\ cycle' = [cycle EXCEPT !.phase = phase] /\ Send(Notices(phase, after))
    <2> HIDE DEF after, phase, Send
    <2> QED
        BY <1>1, <1>2, <1>3, <1>4, <1>6, <1>7, <1>8, <1>9 DEF Whole, after, phase
<1>10. CASE Dies /\ cycle' = [cycle EXCEPT !.phase = phase]
                 /\ \E sent \in SUBSET Notices(phase, after) : Send(sent)
    <2>1. deaths' \in 0..MaxDeaths /\ deaths' # 0
        BY <1>1, <1>5, <1>10 DEF Dies
    <2> HIDE DEF after, phase, Send
    <2> QED
        BY <1>2, <1>3, <1>4, <1>6, <1>7, <1>8, <1>10, <2>1 DEF after, phase
<1>11. CASE Dies /\ UNCHANGED <<cycle, told, shown>>
    <2>1. deaths' \in 0..MaxDeaths /\ deaths' # 0
        BY <1>1, <1>5, <1>11 DEF Dies
    <2> QED
        BY <1>2, <1>3, <1>4, <1>8, <1>11, <2>1
<1> QED
    BY <1>9, <1>10, <1>11 DEF Advance

(* What launch does, whole or dying on its way.                            *)
LEMMA LaunchOpens ==
    ASSUME TypeOK, Launch
    PROVE  /\ cycle.phase = "DRAFT"
           /\ reviews' \in [Employees -> Review]
           /\ \A e \in Employees :
                 \/ reviews'[e] = reviews[e]
                 \/ /\ reviews'[e].status = "PENDING_SELF" /\ ~reviews'[e].calibrated
                    /\ reviews'[e].final = Nobody /\ reviews'[e].manager = Nobody
           /\ deaths' \in 0..MaxDeaths /\ (deaths' = 0 => deaths = 0)
           /\ cycle' \in Cycles
           /\ cycle'.phase \in {"DRAFT", "SELF_REVIEW"}
           /\ UNCHANGED <<scenario, feedback, goals, today, ranOn, shown>>
<1> DEFINE emps == cycle.scope \ Terminated
           New(e) == [NoReview EXCEPT !.status = "PENDING_SELF", !.reviewer = Login(ManagerOf[e])]
           mid == [NoReview EXCEPT !.status = "PENDING_SELF"]
<1>1. cycle \in Cycles /\ reviews \in [Employees -> Review] /\ deaths \in 0..MaxDeaths
    BY DEF TypeOK
<1>2. NoReview \in Review
    BY DEF NoReview, Review
<1>3. /\ mid \in Review /\ mid.status = "PENDING_SELF" /\ ~mid.calibrated
      /\ mid.final = Nobody /\ mid.manager = Nobody
    BY <1>2 DEF NoReview, Review
<1>4. \A e \in Employees : New(e) = [mid EXCEPT !.reviewer = Login(ManagerOf[e])]
    BY Zenon
<1>5. \A e \in Employees : Login(ManagerOf[e]) \in Users \cup {Nobody}
    BY DEF Login
<1> HIDE DEF mid
<1>6. ASSUME NEW e \in Employees
      PROVE  /\ New(e) \in Review /\ New(e).status = "PENDING_SELF" /\ ~New(e).calibrated
             /\ New(e).final = Nobody /\ New(e).manager = Nobody
    <2> DEFINE u == Login(ManagerOf[e])
    <2>1. New(e) = [mid EXCEPT !.reviewer = u] /\ u \in Users \cup {Nobody}
        BY <1>4, <1>5
    <2> HIDE DEF u, New
    <2> QED
        BY <1>3, <2>1 DEF Review
<1>7. cycle.phase = "DRAFT" /\ UNCHANGED <<scenario, feedback, goals, today, ranOn, shown>>
    BY DEF Launch
<1>8. reviews' = [e \in Employees |-> IF e \in emps THEN New(e) ELSE reviews[e]]
    BY DEF Launch
<1>9. /\ \/ Whole /\ cycle' = [cycle EXCEPT !.phase = "SELF_REVIEW"]
         \/ Dies /\ cycle' = [cycle EXCEPT !.phase = "SELF_REVIEW"]
         \/ Dies /\ cycle' = cycle
    BY DEF Launch
<1>10. /\ [cycle EXCEPT !.phase = "SELF_REVIEW"] \in Cycles
       /\ [cycle EXCEPT !.phase = "SELF_REVIEW"].phase = "SELF_REVIEW"
    BY <1>1, PhasesFollow DEF Cycles
<1>11. deaths' \in 0..MaxDeaths /\ (deaths' = 0 => deaths = 0)
    BY <1>1, <1>9, PerformanceAssumption DEF Whole, Dies
<1> HIDE DEF New, emps
<1> QED
    BY <1>1, <1>6, <1>7, <1>8, <1>9, <1>10, <1>11

LEMMA CycleStepsAreTyped == TypeOK /\ CycleStep => TypeOK'
<1> SUFFICES ASSUME TypeOK, CycleStep PROVE TypeOK'
    OBVIOUS
<1>0. NoReview \in Review /\ NoCycle \in Cycles /\ "none" \in FeedbackStatus
    BY PerformanceAssumption DEF NoReview, Review, NoCycle, Cycles, FeedbackStatus, Days
<1>1. CASE Create
    <2>1. PICK scale \in SUBSET scenario.ratings \ {{}}, scope \in scenario.scopes, d \in Dates :
              cycle' = [phase |-> "DRAFT", scale |-> scale, scope |-> scope,
                        self |-> d[1], manager |-> d[2]]
        BY <1>1 DEF Create
    <2>2. /\ scale \in SUBSET Ratings /\ scope \in SUBSET Employees
          /\ d[1] \in Days /\ d[2] \in Days
        BY PerformanceAssumption DEF Dates, TypeOK
    <2>3. cycle' \in Cycles
        BY <2>1, <2>2 DEF Cycles
    <2> QED
        BY <1>1, <2>3 DEF Create, TypeOK
<1>2. CASE Update
    BY <1>2, UpdateKeepsThePhase DEF Update, TypeOK
<1>3. CASE Remove
    BY <1>0, <1>3 DEF Remove, TypeOK
<1>4. CASE Launch
    BY <1>4, LaunchOpens DEF TypeOK
<1>5. CASE Advance
    BY <1>5, AdvanceEnters DEF TypeOK
<1> QED
    BY <1>1, <1>2, <1>3, <1>4, <1>5 DEF CycleStep

LEMMA ReviewStepsAreTyped ==
    ASSUME TypeOK, NEW e \in Employees, ReviewStep(e)
    PROVE  TypeOK'
<1>0. reviews \in [Employees -> Review]
    BY DEF TypeOK
<1>1. ASSUME NEW new, Rewrites(e, new) PROVE reviews' \in [Employees -> Review]
    BY <1>0, <1>1 DEF Rewrites
<1>2. ASSUME NEW r \in Ratings, SubmitSelf(e, r) PROVE TypeOK'
    BY <1>1, <1>2, SubmitSelfRewrites DEF SubmitSelf, TypeOK
<1>3. ASSUME NEW r \in Ratings, Calibrate(e, r) PROVE TypeOK'
    BY <1>1, <1>3, CalibrateRewrites DEF Calibrate, TypeOK
<1>4. ASSUME NEW r \in Ratings, NEW u \in Users, SubmitManager(e, u, r) PROVE TypeOK'
    BY <1>1, <1>4, SubmitManagerRewrites DEF SubmitManager, TypeOK
<1>5. CASE Acknowledge(e)
    BY <1>1, <1>5, AcknowledgeRewrites DEF Acknowledge, TypeOK
<1>6. CASE View(e)
    <2>1. reviews[e].final \in Ratings
        BY <1>0, <1>6 DEF View, Review
    <2> QED
        BY <1>6, <2>1 DEF View, TypeOK
<1>7. ASSUME NEW u \in Users \cup {Nobody}, ReassignReviewer(e, u) PROVE TypeOK'
    BY <1>1, <1>7, ReassignRewrites DEF ReassignReviewer, TypeOK
<1>8. ASSUME NEW u \in Users, NEW giver \in Users, NEW answer \in FeedbackStatus,
             feedback' = [feedback EXCEPT ![e][giver] = answer],
             UNCHANGED <<scenario, cycle, reviews, goals, today, ranOn, shown, deaths>>
      PROVE  TypeOK'
    BY <1>8 DEF TypeOK
<1>9. ASSUME NEW u \in Users, NEW giver \in Users, RequestFeedback(e, u, giver) PROVE TypeOK'
    BY <1>8, <1>9 DEF RequestFeedback, FeedbackStatus
<1>10. ASSUME NEW giver \in Users, NEW answer \in {"SUBMITTED", "DECLINED"},
              SubmitFeedback(e, giver, answer)
       PROVE  TypeOK'
    BY <1>8, <1>10 DEF SubmitFeedback, FeedbackStatus
<1> QED
    BY <1>2, <1>3, <1>4, <1>5, <1>6, <1>7, <1>9, <1>10 DEF ReviewStep

(* What a handler that touches one goal makes of it.                       *)
LEMMA GoalStepRewrites ==
    ASSUME TypeOK, NEW g \in GoalIds, NEW u \in Users, GoalStep(g, u)
    PROVE  /\ \E new \in Goal :
                 /\ goals' = [goals EXCEPT ![g] = new]
                 /\ \/ new = NoGoal
                    \/ /\ new.employee \in Employees
                       /\ goals[g] = NoGoal /\ AssertWeight(new.employee, new.weight, {})
                    \/ /\ new.employee = goals[g].employee
                       /\ new.status \in {"DRAFT", "ACTIVE"} => goals[g].status \in {"DRAFT", "ACTIVE"}
                       /\ \/ new.weight = goals[g].weight
                          \/ AssertWeight(new.employee, new.weight, {g})
           /\ UNCHANGED <<scenario, cycle, reviews, feedback, today, ranOn, told, shown, deaths>>
<1>0. goals \in [GoalIds -> Goal] /\ goals[g] \in Goal /\ NoGoal \in Goal
    BY DEF TypeOK, Goal, NoGoal
<1>1. ASSUME NEW e \in Employees, NEW w \in Weights, CreateGoal(g, e, u, w)
      PROVE  \E new \in Goal : /\ goals' = [goals EXCEPT ![g] = new]
                               /\ new.employee \in Employees
                               /\ goals[g] = NoGoal /\ AssertWeight(new.employee, new.weight, {})
    <2> DEFINE new == [employee |-> e, weight |-> w,
                       status |-> IF GoalRoleFor(e, u) \in {"hr", "manager"} THEN "ACTIVE" ELSE "DRAFT"]
    <2>1. new \in Goal /\ new.employee = e /\ new.weight = w
        BY DEF Goal
    <2>2. goals' = [goals EXCEPT ![g] = new] /\ goals[g] = NoGoal /\ AssertWeight(e, w, {})
        BY <1>1 DEF CreateGoal
    <2> HIDE DEF new
    <2> QED
        BY <2>1, <2>2
<1>2. ASSUME NEW w \in Weights, NEW s \in {"DRAFT", "ACTIVE", "COMPLETED", "CANCELLED"},
             UpdateGoal(g, u, w, s)
      PROVE  \E new \in Goal :
                 /\ goals' = [goals EXCEPT ![g] = new]
                 /\ new.employee = goals[g].employee
                 /\ new.status \in {"DRAFT", "ACTIVE"} => goals[g].status \in {"DRAFT", "ACTIVE"}
                 /\ \/ new.weight = goals[g].weight
                    \/ AssertWeight(new.employee, new.weight, {g})
    <2> DEFINE mid == [goals[g] EXCEPT !.weight = w]
               new == [mid EXCEPT !.status = s]
    <2>1. mid \in Goal /\ mid.employee = goals[g].employee /\ mid.weight = w
        BY <1>0 DEF Goal
    <2>2. goals' = [goals EXCEPT ![g] = new]
        BY <1>0, <1>2 DEF UpdateGoal
    <2>3. /\ s \in {goals[g].status, "COMPLETED", "CANCELLED"}
          /\ w = goals[g].weight \/ AssertWeight(goals[g].employee, w, {g})
        BY <1>2 DEF UpdateGoal
    <2> HIDE DEF mid
    <2>4. /\ new \in Goal /\ new.employee = goals[g].employee /\ new.weight = w
          /\ new.status = s
        BY <2>1 DEF Goal
    <2> HIDE DEF new
    <2> QED
        BY <2>2, <2>3, <2>4
<1>3. ASSUME ApproveGoal(g, u)
      PROVE  \E new \in Goal : /\ goals' = [goals EXCEPT ![g] = new]
                               /\ new.employee = goals[g].employee
                               /\ goals[g].status \in {"DRAFT", "ACTIVE"}
                               /\ new.weight = goals[g].weight
    <2> DEFINE new == [goals[g] EXCEPT !.status = "ACTIVE"]
    <2>1. new \in Goal /\ new.employee = goals[g].employee /\ new.weight = goals[g].weight
        BY <1>0 DEF Goal
    <2>2. goals' = [goals EXCEPT ![g] = new] /\ goals[g].status = "DRAFT"
        BY <1>3 DEF ApproveGoal
    <2> HIDE DEF new
    <2> QED
        BY <2>1, <2>2
<1>4. ASSUME RemoveGoal(g, u)
      PROVE  goals' = [goals EXCEPT ![g] = NoGoal]
    BY <1>4 DEF RemoveGoal
<1>5. UNCHANGED <<scenario, cycle, reviews, feedback, today, ranOn, told, shown, deaths>>
    BY DEF GoalStep, CreateGoal, UpdateGoal, ApproveGoal, RemoveGoal
<1> QED
    BY <1>0, <1>1, <1>2, <1>3, <1>4, <1>5 DEF GoalStep

(* The performance component keeps its types.                              *)
THEOREM PerformanceTyped == Spec => []TypeOK
<1>1. Init => TypeOK
    BY PerformanceAssumption
       DEF Init, TypeOK, NoCycle, Cycles, NoReview, Review, NoGoal, Goal, FeedbackStatus, Days
<1>2. TypeOK /\ [Next]_vars => TypeOK'
    <2> SUFFICES ASSUME TypeOK, [Next]_vars PROVE TypeOK'
        OBVIOUS
    <2>1. ASSUME NEW g \in GoalIds, NEW u \in Users, GoalStep(g, u) PROVE TypeOK'
        BY <2>1, GoalStepRewrites DEF TypeOK
    <2>2. CASE SendReminders
        BY <2>2 DEF SendReminders, TypeOK, Days
    <2>3. CASE NextDay
        BY <2>3, PerformanceAssumption DEF NextDay, TypeOK, Days
    <2>4. CASE UNCHANGED vars
        BY <2>4 DEF TypeOK, vars
    <2> QED
        BY <2>1, <2>2, <2>3, <2>4, CycleStepsAreTyped, ReviewStepsAreTyped DEF Next
<1> QED
    BY <1>1, <1>2, PTL DEF Spec

-----------------------------------------------------------------------------
(* Closing a cycle.                                                        *)

(* Nothing is shown before the cycle is closed, and then no handler writes *)
(* a final rating any more.                                                *)
ShownLate == (shown # {} => cycle.phase = "CLOSED") /\ ShownRatingIsFinal

(* Every review of a closed cycle is finished.  Until a handler has died,  *)
(* reviews are finished by closing alone, and have a final rating before   *)
(* only if they were calibrated.                                           *)
Settling ==
    /\ cycle.phase = "CLOSED" =>
           \A e \in Employees : reviews[e].status \in {"NONE", "COMPLETED", "ACKNOWLEDGED"}
    /\ deaths = 0 => \A e \in Employees :
           IF cycle.phase = "CLOSED"
           THEN ~reviews[e].calibrated => reviews[e].final = reviews[e].manager
           ELSE /\ ~reviews[e].calibrated => reviews[e].final = Nobody
                /\ reviews[e].status \notin {"COMPLETED", "ACKNOWLEDGED"}

LEMMA CycleStepsSettle ==
    TypeOK /\ ShownLate /\ Settling /\ CycleStep => ShownLate' /\ Settling'
<1> SUFFICES ASSUME TypeOK, ShownLate, Settling, CycleStep PROVE ShownLate' /\ Settling'
    OBVIOUS
<1>0. /\ reviews \in [Employees -> Review] /\ shown \subseteq Employees \X Ratings
      /\ deaths \in 0..MaxDeaths
    BY DEF TypeOK
<1>1. CASE Create
    <2>1. /\ cycle.phase = "NONE" /\ cycle'.phase = "DRAFT"
          /\ UNCHANGED <<reviews, shown, deaths>>
        BY <1>1 DEF Create, NoCycle
    <2> QED
        BY <2>1 DEF ShownLate, ShownRatingIsFinal, Settling
<1>2. CASE Update
    <2>1. cycle'.phase = cycle.phase /\ UNCHANGED <<reviews, shown, deaths>>
        BY <1>2, UpdateKeepsThePhase DEF Update
    <2> QED
        BY <2>1 DEF ShownLate, ShownRatingIsFinal, Settling
<1>3. CASE Remove
    <2>1. /\ cycle.phase = "DRAFT" /\ cycle'.phase = "NONE" /\ UNCHANGED <<shown, deaths>>
          /\ \A e \in Employees : reviews'[e] = NoReview
        BY <1>3 DEF Remove, NoCycle
    <2>2. shown = {}
        BY <2>1 DEF ShownLate
    <2> QED
        BY <2>1, <2>2 DEF ShownLate, ShownRatingIsFinal, Settling, NoReview
<1>4. CASE Launch
    <2>1. /\ cycle.phase = "DRAFT" /\ cycle'.phase \in {"DRAFT", "SELF_REVIEW"}
          /\ shown' = shown /\ (deaths' = 0 => deaths = 0)
          /\ \A e \in Employees :
                 \/ reviews'[e] = reviews[e]
                 \/ /\ reviews'[e].status = "PENDING_SELF" /\ ~reviews'[e].calibrated
                    /\ reviews'[e].final = Nobody /\ reviews'[e].manager = Nobody
        BY <1>4, LaunchOpens
    <2>2. shown = {} /\ shown' = {}
        BY <2>1 DEF ShownLate
    <2>3. ShownLate'
        BY <2>2 DEF ShownLate, ShownRatingIsFinal
    <2>4. Settling'
        BY <2>1 DEF Settling
    <2> QED
        BY <2>3, <2>4
<1>5. CASE Advance
    <2> DEFINE phase == NextPhase[cycle.phase]
    <2>1. /\ cycle.phase \in DOMAIN NextPhase
          /\ phase \in {"MANAGER_REVIEW", "CALIBRATION", "CLOSED"}
          /\ reviews' = [e \in Employees |-> Enter(reviews[e], phase)]
          /\ deaths' = 0 => deaths = 0
          /\ \/ cycle' = cycle /\ shown' = shown /\ deaths' # 0
             \/ /\ cycle'.phase = phase
                /\ phase # "CLOSED" => shown' = shown
                /\ \A s \in shown' \ shown : s[1] \in Employees /\ s[2] = reviews'[s[1]].final
        BY <1>5, AdvanceEnters
    <2>2. cycle.phase # "CLOSED" /\ shown = {}
        BY <2>1, PhasesFollow DEF ShownLate
    <2>3. \A e \in Employees :
              /\ reviews'[e].calibrated = reviews[e].calibrated
              /\ reviews'[e].manager = reviews[e].manager
              /\ phase # "CLOSED" =>
                    /\ reviews'[e].final = reviews[e].final
                    /\ reviews'[e].status \in {reviews[e].status, "PENDING_MANAGER", "PENDING_CALIBRATION"}
              /\ phase = "CLOSED" =>
                    /\ reviews'[e].status \in {"NONE", "COMPLETED", "ACKNOWLEDGED"}
                    /\ reviews[e].status # "ACKNOWLEDGED" =>
                          reviews'[e].final = IF reviews[e].final = Nobody THEN reviews[e].manager
                                              ELSE reviews[e].final
        BY <1>0, <2>1, EnterIsTyped
    <2> HIDE DEF phase
    <2>4. ShownLate'
        BY <2>1, <2>2 DEF ShownLate, ShownRatingIsFinal
    <2>5. Settling'
        <3>1. CASE cycle' = cycle /\ deaths' # 0
            BY <2>2, <3>1 DEF Settling
        <3>2. CASE cycle'.phase = phase /\ phase # "CLOSED"
            BY <2>1, <2>2, <2>3, <3>2 DEF Settling
        <3>3. CASE cycle'.phase = phase /\ phase = "CLOSED"
            BY <2>1, <2>2, <2>3, <3>3 DEF Settling
        <3> QED
            BY <2>1, <3>1, <3>2, <3>3
    <2> QED
        BY <2>4, <2>5
<1> QED
    BY <1>1, <1>2, <1>3, <1>4, <1>5 DEF CycleStep

LEMMA ReviewStepsSettle ==
    ASSUME TypeOK, ShownLate, Settling, NEW e \in Employees, ReviewStep(e)
    PROVE  ShownLate' /\ Settling'
<1>0. reviews \in [Employees -> Review] /\ shown \subseteq Employees \X Ratings
    BY DEF TypeOK
<1>1. ASSUME NEW new, Rewrites(e, new)
      PROVE  reviews'[e] = new /\ \A f \in Employees \ {e} : reviews'[f] = reviews[f]
    BY <1>0, <1>1 DEF Rewrites
(* A write while the cycle is open: nothing has been shown.                *)
<1>2. ASSUME cycle.phase # "CLOSED", UNCHANGED <<cycle, shown, deaths>>, NEW new,
             Rewrites(e, new), ~new.calibrated => new.final = reviews[e].final,
             ~new.calibrated => ~reviews[e].calibrated,
             new.status \in {reviews[e].status, "PENDING_MANAGER", "PENDING_CALIBRATION"}
      PROVE  ShownLate' /\ Settling'
    <2>1. shown = {}
        BY <1>2 DEF ShownLate
    <2>2. ShownLate'
        BY <1>2, <2>1 DEF ShownLate, ShownRatingIsFinal
    <2>3. Settling'
        BY <1>1, <1>2 DEF Settling
    <2> QED
        BY <2>2, <2>3
(* A write that keeps the ratings.                                         *)
<1>3. ASSUME UNCHANGED <<cycle, shown, deaths>>, NEW new, Rewrites(e, new),
             new.final = reviews[e].final, new.manager = reviews[e].manager,
             new.calibrated = reviews[e].calibrated,
             \/ new.status = reviews[e].status
             \/ reviews[e].status = "COMPLETED" /\ new.status = "ACKNOWLEDGED"
      PROVE  ShownLate' /\ Settling'
    <2>1. \A f \in Employees : reviews'[f].final = reviews[f].final
        BY <1>1, <1>3
    <2>2. ShownLate'
        BY <1>0, <1>3, <2>1 DEF ShownLate, ShownRatingIsFinal
    <2>3. Settling'
        BY <1>1, <1>3 DEF Settling
    <2> QED
        BY <2>2, <2>3
<1>4. ASSUME NEW r \in Ratings, SubmitSelf(e, r) PROVE ShownLate' /\ Settling'
    <2>1. cycle.phase # "CLOSED" /\ UNCHANGED <<cycle, shown, deaths>>
        BY <1>4 DEF SubmitSelf
    <2> QED
        BY <1>2, <1>4, <2>1, SubmitSelfRewrites
<1>5. ASSUME NEW r \in Ratings, Calibrate(e, r) PROVE ShownLate' /\ Settling'
    <2>1. cycle.phase # "CLOSED" /\ UNCHANGED <<cycle, shown, deaths>>
        BY <1>5 DEF Calibrate
    <2> QED
        BY <1>2, <1>5, <2>1, CalibrateRewrites
<1>6. ASSUME NEW r \in Ratings, NEW u \in Users, SubmitManager(e, u, r)
      PROVE  ShownLate' /\ Settling'
    <2>1. cycle.phase # "CLOSED" /\ UNCHANGED <<cycle, shown, deaths>>
        BY <1>6 DEF SubmitManager
    <2> QED
        BY <1>2, <1>6, <2>1, SubmitManagerRewrites
<1>7. CASE Acknowledge(e)
    <2>1. reviews[e].status = "COMPLETED" /\ UNCHANGED <<cycle, shown, deaths>>
        BY <1>7 DEF Acknowledge
    <2> QED
        BY <1>3, <1>7, <2>1, AcknowledgeRewrites
<1>8. ASSUME NEW u \in Users \cup {Nobody}, ReassignReviewer(e, u)
      PROVE  ShownLate' /\ Settling'
    <2>1. UNCHANGED <<cycle, shown, deaths>>
        BY <1>8 DEF ReassignReviewer
    <2> QED
        BY <1>3, <1>8, <2>1, ReassignRewrites
<1>9. CASE View(e)
    BY <1>9 DEF View, ShownLate, ShownRatingIsFinal, Settling
<1>10. ASSUME UNCHANGED <<cycle, reviews, shown, deaths>> PROVE ShownLate' /\ Settling'
    BY <1>10 DEF ShownLate, ShownRatingIsFinal, Settling
<1> QED
    BY <1>4, <1>5, <1>6, <1>7, <1>8, <1>9, <1>10 DEF ReviewStep, RequestFeedback, SubmitFeedback

LEMMA NextSettles == TypeOK /\ ShownLate /\ Settling /\ [Next]_vars => ShownLate' /\ Settling'
<1> SUFFICES ASSUME TypeOK, ShownLate, Settling, [Next]_vars PROVE ShownLate' /\ Settling'
    OBVIOUS
<1>1. ASSUME UNCHANGED <<cycle, reviews, shown, deaths>> PROVE ShownLate' /\ Settling'
    BY <1>1 DEF ShownLate, ShownRatingIsFinal, Settling
<1>2. ASSUME NEW g \in GoalIds, NEW u \in Users, GoalStep(g, u) PROVE ShownLate' /\ Settling'
    BY <1>1, <1>2, GoalStepRewrites
<1>3. CASE SendReminders \/ NextDay \/ UNCHANGED vars
    BY <1>1, <1>3 DEF SendReminders, NextDay, vars
<1> QED
    BY <1>2, <1>3, CycleStepsSettle, ReviewStepsSettle DEF Next

LEMMA SettlingIsInvariant == Spec => [](ShownLate /\ Settling)
<1>1. Init => ShownLate /\ Settling
    BY DEF Init, ShownLate, ShownRatingIsFinal, Settling, NoCycle, NoReview
<1> QED
    BY <1>1, NextSettles, PerformanceTyped, PTL DEF Spec

(* The rating an employee was told or shown is never changed afterwards,   *)
(* whatever dies half way, is acknowledged, reassigned or submitted late.  *)
THEOREM ShownRatingsStand == Spec => []ShownRatingIsFinal
<1>1. ShownLate => ShownRatingIsFinal
    BY DEF ShownLate
<1> QED
    BY <1>1, SettlingIsInvariant, PTL

(* A closed cycle is settled: its report counts every review as completed, *)
(* even if advance died between its writes and was repeated, and without   *)
(* deaths the final rating is the manager's unless it was calibrated.      *)
THEOREM ClosedCyclesAreSettled == Spec => []ClosedIsSettled
<1>1. TypeOK /\ Settling => ClosedIsSettled
    <2> SUFFICES ASSUME TypeOK, Settling, cycle.phase = "CLOSED"
                 PROVE  /\ Report.completed = Report.reviews
                        /\ deaths = 0 => \A e \in Employees :
                               ~reviews[e].calibrated => reviews[e].final = reviews[e].manager
        BY DEF ClosedIsSettled
    <2>1. {e \in Employees : reviews[e].status \in {"COMPLETED", "ACKNOWLEDGED"}}
            = {e \in Employees : reviews[e].status \in {"PENDING_SELF", "PENDING_MANAGER",
                                  "PENDING_CALIBRATION", "COMPLETED", "ACKNOWLEDGED"}}
        BY DEF Settling
    <2>2. Report.completed = Report.reviews
        BY <2>1 DEF Report
    <2> QED
        BY <2>2 DEF Settling
<1> QED
    BY <1>1, PerformanceTyped, SettlingIsInvariant, PTL

-----------------------------------------------------------------------------
(* Goal weights.                                                           *)

LEMMA GoalWeightsAreNat ==
    ASSUME NEW goal \in Goal
    PROVE  goal.weight \in Nat
<1>1. goal.weight \in Weights \cup {0}
    BY DEF Goal
<1>2. \A w \in Weights \cup {0} : w \in Nat
    <2>1. \A w \in 0..100 : w \in Nat
        OBVIOUS
    <2>2. \A w \in Weights : w \in 0..100
        BY PerformanceAssumption
    <2>3. 0 \in Nat
        OBVIOUS
    <2> QED
        BY <2>1, <2>2, <2>3, Zenon
<1> QED
    BY <1>1, <1>2, Zenon

(* A change of one goal leaves the total of the others alone.              *)
LEMMA OtherGoalsStay ==
    ASSUME TypeOK, NEW g \in GoalIds, NEW new \in Goal,
           goals' = [goals EXCEPT ![g] = new], NEW e \in Employees
    PROVE  LET rest == Total(Counted(e) \ {g})
           IN  /\ rest \in Nat
               /\ Total(Counted(e)) = IF g \in Counted(e) THEN rest + goals[g].weight ELSE rest
               /\ Total(Counted(e))' = IF g \in Counted(e)' THEN rest + new.weight ELSE rest
<1> DEFINE f == [h \in GoalIds |-> goals[h].weight]
           f1 == [h \in GoalIds |-> goals'[h].weight]
           C == Counted(e)
           C1 == Counted(e)'
           R == C \ {g}
<1>0. goals \in [GoalIds -> Goal] /\ goals' \in [GoalIds -> Goal]
    BY DEF TypeOK
<1>1. \A h \in GoalIds : f[h] \in Nat /\ f1[h] \in Nat
    BY <1>0, GoalWeightsAreNat
<1>2. C \subseteq GoalIds /\ C1 \subseteq GoalIds
    BY DEF Counted
<1>3. IsFiniteSet(C) /\ IsFiniteSet(C1) /\ IsFiniteSet(R) /\ IsFiniteSet(C1 \ {g})
    BY <1>2, PerformanceAssumption, FS_Subset
<1>4. C1 \ {g} = R
    BY <1>0 DEF Counted
<1>5. \A h \in R : f[h] = f1[h]
    BY <1>0, <1>2
<1>6. f[g] = goals[g].weight /\ f1[g] = new.weight
    BY <1>0
<1>7. /\ Total(C) = SumOver(f, C) /\ Total(R) = SumOver(f, R)
      /\ Total(Counted(e))' = SumOver(f1, C1)
    BY DEF Total
<1> HIDE DEF f, f1, C, C1, R
<1>8. SumOver(f, R) \in Nat
    <2>1. \A h \in R : f[h] \in Nat
        BY <1>1, <1>2 DEF R
    <2> QED
        BY <1>3, <2>1, SumNat
<1>9. SumOver(f1, C1 \ {g}) = SumOver(f, R)
    <2>1. \A h \in R : f1[h] \in Int /\ f1[h] = f[h]
        BY <1>1, <1>2, <1>5 DEF R
    <2> QED
        BY <1>3, <1>4, <2>1, SumEqual
<1>10. SumOver(f, C) = IF g \in C THEN SumOver(f, R) + f[g] ELSE SumOver(f, R)
    <2>1. CASE g \in C
        <3>1. \A h \in C : f[h] \in Int
            BY <1>1, <1>2
        <3> QED
            BY <1>3, <2>1, <3>1, SumRemove DEF R
    <2>2. CASE g \notin C
        BY <2>2 DEF R
    <2> QED
        BY <2>1, <2>2
<1>11. SumOver(f1, C1) = IF g \in C1 THEN SumOver(f, R) + f1[g] ELSE SumOver(f, R)
    <2>1. CASE g \in C1
        <3>1. \A h \in C1 : f1[h] \in Int
            BY <1>1, <1>2
        <3>2. SumOver(f1, C1) = SumOver(f1, C1 \ {g}) + f1[g]
            BY <1>3, <2>1, <3>1, SumRemove
        <3> QED
            BY <1>9, <2>1, <3>2
    <2>2. CASE g \notin C1
        <3>1. C1 \ {g} = C1
            BY <2>2
        <3> QED
            BY <1>9, <2>2, <3>1
    <2> QED
        BY <2>1, <2>2
<1> QED
    BY <1>6, <1>7, <1>8, <1>10, <1>11 DEF C, C1, R

(* The draft and active goals of an employee never weigh more than 100,    *)
(* for any number of goals and any order of proposals, approvals,          *)
(* re-weightings, completions and deletions.                               *)
THEOREM GoalWeightsAlwaysFit == Spec => []GoalWeightsFit
<1>1. Init => GoalWeightsFit
    <2> SUFFICES ASSUME Init, NEW e \in Employees PROVE Total(Counted(e)) <= 100
        BY DEF GoalWeightsFit
    <2>1. Counted(e) = {}
        BY DEF Init, Counted, NoGoal
    <2>2. Total(Counted(e)) = 0
        BY <2>1, SumEmpty DEF Total
    <2> QED
        BY <2>2
<1>2. TypeOK /\ GoalWeightsFit /\ [Next]_vars => GoalWeightsFit'
    <2> SUFFICES ASSUME TypeOK, GoalWeightsFit, [Next]_vars PROVE GoalWeightsFit'
        OBVIOUS
    <2>1. ASSUME UNCHANGED goals PROVE GoalWeightsFit'
        BY <2>1 DEF GoalWeightsFit, Total, Counted
    <2>2. ASSUME NEW g \in GoalIds, NEW u \in Users, GoalStep(g, u) PROVE GoalWeightsFit'
        <3>1. PICK new \in Goal :
                 /\ goals' = [goals EXCEPT ![g] = new]
                 /\ \/ new = NoGoal
                    \/ /\ new.employee \in Employees
                       /\ goals[g] = NoGoal /\ AssertWeight(new.employee, new.weight, {})
                    \/ /\ new.employee = goals[g].employee
                       /\ new.status \in {"DRAFT", "ACTIVE"} => goals[g].status \in {"DRAFT", "ACTIVE"}
                       /\ \/ new.weight = goals[g].weight
                          \/ AssertWeight(new.employee, new.weight, {g})
            BY <2>2, GoalStepRewrites
        <3> SUFFICES ASSUME NEW e \in Employees PROVE Total(Counted(e))' <= 100
            BY DEF GoalWeightsFit
        <3> DEFINE rest == Total(Counted(e) \ {g})
        <3>2. /\ rest \in Nat
              /\ Total(Counted(e)) = IF g \in Counted(e) THEN rest + goals[g].weight ELSE rest
              /\ Total(Counted(e))' = IF g \in Counted(e)' THEN rest + new.weight ELSE rest
            BY <3>1, OtherGoalsStay
        <3>3. Total(Counted(e)) <= 100 /\ goals[g].weight \in Nat /\ new.weight \in Nat
            BY GoalWeightsAreNat DEF GoalWeightsFit, TypeOK
        <3>4. goals'[g] = new /\ goals \in [GoalIds -> Goal]
            BY <3>1 DEF TypeOK
        <3>5. CASE g \notin Counted(e)'
            <4> HIDE DEF rest
            <4> QED
                BY <3>2, <3>3, <3>5
        <3>6. CASE g \in Counted(e)'
            <4>1. new.employee = e /\ new.status \in {"DRAFT", "ACTIVE"} /\ e # Nobody
                BY <3>4, <3>6, PerformanceAssumption DEF Counted
            <4>2. new # NoGoal
                BY <4>1 DEF NoGoal
            <4>3. CASE goals[g] = NoGoal /\ AssertWeight(new.employee, new.weight, {})
                <5>1. g \notin Counted(e)
                    BY <4>1, <4>3 DEF Counted, NoGoal
                <5>2. Counted(e) \ {} = Counted(e)
                    OBVIOUS
                <5>3. Total(Counted(e)) + new.weight <= 100
                    BY <4>1, <4>3, <5>2 DEF AssertWeight
                <5> HIDE DEF rest
                <5> QED
                    BY <3>2, <3>6, <5>1, <5>3
            <4>4. CASE /\ new.employee = goals[g].employee
                       /\ new.status \in {"DRAFT", "ACTIVE"} => goals[g].status \in {"DRAFT", "ACTIVE"}
                       /\ \/ new.weight = goals[g].weight
                          \/ AssertWeight(new.employee, new.weight, {g})
                <5>1. g \in Counted(e)
                    BY <4>1, <4>4 DEF Counted
                <5>2. CASE new.weight = goals[g].weight
                    <6> HIDE DEF rest
                    <6> QED
                        BY <3>2, <3>3, <3>6, <5>1, <5>2
                <5>3. CASE AssertWeight(new.employee, new.weight, {g})
                    <6>1. rest + new.weight <= 100
                        BY <4>1, <5>3 DEF AssertWeight
                    <6> HIDE DEF rest
                    <6> QED
                        BY <3>2, <3>6, <6>1
                <5> QED
                    BY <4>4, <5>2, <5>3
            <4> QED
                BY <3>1, <4>2, <4>3, <4>4
        <3> QED
            BY <3>5, <3>6
    <2>3. CASE CycleStep
        BY <2>1, <2>3 DEF CycleStep, Create, Update, Remove, Launch, Advance
    <2>4. ASSUME NEW e \in Employees, ReviewStep(e) PROVE GoalWeightsFit'
        BY <2>1, <2>4 DEF ReviewStep, SubmitSelf, Calibrate, SubmitManager, Acknowledge, View,
                          ReassignReviewer, RequestFeedback, SubmitFeedback
    <2>5. CASE SendReminders \/ NextDay \/ UNCHANGED vars
        BY <2>1, <2>5 DEF SendReminders, NextDay, vars
    <2> QED
        BY <2>2, <2>3, <2>4, <2>5 DEF Next
<1> QED
    BY <1>1, <1>2, PerformanceTyped, PTL DEF Spec
=============================================================================
