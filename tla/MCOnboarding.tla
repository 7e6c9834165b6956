---------------------------- MODULE MCOnboarding ----------------------------
(***************************************************************************)
(* Onboarding and Reminders on a small instance.  They share no state:     *)
(* `focus` picks the one that moves.  Reminders are about a task of the    *)
(* manager, due on the day, and one of HR, due the day before; the         *)
(* employee has no login yet.                                              *)
(***************************************************************************)
EXTENDS Onboarding, Reminders
CONSTANTS sign, tour, lead, hr
VARIABLE focus

(* Templates with nothing, with the required item, with both.              *)
MCItemLists == {{}, {sign}, {sign, tour}}

MCOffset == [t \in Tasks |-> IF t = tour THEN 0 ELSE -1]
MCRule == [t \in Tasks |-> IF t = tour THEN "MANAGER" ELSE "HR"]
MCLogins == {[EMPLOYEE |-> NoLogin, MANAGER |-> u] : u \in {lead, NoLogin}}

MCInit ==
    /\ Init /\ RemindersInit
    /\ focus \in {"checklists", "reminders"}
    /\ focus = "reminders" => templates[<<"ONBOARDING", "company">>] = {sign, tour}
MCNext ==
    \/ focus = "checklists" /\ Next /\ UNCHANGED <<reminders, focus>>
    \/ focus = "reminders" /\ RemindersNext /\ UNCHANGED <<vars, focus>>
MCSpec == MCInit /\ [][MCNext]_<<vars, reminders, focus>> /\ (focus = "checklists" => Fairness)
=============================================================================
