----------------------------- MODULE MCWorkday ------------------------------
(***************************************************************************)
(* Attendance, the assistant and performance reviews share no state.  They *)
(* are checked in one run: `focus` picks the one that moves, the others    *)
(* stay as they began.                                                     *)
(*                                                                         *)
(* Performance: a lead and a report of theirs, one who has left, and an HR *)
(* login that is no employee.  The scenarios: ratings of both, peer        *)
(* feedback, reminders, goals.                                             *)
(***************************************************************************)
EXTENDS Attendance, Assistant, Performance, TLC

CONSTANTS ada, d1, d2, q1, q2, c1, c2, first, second, employee, hrAdmin,
          lead, dev, gone, hr

VARIABLE focus

MCChain == <<first, second>>
MCRoleLimits == (employee :> 2) @@ (hrAdmin :> 0)
Setup(providers, rs) == [configured |-> providers, roles |-> rs]
MCSetups ==
    { Setup({}, {}), Setup({second}, {employee}), Setup({first, second}, {}),
      Setup({first, second}, {employee, hrAdmin}) }
MCOneSetup == { Setup({first, second}, {}) }

MCManagerOf == [e \in Employees |-> IF e # lead THEN lead ELSE Nobody]

Scene(ops, scopes, ratings) == [ops |-> ops, scopes |-> scopes, ratings |-> ratings]
MCScenarios ==
    { Scene({"cycle", "assess"}, {{dev}, Employees}, {1, 2}),
      Scene({"cycle", "feedback", "reassign"}, {{dev}, {gone}}, {1}),
      Scene({"cycle", "assess", "reassign", "remind"}, {{dev}}, {1}),
      Scene({"goals"}, {}, {}) }

MCInit ==
    /\ AttendanceInit /\ AssistantInit /\ Init
    /\ focus \in {"attendance", "assistant", "performance"}
    /\ focus # "assistant" => configured = {}
    /\ focus # "performance" => scenario.ops = {"goals"}

MCNext ==
    \/ focus = "attendance" /\ AttendanceNext /\ UNCHANGED <<assistant, vars, focus>>
    \/ focus = "assistant" /\ AssistantNext /\ UNCHANGED <<attendance, vars, focus>>
    \/ focus = "performance" /\ Next /\ UNCHANGED <<attendance, assistant, focus>>

(* AttendanceFairness, for the behaviours in which attendance moves, and   *)
(* Fairness, whose actions are enabled only where reviews move.            *)
MCFairness ==
    /\ \A d \in Desks : WF_attendance(focus = "attendance" /\ Write(d))
    /\ WF_attendance(focus = "attendance" /\ AutoCloseStaleSessions)
    /\ WF_attendance(focus = "attendance" /\ SaveClosed)
    /\ WF_attendance(focus = "attendance" /\ HourPasses)
    /\ Fairness

MCSpec == MCInit /\ [][MCNext]_<<attendance, assistant, vars, focus>> /\ MCFairness
=============================================================================
