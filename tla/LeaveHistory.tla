---------------------------- MODULE LeaveHistory ----------------------------
(***************************************************************************)
(* LeaveLedger with a history of what HR has done to employee records by   *)
(* hand.  Long leave moves an employee to ON_LEAVE and back on its own,    *)
(* but the employees API accepts the same transitions from HR, and neither *)
(* side tells the other: a request keeps its statusApplied when HR puts    *)
(* its employee back to work.                                              *)
(***************************************************************************)
EXTENDS LeaveLedger

VARIABLE calledBack     \* history: employees HR has put back from leave

hvars == <<vars, calledBack>>

CalledBack(e) == empStatus[e] = "ON_LEAVE" /\ ChangeStatus(e, "ACTIVE")

HInit == Init /\ calledBack = {}

HNext ==
    /\ Next
    /\ calledBack' = calledBack \cup {e \in Employees : CalledBack(e)}

HSpec == HInit /\ [][HNext]_hvars

(* The fairness of LeaveLedger.                                            *)
FairHSpec == HSpec /\ WF_vars(Tick) /\ WF_vars(SyncEmployeeStatuses)

-----------------------------------------------------------------------------
(* statusApplied: only approved requests hold an employee on leave; and    *)
(* until HR calls the employee back by hand, at most one request does, and *)
(* the employee is then really ON_LEAVE (or gone), whatever was approved,  *)
(* cancelled, terminated or swept by the job, and in whatever order.  (An  *)
(* employee who was called back may be held by two requests, and the end   *)
(* of the older then ends the newer one too.)                              *)
AppliedIsOnLeave ==
    \A i \in RequestIds : requests[i].statusApplied =>
        /\ requests[i].status = "APPROVED"
        /\ requests[i].employee \notin calledBack =>
               /\ empStatus[requests[i].employee] \in {"ON_LEAVE", "TERMINATED"}
               /\ \A j \in RequestIds \ {i} :
                      requests[j].statusApplied => requests[j].employee # requests[i].employee
=============================================================================
