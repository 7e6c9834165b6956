----------------------------- MODULE MCWorkflow -----------------------------
(***************************************************************************)
(* Instances of LeaveWorkflow for TLC.                                     *)
(***************************************************************************)
EXTENDS LeaveWorkflow, TLC

CONSTANTS e1, t1, r1, r2, p1, p2

MCSymmetry == Permutations(Procs) \cup Permutations(RequestIds)

Annual == [requiresBalance |-> TRUE, isActive |-> TRUE, allowHalfDay |-> FALSE,
           defaultDays |-> 4, carryOverMaxDays |-> 2, carryOverExpiresOn |-> 0]
(* The entitlement raised.                                                 *)
Generous == [Annual EXCEPT !.defaultDays = 6]

WithHalfDays == {[Annual EXCEPT !.allowHalfDay = TRUE]}
Revised == {Annual, Generous}
Corrections == {-2}
SecondDayHire == [e \in Employees |-> 2]
FirstDayHire == [e \in Employees |-> 1]
=============================================================================
