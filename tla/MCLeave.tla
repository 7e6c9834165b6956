------------------------------ MODULE MCLeave ------------------------------
(***************************************************************************)
(* An instance of LeaveHistory for TLC.  A year has three months of one     *)
(* day, so that a handful of dates crosses the end of a year.              *)
(***************************************************************************)
EXTENDS LeaveHistory

CONSTANTS e1, t1, r1, r2

(* A tracked type with carry-over: 1 day a year, at most 1 day carried; it *)
(* expires with the first month.                                           *)
Scant == [requiresBalance |-> TRUE, isActive |-> TRUE, allowHalfDay |-> FALSE,
          defaultDays |-> 2, carryOverMaxDays |-> 2, carryOverExpiresOn |-> 1]

(* The same type after HR doubled it and dropped the expiry.               *)
Generous == [Scant EXCEPT !.defaultDays = 4, !.carryOverExpiresOn = 0]

Revised == {Scant, Generous}
Corrections == {-2}
(* HR activates joiners, and puts employees back to work during a leave.   *)
ByHand == {<<"ONBOARDING", "ACTIVE">>, <<"ON_LEAVE", "ACTIVE">>}
SecondDayHire == [e \in Employees |-> 2]
=============================================================================
