--------------------------- MODULE MCOrganisation ---------------------------
(***************************************************************************)
(* Organisation on small instances.                                        *)
(***************************************************************************)
EXTENDS Organisation, TLC

(* Nothing tells employees apart, nor departments.                         *)
Symmetry == Permutations(Employees) \cup Permutations(Departments)
=============================================================================
