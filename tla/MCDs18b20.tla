----------------------------- MODULE MCDs18b20 -----------------------------
(***************************************************************************)
(* The coldest temperature; the sensor starts with a positive one.  One    *)
(* process preempts the other and is preempted in turn; a preemption and a *)
(* late slot; the line fails and a slot is late.                           *)
(***************************************************************************)
EXTENDS Ds18b20, TLC

MCTemps == {-880}

Budget(mixed, late, line_) ==
  [t \in Troubles |-> CASE t = "mixed" -> mixed [] t = "late" -> late [] t = "line" -> line_]

MCBudgets == {Budget(2, 0, 0), Budget(1, 1, 0), Budget(0, 1, 1)}

Symmetry == Permutations(Procs)
=============================================================================
