---------------------------- MODULE MCPageTables ----------------------------
(* Instances of PageTables for TLC. *)
EXTENDS PageTables, TLC

\* No definition tells processors, or frames of tables, apart.
Symmetry == Permutations(Cpu) \cup Permutations(TableFrame)
=============================================================================
