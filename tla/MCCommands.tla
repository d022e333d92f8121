------------------------------- MODULE MCCommands ------------------------------
(******************************************************************************)
(* Commands with two threads and two argument values for TLC.                 *)
(******************************************************************************)
EXTENDS Commands, TLC

Symmetry == Permutations(Values) \cup Permutations(Threads)
================================================================================
