-------------------------- MODULE MCCommandTracker --------------------------
(* Small instance of CommandTracker: two ids, two robots, a clock of three *)
(* readings with a retention of one tick.                                  *)
EXTENDS CommandTracker, TLC

MCTime == 0 .. 2

Symmetry == Permutations(CommandId) \cup Permutations(Robot)
=============================================================================
