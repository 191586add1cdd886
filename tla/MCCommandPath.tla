--------------------------- MODULE MCCommandPath ---------------------------
(* Small instances of CommandPath: one command for two robots, and two     *)
(* commands for the same robot.                                            *)
EXTENDS CommandPath, TLC

CONSTANTS q1, q2, c1, c2, r1, r2

\* One command for two robots.
FanOutTargets == q1 :> <<r1, r2>>
FanOutIds == q1 :> c1

\* Two commands for one robot.
SameTarget == (q1 :> <<r1>>) @@ (q2 :> <<r1>>)
DistinctIds == (q1 :> c1) @@ (q2 :> c2)

Symmetry == Permutations(Subscriber)
=============================================================================
