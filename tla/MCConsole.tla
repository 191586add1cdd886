------------------------------- MODULE MCConsole -------------------------------
(* Instances of Console for TLC.                                             *)
EXTENDS Console, TLC

CONSTANTS r1, r2

\* Half units: 2 is reported and shown as it is, 3 is shown rounded.
MCReported == {2, 3}
Reports(v) == [f \in Field |-> v]

\* Robots appear and vanish, and what r1 reports changes.
MCFrames == {<<>>, r1 :> Reports(2), r1 :> Reports(3) @@ r2 :> Reports(2)}
MCTyped == {0}
MCPreselected == {<<>>, <<r1>>}
=============================================================================
