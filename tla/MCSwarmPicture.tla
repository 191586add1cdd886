---------------------------- MODULE MCSwarmPicture ----------------------------
(* Instances of SwarmPicture for TLC.                                      *)
EXTENDS SwarmPicture, TLC

CONSTANTS r1, r2

\* One robot is started twice, the other once.
RestartAndNewcomer == (r1 :> <<2, 1>>) @@ (r2 :> <<1>>)

\* A robot that is started twice.
Restart == r1 :> <<2, 2>>
=============================================================================
