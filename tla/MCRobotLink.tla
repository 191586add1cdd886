---------------------------- MODULE MCRobotLink ----------------------------
(* Two streams for one robot and the empty id: the robot may connect again *)
(* while the reactor of its old stream is being torn down.                 *)
EXTENDS RobotLink, TLC

Symmetry == Permutations(Stream)
=============================================================================
