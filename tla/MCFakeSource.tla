----------------------------- MODULE MCFakeSource -----------------------------
(* Instances of FakeSource for TLC.                                          *)
EXTENDS FakeSource

CONSTANTS r1, r2, u

\* u is a name the simulator does not know, r2 loses its link.
MCTargetLists == {<<r1, r2>>, <<r2, r2>>, <<u, r1>>, <<u>>}

MCOmega == [v \in Speed |-> [R \in Circle |-> v \div R]]
MCStart == [r \in Known |-> [speed |-> 2, radius |-> 2, theta0 |-> 0]]

Giving(speed, radius, theta) == [speed |-> speed, radius |-> radius, theta |-> theta]

\* One parameter alone, two, with an angle, and a radius that is none.
MCParamSets == {Giving(4, None, None), Giving(None, 1, None), Giving(4, 1, None),
                Giving(2, None, 0), Giving(None, 2, None), Giving(4, 0, None)}
=============================================================================
