------------------------------- MODULE MCAlerts -------------------------------
(* Instances of Alerts for TLC.                                              *)
EXTENDS Alerts

CONSTANTS r1, r2, c1

Row(r, link, inside) == [robot |-> r, link |-> link, inside |-> inside]
Target(r, state) == [command |-> c1, robot |-> r, state |-> state]

\* r1 is as it may be or absent, r2 crosses the fence or is lost outside.
MCFrames ==
  [robots : {a \o b : a \in {<<>>} \cup {<<Row(r1, l, i)>> : l \in LinkStatus, i \in BOOLEAN},
                      b \in {<<>>} \cup {<<Row(r2, "LINK_LIVE", i)>> : i \in BOOLEAN}
                            \cup {<<Row(r2, "LINK_LOST", FALSE)>>}},
   commands : {<<>>, <<Target(r1, "CMD_SENT")>>,
               <<Target(r1, "CMD_EXPIRED"), Target(r1, "CMD_EXPIRED")>>,
               <<Target(r1, "CMD_EXPIRED"), Target(r2, "CMD_REJECTED")>>}]
=============================================================================
