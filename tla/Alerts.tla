-------------------------------- MODULE Alerts --------------------------------
(***************************************************************************)
(* Supervision by exception in the web client: the AlertEngine that turns  *)
(* frames into alerts, and useAlerts, which keeps them with what the       *)
(* operator has acknowledged.                                              *)
(*                                                                         *)
(* React renders the frame that came last: one that is replaced before it  *)
(* is rendered is never ingested, so a step takes any frame.  The alerts   *)
(* a frame makes are rendered later, and the operator clicks on what is    *)
(* rendered: shown lags behind alerts.                                     *)
(***************************************************************************)
EXTENDS Integers, Sequences, FiniteSets, SequencesExt

CONSTANTS
  Robot,      \* the robots
  Command,    \* the commands
  Frames,     \* the frames that may be rendered
  MaxAlerts,  \* how many alerts the client keeps
  MaxSeq,     \* bound on the alerts that are made
  None        \* a robot that was not seen

LinkStatus == {"LINK_LIVE", "LINK_STALE", "LINK_LOST"}
TERMINAL_FAILURES == {"CMD_REJECTED", "CMD_EXPIRED", "CMD_ROBOT_OFFLINE"}
CommandState == {"CMD_PENDING", "CMD_SENT", "CMD_APPLIED"} \cup TERMINAL_FAILURES

\* What the engine reads of a frame: per robot its link and whether it is
\* inside the fence, per command and target the state, in the frame's order.
RobotState   == [robot : Robot, link : LinkStatus, inside : BOOLEAN]
TargetStatus == [command : Command, robot : Robot, state : CommandState]
SwarmState   == [robots : Seq(RobotState), commands : Seq(TargetStatus)]

ASSUME FramesAssumption ==
  /\ Frames \subseteq SwarmState
  /\ \A f \in Frames : \A i, j \in DOMAIN f.robots :
       f.robots[i].robot = f.robots[j].robot => i = j
ASSUME BoundsAssumption == MaxAlerts \in Nat \ {0} /\ MaxSeq \in Nat
ASSUME NoneAssumption == None \notin LinkStatus /\ None \notin BOOLEAN /\ None \notin Command

VARIABLES
  prevLink,         \* the link each robot was last seen with
  prevInside,       \* whether it was inside when last looked at
  seenCmdTargets,   \* the failures that were alerted
  seq,              \* the number of the next alert
  alerts,           \* the alerts kept, oldest first
  shown,            \* the alerts as rendered
  acked,            \* the numbers of the alerts acknowledged
  breachPulseNonce, \* how often the map was told to flash the fence
  links,            \* history: the statuses each link was seen with, one per change
  sides             \* history: whether the robot was inside, likewise

engine  == <<prevLink, prevInside, seenCmdTargets, seq>>
history == <<links, sides>>
vars    == <<engine, alerts, shown, acked, breachPulseNonce, history>>

\* The wording is left out.  command is the one a failure is about: the
\* code's alert names it in no field.
mk(kind, severity, robot, command) ==
  [kind |-> kind, severity |-> severity, robot |-> robot, command |-> command]

linkAlert(robot, cur) ==
  mk("link", CASE cur = "LINK_LIVE"  -> "info"
               [] cur = "LINK_STALE" -> "warn"
               [] cur = "LINK_LOST"  -> "critical", robot, None)

\* Mutation: only what gets worse is alerted.
LinkAlertsOfLosses(r) ==
  IF prevLink[r.robot] \in {None, r.link} \/ r.link = "LINK_LIVE" THEN <<>>
  ELSE <<linkAlert(r.robot, r.link)>>

LinkAlerts(r) ==
  IF prevLink[r.robot] \in {None, r.link} THEN <<>> ELSE <<linkAlert(r.robot, r.link)>>

\* A robot first seen inside is nominal, and one that is LOST is not looked at.
FenceAlerts(r) ==
  LET before == IF prevInside[r.robot] = None THEN TRUE ELSE prevInside[r.robot]
  IN IF r.link = "LINK_LOST" \/ r.inside = before THEN <<>>
     ELSE <<mk("geofence", IF r.inside THEN "info" ELSE "critical", r.robot, None)>>

Key(t) == <<t.command, t.robot>>

Failures(f) == {i \in DOMAIN f.commands : f.commands[i].state \in TERMINAL_FAILURES}

\* Mutation: what was alerted in former frames only is looked at.
FailureAlertsPerFrame(f, i) ==
  LET t == f.commands[i]
  IN IF i \notin Failures(f) \/ Key(t) \in seenCmdTargets THEN <<>>
     ELSE <<mk("command", "warn", t.robot, t.command)>>

\* Once per command and target, also within a frame.
FailureAlerts(f, i) ==
  LET t == f.commands[i]
  IN IF \/ i \notin Failures(f)
        \/ Key(t) \in seenCmdTargets
        \/ \E j \in Failures(f) : j < i /\ Key(f.commands[j]) = Key(t)
     THEN <<>> ELSE <<mk("command", "warn", t.robot, t.command)>>

Created(f) ==
  FlattenSeq([i \in DOMAIN f.robots |-> LinkAlerts(f.robots[i]) \o FenceAlerts(f.robots[i])])
  \o FlattenSeq([i \in DOMAIN f.commands |-> FailureAlerts(f, i)])

RowOf(f, r) == f.robots[CHOOSE i \in DOMAIN f.robots : f.robots[i].robot = r]
Seen(f) == {f.robots[i].robot : i \in DOMAIN f.robots}

Looked(f) == {r \in Seen(f) : RowOf(f, r).link # "LINK_LOST"}

ingest(f) ==
  /\ prevLink' = [r \in Robot |-> IF r \in Seen(f) THEN RowOf(f, r).link ELSE prevLink[r]]
  /\ prevInside' = [r \in Robot |-> IF r \in Looked(f) THEN RowOf(f, r).inside ELSE prevInside[r]]
  /\ seenCmdTargets' = seenCmdTargets \cup {Key(f.commands[i]) : i \in Failures(f)}
  /\ seq' = seq + Len(Created(f))

\* What the frames show, as it changes: no action reads it.  A robot is taken to
\* be inside before it is seen, and a robot that is LOST has no fresh position.
Extended(s, x) == IF s # <<>> /\ Last(s) = x THEN s ELSE Append(s, x)

Witness(f) ==
  /\ links' = [r \in Robot |-> IF r \in Seen(f) THEN Extended(links[r], RowOf(f, r).link)
                                                ELSE links[r]]
  /\ sides' = [r \in Robot |-> IF r \in Seen(f) /\ RowOf(f, r).link # "LINK_LOST"
                               THEN Extended(sides[r], RowOf(f, r).inside) ELSE sides[r]]

\* The last MaxAlerts of a list.
Kept(list) == SubSeq(list, IF Len(list) > MaxAlerts THEN Len(list) - MaxAlerts + 1 ELSE 1, Len(list))

Numbered(out) ==
  [i \in DOMAIN out |-> [id |-> seq + i - 1, kind |-> out[i].kind, severity |-> out[i].severity,
                         robot |-> out[i].robot, command |-> out[i].command]]

Init ==
  /\ prevLink = [r \in Robot |-> None]
  /\ prevInside = [r \in Robot |-> None]
  /\ seenCmdTargets = {}
  /\ seq = 0
  /\ alerts = <<>>
  /\ shown = <<>>
  /\ acked = {}
  /\ breachPulseNonce = 0
  /\ links = [r \in Robot |-> <<>>]
  /\ sides = [r \in Robot |-> <<TRUE>>]

\* A frame is rendered with the alerts there are, then its effect runs.
RenderFrame(f) ==
  LET out == Created(f)
      breach == \E i \in DOMAIN out : out[i].kind = "geofence" /\ out[i].severity = "critical"
  IN /\ seq + Len(out) <= MaxSeq
     /\ ingest(f)
     /\ Witness(f)
     /\ shown' = alerts
     /\ alerts' = Kept(alerts \o Numbered(out))
     /\ breachPulseNonce' = breachPulseNonce + (IF breach THEN 1 ELSE 0)
     /\ UNCHANGED acked

\* The alerts that an effect has made are rendered.
RenderAlerts ==
  /\ shown # alerts
  /\ shown' = alerts
  /\ UNCHANGED <<engine, alerts, acked, breachPulseNonce, history>>

Ids(list) == {list[i].id : i \in DOMAIN list}

\* By their numbers.
unacked == Ids(shown) \ acked

ack(id) ==
  /\ id \in unacked
  /\ acked' = acked \cup {id}
  /\ UNCHANGED <<engine, alerts, shown, breachPulseNonce, history>>

\* Mutation: only what was not yet acknowledged is.
ackAllNew ==
  /\ unacked # {}
  /\ acked' = unacked
  /\ UNCHANGED <<engine, alerts, shown, breachPulseNonce, history>>

\* The button replaces what was acknowledged by what is rendered.
ackAll ==
  /\ unacked # {}
  /\ acked' = Ids(shown)
  /\ UNCHANGED <<engine, alerts, shown, breachPulseNonce, history>>

Next ==
  \/ \E f \in Frames : RenderFrame(f)
  \/ RenderAlerts
  \/ \E id \in Ids(shown) : ack(id)
  \/ ackAll

Spec == Init /\ [][Next]_vars

-----------------------------------------------------------------------------
(* Properties *)

LinkSeverity == [LINK_LIVE |-> "info", LINK_STALE |-> "warn", LINK_LOST |-> "critical"]

\* The severities of the alerts that the changes call for, in order.
Changes(kind, r) ==
  IF kind = "link" THEN [k \in 1 .. Len(links[r]) - 1 |-> LinkSeverity[links[r][k + 1]]]
  ELSE [k \in 1 .. Len(sides[r]) - 1 |-> IF sides[r][k + 1] THEN "info" ELSE "critical"]

\* The numbers of the alerts of a kind about a robot.
Told(list, kind, r) ==
  {list[i].id : i \in {k \in DOMAIN list : list[k].kind = kind /\ list[k].robot = r}}

\* An alert that n others follow tells the change that n others follow.
Tells(list, kind, r) ==
  \A i \in DOMAIN list : list[i].kind = kind /\ list[i].robot = r =>
    LET n == Cardinality({m \in Told(list, kind, r) : m > list[i].id})
    IN /\ n < Len(Changes(kind, r))
       /\ list[i].severity = Changes(kind, r)[Len(Changes(kind, r)) - n]

\* One alert per change of a robot's link and per crossing of the fence, never
\* per frame, in their order and with their severity: those kept are of the last
\* changes, and while nothing was cut there is one of every change that the frames
\* rendered show, the first one and one that is undone included
\* (alertEngine.ts:43-74).
FeedTellsRobots ==
  /\ Len(alerts) <= MaxAlerts
  /\ \A kind \in {"link", "geofence"}, r \in Robot :
       /\ Tells(alerts, kind, r)
       /\ seq <= MaxAlerts => Cardinality(Told(alerts, kind, r)) = Len(Changes(kind, r))

\* A failure of a command at a target is alerted once, whatever number of
\* frames lists it and however often it is listed (alertEngine.ts:70-80).
FailureAlertedOnce ==
  /\ \A i, j \in DOMAIN alerts :
       alerts[i].kind = "command" /\ alerts[j].kind = "command" /\ Key(alerts[i]) = Key(alerts[j])
         => i = j
  /\ seq <= MaxAlerts =>
       \A k \in seenCmdTargets : \E i \in DOMAIN alerts :
         alerts[i].kind = "command" /\ Key(alerts[i]) = k

\* Nothing is acknowledged that was not on the screen, so that an alert made
\* between the rendering and the click survives ACK ALL, and what is
\* acknowledged stays so although ACK ALL replaces the set (useAlerts.ts:33-34).
AckIsOfShownAndFinal ==
  [][/\ acked' \ acked \subseteq Ids(shown)
     /\ \A i \in DOMAIN alerts' : alerts'[i].id \in acked => alerts'[i].id \in acked']_vars

=============================================================================
