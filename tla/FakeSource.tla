------------------------------ MODULE FakeSource ------------------------------
(***************************************************************************)
(* The bridge's demo feed: robots on circles, one of them on a scripted    *)
(* cycle of link loss, and commands that advance by the tick.              *)
(*                                                                         *)
(* Time is the tick, DT.  A robot's position is its angle on its circle,   *)
(* in whole numbers; Omega stands for speed over radius, the angle per     *)
(* tick.  The centre, which is taken like the speed and turns nothing, is  *)
(* left out.  No robot of the constructor is frozen: the branches for one  *)
(* are left out.                                                           *)
(***************************************************************************)
EXTENDS Integers, Sequences

CONSTANTS
  RobotId,       \* the robots an operator may name
  Known,         \* those the simulator has
  Cycling,       \* those on the cycle of link loss
  Speed, Radius, \* the speeds and the radii that may be given
  Omega,         \* the angle per tick at a speed and a radius
  Start,         \* the motions that the constructor gives
  TargetLists,   \* the lists of targets of the commands
  ParamSets,     \* the parameters of the commands
  LIVE, STALE, LOST,  \* the cycle, in ticks
  RETAIN_TICKS,  \* how long a settled command is listed
  MaxTicks,      \* bound on the ticks
  MaxCommands,   \* bound on the commands
  None           \* a parameter that is not given

ASSUME RobotAssumption == Known \subseteq RobotId /\ Cycling \subseteq Known
ASSUME TargetsAssumption == TargetLists \subseteq Seq(RobotId)

\* The radii of circles: a command may give others.
Circle == {R \in Radius : R > 0}
Motion == [speed : Speed, radius : Circle, theta0 : Int]

ASSUME MotionAssumption ==
  /\ Speed \subseteq Int /\ Radius \subseteq Int /\ None \notin Int
  /\ Omega \in [Speed -> [Circle -> Int]]
  /\ Start \in [Known -> Motion]
ASSUME ParamsAssumption ==
  ParamSets \subseteq [speed : Speed \cup {None}, radius : Radius \cup {None}, theta : {0, None}]
ASSUME TicksAssumption ==
  /\ LIVE \in Nat \ {0} /\ STALE \in Nat \ {0} /\ LOST \in Nat \ {0}
  /\ RETAIN_TICKS \in Nat \ {0, 1}
  /\ MaxTicks \in Nat /\ MaxCommands \in Nat

VARIABLES
  elapsed,   \* the ticks so far
  robots,    \* the motion of each robot
  commands,  \* the commands listed, by their number: the list is in that order
  issued,    \* how many commands there were: the identity of the next
  running    \* whether the interval is set

fakeVars == <<elapsed, robots, commands, issued, running>>

InFlight == {"PENDING", "SENT"}

\* ---- what a frame shows of a robot -------------------------------------
Phase(r)      == IF r \in Cycling THEN elapsed % (LIVE + STALE + LOST) ELSE 0
LinkDown(r)   == Phase(r) >= LIVE
Rate(m)       == Omega[m.speed][m.radius]

\* While the link is down, that of the tick at which it went.
Reported(r) ==
  LET at == IF LinkDown(r) THEN elapsed - (Phase(r) - LIVE) ELSE elapsed
  IN Rate(robots[r]) * at + robots[r].theta0

FakeInit ==
  /\ elapsed = 0
  /\ robots = Start
  /\ commands = [id \in {} |-> None]
  /\ issued = 0
  /\ running = TRUE

Target(r, params) ==
  IF r \in Known THEN [robot |-> r, state |-> "PENDING", ticksToNext |-> 1, pending |-> params]
  ELSE [robot |-> r, state |-> "ROBOT_OFFLINE", ticksToNext |-> 0, pending |-> params]

\* The web client mints an identity that is new: the number.
sendCommand(targets, params) ==
  LET c == [retire  |-> RETAIN_TICKS,
            targets |-> [j \in DOMAIN targets |-> Target(targets[j], params)]]
  IN /\ running
     /\ issued < MaxCommands
     /\ issued' = issued + 1
     /\ commands' = [id \in DOMAIN commands \cup {issued'} |->
                       IF id = issued' THEN c ELSE commands[id]]
     /\ UNCHANGED <<elapsed, robots, running>>

\* Mutation: a target that is not known is taken for one in flight.
AdvancedAny(t) ==
  IF t.state = "APPLIED" THEN t
  ELSE IF t.ticksToNext > 1 THEN [t EXCEPT !.ticksToNext = @ - 1]
  ELSE IF t.state = "PENDING" THEN [t EXCEPT !.state = "SENT", !.ticksToNext = 2]
  ELSE [t EXCEPT !.state = "APPLIED", !.ticksToNext = 0]

Advanced(t) ==
  IF t.state \notin InFlight THEN t
  ELSE IF t.ticksToNext > 1 THEN [t EXCEPT !.ticksToNext = @ - 1]
  ELSE IF t.state = "PENDING" THEN [t EXCEPT !.state = "SENT", !.ticksToNext = 2]
  ELSE [t EXCEPT !.state = "APPLIED", !.ticksToNext = 0]

Applies(t) == t.state # "APPLIED" /\ Advanced(t).state = "APPLIED"

\* A radius that is none of a circle is not taken.
Speeded(m, p) == IF p.speed = None THEN m.speed ELSE p.speed
Sized(m, p)   == IF p.radius = None \/ p.radius <= 0 THEN m.radius ELSE p.radius

\* Mutation: a new rate starts from the old angle at time zero.
applyParamsPlain(robs, t) ==
  LET m == robs[t.robot]
  IN [robs EXCEPT ![t.robot] =
        [speed |-> Speeded(m, t.pending), radius |-> Sized(m, t.pending),
         theta0 |-> IF t.pending.theta # None THEN t.pending.theta ELSE m.theta0]]

\* The angle is kept across a change of speed or radius, unless theta is given.
applyParams(robs, t) ==
  LET m == robs[t.robot]
      speed == Speeded(m, t.pending)
      radius == Sized(m, t.pending)
      phiOld == Rate(m) * elapsed' + m.theta0
  IN [robs EXCEPT ![t.robot] =
        [speed |-> speed, radius |-> radius,
         theta0 |-> IF t.pending.theta # None THEN t.pending.theta
                    ELSE phiOld - Omega[speed][radius] * elapsed']]

\* A command's targets that become APPLIED, one after the other.
AppliedTargets(robs, targets) ==
  LET after[j \in 0 .. Len(targets)] ==
        IF j = 0 THEN robs
        ELSE IF Applies(targets[j]) THEN applyParams(after[j - 1], targets[j])
        ELSE after[j - 1]
  IN after[Len(targets)]

\* Mutation: the last command of a tick is applied first.
AppliedBackwards ==
  LET after[n \in 0 .. issued] ==
        LET id == issued + 1 - n
        IN IF n = 0 THEN robots
           ELSE IF id \in DOMAIN commands THEN AppliedTargets(after[n - 1], commands[id].targets)
           ELSE after[n - 1]
  IN after[issued]

\* Those of all commands, the oldest first.
Applied ==
  LET after[id \in 0 .. issued] ==
        IF id = 0 THEN robots
        ELSE IF id \in DOMAIN commands THEN AppliedTargets(after[id - 1], commands[id].targets)
        ELSE after[id - 1]
  IN after[issued]

AdvancedCommand(c) ==
  LET next == [j \in DOMAIN c.targets |-> Advanced(c.targets[j])]
      settled == \A j \in DOMAIN next : next[j].state \notin InFlight
  IN [targets |-> next, retire |-> IF settled THEN c.retire - 1 ELSE c.retire]

advanceCommands ==
  /\ robots' = Applied
  /\ commands' = [id \in {n \in DOMAIN commands : AdvancedCommand(commands[n]).retire > 0} |->
                    AdvancedCommand(commands[id])]

\* The interval: time, commands, then the frame.
tick ==
  /\ running
  /\ elapsed < MaxTicks
  /\ elapsed' = elapsed + 1
  /\ advanceCommands
  /\ UNCHANGED <<issued, running>>

\* The bridge is interrupted and ends.
stop ==
  /\ running
  /\ running' = FALSE
  /\ UNCHANGED <<elapsed, robots, commands, issued>>

FakeNext ==
  \/ \E targets \in TargetLists, params \in ParamSets : sendCommand(targets, params)
  \/ tick
  \/ stop

FakeSpec == FakeInit /\ [][FakeNext]_fakeVars

-----------------------------------------------------------------------------
(* Properties *)

\* The entries of a command's list for a robot.
At(id, r) == {j \in DOMAIN commands[id].targets : commands[id].targets[j].robot = r}

\* The state of a target, as in the life cycle.
StateOf(id, r) ==
  IF id \in DOMAIN commands /\ At(id, r) # {}
  THEN commands[id].targets[CHOOSE j \in At(id, r) : TRUE].state ELSE "NONE"

Status == [id \in 1 .. MaxCommands |-> [r \in RobotId |-> StateOf(id, r)]]

Lifecycle == INSTANCE CommandLifecycle WITH status <- Status, CommandId <- 1 .. MaxCommands, Robot <- RobotId

\* The demo feed takes a command through the life cycle that the tracker
\* promises, and forgets it only when nothing of it is in flight
\* (fakeSource.ts:162-186).
ImplementsLifecycle == Lifecycle!Spec

Given(r)      == \E id \in DOMAIN commands : \E j \in At(id, r) : Applies(commands[id].targets[j])
GivenTheta(r) == \E id \in DOMAIN commands : \E j \in At(id, r) :
                   Applies(commands[id].targets[j]) /\ commands[id].targets[j].pending.theta # None

\* From frame to frame a robot that is LIVE goes on along its circle from where
\* it was, whatever is applied to it but an angle, and a robot whose link is
\* down stays where it went down unless something is applied to it
\* (fakeSource.ts:121-145, 188-204).
PhaseIsSteady ==
  [][elapsed' # elapsed =>
       \A r \in Known :
         /\ ~LinkDown(r) /\ ~LinkDown(r)' /\ ~GivenTheta(r) =>
              Reported(r)' = Reported(r) + Rate(robots[r])
         /\ LinkDown(r) /\ LinkDown(r)' /\ ~Given(r) => Reported(r)' = Reported(r)]_fakeVars

Fields == {"speed", "radius"}

\* The entries of a command that are APPLIED and give robot r a speed or a
\* radius, and those that give one it can move with.
AppliedWith(id, r, field) == {j \in At(id, r) : /\ commands[id].targets[j].state = "APPLIED"
                                                /\ commands[id].targets[j].pending[field] # None}
SetBy(id, r, field) == {j \in AppliedWith(id, r, field) :
                          field = "radius" => commands[id].targets[j].pending[field] > 0}

\* Of several commands to one robot that are listed as APPLIED, it moves at the
\* speed that the latest one to give one says, and on the radius that the latest
\* one to give one above zero says, whether a command gives one of them or both
\* (fakeSource.ts:164-186, 191-198).
LatestCommandRules ==
  \A field \in Fields, r \in Known : \A i \in DOMAIN commands : \A j \in SetBy(i, r, field) :
    (\A id \in DOMAIN commands : id > i => SetBy(id, r, field) = {}) =>
      robots[r][field] = commands[i].targets[j].pending[field]

=============================================================================
