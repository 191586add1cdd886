---------------------------- MODULE CommandPath ----------------------------
(***************************************************************************)
(* The path of a command through the running system: the SendCommand calls *)
(* of the operators, the tracker, the links to the robots, the robots      *)
(* themselves and the subscribers whose feed loops age the commands.       *)
(*                                                                         *)
(* Every RPC runs on a thread of its own; a step is what a thread does     *)
(* between two mutexes.  Each thread reads the system clock before it      *)
(* enters the tracker, so what it passes may be out of date by then.  The  *)
(* clock of this module only goes forward: CommandTracker covers a clock   *)
(* that is set back.                                                       *)
(*                                                                         *)
(* A link is kept as coarse as the tracker sees it.  Its registry and its  *)
(* reactors have a module of their own, RobotLink; the link watchdog is    *)
(* the verdict `offline', which may be wrong in both directions: it is a   *)
(* timer on telemetry, and says nothing of the stream.                     *)
(***************************************************************************)
EXTENDS Integers, Sequences

CONSTANTS
  Request,      \* SendCommand calls
  CommandId,
  Robot,
  Subscriber,   \* Subscribe calls
  IdOf,         \* the command_id of each request, chosen by its client
  TargetsOf,    \* the targets of each request, without repetition
  Refused,      \* the requests whose parameters applyParams refuses
  ExpiryTimes,  \* the expiry fields the clients use
  MaxTime,      \* bound on the clock
  Retention,
  MaxTargets,
  NoTime

ASSUME RequestAssumption ==
  /\ IdOf \in [Request -> CommandId]
  /\ Refused \subseteq Request
  /\ \A q \in Request :
       /\ TargetsOf[q] \in Seq(Robot) /\ Len(TargetsOf[q]) <= MaxTargets
       /\ \A i, j \in DOMAIN TargetsOf[q] : TargetsOf[q][i] = TargetsOf[q][j] => i = j

ASSUME TrackerAssumption ==
  Retention \in Nat \ {0} /\ MaxTargets \in Nat /\ MaxTime \in Nat /\ NoTime \notin Int

Time == 0 .. MaxTime

ASSUME ExpiryAssumption == ExpiryTimes \subseteq Time

VARIABLES
  clock,      \* the system clock
  commands,   \* the tracker's map
  call,       \* the SendCommand threads
  link,       \* the gateway's view of each robot's stream
  down,       \* requests handed to a stream and not read by the robot
  up,         \* results written by the robot and not read by the server
  reader,     \* the OnReadDone callback of each stream that carries a result
  sub,        \* the Subscribe threads
  handed,     \* history: <<request, robot>> the gateway took
  executed    \* history: <<request, robot>> whose parameters were applied

vars == <<clock, commands, call, link, down, up, reader, sub, handed, executed>>

Tracker == INSTANCE CommandTracker

-----------------------------------------------------------------------------
(* OperatorFeedService::SendCommand.                                       *)

NoCall == [pc |-> "new", now |-> NoTime, expiry |-> NoTime, todo |-> {}]

Links == <<link, down, up, reader>>
History == <<handed, executed>>

\* The request arrives: a payload other than SetParameters is refused, else
\* the thread reads its clocks.
Enter(q) ==
  /\ call[q].pc = "new"
  /\ \/ call' = [call EXCEPT ![q].pc = "invalid"]
     \/ \E expiry \in ExpiryTimes :
          call' = [call EXCEPT ![q].pc = "entered", ![q].now = clock,
                               ![q].expiry = expiry]
  /\ UNCHANGED <<clock, commands, Links, sub, History>>

\* Fan-out: the verdicts of the watchdog, then the entry in the tracker.
Submit(q) ==
  /\ call[q].pc = "entered"
  /\ \E offline \in [DOMAIN TargetsOf[q] -> BOOLEAN] :
       /\ Tracker!onCommandSubmitted(IdOf[q], TargetsOf[q], offline,
                                     call[q].expiry, call[q].now)
       /\ call' = [call EXCEPT ![q].pc = "dispatch",
                               ![q].todo = Tracker!ToDispatch(TargetsOf[q], offline)]
  /\ UNCHANGED <<clock, Links, sub, History>>

\* The entry of the target list the dispatch loop is at.
Current(q) == CHOOSE i \in call[q].todo : \A j \in call[q].todo : i <= j

\* Mutation: what gateway_.SendCommand returns is ignored.
DispatchUnchecked(q) ==
  LET r == TargetsOf[q][Current(q)]
  IN  /\ call[q].pc = "dispatch"
      /\ call[q].todo # {}
      /\ call' = [call EXCEPT ![q].pc = "confirm"]
      /\ IF link[r] = "none"
         THEN UNCHANGED <<down, handed>>
         ELSE /\ down' = IF link[r] = "open"
                         THEN [down EXCEPT ![r] = Append(@, q)]
                         ELSE down
              /\ handed' = handed \cup {<<q, r>>}
      /\ UNCHANGED <<clock, commands, link, up, reader, sub, executed>>

\* gateway_.SendCommand for the next target.  The registry still holds a
\* stream that broke until its OnDone ran: what it takes is never written.
Dispatch(q) ==
  LET r == TargetsOf[q][Current(q)]
  IN  /\ call[q].pc = "dispatch"
      /\ call[q].todo # {}
      /\ IF link[r] = "none"
         THEN /\ call' = [call EXCEPT ![q].todo = @ \ {Current(q)}]
              /\ UNCHANGED <<down, handed>>
         ELSE /\ call' = [call EXCEPT ![q].pc = "confirm"]
              /\ down' = IF link[r] = "open"
                         THEN [down EXCEPT ![r] = Append(@, q)]
                         ELSE down
              /\ handed' = handed \cup {<<q, r>>}
      /\ UNCHANGED <<clock, commands, link, up, reader, sub, executed>>

\* tracker_.onCommandSent for the target just handed over.
Confirm(q) ==
  /\ call[q].pc = "confirm"
  /\ Tracker!onCommandSent(IdOf[q], TargetsOf[q][Current(q)])
  /\ call' = [call EXCEPT ![q].pc = "dispatch", ![q].todo = @ \ {Current(q)}]
  /\ UNCHANGED <<clock, Links, sub, History>>

\* The loop is over and the call answers Accepted.
Returned(q) == call[q].pc = "dispatch" /\ call[q].todo = {}

-----------------------------------------------------------------------------
(* The links and the robots.                                               *)

LinkUp(r) ==
  /\ link[r] = "none"
  /\ link' = [link EXCEPT ![r] = "open"]
  /\ UNCHANGED <<clock, commands, call, down, up, reader, sub, History>>

\* The stream breaks.  What is buffered at either end may still be read.
Break(r) ==
  /\ link[r] = "open"
  /\ link' = [link EXCEPT ![r] = "broken"]
  /\ UNCHANGED <<clock, commands, call, down, up, reader, sub, History>>

\* OnDone: the stream leaves the registry and takes its queues with it.
Unlink(r) ==
  /\ link[r] = "broken"
  /\ reader[r] = <<>>
  /\ link' = [link EXCEPT ![r] = "none"]
  /\ down' = [down EXCEPT ![r] = <<>>]
  /\ up'   = [up EXCEPT ![r] = <<>>]
  /\ UNCHANGED <<clock, commands, call, reader, sub, History>>

\* applyParams refuses a radius that is not positive and nothing else; the
\* robot does not look at the expiry of what it reads.
Verdict(q) == IF q \in Refused THEN "RESULT_REJECTED" ELSE "RESULT_APPLIED"

\* The robot's reader thread: read a command, apply it, queue the result.
Execute(r) ==
  LET q == Head(down[r])
  IN  /\ down[r] # <<>>
      /\ down' = [down EXCEPT ![r] = Tail(@)]
      /\ executed' = IF Verdict(q) = "RESULT_APPLIED"
                     THEN executed \cup {<<q, r>>}
                     ELSE executed
      /\ up' = IF link[r] = "open" THEN [up EXCEPT ![r] = Append(@, q)] ELSE up
      /\ UNCHANGED <<clock, commands, call, link, reader, sub, handed>>

\* OnReadDone with a CommandResult: on_command_result_ reads the clock ...
ReadResult(r) ==
  /\ up[r] # <<>>
  /\ reader[r] = <<>>
  /\ reader' = [reader EXCEPT ![r] = <<Head(up[r]), clock>>]
  /\ up' = [up EXCEPT ![r] = Tail(@)]
  /\ UNCHANGED <<clock, commands, call, link, down, sub, History>>

\* ... and enters the tracker.
RecordResult(r) ==
  /\ reader[r] # <<>>
  /\ Tracker!onCommandResult(IdOf[reader[r][1]], r, Verdict(reader[r][1]), reader[r][2])
  /\ reader' = [reader EXCEPT ![r] = <<>>]
  /\ UNCHANGED <<clock, call, link, down, up, sub, History>>

-----------------------------------------------------------------------------
(* OperatorFeedService::Subscribe, one frame at a time.                    *)

Connect(s) ==
  /\ sub[s].pc = "off"
  /\ sub' = [sub EXCEPT ![s].pc = "loop"]
  /\ UNCHANGED <<clock, commands, call, Links, History>>

StartFrame(s) ==
  /\ sub[s].pc = "loop"
  /\ sub' = [sub EXCEPT ![s] = [pc |-> "sweep", now |-> clock]]
  /\ UNCHANGED <<clock, commands, call, Links, History>>

SweepFrame(s) ==
  /\ sub[s].pc = "sweep"
  /\ Tracker!sweepExpired(sub[s].now)
  /\ sub' = [sub EXCEPT ![s].pc = "write"]
  /\ UNCHANGED <<clock, call, Links, History>>

\* The snapshot and the Write of the frame; nobody sees the snapshot before.
\* A Write that fails ends the call.
WriteFrame(s) ==
  /\ sub[s].pc = "write"
  /\ \E pc \in {"loop", "off"} : sub' = [sub EXCEPT ![s] = [pc |-> pc, now |-> NoTime]]
  /\ UNCHANGED <<clock, commands, call, Links, History>>

Tick ==
  /\ clock < MaxTime
  /\ clock' = clock + 1
  /\ UNCHANGED <<commands, call, Links, sub, History>>

-----------------------------------------------------------------------------

Init ==
  /\ clock = 0
  /\ Tracker!Init
  /\ call = [q \in Request |-> NoCall]
  /\ link = [r \in Robot |-> "none"]
  /\ down = [r \in Robot |-> <<>>]
  /\ up = [r \in Robot |-> <<>>]
  /\ reader = [r \in Robot |-> <<>>]
  /\ sub = [s \in Subscriber |-> [pc |-> "off", now |-> NoTime]]
  /\ handed = {}
  /\ executed = {}

Operator(q) == Enter(q) \/ Submit(q) \/ Dispatch(q) \/ Confirm(q)

Stream(r) == LinkUp(r) \/ Break(r) \/ Unlink(r)

RobotStep(r) == Execute(r) \/ ReadResult(r) \/ RecordResult(r)

Frame(s) == StartFrame(s) \/ SweepFrame(s) \/ WriteFrame(s)

Next ==
  \/ \E q \in Request : Operator(q)
  \/ \E r \in Robot : Stream(r) \/ RobotStep(r)
  \/ \E s \in Subscriber : Connect(s) \/ Frame(s)
  \/ Tick

\* Time passes, and a thread that needs only the tracker's mutex gets it.
\* Nothing obliges an operator to send or to subscribe, a link to come up, a
\* robot to answer, or a Write to a subscriber that does not read to return.
Fairness ==
  /\ WF_vars(Tick)
  /\ \A q \in Request : WF_vars(call[q].pc # "new" /\ Operator(q))
  /\ \A r \in Robot : WF_vars(RecordResult(r))
  /\ \A s \in Subscriber : WF_vars(SweepFrame(s))

Spec == Init /\ [][Next]_vars

FairSpec == Spec /\ Fairness

-----------------------------------------------------------------------------
(* Properties.                                                             *)

\* The state the tracker holds for target r of request q; "NONE" when it
\* holds none.
StateOf(q, r) ==
  IF Tracker!TargetIn(IdOf[q], r, Tracker!TargetState)
  THEN commands[IdOf[q]].targets[r]
  ELSE "NONE"

\* What the operator reads is what happened on the robot, when ids are not
\* reused: APPLIED only if this robot applied these parameters, REJECTED only
\* if it refused them, and ROBOT_OFFLINE only if nothing was sent to it at all.
VerdictMatchesRobot ==
  \A q \in Request : \A r \in Robot :
    /\ StateOf(q, r) = "APPLIED"       => <<q, r>> \in executed
    /\ StateOf(q, r) = "REJECTED"      => <<q, r>> \in handed \ executed
    /\ StateOf(q, r) = "ROBOT_OFFLINE" => <<q, r>> \notin handed

\* SENT is told of the commands the gateway took, and of no other: while the
\* call runs a target is SENT only if it was handed over, and when the call
\* has returned a target still PENDING is one the gateway had no link for.
SentIffHanded ==
  \A q \in Request : \A r \in Robot :
    /\ StateOf(q, r) = "SENT" => <<q, r>> \in handed
    /\ Returned(q) /\ StateOf(q, r) = "PENDING" => <<q, r>> \notin handed

\* EXPIRED is never told before the validity window has passed, however the
\* clock readings of the threads are interleaved.
ExpiredNotEarly ==
  \A q \in Request : \A r \in Robot :
    StateOf(q, r) = "EXPIRED" => clock >= call[q].expiry

\* A request that was dispatched stays tracked while anything about it is
\* open: its entry goes away only in a sweep whose clock reading is at least
\* Retention after the reading at which its last target was settled.
DroppedOnlyAfterRetention ==
  [][\A c \in DOMAIN commands \ DOMAIN commands' :
       /\ Tracker!Settled(commands[c])
       /\ clock - commands[c].completed_at >= Retention]_vars

\* As long as some feed loop begins frames again and again, every target of
\* a command reaches a terminal state, whatever the links and the robots do:
\* the feed loops are what expires a command.
EverySubmissionSettles ==
  []<>(\E s \in Subscriber : sub[s].pc = "sweep")
    => \A c \in CommandId :
         c \in DOMAIN commands
           ~> (c \in DOMAIN commands => Tracker!Settled(commands[c]))
=============================================================================
