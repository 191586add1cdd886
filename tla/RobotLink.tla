------------------------------ MODULE RobotLink ------------------------------
(***************************************************************************)
(* The robot side of the C2 server: the registry of                        *)
(* GrpcRobotCallbackGateway and one GrpcRobotReactor per Link call, driven  *)
(* by the gRPC callback library (src/src/core/grpc_robot_callback_gateway  *)
(* and grpc_robot_reactor).                                                *)
(*                                                                         *)
(* registry_mutex_ and each reactor's outgoing_mutex make a step: the      *)
(* gateway enqueues with both held.  The library's part is external: it    *)
(* completes each operation it was given once, with ok = FALSE when the    *)
(* peer is gone or the call was finished, may run the read and the write   *)
(* callback of a reactor side by side, and calls OnDone when Finish was    *)
(* called and no operation or callback is left.                            *)
(*                                                                         *)
(* A command is named by its rank among those its reactor took.            *)
(***************************************************************************)
EXTENDS Integers, Sequences

CONSTANTS
  RobotId,      \* the robot_id strings that messages carry
  EmptyId,      \* the empty string: robot_id of a reactor not yet registered
  Stream,       \* the Link calls, each with its reactor
  NoStream,     \* no entry in the registry
  MaxAccepted   \* bound on the commands one reactor takes

ASSUME EmptyIdAssumption == EmptyId \in RobotId
ASSUME NoStreamAssumption == NoStream \notin Stream
ASSUME MaxAcceptedAssumption == MaxAccepted \in Nat

VARIABLES
  registry,    \* registry_: the reactor commands for a robot_id go to
  life,        \* the reactor's memory
  robot_id,    \* robot_id of each reactor
  registered,  \* registered of each reactor
  read,        \* the read operation: outstanding, in its callback, or none
  queue,       \* outgoing_queue
  outgoing,    \* the write buffer, which the library reads until it is done
  writing,     \* writing
  writes,      \* library: write operations outstanding
  finishes,    \* calls of Finish
  broken,      \* library: the peer closed the stream or is gone
  wire,        \* library: what was written to the stream
  accepted     \* how many commands the reactor took

reads  == <<robot_id, registered, read>>
pump   == <<queue, outgoing, writing, writes, wire>>
vars   == <<registry, life, reads, pump, finishes, broken, accepted>>

-----------------------------------------------------------------------------
(* The write pump.                                                         *)

\* Mutation: the writing flag is not looked at.
pumpLockedEager(s, q, busy, outstanding) ==
  /\ queue' = [queue EXCEPT ![s] = q]
  /\ IF q = <<>>
     THEN /\ writing' = [writing EXCEPT ![s] = busy]
          /\ writes' = [writes EXCEPT ![s] = outstanding]
          /\ UNCHANGED outgoing
     ELSE /\ writing' = [writing EXCEPT ![s] = TRUE]
          /\ writes' = [writes EXCEPT ![s] = outstanding + 1]
          /\ outgoing' = [outgoing EXCEPT ![s] = Head(q)]

\* pumpLocked, given the queue and the writing flag its caller leaves: with
\* no write going on, copy the front into the buffer and start writing it.
pumpLocked(s, q, busy, outstanding) ==
  /\ queue' = [queue EXCEPT ![s] = q]
  /\ IF busy \/ q = <<>>
     THEN /\ writing' = [writing EXCEPT ![s] = busy]
          /\ writes' = [writes EXCEPT ![s] = outstanding]
          /\ UNCHANGED outgoing
     ELSE /\ writing' = [writing EXCEPT ![s] = TRUE]
          /\ writes' = [writes EXCEPT ![s] = outstanding + 1]
          /\ outgoing' = [outgoing EXCEPT ![s] = Head(q)]

\* SendCommand for a robot the registry has no reactor for returns false.
SendCommandUnlinked(r) ==
  /\ registry[r] = NoStream
  /\ UNCHANGED vars

\* Mutation: enqueue does not start the pump.
SendCommandDormant(r) ==
  LET s == registry[r]
  IN  /\ s # NoStream
      /\ accepted[s] < MaxAccepted
      /\ accepted' = [accepted EXCEPT ![s] = @ + 1]
      /\ queue' = [queue EXCEPT ![s] = Append(@, accepted[s] + 1)]
      /\ UNCHANGED <<registry, life, reads, outgoing, writing, writes, finishes,
                     broken, wire>>

\* SendCommand: enqueue on the reactor, whose pump starts if it is dormant.
SendCommand(r) ==
  LET s == registry[r]
  IN  /\ s # NoStream
      /\ accepted[s] < MaxAccepted
      /\ accepted' = [accepted EXCEPT ![s] = @ + 1]
      /\ pumpLocked(s, Append(queue[s], accepted[s] + 1), writing[s], writes[s])
      /\ UNCHANGED <<registry, life, reads, finishes, broken, wire>>

\* Mutation: the command that was written stays in the queue.
OnWriteDoneOkNoPop(s) ==
  /\ writes[s] > 0
  /\ ~broken[s] /\ finishes[s] = 0
  /\ wire' = [wire EXCEPT ![s] = Append(@, outgoing[s])]
  /\ pumpLocked(s, queue[s], FALSE, writes[s] - 1)
  /\ UNCHANGED <<registry, life, reads, finishes, broken, accepted>>

\* Mutation: the next write is not started.
OnWriteDoneOkNoPump(s) ==
  /\ writes[s] > 0
  /\ ~broken[s] /\ finishes[s] = 0
  /\ wire' = [wire EXCEPT ![s] = Append(@, outgoing[s])]
  /\ queue' = [queue EXCEPT ![s] = Tail(@)]
  /\ writing' = [writing EXCEPT ![s] = FALSE]
  /\ writes' = [writes EXCEPT ![s] = @ - 1]
  /\ UNCHANGED <<registry, life, reads, outgoing, finishes, broken, accepted>>

\* A write succeeds: the robot is sent what is in the buffer by then.
OnWriteDoneOk(s) ==
  /\ writes[s] > 0
  /\ ~broken[s] /\ finishes[s] = 0
  /\ wire' = [wire EXCEPT ![s] = Append(@, outgoing[s])]
  /\ pumpLocked(s, Tail(queue[s]), FALSE, writes[s] - 1)
  /\ UNCHANGED <<registry, life, reads, finishes, broken, accepted>>

\* A write fails: the command stays in the queue and the call is finished.
OnWriteDoneFailed(s) ==
  /\ writes[s] > 0
  /\ broken[s] \/ finishes[s] > 0
  /\ writing' = [writing EXCEPT ![s] = FALSE]
  /\ writes' = [writes EXCEPT ![s] = @ - 1]
  /\ finishes' = [finishes EXCEPT ![s] = @ + 1]
  /\ UNCHANGED <<registry, life, reads, queue, outgoing, broken, wire, accepted>>

-----------------------------------------------------------------------------
(* The life of a stream.                                                   *)

\* A robot calls Link: a reactor is allocated and starts its first read.
Link(s) ==
  /\ life[s] = "unborn"
  /\ life' = [life EXCEPT ![s] = "active"]
  /\ read' = [read EXCEPT ![s] = "outstanding"]
  /\ UNCHANGED <<registry, robot_id, registered, pump, finishes, broken, accepted>>

\* The first message names the robot (with the empty string if it is not
\* telemetry); registry_.emplace keeps an entry that is there.
OnReadDoneFirst(s, r) ==
  /\ read[s] = "outstanding"
  /\ ~broken[s] /\ finishes[s] = 0
  /\ ~registered[s]
  /\ robot_id' = [robot_id EXCEPT ![s] = r]
  /\ registry' = [registry EXCEPT ![r] = IF @ = NoStream THEN s ELSE @]
  /\ registered' = [registered EXCEPT ![s] = TRUE]
  /\ read' = [read EXCEPT ![s] = "callback"]
  /\ UNCHANGED <<life, pump, finishes, broken, accepted>>

OnReadDoneNext(s) ==
  /\ read[s] = "outstanding"
  /\ ~broken[s] /\ finishes[s] = 0
  /\ registered[s]
  /\ read' = [read EXCEPT ![s] = "callback"]
  /\ UNCHANGED <<registry, life, robot_id, registered, pump, finishes, broken, accepted>>

\* The message is delivered to the core and the next read is started.
StartNextRead(s) ==
  /\ read[s] = "callback"
  /\ read' = [read EXCEPT ![s] = "outstanding"]
  /\ UNCHANGED <<registry, life, robot_id, registered, pump, finishes, broken, accepted>>

\* Mutation: a read that fails does not finish the call.
OnReadDoneFailedNoFinish(s) ==
  /\ read[s] = "outstanding"
  /\ broken[s] \/ finishes[s] > 0
  /\ read' = [read EXCEPT ![s] = "none"]
  /\ UNCHANGED <<registry, life, robot_id, registered, pump, finishes, broken, accepted>>

OnReadDoneFailed(s) ==
  /\ read[s] = "outstanding"
  /\ broken[s] \/ finishes[s] > 0
  /\ read' = [read EXCEPT ![s] = "none"]
  /\ finishes' = [finishes EXCEPT ![s] = @ + 1]
  /\ UNCHANGED <<registry, life, robot_id, registered, pump, broken, accepted>>

\* Mutation: the entry is nulled, not erased.
OnDoneUnregisterNull(s) ==
  /\ life[s] = "active"
  /\ finishes[s] > 0
  /\ read[s] = "none"
  /\ writes[s] = 0
  /\ registry' = [registry EXCEPT ![robot_id[s]] = "nullptr"]
  /\ life' = [life EXCEPT ![s] = "done"]
  /\ UNCHANGED <<reads, pump, finishes, broken, accepted>>

\* Mutation: the reactor deletes itself and stays registered.
OnDoneUnregisterNot(s) ==
  /\ life[s] = "active"
  /\ finishes[s] > 0
  /\ read[s] = "none"
  /\ writes[s] = 0
  /\ life' = [life EXCEPT ![s] = "done"]
  /\ UNCHANGED <<registry, reads, pump, finishes, broken, accepted>>

\* OnDone, first half: erase the registry entry of this reactor's robot_id,
\* whichever reactor it leads to.
OnDoneUnregister(s) ==
  /\ life[s] = "active"
  /\ finishes[s] > 0
  /\ read[s] = "none"
  /\ writes[s] = 0
  /\ registry' = [registry EXCEPT ![robot_id[s]] = NoStream]
  /\ life' = [life EXCEPT ![s] = "done"]
  /\ UNCHANGED <<reads, pump, finishes, broken, accepted>>

\* OnDone, second half: delete this.
OnDoneDelete(s) ==
  /\ life[s] = "done"
  /\ life' = [life EXCEPT ![s] = "deleted"]
  /\ UNCHANGED <<registry, reads, pump, finishes, broken, accepted>>

\* The robot closes the stream, or it dies or drops off the network and the
\* transport notices.
Hangup(s) ==
  /\ life[s] = "active"
  /\ ~broken[s]
  /\ broken' = [broken EXCEPT ![s] = TRUE]
  /\ UNCHANGED <<registry, life, reads, pump, finishes, accepted>>

-----------------------------------------------------------------------------

Init ==
  /\ registry = [r \in RobotId |-> NoStream]
  /\ life = [s \in Stream |-> "unborn"]
  /\ robot_id = [s \in Stream |-> EmptyId]
  /\ registered = [s \in Stream |-> FALSE]
  /\ read = [s \in Stream |-> "none"]
  /\ queue = [s \in Stream |-> <<>>]
  /\ outgoing = [s \in Stream |-> 0]
  /\ writing = [s \in Stream |-> FALSE]
  /\ writes = [s \in Stream |-> 0]
  /\ finishes = [s \in Stream |-> 0]
  /\ broken = [s \in Stream |-> FALSE]
  /\ wire = [s \in Stream |-> <<>>]
  /\ accepted = [s \in Stream |-> 0]

\* What the library does for a stream that has something to complete.
Library(s) ==
  \/ OnWriteDoneOk(s)
  \/ OnWriteDoneFailed(s)
  \/ StartNextRead(s)
  \/ OnReadDoneFailed(s)
  \/ OnDoneUnregister(s)
  \/ OnDoneDelete(s)

\* What the robots and the operators do.
Environment ==
  \/ \E r \in RobotId : SendCommandUnlinked(r) \/ SendCommand(r)
  \/ \E s \in Stream : Link(s) \/ OnReadDoneNext(s) \/ Hangup(s)
  \/ \E s \in Stream, r \in RobotId : OnReadDoneFirst(s, r)

Next == Environment \/ \E s \in Stream : Library(s)

Spec == Init /\ [][Next]_vars

\* The library completes what it was given; a robot may stay silent for ever.
FairSpec ==
  /\ Spec
  /\ \A s \in Stream :
       /\ WF_vars(OnWriteDoneOk(s) \/ OnWriteDoneFailed(s))
       /\ WF_vars(StartNextRead(s))
       /\ WF_vars(OnReadDoneFailed(s))
       /\ WF_vars(OnDoneUnregister(s) \/ OnDoneDelete(s))

-----------------------------------------------------------------------------
(* Properties.                                                             *)

\* Every member has a value of its type; an operation counter may only be
\* wrong by what the properties below are about.
TypeOK ==
  /\ registry \in [RobotId -> Stream \cup {NoStream}]
  /\ life \in [Stream -> {"unborn", "active", "done", "deleted"}]
  /\ robot_id \in [Stream -> RobotId]
  /\ registered \in [Stream -> BOOLEAN]
  /\ read \in [Stream -> {"none", "outstanding", "callback"}]
  /\ queue \in [Stream -> Seq(Nat)]
  /\ outgoing \in [Stream -> Nat]
  /\ writing \in [Stream -> BOOLEAN]
  /\ writes \in [Stream -> Nat]
  /\ finishes \in [Stream -> Nat]
  /\ broken \in [Stream -> BOOLEAN]
  /\ wire \in [Stream -> Seq(Nat)]
  /\ accepted \in [Stream -> Nat]

\* The gateway never hands a command to memory that is gone: a reactor in
\* the registry is alive and registered under that very id, although OnDone
\* erases by id and never looks at whose entry it erases.
NoDanglingReactor ==
  \A r \in RobotId : registry[r] # NoStream =>
    /\ life[registry[r]] = "active"
    /\ registered[registry[r]]
    /\ robot_id[registry[r]] = r

\* One write at a time, and the buffer it reads from is the front of the
\* queue until it is done: nothing is overwritten under the library, even
\* when SendCommand and OnWriteDone race.
OneWriteFromTheFront ==
  \A s \in Stream :
    /\ writes[s] = (IF writing[s] THEN 1 ELSE 0)
    /\ writing[s] => queue[s] # <<>> /\ outgoing[s] = Head(queue[s])

\* What a reactor took is written or still queued, in the order it was
\* taken, each command once: none is lost, doubled or overtaken.
HandedOverInOrder ==
  \A s \in Stream :
    /\ Len(wire[s]) + Len(queue[s]) = accepted[s]
    /\ \A i \in 1 .. Len(wire[s]) : wire[s][i] = i
    /\ \A i \in 1 .. Len(queue[s]) : queue[s][i] = Len(wire[s]) + i

\* The pump is never dormant with work to do: a queue that holds a command
\* has a write going on, until the call is finished.
PumpNeverStalls ==
  \A s \in Stream : queue[s] # <<>> /\ finishes[s] = 0 => writing[s]

\* On a stream that stays up, the queue drains, whatever the operators send
\* meanwhile up to the bound.
QueueDrains ==
  \A s \in Stream :
    queue[s] # <<>> ~> queue[s] = <<>> \/ broken[s] \/ finishes[s] > 0

\* When a peer is gone its reactor is finished, unregistered and deleted,
\* from whatever point of its reads and writes.
TeardownCompletes == \A s \in Stream : broken[s] ~> life[s] = "deleted"

\* The stream of a robot is up, and the robot has told its name on it.
Serving(s) ==
  /\ life[s] = "active" /\ ~broken[s] /\ finishes[s] = 0
  /\ registered[s] /\ robot_id[s] # EmptyId

\* What grpc_robot_callback_gateway.hpp says of SendCommand: it returns false
\* if that robot is not currently linked, so that a robot which is linked is
\* found in the registry.
LinkedRobotIsFound ==
  \A s \in Stream : Serving(s) => registry[robot_id[s]] # NoStream
=============================================================================
