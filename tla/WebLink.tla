-------------------------------- MODULE WebLink --------------------------------
(***************************************************************************)
(* The way of a frame and of a command between the server and a browser:   *)
(* GrpcSource with its calls of Subscribe, the bridge that relays frames   *)
(* and link status over a WebSocket, useSwarm and useCommandAudit.         *)
(*                                                                         *)
(* An event handler of the bridge or of the browser runs to its end before *)
(* the next: it is a step.  Time is left out, a timer that is set fires    *)
(* some time.  A frame is the commands the server lists, each with the     *)
(* state of its one target, open or applied.                               *)
(***************************************************************************)
EXTENDS Integers, Sequences, FiniteSets

CONSTANTS
  MaxCommands,  \* bound on the commands the operator issues
  MAX_ENTRIES,  \* how many entries the audit log has room for
  Endings,    \* sets of events with which the library may end a call
  MaxFaults,  \* bound on the failures of calls, sockets and processes
  MaxPipe,    \* bound on the frames on their way in a call
  MaxWire,    \* bound on the messages on their way in the socket
  None        \* no frame

ASSUME EndingsAssumption == Endings \subseteq (SUBSET {"error", "end"}) \ {{}}
ASSUME BoundsAssumption ==
  MaxFaults \in Nat /\ MaxPipe \in Nat \ {0} /\ MaxWire \in Nat \ {0, 1}
ASSUME CommandsAssumption == MaxCommands \in Nat /\ MAX_ENTRIES \in Nat \ {0}

VARIABLES
  server,   \* what the server makes of each command
  call,     \* the calls of Subscribe: frames on their way, events to come
  bridge,   \* the members of GrpcSource and of the bridge
  socket,   \* the browser's WebSocket
  wire,     \* the messages on their way to the browser
  uplink,   \* the commands on their way to the bridge
  rpc,      \* the calls of SendCommand on their way to the server
  web,      \* the state of useSwarm
  issued,   \* how many commands the operator has issued
  log,      \* the audit log: the outcome of each command it has an entry of
  faults,   \* how many failures there were
  twice     \* history: some call was ended by both events

feed     == <<server, call>>
sockets  == <<socket, wire>>
commands == <<uplink, rpc>>
audit    == <<issued, log>>
vars     == <<feed, bridge, sockets, commands, web, audit, faults, twice>>

\* The web client mints an identity that is new: the number.
Command == 1 .. MaxCommands

\* A call more than can have failed is enough for all that are open.
Call    == 1 .. (MaxFaults + 1)
NoCall  == [at |-> "none", pipe |-> <<>>, due |-> {}]
NewCall == [at |-> "open", pipe |-> <<>>, due |-> {}]

Status(connected) == [type |-> "status", connected |-> connected]
Swarm(state)      == [type |-> "swarm", state |-> state]

Listed == {"PENDING", "APPLIED"}
Frame  == UNION {[C -> Listed] : C \in SUBSET Command}

ASSUME NoneAssumption == None \notin Frame

Message == [type : {"status"}, connected : BOOLEAN] \cup [type : {"swarm"}, state : Frame]

Connected == socket \in {"opening", "open"}

\* broadcast, to the one browser.
Broadcast(messages) ==
  /\ Connected => Len(wire) + Len(messages) <= MaxWire
  /\ wire' = IF Connected THEN wire \o messages ELSE wire

\* A socket that breaks looks open until its close event, if it was open.
Broken == CASE socket = "open"    -> "broken"
            [] socket = "opening" -> "refused"
            [] OTHER              -> socket

Fault == /\ faults < MaxFaults
         /\ faults' = faults + 1

-----------------------------------------------------------------------------
(* The server.                                                             *)

\* A command is settled; later it is dropped from the list.
Advance(c) ==
  /\ \/ server[c] = "PENDING" /\ server' = [server EXCEPT ![c] = "APPLIED"]
     \/ server[c] = "APPLIED" /\ server' = [server EXCEPT ![c] = "retired"]
  /\ UNCHANGED <<call, bridge, sockets, commands, web, audit, faults, twice>>

\* SendCommand arrives, or fails; of the ack the browser makes nothing.
Submit(c) ==
  /\ c \in rpc
  /\ rpc' = rpc \ {c}
  /\ \/ server' = [server EXCEPT ![c] = "PENDING"]
     \/ UNCHANGED server
  /\ UNCHANGED <<call, bridge, sockets, uplink, web, audit, faults, twice>>

\* The loop of a call writes a frame.
SendFrame(s) ==
  /\ call[s].at = "open"
  /\ Len(call[s].pipe) < MaxPipe
  /\ LET Known == {c \in Command : server[c] \in Listed}
     IN  call' = [call EXCEPT ![s].pipe = Append(@, [c \in Known |-> server[c]])]
  /\ UNCHANGED <<server, bridge, sockets, commands, web, audit, faults, twice>>

\* How a call may be after it was ended: the first frames arrive yet.
Ended(k) == {[at |-> "ended", pipe |-> SubSeq(k.pipe, 1, n), due |-> events] :
               n \in 0 .. Len(k.pipe), events \in Endings}

EndCall(s) ==
  /\ Fault
  /\ call[s].at = "open"
  /\ \E k \in Ended(call[s]) :
       /\ call' = [call EXCEPT ![s] = k]
       /\ twice' = (twice \/ k.due = {"error", "end"})
  /\ UNCHANGED <<server, bridge, sockets, commands, web, audit>>

\* The server is started again: it has forgotten every command.
RestartServer ==
  /\ Fault
  /\ server' = [c \in Command |-> CASE server[c] = "PENDING" -> "lost"
                                    [] server[c] = "APPLIED" -> "retired"
                                    [] OTHER -> server[c]]
  /\ \E next \in [Call -> UNION {Ended(call[s]) \cup {call[s]} : s \in Call}] :
       /\ \A s \in Call : IF call[s].at = "open" THEN next[s] \in Ended(call[s])
                                                 ELSE next[s] = call[s]
       /\ call' = next
       /\ twice' = (twice \/ \E s \in Call : next[s].due = {"error", "end"})
  /\ UNCHANGED <<bridge, sockets, commands, web, audit>>

-----------------------------------------------------------------------------
(* The bridge.                                                             *)

FirstFree(s) == call[s].at = "none" /\ \A t \in 1 .. s - 1 : call[t].at # "none"

\* The handler of "data": the first frame since the last drop is announced.
OnData(s) ==
  /\ call[s].pipe # <<>>
  /\ LET frame == Head(call[s].pipe)
     IN  /\ Broadcast(IF bridge.healthy THEN <<Swarm(frame)>>
                                        ELSE <<Status(TRUE), Swarm(frame)>>)
         /\ bridge' = [bridge EXCEPT !.healthy = TRUE, !.lastFrame = frame,
                                     !.connected = @ \/ ~bridge.healthy]
  /\ call' = [call EXCEPT ![s].pipe = Tail(@)]
  /\ UNCHANGED <<server, socket, commands, web, audit, faults, twice>>

\* The library reports what ended a call, once its frames were taken.
Event(s, e) ==
  /\ e \in call[s].due
  /\ e = "end" => "error" \notin call[s].due
  /\ call[s].pipe = <<>>
  /\ LET left == call[s].due \ {e}
     IN  call' = [call EXCEPT ![s] = IF left = {} THEN NoCall ELSE [@ EXCEPT !.due = left]]

\* Mutation: a drop that follows another, or precedes the first frame, is
\* ignored.
onDropOnce(s, e) ==
  /\ Event(s, e)
  /\ IF bridge.healthy
     THEN /\ bridge' = [bridge EXCEPT !.healthy = FALSE, !.connected = FALSE,
                                      !.timers = @ + 1]
          /\ Broadcast(<<Status(FALSE)>>)
     ELSE UNCHANGED <<bridge, wire>>
  /\ UNCHANGED <<server, socket, commands, web, audit, faults, twice>>

\* Mutation: healthy is not reset.
onDropStillHealthy(s, e) ==
  /\ Event(s, e)
  /\ bridge' = [bridge EXCEPT !.connected = FALSE, !.timers = @ + 1]
  /\ Broadcast(<<Status(FALSE)>>)
  /\ UNCHANGED <<server, socket, commands, web, audit, faults, twice>>

\* onDrop, for either event: the clients are told and a timer is set.
onDrop(s, e) ==
  /\ Event(s, e)
  /\ bridge' = [bridge EXCEPT !.healthy = FALSE, !.connected = FALSE, !.timers = @ + 1]
  /\ Broadcast(<<Status(FALSE)>>)
  /\ UNCHANGED <<server, socket, commands, web, audit, faults, twice>>

\* subscribe, when a timer fires; healthy is what it is.
subscribe(s) ==
  /\ bridge.timers > 0
  /\ FirstFree(s)
  /\ call' = [call EXCEPT ![s] = NewCall]
  /\ bridge' = [bridge EXCEPT !.timers = @ - 1, !.connected = FALSE]
  /\ Broadcast(<<Status(FALSE)>>)
  /\ UNCHANGED <<server, socket, commands, web, audit, faults, twice>>

\* GrpcSource.sendCommand: the call of SendCommand that is made for it.
callServer(c) == rpc' = rpc \cup {c}

\* The handler of a browser's message: the command goes on to the server.
OnCommand(c) ==
  /\ c \in uplink
  /\ uplink' = uplink \ {c}
  /\ callServer(c)
  /\ UNCHANGED <<feed, bridge, sockets, web, audit, faults, twice>>

\* The bridge is started again.
RestartBridge ==
  /\ Fault
  /\ bridge' = [healthy |-> FALSE, timers |-> 0, connected |-> FALSE, lastFrame |-> None]
  /\ call' = [s \in Call |-> IF s = 1 THEN NewCall ELSE NoCall]
  /\ socket' = Broken
  /\ uplink' = {}
  /\ rpc' \in SUBSET rpc
  /\ UNCHANGED <<server, wire, web, audit, twice>>

-----------------------------------------------------------------------------
(* The browser.                                                            *)

\* Mutation: the new client is sent the frame only.
ConnectUnprimed ==
  /\ socket = "closed"
  /\ socket' = "opening"
  /\ wire' = IF bridge.lastFrame = None THEN <<>> ELSE <<Swarm(bridge.lastFrame)>>
  /\ UNCHANGED <<feed, bridge, commands, web, audit, faults, twice>>

\* connect, at first and when the retry timer fires; the bridge takes the
\* client in and sends it the status and the last frame.
Connect ==
  /\ socket = "closed"
  /\ socket' = "opening"
  /\ wire' = IF bridge.lastFrame = None
             THEN <<Status(bridge.connected)>>
             ELSE <<Status(bridge.connected), Swarm(bridge.lastFrame)>>
  /\ UNCHANGED <<feed, bridge, commands, web, audit, faults, twice>>

OnOpen ==
  /\ socket = "opening"
  /\ socket' = "open"
  /\ UNCHANGED <<feed, bridge, wire, commands, web, audit, faults, twice>>

\* onmessage; the effects of a new frame run when it is rendered, and a
\* frame that another one overtakes is not.
OnMessage ==
  /\ socket \in {"open", "broken"}
  /\ wire # <<>>
  /\ wire' = Tail(wire)
  /\ LET msg == Head(wire)
     IN  web' = IF msg.type = "swarm"
                THEN [web EXCEPT !.frame = msg.state, !.rendered = FALSE]
                ELSE [web EXCEPT !.connected = msg.connected]
  /\ UNCHANGED <<feed, bridge, socket, commands, audit, faults, twice>>

BreakSocket ==
  /\ Fault
  /\ Connected
  /\ socket' = Broken
  /\ UNCHANGED <<feed, bridge, wire, commands, web, audit, twice>>

\* onclose: what was on its way either way may be lost.
OnClose ==
  /\ socket \in {"broken", "refused"}
  /\ socket' = "closed"
  /\ wire' = <<>>
  /\ uplink' \in SUBSET uplink
  /\ web' = [web EXCEPT !.connected = FALSE]
  /\ UNCHANGED <<feed, bridge, rpc, audit, faults, twice>>

\* Mutation: a command that is not listed has been carried out.
MergedAsDone(c, frame) == IF c \in DOMAIN frame THEN frame[c] ELSE "APPLIED"

\* Mutation: a command that is not listed may have been forgotten.
MergedAsOpen(c, frame) == IF c \in DOMAIN frame THEN frame[c] ELSE "PENDING"

\* The outcome in a frame; the last one known for a command it has not.
Merged(c, frame) == IF c \in DOMAIN frame THEN frame[c] ELSE log[c]

\* The effect of useCommandAudit.
Render ==
  /\ ~web.rendered
  /\ web' = [web EXCEPT !.rendered = TRUE]
  /\ log' = [c \in DOMAIN log |-> Merged(c, web.frame)]
  /\ UNCHANGED <<feed, bridge, sockets, commands, issued, faults, twice>>

\* sendCommand: a command that finds the socket closed is dropped.
sendCommand(c) ==
  uplink' = IF socket \in {"open", "broken"} THEN uplink \cup {c} ELSE uplink

\* Mutation: the log is cut to its room before the command is recorded.
recordUncut(c) ==
  log' = [d \in {e \in DOMAIN log : e >= c - MAX_ENTRIES} \cup {c} |->
            IF d = c THEN "PENDING" ELSE log[d]]

\* The newest entry is put first, and what is beyond MAX_ENTRIES is cut.  The
\* entries are in the order of their numbers: those behind are cut.
record(c) ==
  log' = [d \in {e \in DOMAIN log \cup {c} : e > c - MAX_ENTRIES} |->
            IF d = c THEN "PENDING" ELSE log[d]]

\* doSend: sent or not, the command is recorded.
doSend(c) ==
  /\ c = issued + 1
  /\ issued' = c
  /\ sendCommand(c)
  /\ record(c)
  /\ UNCHANGED <<feed, bridge, sockets, rpc, web, faults, twice>>

-----------------------------------------------------------------------------

\* The bridge has been started and the page loaded.
Init ==
  /\ server = [c \in Command |-> "unknown"]
  /\ call = [s \in Call |-> IF s = 1 THEN NewCall ELSE NoCall]
  /\ bridge = [healthy |-> FALSE, timers |-> 0, connected |-> FALSE, lastFrame |-> None]
  /\ socket = "closed" /\ wire = <<>>
  /\ uplink = {} /\ rpc = {}
  /\ web = [frame |-> None, rendered |-> TRUE, connected |-> FALSE]
  /\ issued = 0 /\ log = [c \in {} |-> "PENDING"]
  /\ faults = 0 /\ twice = FALSE

Server  == RestartServer \/ \E c \in Command : Advance(c) \/ Submit(c)
Stream(s) == \/ SendFrame(s) \/ OnData(s) \/ subscribe(s)
             \/ \E e \in {"error", "end"} : onDrop(s, e)
Browser == Connect \/ OnOpen \/ OnMessage \/ OnClose \/ Render

Next ==
  \/ Server
  \/ \E s \in Call : Stream(s) \/ EndCall(s)
  \/ \E c \in Command : OnCommand(c) \/ doSend(c)
  \/ RestartBridge \/ Browser \/ BreakSocket

Spec == Init /\ [][Next]_vars

\* Timers fire, the library and the network deliver, a loop writes frames.
Fairness == /\ WF_vars(Browser)
            /\ \A s \in Call : WF_vars(Stream(s))

FairSpec == Spec /\ Fairness

-----------------------------------------------------------------------------
(* Properties.                                                             *)

\* Those of the commands issued that the log has room for.
Recent == {c \in 1 .. issued : c > issued - MAX_ENTRIES}

\* Every variable has a value of its type; what is on its way is frames and
\* messages in that order; the log has an entry of each of the last commands.
TypeOK ==
  /\ server \in [Command -> Listed \cup {"unknown", "retired", "lost"}]
  /\ call \in [Call -> [at : {"none", "open", "ended"}, pipe : Seq(Frame),
                        due : SUBSET {"error", "end"}]]
  /\ bridge \in [healthy : BOOLEAN, timers : Nat, connected : BOOLEAN,
                 lastFrame : Frame \cup {None}]
  /\ socket \in {"closed", "opening", "open", "broken", "refused"}
  /\ wire \in Seq(Message)
  /\ issued \in 0 .. MaxCommands
  /\ uplink \subseteq 1 .. issued /\ rpc \subseteq 1 .. issued
  /\ web \in [frame : Frame \cup {None}, rendered : BOOLEAN, connected : BOOLEAN]
  /\ log \in [Recent -> Listed]
  /\ faults \in 0 .. MaxFaults /\ twice \in BOOLEAN

\* The bridge never gives up: whatever fails, before the first frame too, a
\* call of Subscribe is there, or a timer that will make one.
RetryPending == bridge.timers > 0 \/ \E s \in Call : call[s].at # "none"

\* As the comment on healthy has it, the bridge tells its clients that the
\* link is up exactly while it receives frames.
StatusTellsHealth == bridge.connected = bridge.healthy

\* It does as long as each call is ended by one event.
StatusTellsHealthOfOneCall == ~twice => StatusTellsHealth

\* A browser that has read its socket empty shows the bridge's status and
\* its last frame, however often either was connected anew.
BrowserAgreesWithBridge ==
  socket = "open" /\ wire = <<>> =>
    /\ web.connected = bridge.connected
    /\ bridge.lastFrame # None => web.frame = bridge.lastFrame

\* The log never says of a command that it was carried out unless it was:
\* not of one that was dropped on the way or forgotten by the server.
AuditTruthful ==
  \A c \in DOMAIN log : log[c] = "APPLIED" => server[c] \in {"APPLIED", "retired"}

\* An outcome stays in the log when its command leaves the frames, when links
\* fail and when a frame of before is sent again, until MAX_ENTRIES commands
\* were issued after it: then its entry is cut (useCommandAudit.ts:40-61).
AuditKeepsOutcome ==
  [][~twice' => \A c \in DOMAIN log : log[c] = "APPLIED" /\ c > issued' - MAX_ENTRIES =>
                   c \in DOMAIN log' /\ log'[c] = "APPLIED"]_vars

\* When failures cease the browser is connected again and says so.
ConnectionRecovers == <>[](twice \/ (socket = "open" /\ web.connected))
=============================================================================
