---------------------------- MODULE WebLinkProofs ----------------------------
(***************************************************************************)
(* Proofs about the way to the browser, for any number of commands, calls  *)
(* and failures and any bounds.                                            *)
(*                                                                         *)
(* Subscribed is about the bridge alone: a call that is there has events   *)
(* to come or is open, and as long as none was ended twice there is one    *)
(* call or one timer.  Honest is about data: every frame, wherever it is,  *)
(* says of a command that it was carried out only if it was, which needs   *)
(* that a command which is on its way is unknown to the server (OnItsWay). *)
(* Arrives and InOrder are about the way of the frames: what is on it      *)
(* brings a browser to what the bridge has, and what comes later on it is  *)
(* later, which the truth of the log needs (LogKeepsOutcome).              *)
(***************************************************************************)
EXTENDS WebLink, TLAPS

CallState == [at : {"none", "open", "ended"}, pipe : Seq(Frame),
              due : SUBSET {"error", "end"}]

\* A call that is not there has nothing to come, one that ended has events.
CallShape ==
  \A s \in Call : /\ call[s].at = "none"  => call[s].pipe = <<>> /\ call[s].due = {}
                  /\ call[s].at = "open"  => call[s].due = {}
                  /\ call[s].at = "ended" => call[s].due # {}

OneCallOrTimer ==
  ~twice =>
    /\ \A s, t \in Call : call[s].at # "none" /\ call[t].at # "none" => s = t
    /\ \A s \in Call : call[s].due # {"error", "end"}
    /\ bridge.timers > 0 => /\ bridge.timers = 1 /\ ~bridge.healthy
                            /\ \A s \in Call : call[s].at = "none"

Subscribed ==
  CallShape /\ OneCallOrTimer /\ RetryPending /\ StatusTellsHealthOfOneCall

Done == {"APPLIED", "retired"}

Honest(frame) == \A c \in DOMAIN frame : frame[c] = "APPLIED" => server[c] \in Done

CallsHonest == \A s \in Call : \A i \in 1 .. Len(call[s].pipe) : Honest(call[s].pipe[i])
CacheHonest == bridge.lastFrame # None => Honest(bridge.lastFrame)
WireHonest  == \A i \in 1 .. Len(wire) : wire[i].type = "swarm" => Honest(wire[i].state)
WebHonest   == /\ web.frame # None => Honest(web.frame)
               /\ web.rendered \/ web.frame # None

\* A command on its way, and one that was not issued, is unknown to the
\* server.
OnItsWay ==
  /\ uplink \cap rpc = {}
  /\ \A c \in Command : c \in uplink \cup rpc \/ c \notin 1 .. issued
                          => server[c] = "unknown"

AllHonest ==
  CallsHonest /\ CacheHonest /\ WireHonest /\ WebHonest /\ OnItsWay /\ AuditTruthful

IInv == TypeOK /\ Subscribed /\ AllHonest

-----------------------------------------------------------------------------
(* Frames, sequences and calls.                                            *)

LEMMA FrameIntro ==
  ASSUME NEW C \in SUBSET Command, NEW f \in [C -> Listed]
  PROVE  f \in Frame
BY DEF Frame

LEMMA FrameElim ==
  ASSUME NEW f \in Frame
  PROVE  /\ DOMAIN f \subseteq Command
         /\ f \in [DOMAIN f -> Listed]
BY DEF Frame

LEMMA TailElements ==
  ASSUME NEW S, NEW q \in Seq(S), q # <<>>
  PROVE  /\ Head(q) \in S /\ Head(q) = q[1] /\ 1 \in 1 .. Len(q)
         /\ Tail(q) \in Seq(S)
         /\ \A i \in 1 .. Len(Tail(q)) : i + 1 \in 1 .. Len(q) /\ Tail(q)[i] = q[i + 1]
OBVIOUS

\* What a call may be that was ended: a call with an event to come and the
\* first of its frames.
LEMMA EndedCorrect ==
  ASSUME NEW k \in CallState, NEW e \in Ended(k)
  PROVE  /\ e \in CallState /\ e.at = "ended" /\ e.due # {}
         /\ \A i \in 1 .. Len(e.pipe) : i \in 1 .. Len(k.pipe) /\ e.pipe[i] = k.pipe[i]
<1>1. PICK n \in 0 .. Len(k.pipe), events \in Endings :
        e = [at |-> "ended", pipe |-> SubSeq(k.pipe, 1, n), due |-> events]
  BY DEF Ended
<1>2. events \in SUBSET {"error", "end"} /\ events # {}
  BY EndingsAssumption
<1>3. k.pipe \in Seq(Frame)
  BY DEF CallState
<1>4. /\ SubSeq(k.pipe, 1, n) \in Seq(Frame)
      /\ Len(SubSeq(k.pipe, 1, n)) = n
      /\ \A i \in 1 .. n : i \in 1 .. Len(k.pipe) /\ SubSeq(k.pipe, 1, n)[i] = k.pipe[i]
  BY <1>3
<1> QED BY <1>1, <1>2, <1>4 DEF CallState

\* A broadcast leaves messages, each an old one or a new one.
LEMMA BroadcastCorrect ==
  ASSUME wire \in Seq(Message), NEW new \in Seq(Message), Broadcast(new)
  PROVE  /\ wire' \in Seq(Message)
         /\ \A i \in 1 .. Len(wire') : \/ \E j \in 1 .. Len(wire) : wire'[i] = wire[j]
                                       \/ \E j \in 1 .. Len(new) : wire'[i] = new[j]
<1>1. CASE ~Connected
  BY <1>1 DEF Broadcast
<1>2. CASE Connected
  <2> DEFINE both == wire \o new
  <2>1. wire' = both
    BY <1>2 DEF Broadcast
  <2>2. /\ both \in Seq(Message) /\ Len(both) = Len(wire) + Len(new)
        /\ \A i \in 1 .. Len(wire) : both[i] = wire[i]
        /\ \A i \in 1 .. Len(both) : i > Len(wire) => both[i] = new[i - Len(wire)]
        /\ Len(wire) \in Nat /\ Len(new) \in Nat
    OBVIOUS
  <2> HIDE DEF both
  <2>3. ASSUME NEW i \in 1 .. Len(both)
        PROVE  \/ \E j \in 1 .. Len(wire) : both[i] = wire[j]
               \/ \E j \in 1 .. Len(new) : both[i] = new[j]
    <3>1. CASE i <= Len(wire)
      <4>1. i \in 1 .. Len(wire) /\ both[i] = wire[i]
        BY <2>2, <3>1
      <4> QED BY <4>1
    <3>2. CASE i > Len(wire)
      <4>1. i - Len(wire) \in 1 .. Len(new) /\ both[i] = new[i - Len(wire)]
        BY <2>2, <3>2
      <4> QED BY <4>1
    <3> QED BY <2>2, <3>1, <3>2
  <2> QED BY <2>1, <2>2, <2>3
<1> QED BY <1>1, <1>2

-----------------------------------------------------------------------------
(* The bridge's subscription.                                              *)

\* Calls that are ended leave what Subscribed says: they have events to
\* come, and twice records the case it excepts.
LEMMA CallsEnded ==
  ASSUME TypeOK, Subscribed, UNCHANGED bridge,
         call' \in [Call -> UNION {Ended(call[s]) \cup {call[s]} : s \in Call}],
         \A s \in Call : \/ call'[s] = call[s]
                         \/ (call[s].at = "open" /\ call'[s] \in Ended(call[s])),
         twice \/ (\E s \in Call : call'[s].due = {"error", "end"}) => twice'
  PROVE  /\ call' \in [Call -> CallState]
         /\ \A s \in Call : \A i \in 1 .. Len(call'[s].pipe) :
              i \in 1 .. Len(call[s].pipe) /\ call'[s].pipe[i] = call[s].pipe[i]
         /\ Subscribed'
<1>1. call \in [Call -> CallState]
  BY DEF TypeOK, CallState
<1>2. ASSUME NEW s \in Call
      PROVE  /\ call'[s] \in CallState
             /\ call'[s].at = "none" <=> call[s].at = "none"
             /\ call'[s] = call[s] \/ (call'[s].at = "ended" /\ call'[s].due # {})
             /\ \A i \in 1 .. Len(call'[s].pipe) :
                  i \in 1 .. Len(call[s].pipe) /\ call'[s].pipe[i] = call[s].pipe[i]
  <2>1. CASE call'[s] = call[s]
    BY <1>1, <2>1
  <2>2. CASE call[s].at = "open" /\ call'[s] \in Ended(call[s])
    BY <1>1, <2>2, EndedCorrect
  <2> QED BY <2>1, <2>2
<1>3. call' \in [Call -> CallState]
  BY <1>2
<1>4. CallShape'
  BY <1>2 DEF Subscribed, CallShape
<1>5. OneCallOrTimer'
  BY <1>2 DEF Subscribed, OneCallOrTimer
<1>6. RetryPending'
  BY <1>2 DEF Subscribed, RetryPending
<1>7. StatusTellsHealthOfOneCall'
  BY DEF Subscribed, StatusTellsHealthOfOneCall, StatusTellsHealth
<1> QED BY <1>2, <1>3, <1>4, <1>5, <1>6, <1>7 DEF Subscribed

\* A frame is taken: the call stays, and both members say so.
LEMMA OnDataSubscribed ==
  ASSUME TypeOK, Subscribed, NEW s \in Call, OnData(s) PROVE Subscribed'
<1>1. /\ call \in [Call -> CallState]
      /\ bridge.healthy \in BOOLEAN /\ bridge.connected \in BOOLEAN /\ bridge.timers \in Nat
  BY DEF TypeOK, CallState
<1>2. /\ call[s].pipe # <<>>
      /\ bridge'.healthy = TRUE /\ bridge'.timers = bridge.timers
      /\ bridge'.connected = (bridge.connected \/ ~bridge.healthy)
      /\ twice' = twice
  BY DEF OnData, TypeOK
<1>3. call[s].at # "none"
  BY <1>2 DEF Subscribed, CallShape
<1>4. \A t \in Call : call'[t].at = call[t].at /\ call'[t].due = call[t].due
  BY <1>1 DEF OnData, CallState
<1>5. \A t \in Call : t # s => call'[t] = call[t]
  BY <1>1 DEF OnData
<1>6. CallShape'
  BY <1>3, <1>4, <1>5 DEF Subscribed, CallShape
<1>7. OneCallOrTimer'
  BY <1>2, <1>3, <1>4 DEF Subscribed, OneCallOrTimer
<1>8. RetryPending'
  BY <1>3, <1>4 DEF RetryPending
<1>9. StatusTellsHealthOfOneCall'
  BY <1>1, <1>2 DEF Subscribed, StatusTellsHealthOfOneCall, StatusTellsHealth
<1> QED BY <1>6, <1>7, <1>8, <1>9 DEF Subscribed

\* An event sets a timer; the last one of a call takes the call away.
LEMMA OnDropSubscribed ==
  ASSUME TypeOK, Subscribed, NEW s \in Call, NEW e \in {"error", "end"}, onDrop(s, e)
  PROVE  Subscribed'
<1>1. call \in [Call -> CallState] /\ bridge.timers \in Nat
  BY DEF TypeOK, CallState
<1>2. /\ bridge'.healthy = FALSE /\ bridge'.connected = FALSE
      /\ bridge'.timers = bridge.timers + 1
      /\ twice' = twice
      /\ e \in call[s].due /\ call[s].pipe = <<>>
      /\ \A t \in Call : t # s => call'[t] = call[t]
      /\ IF call[s].due = {e}
         THEN call'[s] = NoCall
         ELSE call'[s] = [call[s] EXCEPT !.due = call[s].due \ {e}]
  BY <1>1 DEF onDrop, Event, TypeOK
<1>3. call[s].at = "ended" /\ call[s].due \subseteq {"error", "end"}
  BY <1>1, <1>2 DEF Subscribed, CallShape, CallState
<1>4. CallShape'
  <2>1. CASE call[s].due = {e}
    BY <1>2, <2>1 DEF Subscribed, CallShape, NoCall
  <2>2. CASE call[s].due # {e}
    <3>1. call'[s].at = "ended" /\ call'[s].due = call[s].due \ {e}
      BY <1>1, <1>2, <1>3, <2>2 DEF CallState
    <3> QED BY <1>2, <2>2, <3>1 DEF Subscribed, CallShape
  <2> QED BY <2>1, <2>2
<1>5. OneCallOrTimer'
  <2> SUFFICES ASSUME ~twice' PROVE OneCallOrTimer'
    BY DEF OneCallOrTimer
  <2>1. /\ \A t \in Call : call[t].at # "none" => t = s
        /\ call[s].due # {"error", "end"}
        /\ bridge.timers = 0
    BY <1>1, <1>2, <1>3 DEF Subscribed, OneCallOrTimer
  <2>2. call[s].due = {e}
    BY <1>2, <1>3, <2>1
  <2>3. \A t \in Call : call'[t].at = "none" /\ call'[t].due = {}
    BY <1>2, <2>1, <2>2 DEF Subscribed, CallShape, NoCall
  <2> QED BY <1>2, <2>1, <2>3 DEF OneCallOrTimer
<1>6. RetryPending'
  BY <1>1, <1>2 DEF RetryPending
<1>7. StatusTellsHealthOfOneCall'
  BY <1>2 DEF StatusTellsHealthOfOneCall, StatusTellsHealth
<1> QED BY <1>4, <1>5, <1>6, <1>7 DEF Subscribed

\* The timer of the one drop makes the one call.
LEMMA SubscribeSubscribed ==
  ASSUME TypeOK, Subscribed, NEW s \in Call, subscribe(s) PROVE Subscribed'
<1>1. /\ call \in [Call -> CallState]
      /\ bridge.timers > 0 /\ bridge.timers \in Nat
      /\ bridge'.timers = bridge.timers - 1
      /\ bridge'.healthy = bridge.healthy /\ bridge'.connected = FALSE
      /\ twice' = twice
      /\ call'[s] = NewCall
      /\ \A t \in Call : t # s => call'[t] = call[t]
      /\ bridge.healthy \in BOOLEAN
  BY DEF subscribe, TypeOK, CallState
<1>2. CallShape'
  BY <1>1 DEF Subscribed, CallShape, NewCall
<1>3. OneCallOrTimer' /\ StatusTellsHealthOfOneCall'
  <2> SUFFICES ASSUME ~twice' PROVE OneCallOrTimer' /\ StatusTellsHealth'
    BY DEF OneCallOrTimer, StatusTellsHealthOfOneCall
  <2>1. bridge'.timers = 0 /\ bridge'.healthy = FALSE /\ \A t \in Call : call[t].at = "none"
    BY <1>1 DEF Subscribed, OneCallOrTimer
  <2>2. \A t \in Call : call'[t].due = {} /\ (call'[t].at # "none" => t = s)
    BY <1>1, <2>1 DEF Subscribed, CallShape, NewCall
  <2>3. OneCallOrTimer'
    BY <2>1, <2>2 DEF OneCallOrTimer
  <2>4. StatusTellsHealth'
    BY <1>1, <2>1 DEF StatusTellsHealth
  <2> QED BY <2>3, <2>4
<1>4. RetryPending'
  BY <1>1 DEF RetryPending, NewCall
<1> QED BY <1>2, <1>3, <1>4 DEF Subscribed

-----------------------------------------------------------------------------
(* The steps that leave the subscription as it is.                         *)

LEMMA SubscribedUntouched ==
  ASSUME Subscribed, UNCHANGED <<call, bridge, twice>> PROVE Subscribed'
BY DEF Subscribed, CallShape, OneCallOrTimer, RetryPending, StatusTellsHealthOfOneCall,
       StatusTellsHealth

\* Where the server moves and frames are at most taken away, what the data
\* says stays true: what was carried out stays carried out.
LEMMA ServerMoves ==
  ASSUME IInv, UNCHANGED <<bridge, wire, web, log>>,
         \A d \in Command : server[d] \in Done => server'[d] \in Done,
         \A s \in Call : \A i \in 1 .. Len(call'[s].pipe) :
           i \in 1 .. Len(call[s].pipe) /\ call'[s].pipe[i] = call[s].pipe[i]
  PROVE  CallsHonest' /\ CacheHonest' /\ WireHonest' /\ WebHonest' /\ AuditTruthful'
<1>1. CallsHonest'
  <2>1. \A s \in Call : \A i \in 1 .. Len(call[s].pipe) :
          DOMAIN call[s].pipe[i] \subseteq Command
    BY FrameElim DEF IInv, TypeOK
  <2> QED BY <2>1 DEF IInv, AllHonest, CallsHonest, Honest
<1>2. CacheHonest'
  BY FrameElim DEF IInv, TypeOK, AllHonest, CacheHonest, Honest
<1>3. WireHonest'
  <2>1. \A i \in 1 .. Len(wire) :
          wire[i].type = "swarm" => DOMAIN wire[i].state \subseteq Command
    BY FrameElim DEF IInv, TypeOK, Message
  <2> QED BY <2>1 DEF IInv, AllHonest, WireHonest, Honest
<1>4. WebHonest'
  BY FrameElim DEF IInv, TypeOK, AllHonest, WebHonest, Honest
<1>5. AuditTruthful'
  <2>1. DOMAIN log \subseteq Command
    BY CommandsAssumption DEF IInv, TypeOK, Recent, Command
  <2> QED BY <2>1 DEF IInv, AllHonest, AuditTruthful, Done
<1> QED BY <1>1, <1>2, <1>3, <1>4, <1>5

LEMMA AdvanceStep == ASSUME IInv, NEW c \in Command, Advance(c) PROVE IInv'
<1>1. /\ UNCHANGED <<call, bridge, socket, wire, uplink, rpc, web, issued, log, faults, twice>>
      /\ server' \in [Command -> Listed \cup {"unknown", "retired", "lost"}]
      /\ \A d \in Command : server[d] \in Done => server'[d] \in Done
      /\ \A d \in Command : server[d] = "unknown" => server'[d] = server[d]
  BY DEF audit, Advance, IInv, TypeOK, Done, Listed, sockets, commands
<1>2. TypeOK'
  BY <1>1 DEF IInv, TypeOK, Recent
<1>3. Subscribed'
  BY <1>1, SubscribedUntouched DEF IInv
<1>4. CallsHonest' /\ CacheHonest' /\ WireHonest' /\ WebHonest' /\ AuditTruthful'
  BY <1>1, ServerMoves
<1>5. OnItsWay'
  BY <1>1 DEF IInv, AllHonest, OnItsWay
<1> QED BY <1>2, <1>3, <1>4, <1>5 DEF IInv, AllHonest

\* A command that arrives is on its way no more.
LEMMA SubmitStep == ASSUME IInv, NEW c \in Command, Submit(c) PROVE IInv'
<1>1. /\ UNCHANGED <<call, bridge, socket, wire, uplink, web, issued, log, faults, twice>>
      /\ c \in rpc /\ rpc' = rpc \ {c}
      /\ server' \in [Command -> Listed \cup {"unknown", "retired", "lost"}]
      /\ server[c] = "unknown"
      /\ \A d \in Command : d # c => server'[d] = server[d]
  BY DEF audit, Submit, IInv, TypeOK, Listed, sockets, AllHonest, OnItsWay
<1>2. TypeOK'
  <2>1. rpc' \subseteq 1 .. issued
    BY <1>1 DEF IInv, TypeOK
  <2> QED BY <1>1, <2>1 DEF IInv, TypeOK, Recent
<1>3. Subscribed'
  BY <1>1, SubscribedUntouched DEF IInv
<1>4. CallsHonest' /\ CacheHonest' /\ WireHonest' /\ WebHonest' /\ AuditTruthful'
  BY <1>1, ServerMoves DEF Done
<1>5. OnItsWay'
  BY <1>1 DEF IInv, TypeOK, AllHonest, OnItsWay
<1> QED BY <1>2, <1>3, <1>4, <1>5 DEF IInv, AllHonest

\* The new frame says of a command what the server makes of it.
LEMMA SendFrameStep == ASSUME IInv, NEW s \in Call, SendFrame(s) PROVE IInv'
<1> DEFINE Known == {c \in Command : server[c] \in Listed}
           frame == [c \in Known |-> server[c]]
<1>1. /\ UNCHANGED <<server, bridge, socket, wire, uplink, rpc, web, issued, log, faults, twice>>
      /\ call[s].at = "open"
      /\ call' = [call EXCEPT ![s].pipe = Append(call[s].pipe, frame)]
  BY DEF audit, SendFrame, sockets, commands
<1>2. frame \in Frame /\ Honest(frame)
  <2>1. frame \in [Known -> Listed] /\ Known \in SUBSET Command
    OBVIOUS
  <2>2. frame \in Frame
    BY <2>1, FrameIntro
  <2> QED BY <2>2 DEF Honest, Done
<1> HIDE DEF Known, frame
<1>3. call \in [Call -> CallState]
  BY DEF IInv, TypeOK, CallState
<1> DEFINE longer == Append(call[s].pipe, frame)
<1>4. /\ longer \in Seq(Frame) /\ Len(longer) = Len(call[s].pipe) + 1
      /\ \A i \in 1 .. Len(longer) : \/ i \in 1 .. Len(call[s].pipe) /\ longer[i] = call[s].pipe[i]
                                     \/ longer[i] = frame
  <2>1. call[s].pipe \in Seq(Frame)
    BY <1>3 DEF CallState
  <2> QED BY <1>2, <2>1
<1>5. call' = [call EXCEPT ![s] = [call[s] EXCEPT !.pipe = longer]]
  BY <1>1, <1>3 DEF CallState
<1> HIDE DEF longer
<1>6. /\ call'[s] = [call[s] EXCEPT !.pipe = longer]
      /\ \A t \in Call : t # s => call'[t] = call[t]
  BY <1>3, <1>5
<1>7. /\ call'[s].pipe = longer
      /\ call'[s].at = call[s].at /\ call'[s].due = call[s].due
      /\ call' \in [Call -> [at : {"none", "open", "ended"}, pipe : Seq(Frame),
                             due : SUBSET {"error", "end"}]]
  <2>1. call[s] \in CallState
    BY <1>3
  <2>2. /\ [call[s] EXCEPT !.pipe = longer] \in CallState
        /\ [call[s] EXCEPT !.pipe = longer].pipe = longer
        /\ [call[s] EXCEPT !.pipe = longer].at = call[s].at
        /\ [call[s] EXCEPT !.pipe = longer].due = call[s].due
    BY <1>4, <2>1 DEF CallState
  <2>3. call' \in [Call -> CallState]
    BY <1>3, <1>5, <2>2
  <2> QED BY <1>6, <2>2, <2>3 DEF CallState
<1>8. TypeOK'
  BY <1>1, <1>7 DEF IInv, TypeOK, Recent
<1>9. Subscribed'
  <2>1. CallShape'
    BY <1>1, <1>6, <1>7 DEF IInv, Subscribed, CallShape
  <2>2. \A t \in Call : call'[t].at = call[t].at /\ call'[t].due = call[t].due
    BY <1>6, <1>7
  <2> QED BY <1>1, <2>1, <2>2
          DEF IInv, Subscribed, OneCallOrTimer, RetryPending, StatusTellsHealthOfOneCall,
              StatusTellsHealth
<1>10. CallsHonest'
  <2>1. ASSUME NEW t \in Call, NEW i \in 1 .. Len(call'[t].pipe)
        PROVE  Honest(call'[t].pipe[i])
    <3>1. CASE t = s
      BY <1>2, <1>4, <1>7, <3>1 DEF IInv, AllHonest, CallsHonest
    <3>2. CASE t # s
      BY <1>6, <3>2 DEF IInv, AllHonest, CallsHonest
    <3> QED BY <3>1, <3>2
  <2> QED BY <1>1, <2>1 DEF CallsHonest, Honest
<1>11. AllHonest'
  BY <1>1, <1>10 DEF IInv, AllHonest, CacheHonest, WireHonest, WebHonest, OnItsWay,
                     AuditTruthful, Honest
<1> QED BY <1>8, <1>9, <1>11 DEF IInv

LEMMA EndCallStep == ASSUME IInv, NEW s \in Call, EndCall(s) PROVE IInv'
<1>1. PICK k \in Ended(call[s]) : /\ call' = [call EXCEPT ![s] = k]
                                  /\ twice' = (twice \/ k.due = {"error", "end"})
  BY DEF EndCall
<1>2. /\ UNCHANGED <<server, bridge, socket, wire, uplink, rpc, web, issued, log>>
      /\ call[s].at = "open" /\ faults' \in 0 .. MaxFaults
  BY BoundsAssumption DEF audit, EndCall, Fault, sockets, commands, IInv, TypeOK
<1>3. call \in [Call -> CallState] /\ twice \in BOOLEAN
  BY DEF IInv, TypeOK, CallState
<1>4. /\ call'[s] = k /\ \A t \in Call : t # s => call'[t] = call[t]
      /\ call' \in [Call -> UNION {Ended(call[t]) \cup {call[t]} : t \in Call}]
  BY <1>1, <1>3
<1>5. \A t \in Call : call[t].due # {"error", "end"} \/ twice
  BY DEF IInv, Subscribed, OneCallOrTimer
<1>6. twice \/ (\E t \in Call : call'[t].due = {"error", "end"}) => twice'
  BY <1>1, <1>4, <1>5
<1>7. /\ call' \in [Call -> CallState]
      /\ \A t \in Call : \A i \in 1 .. Len(call'[t].pipe) :
           i \in 1 .. Len(call[t].pipe) /\ call'[t].pipe[i] = call[t].pipe[i]
      /\ Subscribed'
  BY <1>2, <1>4, <1>6, CallsEnded DEF IInv
<1>8. TypeOK'
  <2>1. twice' \in BOOLEAN
    BY <1>1, <1>3
  <2> QED BY <1>2, <1>7, <2>1 DEF IInv, TypeOK, Recent, CallState
<1>9. CallsHonest' /\ CacheHonest' /\ WireHonest' /\ WebHonest' /\ AuditTruthful'
  BY <1>2, <1>7, ServerMoves
<1>10. OnItsWay'
  BY <1>2 DEF IInv, AllHonest, OnItsWay
<1> QED BY <1>7, <1>8, <1>9, <1>10 DEF IInv, AllHonest

\* The server has forgotten the commands, not that it carried them out.
LEMMA RestartServerStep == ASSUME IInv, RestartServer PROVE IInv'
<1>1. PICK next \in [Call -> UNION {Ended(call[s]) \cup {call[s]} : s \in Call}] :
        /\ \A s \in Call : IF call[s].at = "open" THEN next[s] \in Ended(call[s])
                                                  ELSE next[s] = call[s]
        /\ call' = next
        /\ twice' = (twice \/ \E s \in Call : next[s].due = {"error", "end"})
  BY DEF RestartServer
<1>2. /\ UNCHANGED <<bridge, socket, wire, uplink, rpc, web, issued, log>>
      /\ faults' \in 0 .. MaxFaults
  BY BoundsAssumption DEF audit, RestartServer, Fault, sockets, commands, IInv, TypeOK
<1>3. /\ server' \in [Command -> Listed \cup {"unknown", "retired", "lost"}]
      /\ \A d \in Command : server[d] \in Done => server'[d] \in Done
      /\ \A d \in Command : server[d] = "unknown" => server'[d] = server[d]
  BY DEF RestartServer, IInv, TypeOK, Done, Listed
<1>4. twice \/ (\E s \in Call : call'[s].due = {"error", "end"}) => twice'
  BY <1>1
<1>5. \A s \in Call : \/ call'[s] = call[s]
                      \/ (call[s].at = "open" /\ call'[s] \in Ended(call[s]))
  BY <1>1
<1>6. /\ call' \in [Call -> CallState]
      /\ \A s \in Call : \A i \in 1 .. Len(call'[s].pipe) :
           i \in 1 .. Len(call[s].pipe) /\ call'[s].pipe[i] = call[s].pipe[i]
      /\ Subscribed'
  BY <1>1, <1>2, <1>4, <1>5, CallsEnded DEF IInv
<1>7. TypeOK'
  <2>1. twice' \in BOOLEAN
    BY <1>1 DEF IInv, TypeOK
  <2> QED BY <1>2, <1>3, <1>6, <2>1 DEF IInv, TypeOK, Recent, CallState
<1>8. CallsHonest' /\ CacheHonest' /\ WireHonest' /\ WebHonest' /\ AuditTruthful'
  BY <1>2, <1>3, <1>6, ServerMoves
<1>9. OnItsWay'
  BY <1>2, <1>3 DEF IInv, AllHonest, OnItsWay
<1> QED BY <1>6, <1>7, <1>8, <1>9 DEF IInv, AllHonest

-----------------------------------------------------------------------------
(* The steps of the bridge.                                                *)

\* Where the server stays, a broadcast of honest frames leaves honest ones.
LEMMA BroadcastHonest ==
  ASSUME IInv, UNCHANGED server, NEW new \in Seq(Message), Broadcast(new),
         \A j \in 1 .. Len(new) : new[j].type = "swarm" => Honest(new[j].state)
  PROVE  wire' \in Seq(Message) /\ WireHonest'
<1>1. /\ wire' \in Seq(Message)
      /\ \A i \in 1 .. Len(wire') : \/ \E j \in 1 .. Len(wire) : wire'[i] = wire[j]
                                    \/ \E j \in 1 .. Len(new) : wire'[i] = new[j]
  BY BroadcastCorrect DEF IInv, TypeOK
<1>2. \A i \in 1 .. Len(wire') : wire'[i].type = "swarm" => Honest(wire'[i].state)
  BY <1>1 DEF IInv, AllHonest, WireHonest
<1> QED BY <1>1, <1>2 DEF WireHonest, Honest

LEMMA StatusMessage ==
  ASSUME NEW connected \in BOOLEAN
  PROVE  /\ <<Status(connected)>> \in Seq(Message)
         /\ \A j \in 1 .. Len(<<Status(connected)>>) : <<Status(connected)>>[j].type # "swarm"
BY DEF Status, Message

LEMMA FrameMessage ==
  ASSUME NEW frame \in Frame, Honest(frame), NEW connected \in BOOLEAN
  PROVE  /\ <<Swarm(frame)>> \in Seq(Message)
         /\ <<Status(connected), Swarm(frame)>> \in Seq(Message)
         /\ \A j \in 1 .. Len(<<Swarm(frame)>>) : Honest(<<Swarm(frame)>>[j].state)
         /\ \A j \in 1 .. Len(<<Status(connected), Swarm(frame)>>) :
              <<Status(connected), Swarm(frame)>>[j].type = "swarm" =>
                Honest(<<Status(connected), Swarm(frame)>>[j].state)
<1>1. /\ Status(connected) \in Message /\ Status(connected).type # "swarm"
      /\ Swarm(frame) \in Message /\ Swarm(frame).state = frame
  BY DEF Status, Swarm, Message
<1> QED BY <1>1

\* A frame of the call becomes the last frame, and is sent on.
LEMMA OnDataStep == ASSUME IInv, NEW s \in Call, OnData(s) PROVE IInv'
<1> DEFINE frame == Head(call[s].pipe)
<1>1. /\ UNCHANGED <<server, socket, uplink, rpc, web, issued, log, faults, twice>>
      /\ call[s].pipe # <<>>
      /\ Broadcast(IF bridge.healthy THEN <<Swarm(frame)>>
                                     ELSE <<Status(TRUE), Swarm(frame)>>)
      /\ bridge' = [bridge EXCEPT !.healthy = TRUE, !.lastFrame = frame,
                                  !.connected = bridge.connected \/ ~bridge.healthy]
      /\ call' = [call EXCEPT ![s].pipe = Tail(call[s].pipe)]
  BY DEF audit, OnData, commands
<1>2. /\ call \in [Call -> CallState] /\ bridge.healthy \in BOOLEAN
      /\ bridge.connected \in BOOLEAN /\ bridge.timers \in Nat
      /\ bridge \in [healthy : BOOLEAN, timers : Nat, connected : BOOLEAN,
                     lastFrame : Frame \cup {None}]
  BY DEF IInv, TypeOK, CallState
<1>3. call[s].pipe \in Seq(Frame)
  BY <1>2 DEF CallState
<1> DEFINE rest == Tail(call[s].pipe)
<1>4. /\ frame \in Frame /\ frame = call[s].pipe[1] /\ 1 \in 1 .. Len(call[s].pipe)
      /\ rest \in Seq(Frame)
      /\ \A i \in 1 .. Len(rest) : i + 1 \in 1 .. Len(call[s].pipe) /\ rest[i] = call[s].pipe[i + 1]
  BY <1>1, <1>3, TailElements
<1>5. Honest(frame)
  BY <1>4 DEF IInv, AllHonest, CallsHonest
<1>6. call' = [call EXCEPT ![s] = [call[s] EXCEPT !.pipe = rest]]
  BY <1>1, <1>2 DEF CallState
<1> HIDE DEF frame, rest
<1>7. /\ call' \in [Call -> CallState] /\ call'[s].pipe = rest
      /\ \A t \in Call : t # s => call'[t] = call[t]
  <2> DEFINE c == [call[s] EXCEPT !.pipe = rest]
  <2>1. call[s] \in CallState
    BY <1>2
  <2>2. c \in CallState /\ c.pipe = rest
    BY <1>4, <2>1 DEF CallState
  <2>3. call' = [call EXCEPT ![s] = c]
    BY <1>6
  <2> HIDE DEF c
  <2> QED BY <1>2, <2>2, <2>3
<1>8. wire' \in Seq(Message) /\ WireHonest'
  <2>1. CASE bridge.healthy
    <3>1. Broadcast(<<Swarm(frame)>>)
      BY <1>1, <2>1
    <3> QED BY <1>1, <1>4, <1>5, <3>1, FrameMessage, BroadcastHonest
  <2>2. CASE ~bridge.healthy
    <3>1. Broadcast(<<Status(TRUE), Swarm(frame)>>)
      BY <1>1, <2>2
    <3> QED BY <1>1, <1>4, <1>5, <3>1, FrameMessage, BroadcastHonest
  <2> QED BY <2>1, <2>2
<1>9. TypeOK'
  <2>1. bridge' \in [healthy : BOOLEAN, timers : Nat, connected : BOOLEAN,
                     lastFrame : Frame \cup {None}]
    BY <1>1, <1>2, <1>4
  <2> QED BY <1>1, <1>7, <1>8, <2>1 DEF IInv, TypeOK, Recent, CallState
<1>10. Subscribed'
  BY OnDataSubscribed DEF IInv
<1>11. CallsHonest'
  <2>1. ASSUME NEW t \in Call, NEW i \in 1 .. Len(call'[t].pipe)
        PROVE  Honest(call'[t].pipe[i])
    BY <1>4, <1>7 DEF IInv, AllHonest, CallsHonest
  <2> QED BY <1>1, <2>1 DEF CallsHonest, Honest
<1>12. CacheHonest'
  <2>1. bridge'.lastFrame = frame
    BY <1>1, <1>2
  <2> QED BY <1>1, <1>5, <2>1 DEF CacheHonest, Honest
<1>13. WebHonest' /\ OnItsWay' /\ AuditTruthful'
  BY <1>1 DEF IInv, AllHonest, WebHonest, OnItsWay, AuditTruthful, Honest
<1> QED BY <1>8, <1>9, <1>10, <1>11, <1>12, <1>13 DEF IInv, AllHonest

LEMMA OnDropStep ==
  ASSUME IInv, NEW s \in Call, NEW e \in {"error", "end"}, onDrop(s, e) PROVE IInv'
<1>1. /\ UNCHANGED <<server, socket, uplink, rpc, web, issued, log, faults, twice>>
      /\ e \in call[s].due /\ call[s].pipe = <<>>
      /\ Broadcast(<<Status(FALSE)>>)
      /\ \/ call' = [call EXCEPT ![s] = NoCall]
         \/ call' = [call EXCEPT ![s] = [call[s] EXCEPT !.due = call[s].due \ {e}]]
      /\ bridge' = [bridge EXCEPT !.healthy = FALSE, !.connected = FALSE,
                                  !.timers = bridge.timers + 1]
  BY DEF audit, onDrop, Event, commands
<1>2. /\ call \in [Call -> CallState]
      /\ bridge \in [healthy : BOOLEAN, timers : Nat, connected : BOOLEAN,
                     lastFrame : Frame \cup {None}]
  BY DEF IInv, TypeOK, CallState
<1>3. wire' \in Seq(Message) /\ WireHonest'
  BY <1>1, StatusMessage, BroadcastHonest
<1>4. /\ call' \in [Call -> CallState] /\ Len(call'[s].pipe) = 0
      /\ \A t \in Call : t # s => call'[t] = call[t]
  <2>1. NoCall \in CallState
    BY DEF NoCall, CallState
  <2>2. [call[s] EXCEPT !.due = call[s].due \ {e}] \in CallState
    BY <1>2 DEF CallState
  <2>3. /\ NoCall.pipe = <<>>
        /\ [call[s] EXCEPT !.due = call[s].due \ {e}].pipe = <<>>
    BY <1>1, <1>2 DEF NoCall, CallState
  <2>4. call' \in [Call -> CallState] /\ call'[s].pipe = <<>>
    BY <1>1, <1>2, <2>1, <2>2, <2>3
  <2> QED BY <1>1, <1>2, <2>4
<1>5. TypeOK'
  <2>1. bridge' = [bridge EXCEPT !.healthy = FALSE, !.connected = FALSE,
                                  !.timers = bridge.timers + 1]
    BY <1>1
  <2>2. bridge.timers + 1 \in Nat
    BY <1>1, <1>2
  <2>3. bridge' \in [healthy : BOOLEAN, timers : Nat, connected : BOOLEAN,
                     lastFrame : Frame \cup {None}]
    BY <1>2, <2>1, <2>2
  <2> QED BY <1>1, <1>3, <1>4, <2>3 DEF IInv, TypeOK, Recent, CallState
<1>6. Subscribed'
  BY OnDropSubscribed DEF IInv
<1>7. CallsHonest'
  BY <1>1, <1>4 DEF IInv, AllHonest, CallsHonest, Honest
<1>8. CacheHonest'
  <2>1. bridge'.lastFrame = bridge.lastFrame
    BY <1>1, <1>2
  <2> QED BY <1>1, <2>1 DEF IInv, AllHonest, CacheHonest, Honest
<1>9. WebHonest' /\ OnItsWay' /\ AuditTruthful'
  BY <1>1 DEF IInv, AllHonest, WebHonest, OnItsWay, AuditTruthful, Honest
<1> QED BY <1>3, <1>5, <1>6, <1>7, <1>8, <1>9 DEF IInv, AllHonest

LEMMA SubscribeStep == ASSUME IInv, NEW s \in Call, subscribe(s) PROVE IInv'
<1>1. /\ UNCHANGED <<server, socket, uplink, rpc, web, issued, log, faults, twice>>
      /\ bridge.timers > 0
      /\ Broadcast(<<Status(FALSE)>>)
      /\ call' = [call EXCEPT ![s] = NewCall]
      /\ bridge' = [bridge EXCEPT !.timers = bridge.timers - 1, !.connected = FALSE]
  BY DEF audit, subscribe, commands
<1>2. /\ call \in [Call -> CallState]
      /\ bridge \in [healthy : BOOLEAN, timers : Nat, connected : BOOLEAN,
                     lastFrame : Frame \cup {None}]
  BY DEF IInv, TypeOK, CallState
<1>3. wire' \in Seq(Message) /\ WireHonest'
  BY <1>1, StatusMessage, BroadcastHonest
<1>4. /\ call' \in [Call -> CallState] /\ Len(call'[s].pipe) = 0
      /\ \A t \in Call : t # s => call'[t] = call[t]
  <2>1. NewCall \in CallState /\ NewCall.pipe = <<>>
    BY DEF NewCall, CallState
  <2> QED BY <1>1, <1>2, <2>1
<1>5. TypeOK'
  <2>1. bridge' = [bridge EXCEPT !.timers = bridge.timers - 1, !.connected = FALSE]
    BY <1>1
  <2>2. bridge.timers - 1 \in Nat
    BY <1>1, <1>2
  <2>3. bridge' \in [healthy : BOOLEAN, timers : Nat, connected : BOOLEAN,
                     lastFrame : Frame \cup {None}]
    BY <1>2, <2>1, <2>2
  <2> QED BY <1>1, <1>3, <1>4, <2>3 DEF IInv, TypeOK, Recent, CallState
<1>6. Subscribed'
  BY SubscribeSubscribed DEF IInv
<1>7. CallsHonest'
  BY <1>1, <1>4 DEF IInv, AllHonest, CallsHonest, Honest
<1>8. CacheHonest'
  <2>1. bridge'.lastFrame = bridge.lastFrame
    BY <1>1, <1>2
  <2> QED BY <1>1, <2>1 DEF IInv, AllHonest, CacheHonest, Honest
<1>9. WebHonest' /\ OnItsWay' /\ AuditTruthful'
  BY <1>1 DEF IInv, AllHonest, WebHonest, OnItsWay, AuditTruthful, Honest
<1> QED BY <1>3, <1>5, <1>6, <1>7, <1>8, <1>9 DEF IInv, AllHonest

\* The commands on their way move on, or are lost.
LEMMA OnCommandStep == ASSUME IInv, NEW c \in Command, OnCommand(c) PROVE IInv'
<1>1. /\ UNCHANGED <<server, call, bridge, socket, wire, web, issued, log, faults, twice>>
      /\ c \in uplink /\ uplink' = uplink \ {c} /\ rpc' = rpc \cup {c}
  BY DEF audit, OnCommand, callServer, feed, sockets
<1>2. TypeOK'
  <2>1. uplink' \subseteq 1 .. issued /\ rpc' \subseteq 1 .. issued
    BY <1>1 DEF IInv, TypeOK
  <2> QED BY <1>1, <2>1 DEF IInv, TypeOK, Recent
<1>3. Subscribed'
  BY <1>1, SubscribedUntouched DEF IInv
<1>4. AllHonest'
  BY <1>1 DEF IInv, AllHonest, CallsHonest, CacheHonest, WireHonest, WebHonest, OnItsWay,
              AuditTruthful, Honest
<1> QED BY <1>2, <1>3, <1>4 DEF IInv

LEMMA RestartBridgeStep == ASSUME IInv, RestartBridge PROVE IInv'
<1>1. /\ UNCHANGED <<server, wire, web, issued, log, twice>>
      /\ bridge' = [healthy |-> FALSE, timers |-> 0, connected |-> FALSE, lastFrame |-> None]
      /\ call' = [s \in Call |-> IF s = 1 THEN NewCall ELSE NoCall]
      /\ socket' = Broken /\ uplink' = {} /\ rpc' \subseteq rpc
      /\ faults' \in 0 .. MaxFaults
  BY BoundsAssumption DEF audit, RestartBridge, Fault, IInv, TypeOK
<1>2. \A s \in Call : call'[s] \in CallState /\ Len(call'[s].pipe) = 0
  BY <1>1 DEF NewCall, NoCall, CallState
<1>3. TypeOK'
  <2>1. socket' \in {"closed", "opening", "open", "broken", "refused"}
    BY <1>1 DEF Broken, IInv, TypeOK
  <2>2. call' \in [Call -> CallState]
    BY <1>1, <1>2
  <2>3. uplink' \subseteq 1 .. issued /\ rpc' \subseteq 1 .. issued
    BY <1>1 DEF IInv, TypeOK
  <2> QED BY <1>1, <2>1, <2>2, <2>3 DEF IInv, TypeOK, Recent, CallState
<1>4. Subscribed'
  <2>1. 1 \in Call
    BY BoundsAssumption DEF Call
  <2> QED BY <1>1, <2>1
          DEF Subscribed, CallShape, OneCallOrTimer, RetryPending, NewCall, NoCall,
              StatusTellsHealthOfOneCall, StatusTellsHealth
<1>5. CallsHonest' /\ CacheHonest'
  BY <1>1, <1>2 DEF CallsHonest, CacheHonest
<1>6. WireHonest' /\ WebHonest' /\ AuditTruthful'
  BY <1>1 DEF IInv, AllHonest, WireHonest, WebHonest, AuditTruthful, Honest
<1>7. OnItsWay'
  BY <1>1 DEF IInv, AllHonest, OnItsWay
<1> QED BY <1>3, <1>4, <1>5, <1>6, <1>7 DEF IInv, AllHonest

-----------------------------------------------------------------------------
(* The steps of the browser.                                               *)

\* The new client is sent the last frame, which is honest.
LEMMA ConnectStep == ASSUME IInv, Connect PROVE IInv'
<1>1. /\ UNCHANGED <<server, call, bridge, uplink, rpc, web, issued, log, faults, twice>>
      /\ socket' = "opening"
      /\ wire' = IF bridge.lastFrame = None
                 THEN <<Status(bridge.connected)>>
                 ELSE <<Status(bridge.connected), Swarm(bridge.lastFrame)>>
  BY DEF audit, Connect, feed, commands
<1>2. bridge.connected \in BOOLEAN /\ bridge.lastFrame \in Frame \cup {None}
  BY DEF IInv, TypeOK
<1>3. wire' \in Seq(Message) /\ WireHonest'
  <2>1. CASE bridge.lastFrame = None
    <3>1. wire' = <<Status(bridge.connected)>>
      BY <1>1, <2>1
    <3> QED BY <1>2, <3>1, StatusMessage DEF WireHonest
  <2>2. CASE bridge.lastFrame # None
    <3>1. bridge.lastFrame \in Frame /\ Honest(bridge.lastFrame)
      BY <1>2, <2>2 DEF IInv, AllHonest, CacheHonest
    <3>2. wire' = <<Status(bridge.connected), Swarm(bridge.lastFrame)>>
      BY <1>1, <2>2
    <3>3. /\ wire' \in Seq(Message)
          /\ \A i \in 1 .. Len(wire') : wire'[i].type = "swarm" => Honest(wire'[i].state)
      BY <1>2, <3>1, <3>2, FrameMessage
    <3> QED BY <1>1, <3>3 DEF WireHonest, Honest
  <2> QED BY <2>1, <2>2
<1>4. TypeOK'
  BY <1>1, <1>3 DEF IInv, TypeOK, Recent
<1>5. Subscribed'
  BY <1>1, SubscribedUntouched DEF IInv
<1>6. CallsHonest' /\ CacheHonest' /\ WebHonest' /\ OnItsWay' /\ AuditTruthful'
  BY <1>1 DEF IInv, AllHonest, CallsHonest, CacheHonest, WebHonest, OnItsWay,
              AuditTruthful, Honest
<1> QED BY <1>3, <1>4, <1>5, <1>6 DEF IInv, AllHonest

LEMMA OnOpenStep == ASSUME IInv, OnOpen PROVE IInv'
<1>1. /\ UNCHANGED <<server, call, bridge, wire, uplink, rpc, web, issued, log, faults, twice>>
      /\ socket' = "open"
  BY DEF audit, OnOpen, feed, commands
<1>2. TypeOK'
  BY <1>1 DEF IInv, TypeOK, Recent
<1>3. Subscribed'
  BY <1>1, SubscribedUntouched DEF IInv
<1>4. AllHonest'
  BY <1>1 DEF IInv, AllHonest, CallsHonest, CacheHonest, WireHonest, WebHonest, OnItsWay,
              AuditTruthful, Honest
<1> QED BY <1>2, <1>3, <1>4 DEF IInv

\* The frame of the message becomes the one that is shown.
LEMMA OnMessageStep == ASSUME IInv, OnMessage PROVE IInv'
<1> DEFINE msg == Head(wire)
           rest == Tail(wire)
<1>1. /\ UNCHANGED <<server, call, bridge, socket, uplink, rpc, issued, log, faults, twice>>
      /\ wire # <<>> /\ wire' = rest
      /\ web' = IF msg.type = "swarm"
                THEN [web EXCEPT !.frame = msg.state, !.rendered = FALSE]
                ELSE [web EXCEPT !.connected = msg.connected]
  BY DEF audit, OnMessage, feed, commands
<1>2. /\ wire \in Seq(Message)
      /\ web \in [frame : Frame \cup {None}, rendered : BOOLEAN, connected : BOOLEAN]
  BY DEF IInv, TypeOK
<1>3. /\ msg \in Message /\ msg = wire[1] /\ 1 \in 1 .. Len(wire)
      /\ rest \in Seq(Message)
      /\ \A i \in 1 .. Len(rest) : i + 1 \in 1 .. Len(wire) /\ rest[i] = wire[i + 1]
  BY <1>1, <1>2, TailElements
<1>4. msg.type = "swarm" => Honest(msg.state)
  BY <1>3 DEF IInv, AllHonest, WireHonest
<1> HIDE DEF msg, rest
<1>5. WireHonest'
  <2>1. \A i \in 1 .. Len(rest) : rest[i].type = "swarm" => Honest(rest[i].state)
    BY <1>3 DEF IInv, AllHonest, WireHonest
  <2> QED BY <1>1, <2>1 DEF WireHonest, Honest
<1>6. /\ web' \in [frame : Frame \cup {None}, rendered : BOOLEAN, connected : BOOLEAN]
      /\ web'.frame # None => Honest(web'.frame)
      /\ web'.rendered \/ web'.frame # None
  <2>1. CASE msg.type = "swarm"
    <3>1. msg.state \in Frame /\ web' = [web EXCEPT !.frame = msg.state, !.rendered = FALSE]
      BY <1>1, <1>3, <2>1 DEF Message
    <3>2. web'.frame = msg.state /\ msg.state # None
      BY <1>2, <3>1, NoneAssumption
    <3> QED BY <1>2, <1>4, <2>1, <3>1, <3>2
  <2>2. CASE msg.type # "swarm"
    <3>1. msg.connected \in BOOLEAN /\ web' = [web EXCEPT !.connected = msg.connected]
      BY <1>1, <1>3, <2>2 DEF Message
    <3>2. web'.frame = web.frame /\ web'.rendered = web.rendered
      BY <1>2, <3>1
    <3> QED BY <1>2, <3>1, <3>2 DEF IInv, AllHonest, WebHonest
  <2> QED BY <2>1, <2>2
<1>7. WebHonest'
  BY <1>1, <1>6 DEF WebHonest, Honest
<1>8. TypeOK'
  BY <1>1, <1>3, <1>6 DEF IInv, TypeOK, Recent
<1>9. Subscribed'
  BY <1>1, SubscribedUntouched DEF IInv
<1>10. CallsHonest' /\ CacheHonest' /\ OnItsWay' /\ AuditTruthful'
  BY <1>1 DEF IInv, AllHonest, CallsHonest, CacheHonest, OnItsWay, AuditTruthful, Honest
<1> QED BY <1>5, <1>7, <1>8, <1>9, <1>10 DEF IInv, AllHonest

LEMMA BreakSocketStep == ASSUME IInv, BreakSocket PROVE IInv'
<1>1. /\ UNCHANGED <<server, call, bridge, wire, uplink, rpc, web, issued, log, twice>>
      /\ socket' = Broken /\ faults' \in 0 .. MaxFaults
  BY BoundsAssumption DEF audit, BreakSocket, Fault, feed, commands, IInv, TypeOK
<1>2. TypeOK'
  <2>1. socket' \in {"closed", "opening", "open", "broken", "refused"}
    BY <1>1 DEF Broken, IInv, TypeOK
  <2> QED BY <1>1, <2>1 DEF IInv, TypeOK, Recent
<1>3. Subscribed'
  BY <1>1, SubscribedUntouched DEF IInv
<1>4. AllHonest'
  BY <1>1 DEF IInv, AllHonest, CallsHonest, CacheHonest, WireHonest, WebHonest, OnItsWay,
              AuditTruthful, Honest
<1> QED BY <1>2, <1>3, <1>4 DEF IInv

LEMMA OnCloseStep == ASSUME IInv, OnClose PROVE IInv'
<1>1. /\ UNCHANGED <<server, call, bridge, rpc, issued, log, faults, twice>>
      /\ socket' = "closed" /\ wire' = <<>> /\ uplink' \subseteq uplink
      /\ web' = [web EXCEPT !.connected = FALSE]
  BY DEF audit, OnClose, feed
<1>2. /\ web' \in [frame : Frame \cup {None}, rendered : BOOLEAN, connected : BOOLEAN]
      /\ web'.frame = web.frame /\ web'.rendered = web.rendered
  BY <1>1 DEF IInv, TypeOK
<1>3. TypeOK'
  <2>1. uplink' \subseteq 1 .. issued /\ wire' \in Seq(Message)
    BY <1>1 DEF IInv, TypeOK
  <2> QED BY <1>1, <1>2, <2>1 DEF IInv, TypeOK, Recent
<1>4. Subscribed'
  BY <1>1, SubscribedUntouched DEF IInv
<1>5. WireHonest' /\ WebHonest'
  BY <1>1, <1>2 DEF IInv, AllHonest, WireHonest, WebHonest, Honest
<1>6. CallsHonest' /\ CacheHonest' /\ OnItsWay' /\ AuditTruthful'
  BY <1>1 DEF IInv, AllHonest, CallsHonest, CacheHonest, OnItsWay, AuditTruthful, Honest
<1> QED BY <1>3, <1>4, <1>5, <1>6 DEF IInv, AllHonest

\* The log takes over what an honest frame says.
LEMMA RenderStep == ASSUME IInv, Render PROVE IInv'
<1>1. /\ UNCHANGED <<server, call, bridge, socket, wire, uplink, rpc, issued, faults, twice>>
      /\ ~web.rendered /\ web' = [web EXCEPT !.rendered = TRUE]
      /\ log' = [c \in DOMAIN log |-> Merged(c, web.frame)]
  BY DEF Render, feed, sockets, commands
<1>2. /\ web' \in [frame : Frame \cup {None}, rendered : BOOLEAN, connected : BOOLEAN]
      /\ web'.frame = web.frame /\ web'.rendered
  BY <1>1 DEF IInv, TypeOK
<1>3. web.frame \in Frame /\ Honest(web.frame) /\ log \in [Recent -> Listed]
  BY <1>1 DEF IInv, TypeOK, AllHonest, WebHonest
<1>4. \A c \in DOMAIN log : Merged(c, web.frame) \in Listed
  BY <1>3, FrameElim DEF Merged
<1>5. log' \in [Recent -> Listed] /\ DOMAIN log' = DOMAIN log
  BY <1>1, <1>3, <1>4
<1>6. TypeOK'
  BY <1>1, <1>2, <1>5 DEF IInv, TypeOK, Recent
<1>7. Subscribed'
  BY <1>1, SubscribedUntouched DEF IInv
<1>8. AuditTruthful'
  <2>1. \A c \in DOMAIN log : Merged(c, web.frame) = "APPLIED" => server[c] \in Done
    BY <1>3 DEF Merged, Honest, IInv, AllHonest, AuditTruthful, Done
  <2> QED BY <1>1, <2>1 DEF AuditTruthful, Done
<1>9. WebHonest' /\ OnItsWay'
  BY <1>1, <1>2, <1>5 DEF IInv, AllHonest, WebHonest, OnItsWay, Honest
<1>10. CallsHonest' /\ CacheHonest' /\ WireHonest'
  BY <1>1 DEF IInv, AllHonest, CallsHonest, CacheHonest, WireHonest, Honest
<1> QED BY <1>6, <1>7, <1>8, <1>9, <1>10 DEF IInv, AllHonest

\* A command that is new is unknown to the server, sent or not.
LEMMA DoSendStep == ASSUME IInv, NEW c \in Command, doSend(c) PROVE IInv'
<1>1. /\ UNCHANGED <<server, call, bridge, socket, wire, rpc, web, faults, twice>>
      /\ c = issued + 1 /\ issued' = c
      /\ uplink' \subseteq uplink \cup {c}
      /\ log' = [d \in {e \in DOMAIN log \cup {c} : e > c - MAX_ENTRIES} |->
                   IF d = c THEN "PENDING" ELSE log[d]]
  BY DEF doSend, sendCommand, record, feed, sockets
<1>2. /\ log \in [Recent -> Listed] /\ issued \in 0 .. MaxCommands
      /\ c \in 1 .. MaxCommands /\ MaxCommands \in Nat /\ MAX_ENTRIES \in Nat \ {0}
  BY CommandsAssumption DEF IInv, TypeOK, Command
<1>3. TypeOK'
  <2>1. /\ uplink' \subseteq 1 .. issued' /\ rpc' \subseteq 1 .. issued'
        /\ issued' \in 0 .. MaxCommands
    BY <1>1, <1>2 DEF IInv, TypeOK
  <2>2. log' \in [Recent' -> Listed]
    <3>1. {e \in Recent \cup {c} : e > c - MAX_ENTRIES} = Recent'
      BY <1>1, <1>2 DEF Recent
    <3>2. \A d \in Recent' : (IF d = c THEN "PENDING" ELSE log[d]) \in Listed
      BY <1>2, <3>1 DEF Listed
    <3> QED BY <1>1, <1>2, <3>1, <3>2
  <2> QED BY <1>1, <2>1, <2>2 DEF IInv, TypeOK
<1>4. Subscribed'
  BY <1>1, SubscribedUntouched DEF IInv
<1>5. OnItsWay'
  <2>1. server[c] = "unknown" /\ c \notin rpc /\ 1 .. issued' = (1 .. issued) \cup {c}
    BY <1>1, <1>2 DEF IInv, TypeOK, AllHonest, OnItsWay
  <2> QED BY <1>1, <2>1 DEF IInv, AllHonest, OnItsWay
<1>6. AuditTruthful'
  BY <1>1, <1>2 DEF IInv, AllHonest, AuditTruthful
<1>7. CallsHonest' /\ CacheHonest' /\ WireHonest' /\ WebHonest'
  BY <1>1 DEF IInv, AllHonest, CallsHonest, CacheHonest, WireHonest, WebHonest, Honest
<1> QED BY <1>3, <1>4, <1>5, <1>6, <1>7 DEF IInv, AllHonest

-----------------------------------------------------------------------------
(* The invariant.                                                          *)

LEMMA InitIInv == ASSUME Init PROVE IInv
<1>1. TypeOK
  <2>1. call \in [Call -> CallState]
    BY DEF Init, NewCall, NoCall, CallState
  <2>2. log \in [Recent -> Listed] /\ issued \in 0 .. MaxCommands
    <3>1. Recent = {}
      BY DEF Init, Recent
    <3> QED BY <3>1, CommandsAssumption DEF Init
  <2>3. bridge \in [healthy : BOOLEAN, timers : Nat, connected : BOOLEAN,
                    lastFrame : Frame \cup {None}]
    BY DEF Init
  <2>4. /\ web \in [frame : Frame \cup {None}, rendered : BOOLEAN, connected : BOOLEAN]
        /\ socket = "closed" /\ wire \in Seq(Message) /\ uplink = {} /\ rpc = {}
        /\ faults \in 0 .. MaxFaults /\ twice = FALSE
        /\ server \in [Command -> Listed \cup {"unknown", "retired", "lost"}]
    BY BoundsAssumption DEF Init
  <2> QED BY <2>1, <2>2, <2>3, <2>4 DEF TypeOK, CallState
<1>2. Subscribed
  <2>1. 1 \in Call
    BY BoundsAssumption DEF Call
  <2> QED BY <2>1 DEF Init, Subscribed, CallShape, OneCallOrTimer, RetryPending, NewCall,
                      NoCall, StatusTellsHealthOfOneCall, StatusTellsHealth
<1>3. CallsHonest /\ CacheHonest
  <2>1. \A s \in Call : Len(call[s].pipe) = 0
    BY DEF Init, NewCall, NoCall
  <2> QED BY <2>1 DEF Init, CallsHonest, CacheHonest
<1>4. WireHonest /\ WebHonest /\ OnItsWay /\ AuditTruthful
  BY DEF Init, WireHonest, WebHonest, OnItsWay, AuditTruthful
<1> QED BY <1>1, <1>2, <1>3, <1>4 DEF IInv, AllHonest

LEMMA StutterStep == ASSUME IInv, UNCHANGED vars PROVE IInv'
<1>1. UNCHANGED <<server, call, bridge, socket, wire, uplink, rpc, web, issued, log, faults, twice>>
  BY DEF audit, vars, feed, sockets, commands
<1>2. TypeOK'
  BY <1>1 DEF IInv, TypeOK, Recent
<1>3. Subscribed'
  BY <1>1, SubscribedUntouched DEF IInv
<1>4. AllHonest'
  BY <1>1 DEF IInv, AllHonest, CallsHonest, CacheHonest, WireHonest, WebHonest, OnItsWay,
              AuditTruthful, Honest
<1> QED BY <1>2, <1>3, <1>4 DEF IInv

LEMMA NextIInv == ASSUME IInv, [Next]_vars PROVE IInv'
<1>1. CASE Server
  BY <1>1, RestartServerStep, AdvanceStep, SubmitStep DEF Server
<1>2. ASSUME NEW s \in Call, Stream(s) \/ EndCall(s) PROVE IInv'
  BY <1>2, SendFrameStep, OnDataStep, SubscribeStep, OnDropStep, EndCallStep DEF Stream
<1>3. ASSUME NEW c \in Command, OnCommand(c) \/ doSend(c) PROVE IInv'
  BY <1>3, OnCommandStep, DoSendStep
<1>4. CASE Browser
  BY <1>4, ConnectStep, OnOpenStep, OnMessageStep, OnCloseStep, RenderStep DEF Browser
<1>5. CASE RestartBridge \/ BreakSocket
  BY <1>5, RestartBridgeStep, BreakSocketStep
<1>6. CASE UNCHANGED vars
  BY <1>6, StutterStep
<1> QED BY <1>1, <1>2, <1>3, <1>4, <1>5, <1>6 DEF Next

LEMMA Invariance == Spec => []IInv
BY InitIInv, NextIInv, PTL DEF Spec

-----------------------------------------------------------------------------

\* Every variable has a value of its type, whatever fails.
THEOREM TypeCorrect == Spec => []TypeOK
<1>1. IInv => TypeOK
  BY DEF IInv
<1> QED BY <1>1, Invariance, PTL

\* GrpcSource always has a call of Subscribe or a timer that will make one.
THEOREM NeverGivesUp == Spec => []RetryPending
<1>1. IInv => RetryPending
  BY DEF IInv, Subscribed
<1> QED BY <1>1, Invariance, PTL

\* As long as no call was ended by both events the clients of the bridge are
\* told that the link is up exactly while it is: subscribe tells them FALSE
\* and leaves healthy alone, and it is only ever made after a drop.
THEOREM StatusCorrect == Spec => []StatusTellsHealthOfOneCall
<1>1. IInv => StatusTellsHealthOfOneCall
  BY DEF IInv, Subscribed
<1> QED BY <1>1, Invariance, PTL

\* The audit log says that a command was carried out only if it was, however
\* frames and commands were delayed, repeated or lost.
THEOREM LogTruthful == Spec => []AuditTruthful
<1>1. IInv => AuditTruthful
  BY DEF IInv, AllHonest
<1> QED BY <1>1, Invariance, PTL
-----------------------------------------------------------------------------
(* What the messages on their way will make of the browser.                *)

\* A browser that shows val and takes the messages w ends up with is: the
\* last status among them is is, or there is none and it shows is already.
StatusArrives(w, val, is) ==
  /\ \A i \in 1 .. Len(w) :
       w[i].type = "status" /\ (\A j \in i + 1 .. Len(w) : w[j].type # "status")
         => w[i].connected = is
  /\ (\A i \in 1 .. Len(w) : w[i].type # "status") => val = is

\* The same of the frame.
FrameArrives(w, val, is) ==
  /\ \A i \in 1 .. Len(w) :
       w[i].type = "swarm" /\ (\A j \in i + 1 .. Len(w) : w[j].type # "swarm")
         => w[i].state = is
  /\ (\A i \in 1 .. Len(w) : w[i].type # "swarm") => val = is

\* Whatever is on its way to a browser that is connected brings it to the
\* status and the frame that the bridge has.
Arrives ==
  Connected =>
    /\ StatusArrives(wire, web.connected, bridge.connected)
    /\ bridge.lastFrame # None => FrameArrives(wire, web.frame, bridge.lastFrame)

\* A status that is sent last is the one that arrives, and leaves the frame.
LEMMA StatusSent ==
  ASSUME NEW w \in Seq(Message), NEW is \in BOOLEAN, NEW val, NEW valF, NEW isF
  PROVE  /\ Append(w, Status(is)) \in Seq(Message)
         /\ StatusArrives(Append(w, Status(is)), val, is)
         /\ FrameArrives(w, valF, isF) => FrameArrives(Append(w, Status(is)), valF, isF)
<1> DEFINE msg == Status(is)
           long == Append(w, msg)
<1>1. msg \in Message /\ msg.type = "status" /\ msg.connected = is
  BY DEF Status, Message
<1> HIDE DEF msg
<1>2. /\ long \in Seq(Message) /\ Len(long) = Len(w) + 1 /\ Len(w) \in Nat
      /\ \A i \in 1 .. Len(w) : long[i] = w[i]
      /\ long[Len(w) + 1] = msg
  BY <1>1
<1> HIDE DEF long
<1>3. ASSUME NEW i \in 1 .. Len(long)
      PROVE  i \in 1 .. Len(w) \/ i = Len(w) + 1
  BY <1>2
<1>4. StatusArrives(long, val, is)
  <2>1. ASSUME NEW i \in 1 .. Len(long), \A j \in i + 1 .. Len(long) : long[j].type # "status"
        PROVE  long[i].connected = is
    <3>1. i = Len(w) + 1
      <4>1. ASSUME i \in 1 .. Len(w) PROVE FALSE
        BY <1>1, <1>2, <2>1, <4>1
      <4> QED BY <1>3, <4>1
    <3> QED BY <1>1, <1>2, <3>1
  <2>2. long[Len(w) + 1].type = "status" /\ Len(w) + 1 \in 1 .. Len(long)
    BY <1>1, <1>2
  <2> QED BY <2>1, <2>2 DEF StatusArrives
<1>5. ASSUME FrameArrives(w, valF, isF) PROVE FrameArrives(long, valF, isF)
  <2>1. ASSUME NEW i \in 1 .. Len(long), long[i].type = "swarm",
               \A j \in i + 1 .. Len(long) : long[j].type # "swarm"
        PROVE  long[i].state = isF
    <3>1. i \in 1 .. Len(w)
      BY <1>1, <1>2, <1>3, <2>1
    <3>2. \A j \in i + 1 .. Len(w) : w[j].type # "swarm"
      BY <1>2, <2>1
    <3> QED BY <1>2, <1>5, <2>1, <3>1, <3>2 DEF FrameArrives
  <2>2. ASSUME \A i \in 1 .. Len(long) : long[i].type # "swarm" PROVE valF = isF
    <3>1. \A i \in 1 .. Len(w) : w[i].type # "swarm"
      BY <1>2, <2>2
    <3> QED BY <1>5, <3>1 DEF FrameArrives
  <2> QED BY <2>1, <2>2 DEF FrameArrives
<1> QED BY <1>2, <1>4, <1>5 DEF long, msg

\* A frame that is sent last is the one that arrives, and leaves the status.
LEMMA FrameSent ==
  ASSUME NEW w \in Seq(Message), NEW is \in Frame, NEW val, NEW valS, NEW isS
  PROVE  /\ Append(w, Swarm(is)) \in Seq(Message)
         /\ FrameArrives(Append(w, Swarm(is)), val, is)
         /\ StatusArrives(w, valS, isS) => StatusArrives(Append(w, Swarm(is)), valS, isS)
<1> DEFINE msg == Swarm(is)
           long == Append(w, msg)
<1>1. msg \in Message /\ msg.type = "swarm" /\ msg.state = is
  BY DEF Swarm, Message
<1> HIDE DEF msg
<1>2. /\ long \in Seq(Message) /\ Len(long) = Len(w) + 1 /\ Len(w) \in Nat
      /\ \A i \in 1 .. Len(w) : long[i] = w[i]
      /\ long[Len(w) + 1] = msg
  BY <1>1
<1> HIDE DEF long
<1>3. ASSUME NEW i \in 1 .. Len(long)
      PROVE  i \in 1 .. Len(w) \/ i = Len(w) + 1
  BY <1>2
<1>4. FrameArrives(long, val, is)
  <2>1. ASSUME NEW i \in 1 .. Len(long), \A j \in i + 1 .. Len(long) : long[j].type # "swarm"
        PROVE  long[i].state = is
    <3>1. i = Len(w) + 1
      <4>1. ASSUME i \in 1 .. Len(w) PROVE FALSE
        BY <1>1, <1>2, <2>1, <4>1
      <4> QED BY <1>3, <4>1
    <3> QED BY <1>1, <1>2, <3>1
  <2>2. long[Len(w) + 1].type = "swarm" /\ Len(w) + 1 \in 1 .. Len(long)
    BY <1>1, <1>2
  <2> QED BY <2>1, <2>2 DEF FrameArrives
<1>5. ASSUME StatusArrives(w, valS, isS) PROVE StatusArrives(long, valS, isS)
  <2>1. ASSUME NEW i \in 1 .. Len(long), long[i].type = "status",
               \A j \in i + 1 .. Len(long) : long[j].type # "status"
        PROVE  long[i].connected = isS
    <3>1. i \in 1 .. Len(w)
      BY <1>1, <1>2, <1>3, <2>1
    <3>2. \A j \in i + 1 .. Len(w) : w[j].type # "status"
      BY <1>2, <2>1
    <3> QED BY <1>2, <1>5, <2>1, <3>1, <3>2 DEF StatusArrives
  <2>2. ASSUME \A i \in 1 .. Len(long) : long[i].type # "status" PROVE valS = isS
    <3>1. \A i \in 1 .. Len(w) : w[i].type # "status"
      BY <1>2, <2>2
    <3> QED BY <1>5, <3>1 DEF StatusArrives
  <2> QED BY <2>1, <2>2 DEF StatusArrives
<1> QED BY <1>2, <1>4, <1>5 DEF long, msg

\* Sequences of one and of two messages, one after the other.
LEMMA OneByOne ==
  ASSUME NEW S, NEW w \in Seq(S), NEW a \in S, NEW b \in S
  PROVE  /\ w \o <<a>> = Append(w, a)
         /\ w \o <<a, b>> = Append(Append(w, a), b)
         /\ <<a>> = Append(<<>>, a) /\ <<a, b>> = Append(<<a>>, b)
OBVIOUS

\* To take a message is to be closer to what arrives.
LEMMA MessageTaken ==
  ASSUME NEW w \in Seq(Message), w # <<>>, NEW val, NEW is
  PROVE  /\ StatusArrives(w, val, is) =>
              StatusArrives(Tail(w), IF Head(w).type = "swarm" THEN val ELSE Head(w).connected, is)
         /\ FrameArrives(w, val, is) =>
              FrameArrives(Tail(w), IF Head(w).type = "swarm" THEN Head(w).state ELSE val, is)
<1> DEFINE msg == Head(w)
           rest == Tail(w)
<1>1. /\ msg = w[1] /\ Len(w) = Len(rest) + 1 /\ Len(rest) \in Nat
      /\ \A i \in 1 .. Len(rest) : rest[i] = w[i + 1]
      /\ msg \in Message
  OBVIOUS
<1>2. msg.type = "swarm" \/ msg.type = "status"
  BY <1>1 DEF Message
<1> HIDE DEF msg, rest
<1>3. \A i \in 1 .. Len(rest) : i + 1 \in 1 .. Len(w) /\ (\A j \in i + 2 .. Len(w) :
        j - 1 \in i + 1 .. Len(rest) /\ w[j] = rest[j - 1])
  BY <1>1
<1>4. \A j \in 2 .. Len(w) : j - 1 \in 1 .. Len(rest) /\ w[j] = rest[j - 1]
  BY <1>1
<1>5. \A i \in 1 .. Len(w) : i = 1 \/ i \in 2 .. Len(w)
  BY <1>1
<1>6. 1 \in 1 .. Len(w) /\ 1 + 1 = 2
  BY <1>1
<1>7. \A i \in 1 .. Len(rest) : (i + 1) + 1 = i + 2
  OBVIOUS
<1>8. ASSUME StatusArrives(w, val, is)
      PROVE  StatusArrives(rest, IF msg.type = "swarm" THEN val ELSE msg.connected, is)
  <2>1. ASSUME NEW i \in 1 .. Len(rest), rest[i].type = "status",
               \A j \in i + 1 .. Len(rest) : rest[j].type # "status"
        PROVE  rest[i].connected = is
    BY <1>1, <1>3, <1>7, <1>8, <2>1 DEF StatusArrives
  <2>2. ASSUME \A i \in 1 .. Len(rest) : rest[i].type # "status"
        PROVE  (IF msg.type = "swarm" THEN val ELSE msg.connected) = is
    <3>1. \A j \in 2 .. Len(w) : w[j].type # "status"
      BY <1>4, <2>2
    <3>2. CASE msg.type = "swarm"
      BY <1>1, <1>5, <1>8, <3>1, <3>2 DEF StatusArrives
    <3>3. CASE msg.type = "status"
      BY <1>1, <1>6, <1>8, <3>1, <3>3 DEF StatusArrives
    <3> QED BY <1>2, <3>2, <3>3
  <2> QED BY <2>1, <2>2 DEF StatusArrives
<1>9. ASSUME FrameArrives(w, val, is)
      PROVE  FrameArrives(rest, IF msg.type = "swarm" THEN msg.state ELSE val, is)
  <2>1. ASSUME NEW i \in 1 .. Len(rest), rest[i].type = "swarm",
               \A j \in i + 1 .. Len(rest) : rest[j].type # "swarm"
        PROVE  rest[i].state = is
    BY <1>1, <1>3, <1>7, <1>9, <2>1 DEF FrameArrives
  <2>2. ASSUME \A i \in 1 .. Len(rest) : rest[i].type # "swarm"
        PROVE  (IF msg.type = "swarm" THEN msg.state ELSE val) = is
    <3>1. \A j \in 2 .. Len(w) : w[j].type # "swarm"
      BY <1>4, <2>2
    <3>2. CASE msg.type = "status"
      BY <1>1, <1>5, <1>9, <3>1, <3>2 DEF FrameArrives
    <3>3. CASE msg.type = "swarm"
      BY <1>1, <1>6, <1>9, <3>1, <3>3 DEF FrameArrives
    <3> QED BY <1>2, <3>2, <3>3
  <2> QED BY <2>1, <2>2 DEF FrameArrives
<1> QED BY <1>8, <1>9 DEF msg, rest

\* The link of the bridge is lost, or tried again: the status FALSE is sent.
LEMMA ArrivesDown ==
  ASSUME IInv, Arrives, UNCHANGED <<socket, web>>, Broadcast(<<Status(FALSE)>>),
         bridge'.connected = FALSE, bridge'.lastFrame = bridge.lastFrame
  PROVE  Arrives'
<1> SUFFICES ASSUME Connected'
             PROVE  /\ StatusArrives(wire', web.connected, FALSE)
                    /\ bridge.lastFrame # None => FrameArrives(wire', web.frame, bridge.lastFrame)
  BY DEF Arrives
<1>1. Connected
  BY DEF Connected
<1>2. wire \in Seq(Message)
  BY DEF IInv, TypeOK
<1>3. wire' = Append(wire, Status(FALSE))
  <2>1. wire' = wire \o <<Status(FALSE)>> /\ Status(FALSE) \in Message
    BY <1>1 DEF Broadcast, Status, Message
  <2> HIDE DEF Status
  <2> QED BY <1>2, <2>1, OneByOne
<1> QED BY <1>1, <1>2, <1>3, StatusSent DEF Arrives

\* A frame is sent after the status that tells of it, if it is the first.
LEMMA ArrivesOnData == ASSUME IInv, Arrives, NEW s \in Call, OnData(s) PROVE Arrives'
<1> DEFINE frame == Head(call[s].pipe)
<1>1. /\ UNCHANGED <<socket, web>>
      /\ Broadcast(IF bridge.healthy THEN <<Swarm(frame)>>
                                     ELSE <<Status(TRUE), Swarm(frame)>>)
      /\ bridge' = [bridge EXCEPT !.healthy = TRUE, !.lastFrame = frame,
                                  !.connected = bridge.connected \/ ~bridge.healthy]
      /\ call[s].pipe # <<>>
  BY DEF OnData
<1>2. /\ bridge.connected \in BOOLEAN /\ bridge.healthy \in BOOLEAN
      /\ wire \in Seq(Message)
      /\ bridge'.lastFrame = frame
      /\ bridge'.connected = (bridge.connected \/ ~bridge.healthy)
  BY <1>1 DEF IInv, TypeOK
<1>3. frame \in Frame
  <2>1. call[s].pipe \in Seq(Frame)
    BY DEF IInv, TypeOK
  <2> QED BY <1>1, <2>1
<1> HIDE DEF frame
<1> SUFFICES ASSUME Connected'
             PROVE  /\ StatusArrives(wire', web.connected, bridge'.connected)
                    /\ FrameArrives(wire', web.frame, frame)
  BY <1>1, <1>2 DEF Arrives
<1>4. Connected
  BY <1>1 DEF Connected
<1>5. Swarm(frame) \in Message /\ Status(TRUE) \in Message
  BY <1>3 DEF Swarm, Status, Message
<1>6. CASE bridge.healthy
  <2>1. wire' = wire \o <<Swarm(frame)>>
    BY <1>1, <1>4, <1>6 DEF Broadcast
  <2>2. wire' = Append(wire, Swarm(frame))
    BY <1>2, <1>5, <2>1, OneByOne
  <2>3. bridge'.connected = bridge.connected
    BY <1>2, <1>6
  <2> QED BY <1>2, <1>3, <1>4, <2>2, <2>3, FrameSent DEF Arrives
<1>7. CASE ~bridge.healthy
  <2> DEFINE told == Append(wire, Status(TRUE))
  <2>1. wire' = wire \o <<Status(TRUE), Swarm(frame)>>
    BY <1>1, <1>4, <1>7 DEF Broadcast
  <2>2. wire' = Append(told, Swarm(frame))
    <3>1. ASSUME NEW a \in Message, NEW b \in Message
          PROVE  wire \o <<a, b>> = Append(Append(wire, a), b)
      BY <1>2
    <3> HIDE DEF Swarm, Status
    <3> QED BY <1>5, <2>1, <3>1
  <2>3. bridge'.connected = TRUE
    BY <1>2, <1>7
  <2>4. told \in Seq(Message) /\ StatusArrives(told, web.connected, TRUE)
    BY <1>2, StatusSent
  <2> HIDE DEF told
  <2> QED BY <1>3, <2>2, <2>3, <2>4, FrameSent
<1> QED BY <1>2, <1>6, <1>7

\* A client that connects is primed.
LEMMA ArrivesConnect == ASSUME IInv, Connect PROVE Arrives'
<1>1. /\ UNCHANGED <<bridge, web>>
      /\ wire' = IF bridge.lastFrame = None
                 THEN <<Status(bridge.connected)>>
                 ELSE <<Status(bridge.connected), Swarm(bridge.lastFrame)>>
  BY DEF Connect, feed
<1>2. bridge.connected \in BOOLEAN /\ bridge.lastFrame \in Frame \cup {None}
  BY DEF IInv, TypeOK
<1> DEFINE told == <<Status(bridge.connected)>>
<1>3. Status(bridge.connected) \in Message
  BY <1>2 DEF Status, Message
<1>4. told \in Seq(Message) /\ StatusArrives(told, web.connected, bridge.connected)
  <2>1. told = Append(<<>>, Status(bridge.connected)) /\ <<>> \in Seq(Message)
    BY <1>3, OneByOne
  <2> QED BY <1>2, <2>1, StatusSent
<1>5. CASE bridge.lastFrame = None
  BY <1>1, <1>4, <1>5 DEF Arrives
<1>6. CASE bridge.lastFrame # None
  <2>1. bridge.lastFrame \in Frame
    BY <1>2, <1>6
  <2>2. Swarm(bridge.lastFrame) \in Message
    BY <2>1 DEF Swarm, Message
  <2>3. wire' = Append(told, Swarm(bridge.lastFrame))
    <3>1. <<Status(bridge.connected), Swarm(bridge.lastFrame)>>
            = Append(told, Swarm(bridge.lastFrame))
      BY <1>3, <2>2, OneByOne
    <3> QED BY <1>1, <1>6, <3>1
  <2> HIDE DEF told
  <2>4. /\ StatusArrives(wire', web.connected, bridge.connected)
        /\ FrameArrives(wire', web.frame, bridge.lastFrame)
    BY <1>4, <2>1, <2>3, FrameSent
  <2> QED BY <1>1, <2>4 DEF Arrives
<1> QED BY <1>5, <1>6

\* A message is taken.
LEMMA ArrivesOnMessage == ASSUME IInv, Arrives, OnMessage PROVE Arrives'
<1> DEFINE msg == Head(wire)
<1>1. /\ UNCHANGED <<bridge, socket>> /\ wire # <<>> /\ wire' = Tail(wire)
      /\ web' = IF msg.type = "swarm"
                THEN [web EXCEPT !.frame = msg.state, !.rendered = FALSE]
                ELSE [web EXCEPT !.connected = msg.connected]
  BY DEF OnMessage, feed
<1>2. /\ wire \in Seq(Message)
      /\ web \in [frame : Frame \cup {None}, rendered : BOOLEAN, connected : BOOLEAN]
  BY DEF IInv, TypeOK
<1> HIDE DEF msg
<1>3. /\ web'.connected = IF msg.type = "swarm" THEN web.connected ELSE msg.connected
      /\ web'.frame = IF msg.type = "swarm" THEN msg.state ELSE web.frame
  BY <1>1, <1>2
<1>4. Connected' => Connected
  BY <1>1 DEF Connected
<1>5. Connected' => /\ StatusArrives(wire', web'.connected, bridge.connected)
                    /\ bridge.lastFrame # None =>
                         FrameArrives(wire', web'.frame, bridge.lastFrame)
  BY <1>1, <1>2, <1>3, <1>4, MessageTaken DEF Arrives, msg
<1> QED BY <1>1, <1>5 DEF Arrives

LEMMA ArrivesStep == ASSUME IInv, Arrives, [Next]_vars PROVE Arrives'
<1>1. CASE Server
  <2>1. UNCHANGED <<bridge, socket, wire, web>>
    BY <1>1 DEF Server, RestartServer, Advance, Submit, sockets
  <2> QED BY <2>1 DEF Arrives, Connected
<1>2. ASSUME NEW s \in Call, Stream(s) \/ EndCall(s) PROVE Arrives'
  <2>1. CASE SendFrame(s) \/ EndCall(s)
    <3>1. UNCHANGED <<bridge, socket, wire, web>>
      BY <2>1 DEF SendFrame, EndCall, sockets
    <3> QED BY <3>1 DEF Arrives, Connected
  <2>2. ASSUME NEW e \in {"error", "end"}, onDrop(s, e) PROVE Arrives'
    <3>1. /\ UNCHANGED <<socket, web>> /\ Broadcast(<<Status(FALSE)>>)
          /\ bridge'.connected = FALSE /\ bridge'.lastFrame = bridge.lastFrame
      BY <2>2 DEF onDrop, IInv, TypeOK
    <3> QED BY <3>1, ArrivesDown
  <2>3. CASE subscribe(s)
    <3>1. /\ UNCHANGED <<socket, web>> /\ Broadcast(<<Status(FALSE)>>)
          /\ bridge'.connected = FALSE /\ bridge'.lastFrame = bridge.lastFrame
      BY <2>3 DEF subscribe, IInv, TypeOK
    <3> QED BY <3>1, ArrivesDown
  <2> QED BY <1>2, <2>1, <2>2, <2>3, ArrivesOnData DEF Stream
<1>3. ASSUME NEW c \in Command, OnCommand(c) \/ doSend(c) PROVE Arrives'
  <2>1. UNCHANGED <<bridge, socket, wire, web>>
    BY <1>3 DEF OnCommand, doSend, sockets
  <2> QED BY <2>1 DEF Arrives, Connected
<1>4. CASE OnOpen \/ Render
  <2>1. /\ UNCHANGED <<bridge, wire>> /\ (Connected' => Connected)
        /\ web'.connected = web.connected /\ web'.frame = web.frame
    BY <1>4 DEF OnOpen, Render, feed, sockets, Connected, IInv, TypeOK
  <2> QED BY <2>1 DEF Arrives
<1>5. CASE OnClose \/ BreakSocket \/ RestartBridge
  <2>1. ~Connected'
    BY <1>5 DEF OnClose, BreakSocket, RestartBridge, Broken, Connected, IInv, TypeOK
  <2> QED BY <2>1 DEF Arrives
<1>6. CASE UNCHANGED vars
  BY <1>6 DEF vars, feed, sockets, Arrives, Connected
<1> QED BY <1>1, <1>2, <1>3, <1>4, <1>5, <1>6, ArrivesConnect, ArrivesOnMessage
        DEF Next, Browser

\* A browser that has read its socket empty shows what the bridge has, for
\* any number of calls, frames and failures: each status and each frame is
\* sent to it in the order in which the bridge took them over, and a browser
\* that connects is primed with the last ones.
THEOREM BrowserCorrect == Spec => []BrowserAgreesWithBridge
<1>1. Init => Arrives
  BY DEF Init, Arrives, Connected
<1>2. IInv /\ Arrives /\ [Next]_vars => Arrives'
  BY ArrivesStep
<1>3. IInv /\ Arrives => BrowserAgreesWithBridge
  BY DEF Arrives, StatusArrives, FrameArrives, BrowserAgreesWithBridge, Connected
<1> QED BY <1>1, <1>2, <1>3, Invariance, PTL DEF Spec

-----------------------------------------------------------------------------
(* The order of what is known of a command.                                *)

\* What g says of a command may be said after what f says of it.
After(f, g) == \A c \in DOMAIN f \cap DOMAIN g : f[c] = "APPLIED" => g[c] # "PENDING"

Follows(F, G) == \A f \in F, g \in G : After(f, g)

\* The frames of the browser, on the wire, of the bridge and in the calls: a
\* frame passes through them in the opposite order.
OnPage  == {web.frame} \ {None}
OnWire  == {wire[i].state : i \in {j \in 1 .. Len(wire) : wire[j].type = "swarm"}}
InCache == {bridge.lastFrame} \ {None}
InCalls == UNION {{call[s].pipe[i] : i \in 1 .. Len(call[s].pipe)} : s \in Call}

WireInOrder ==
  \A i, j \in 1 .. Len(wire) :
    i < j /\ wire[i].type = "swarm" /\ wire[j].type = "swarm"
      => After(wire[i].state, wire[j].state)

CallsInOrder ==
  \A s \in Call : \A i, j \in 1 .. Len(call[s].pipe) :
    i < j => After(call[s].pipe[i], call[s].pipe[j])

\* As long as there was one call at a time, whatever comes later to the log
\* says what is later.
InOrder ==
  ~twice => /\ Follows({log}, OnPage \cup OnWire \cup InCache \cup InCalls)
            /\ Follows(OnPage, OnWire \cup InCache \cup InCalls)
            /\ Follows(OnWire, InCache \cup InCalls)
            /\ Follows(InCache, InCalls)
            /\ WireInOrder
            /\ CallsInOrder

\* Nothing moves but what is on its way in the calls, of which some may be
\* taken away at the end.
LEMMA OrderOfFewer ==
  ASSUME InOrder, UNCHANGED <<bridge, wire, web, log>>, ~twice' => ~twice,
         \A s \in Call : \A i \in 1 .. Len(call'[s].pipe) :
           i \in 1 .. Len(call[s].pipe) /\ call'[s].pipe[i] = call[s].pipe[i]
  PROVE  InOrder'
<1> SUFFICES ASSUME ~twice' PROVE InOrder'
  BY DEF InOrder
<1>1. InCalls' \subseteq InCalls
  <2> SUFFICES ASSUME NEW f \in InCalls' PROVE f \in InCalls
    OBVIOUS
  <2>1. PICK s \in Call : \E i \in 1 .. Len(call'[s].pipe) : f = call'[s].pipe[i]
    BY DEF InCalls
  <2>2. PICK i \in 1 .. Len(call'[s].pipe) : f = call'[s].pipe[i]
    BY <2>1
  <2>3. i \in 1 .. Len(call[s].pipe) /\ f = call[s].pipe[i]
    BY <2>2
  <2>4. f \in {call[s].pipe[k] : k \in 1 .. Len(call[s].pipe)}
    BY <2>3
  <2> QED BY <2>4 DEF InCalls
<1>2. OnPage' = OnPage /\ OnWire' = OnWire /\ InCache' = InCache
  BY DEF OnPage, OnWire, InCache
<1>3. WireInOrder'
  BY DEF InOrder, WireInOrder, After
<1>4. CallsInOrder'
  <2>1. CallsInOrder
    BY DEF InOrder
  <2>2. ASSUME NEW s \in Call, NEW i \in 1 .. Len(call'[s].pipe),
               NEW j \in 1 .. Len(call'[s].pipe), i < j
        PROVE  After(call'[s].pipe[i], call'[s].pipe[j])
    BY <2>1, <2>2 DEF CallsInOrder
  <2> QED BY <2>2 DEF CallsInOrder, After
<1> QED BY <1>1, <1>2, <1>3, <1>4 DEF InOrder, Follows, After

\* What the frames say that are known somewhere.
LEMMA KnownFrames ==
  ASSUME IInv, NEW f \in {log} \cup OnPage \cup OnWire \cup InCache \cup InCalls
  PROVE  f \in Frame /\ Honest(f)
<1>1. CASE f \in {log}
  <2>1. Recent \in SUBSET Command /\ log \in [Recent -> Listed]
    BY CommandsAssumption DEF IInv, TypeOK, Recent, Command
  <2>2. log \in Frame
    BY <2>1, FrameIntro
  <2> QED BY <1>1, <2>2 DEF IInv, AllHonest, AuditTruthful, Honest, Done
<1>2. CASE f \in OnPage
  BY <1>2 DEF IInv, TypeOK, AllHonest, WebHonest, OnPage
<1>3. CASE f \in OnWire
  <2>1. PICK i \in 1 .. Len(wire) : wire[i].type = "swarm" /\ f = wire[i].state
    BY <1>3 DEF OnWire
  <2>2. wire[i] \in Message
    BY <2>1 DEF IInv, TypeOK
  <2> QED BY <2>1, <2>2 DEF Message, IInv, AllHonest, WireHonest
<1>4. CASE f \in InCache
  BY <1>4 DEF IInv, TypeOK, AllHonest, CacheHonest, InCache
<1>5. CASE f \in InCalls
  <2>1. PICK s \in Call : \E i \in 1 .. Len(call[s].pipe) : f = call[s].pipe[i]
    BY <1>5 DEF InCalls
  <2>2. call[s].pipe \in Seq(Frame)
    BY <2>1 DEF IInv, TypeOK
  <2> QED BY <2>1, <2>2 DEF IInv, AllHonest, CallsHonest
<1> QED BY <1>1, <1>2, <1>3, <1>4, <1>5

\* A new frame says what the server makes of the commands: of one that was
\* carried out never again that it is open.
LEMMA OrderSendFrame == ASSUME IInv, InOrder, NEW s \in Call, SendFrame(s) PROVE InOrder'
<1> DEFINE Known == {c \in Command : server[c] \in Listed}
           frame == [c \in Known |-> server[c]]
           pipe == call[s].pipe
           longer == Append(pipe, frame)
<1>1. /\ UNCHANGED <<bridge, wire, web, log, twice>>
      /\ call' = [call EXCEPT ![s].pipe = longer]
  BY DEF audit, SendFrame, sockets
<1>2. call \in [Call -> CallState] /\ pipe \in Seq(Frame)
  BY DEF IInv, TypeOK, CallState
<1>3. /\ call'[s].pipe = longer
      /\ \A t \in Call : t # s => call'[t] = call[t]
  BY <1>1, <1>2 DEF CallState
<1>4. \A f : Honest(f) => After(f, frame)
  BY DEF Honest, After, Done
<1>5. frame \in Frame
  <2>1. frame \in [Known -> Listed] /\ Known \in SUBSET Command
    OBVIOUS
  <2> QED BY <2>1, FrameIntro
<1> HIDE DEF Known, frame
<1>6. /\ Len(pipe) \in Nat /\ Len(longer) = Len(pipe) + 1 /\ longer[Len(pipe) + 1] = frame
      /\ \A i \in 1 .. Len(pipe) : longer[i] = pipe[i]
  BY <1>2, <1>5
<1> HIDE DEF longer
<1>7. \A i \in 1 .. Len(longer) : i \in 1 .. Len(pipe) \/ (i = Len(pipe) + 1 /\ longer[i] = frame)
  BY <1>6
<1> SUFFICES ASSUME ~twice' PROVE InOrder'
  BY DEF InOrder
<1>8. InCalls' \subseteq InCalls \cup {frame}
  <2>1. ASSUME NEW t \in Call, NEW i \in 1 .. Len(call'[t].pipe)
        PROVE  call'[t].pipe[i] \in InCalls \cup {frame}
    <3>1. CASE t = s
      BY <1>3, <1>6, <1>7, <3>1 DEF InCalls
    <3>2. CASE t # s
      BY <1>3, <3>2 DEF InCalls
    <3> QED BY <3>1, <3>2
  <2>2. ASSUME NEW f \in InCalls' PROVE f \in InCalls \cup {frame}
    <3>1. PICK t \in Call : f \in {call'[t].pipe[i] : i \in 1 .. Len(call'[t].pipe)}
      BY <2>2 DEF InCalls
    <3>2. PICK i \in 1 .. Len(call'[t].pipe) : f = call'[t].pipe[i]
      BY <3>1
    <3> QED BY <2>1, <3>2
  <2> QED BY <2>2
<1>9. OnPage' = OnPage /\ OnWire' = OnWire /\ InCache' = InCache
  BY <1>1 DEF OnPage, OnWire, InCache
<1>10. \A f \in {log} \cup OnPage \cup OnWire \cup InCache \cup InCalls : After(f, frame)
  BY <1>4, KnownFrames
<1>11. WireInOrder'
  BY <1>1 DEF InOrder, WireInOrder, After
<1>12. CallsInOrder'
  <2>1. ASSUME NEW t \in Call, NEW i \in 1 .. Len(call'[t].pipe),
               NEW j \in 1 .. Len(call'[t].pipe), i < j
        PROVE  After(call'[t].pipe[i], call'[t].pipe[j])
    <3>1. CASE t # s
      BY <1>1, <1>3, <2>1, <3>1 DEF InOrder, CallsInOrder
    <3>2. CASE t = s
      <4>1. i \in 1 .. Len(pipe) /\ longer[i] = pipe[i]
        BY <1>3, <1>6, <1>7, <2>1, <3>2
      <4>2. CASE j \in 1 .. Len(pipe)
        BY <1>1, <1>3, <1>6, <2>1, <3>2, <4>1, <4>2 DEF InOrder, CallsInOrder
      <4>3. CASE longer[j] = frame
        <5>1. pipe[i] \in InCalls
          BY <4>1 DEF InCalls
        <5> QED BY <1>3, <1>10, <3>2, <4>1, <4>3, <5>1
      <4> QED BY <1>3, <1>7, <3>2, <4>2, <4>3
    <3> QED BY <3>1, <3>2
  <2> QED BY <2>1 DEF CallsInOrder, After
<1> QED BY <1>1, <1>8, <1>9, <1>10, <1>11, <1>12 DEF InOrder, Follows, After

\* A broadcast puts frames behind those on the wire.
LEMMA OrderOfBroadcast ==
  ASSUME wire \in Seq(Message), WireInOrder, NEW new \in Seq(Message), Broadcast(new),
         NEW frame, After(frame, frame), Follows(OnWire, {frame}),
         \A j \in 1 .. Len(new) : new[j].type = "swarm" => new[j].state = frame
  PROVE  OnWire' \subseteq OnWire \cup {frame} /\ WireInOrder'
<1>1. CASE ~Connected
  <2>1. wire' = wire
    BY <1>1 DEF Broadcast
  <2> QED BY <2>1 DEF OnWire, WireInOrder, After
<1>2. CASE Connected
  <2> DEFINE both == wire \o new
  <2>1. wire' = both
    BY <1>2 DEF Broadcast
  <2>2. /\ Len(both) = Len(wire) + Len(new)
        /\ \A i \in 1 .. Len(wire) : both[i] = wire[i]
        /\ \A i \in 1 .. Len(both) : i > Len(wire) => /\ i - Len(wire) \in 1 .. Len(new)
                                                      /\ both[i] = new[i - Len(wire)]
        /\ Len(wire) \in Nat /\ Len(new) \in Nat
    OBVIOUS
  <2> HIDE DEF both
  <2>3. \A i \in 1 .. Len(both) : \/ i \in 1 .. Len(wire)
                                  \/ i > Len(wire) /\ (both[i].type = "swarm" => both[i].state = frame)
    BY <2>2
  <2>4. OnWire' \subseteq OnWire \cup {frame}
    BY <2>1, <2>2, <2>3 DEF OnWire
  <2>5. ASSUME NEW i \in 1 .. Len(both), NEW j \in 1 .. Len(both), i < j,
               both[i].type = "swarm", both[j].type = "swarm"
        PROVE  After(both[i].state, both[j].state)
    <3>1. CASE j \in 1 .. Len(wire)
      <4>1. i \in 1 .. Len(wire)
        BY <2>2, <2>5, <3>1
      <4>2. both[i] = wire[i] /\ both[j] = wire[j]
        BY <2>2, <3>1, <4>1
      <4>3. After(wire[i].state, wire[j].state)
        BY <2>5, <3>1, <4>1, <4>2 DEF WireInOrder
      <4> QED BY <4>2, <4>3
    <3>2. CASE both[j].state = frame
      <4>1. CASE i \in 1 .. Len(wire)
        <5>1. both[i].state \in OnWire
          BY <2>2, <2>5, <4>1 DEF OnWire
        <5> QED BY <3>2, <5>1 DEF Follows
      <4>2. CASE both[i].state = frame
        BY <3>2, <4>2
      <4> QED BY <2>3, <2>5, <4>1, <4>2
    <3> QED BY <2>3, <2>5, <3>1, <3>2
  <2>6. WireInOrder'
    BY <2>1, <2>5 DEF WireInOrder, After
  <2> QED BY <2>4, <2>6
<1> QED BY <1>1, <1>2

\* The first frame of the one call is known before the others.
LEMMA OrderOnData == ASSUME IInv, InOrder, NEW s \in Call, OnData(s) PROVE InOrder'
<1> DEFINE pipe == call[s].pipe
           frame == Head(pipe)
           rest == Tail(pipe)
<1>1. /\ UNCHANGED <<web, log, twice>>
      /\ pipe # <<>>
      /\ Broadcast(IF bridge.healthy THEN <<Swarm(frame)>>
                                     ELSE <<Status(TRUE), Swarm(frame)>>)
      /\ bridge' = [bridge EXCEPT !.healthy = TRUE, !.lastFrame = frame,
                                  !.connected = bridge.connected \/ ~bridge.healthy]
      /\ call' = [call EXCEPT ![s].pipe = rest]
  BY DEF audit, OnData, commands
<1>2. /\ call \in [Call -> CallState] /\ pipe \in Seq(Frame) /\ wire \in Seq(Message)
      /\ bridge'.lastFrame = frame
  BY <1>1 DEF IInv, TypeOK, CallState
<1>3. /\ frame \in Frame /\ frame = pipe[1] /\ 1 \in 1 .. Len(pipe)
      /\ \A i \in 1 .. Len(rest) : i + 1 \in 1 .. Len(pipe) /\ rest[i] = pipe[i + 1]
  BY <1>1, <1>2, TailElements
<1>4. /\ call'[s].pipe = rest
      /\ \A t \in Call : t # s => call'[t] = call[t]
  BY <1>1, <1>2 DEF CallState
<1> HIDE DEF pipe, frame, rest
<1> SUFFICES ASSUME ~twice' PROVE InOrder'
  BY DEF InOrder
<1>5. \A t \in Call : t # s => Len(call[t].pipe) = 0
  <2>1. call[s].at # "none"
    BY <1>1 DEF IInv, Subscribed, CallShape, pipe
  <2> QED BY <1>1, <2>1 DEF IInv, Subscribed, OneCallOrTimer, CallShape
<1>6. frame \in InCalls
  BY <1>3 DEF InCalls, pipe
<1>7. After(frame, frame)
  BY DEF After
<1>8. InCalls' \subseteq InCalls /\ Follows({frame}, InCalls')
  <2>1. ASSUME NEW t \in Call, NEW i \in 1 .. Len(call'[t].pipe)
        PROVE  call'[t].pipe[i] \in InCalls /\ After(frame, call'[t].pipe[i])
    <3>1. t = s
      BY <1>4, <1>5, <2>1
    <3>2. i + 1 \in 1 .. Len(pipe) /\ call'[t].pipe[i] = pipe[i + 1] /\ 1 < i + 1
      BY <1>3, <1>4, <2>1, <3>1
    <3>3. pipe[i + 1] \in InCalls
      BY <3>2 DEF InCalls, pipe
    <3>4. After(pipe[1], pipe[i + 1])
      BY <1>1, <1>3, <3>2 DEF pipe, InOrder, CallsInOrder
    <3> QED BY <1>3, <3>2, <3>3, <3>4
  <2>2. ASSUME NEW f \in InCalls' PROVE f \in InCalls /\ After(frame, f)
    <3>1. PICK t \in Call : f \in {call'[t].pipe[i] : i \in 1 .. Len(call'[t].pipe)}
      BY <2>2 DEF InCalls
    <3>2. PICK i \in 1 .. Len(call'[t].pipe) : f = call'[t].pipe[i]
      BY <3>1
    <3> QED BY <2>1, <3>2
  <2> QED BY <2>2 DEF Follows
<1>9. Follows(OnWire, {frame}) /\ WireInOrder
  BY <1>1, <1>6 DEF InOrder, Follows
<1>10. OnWire' \subseteq OnWire \cup {frame} /\ WireInOrder'
  <2>1. /\ <<Swarm(frame)>> \in Seq(Message)
        /\ <<Status(TRUE), Swarm(frame)>> \in Seq(Message)
    BY <1>3 DEF Swarm, Status, Message
  <2>2. /\ \A j \in 1 .. Len(<<Swarm(frame)>>) : <<Swarm(frame)>>[j].state = frame
        /\ \A j \in 1 .. Len(<<Status(TRUE), Swarm(frame)>>) :
             <<Status(TRUE), Swarm(frame)>>[j].type = "swarm"
               => <<Status(TRUE), Swarm(frame)>>[j].state = frame
    BY DEF Swarm, Status
  <2>3. CASE bridge.healthy
    <3>1. Broadcast(<<Swarm(frame)>>)
      BY <1>1, <2>3
    <3> QED BY <1>2, <1>7, <1>9, <2>1, <2>2, <3>1, OrderOfBroadcast
  <2>4. CASE ~bridge.healthy
    <3>1. Broadcast(<<Status(TRUE), Swarm(frame)>>)
      BY <1>1, <2>4
    <3> QED BY <1>2, <1>7, <1>9, <2>1, <2>2, <3>1, OrderOfBroadcast
  <2> QED BY <2>3, <2>4
<1>11. OnPage' = OnPage /\ InCache' \subseteq {frame}
  BY <1>1, <1>2 DEF OnPage, InCache
<1>12. CallsInOrder'
  <2>1. ASSUME NEW t \in Call, NEW i \in 1 .. Len(call'[t].pipe),
               NEW j \in 1 .. Len(call'[t].pipe), i < j
        PROVE  After(call'[t].pipe[i], call'[t].pipe[j])
    <3>1. t = s
      BY <1>4, <1>5, <2>1
    <3>2. /\ i + 1 \in 1 .. Len(pipe) /\ call'[t].pipe[i] = pipe[i + 1]
          /\ j + 1 \in 1 .. Len(pipe) /\ call'[t].pipe[j] = pipe[j + 1]
          /\ i + 1 < j + 1
      BY <1>3, <1>4, <2>1, <3>1
    <3> QED BY <1>1, <3>2 DEF pipe, InOrder, CallsInOrder
  <2> QED BY <2>1 DEF CallsInOrder, After
<1> QED BY <1>1, <1>6, <1>7, <1>8, <1>10, <1>11, <1>12 DEF InOrder, Follows, After

\* A status says nothing of a command.
LEMMA OrderOfStatus ==
  ASSUME IInv, InOrder, Broadcast(<<Status(FALSE)>>), UNCHANGED <<web, log, twice>>,
         bridge'.lastFrame = bridge.lastFrame, NEW s \in Call, Len(call'[s].pipe) = 0,
         \A t \in Call : t # s => call'[t] = call[t]
  PROVE  InOrder'
<1> SUFFICES ASSUME ~twice' PROVE InOrder'
  BY DEF InOrder
<1> DEFINE new == <<Status(FALSE)>>
<1>1. new \in Seq(Message) /\ \A j \in 1 .. Len(new) : new[j].type # "swarm"
  BY StatusMessage
<1>2. wire \in Seq(Message)
  BY DEF IInv, TypeOK
<1> HIDE DEF new
<1>3. OnWire' \subseteq OnWire /\ WireInOrder'
  <2> DEFINE nothing == [c \in {} |-> "PENDING"]
  <2>1. After(nothing, nothing) /\ Follows(OnWire, {nothing})
    BY DEF After, Follows
  <2>2. WireInOrder /\ Broadcast(new)
    BY DEF InOrder, new
  <2>3. WireInOrder'
    <3> HIDE DEF nothing
    <3> QED BY <1>1, <1>2, <2>1, <2>2, OrderOfBroadcast
  <2>4. OnWire' \subseteq OnWire
    <3>1. /\ wire' \in Seq(Message)
          /\ \A i \in 1 .. Len(wire') : \/ \E j \in 1 .. Len(wire) : wire'[i] = wire[j]
                                        \/ \E j \in 1 .. Len(new) : wire'[i] = new[j]
      BY <1>1, <1>2, <2>2, BroadcastCorrect
    <3> QED BY <1>1, <3>1 DEF OnWire
  <2> QED BY <2>3, <2>4
<1>4. InCalls' \subseteq InCalls
  BY DEF InCalls
<1>5. OnPage' = OnPage /\ InCache' = InCache
  BY DEF OnPage, InCache
<1>6. CallsInOrder'
  <2>1. ASSUME NEW t \in Call, NEW i \in 1 .. Len(call'[t].pipe),
               NEW j \in 1 .. Len(call'[t].pipe), i < j
        PROVE  After(call'[t].pipe[i], call'[t].pipe[j])
    <3>1. call'[t] = call[t]
      BY <2>1
    <3> QED BY <2>1, <3>1 DEF InOrder, CallsInOrder
  <2> QED BY <2>1 DEF CallsInOrder, After
<1> QED BY <1>3, <1>4, <1>5, <1>6 DEF InOrder, Follows, After

\* A bridge that is started again knows nothing, and takes up a new call.
LEMMA OrderRestartBridge == ASSUME IInv, InOrder, RestartBridge PROVE InOrder'
<1>1. /\ UNCHANGED <<wire, web, log, twice>>
      /\ bridge'.lastFrame = None
      /\ \A s \in Call : Len(call'[s].pipe) = 0
  BY DEF audit, RestartBridge, NewCall, NoCall
<1>2. InCache' = {} /\ InCalls' = {}
  BY <1>1 DEF InCache, InCalls
<1>3. OnPage' = OnPage /\ OnWire' = OnWire
  BY <1>1 DEF OnPage, OnWire
<1>4. ~twice' => WireInOrder'
  BY <1>1 DEF InOrder, WireInOrder, After
<1>5. CallsInOrder'
  BY <1>1 DEF CallsInOrder
<1> QED BY <1>1, <1>2, <1>3, <1>4, <1>5 DEF InOrder, Follows, After

\* The last frame is sent again: nothing that is known is taken back by it.
LEMMA OrderConnect == ASSUME IInv, InOrder, Connect PROVE InOrder'
<1>1. /\ UNCHANGED <<call, bridge, web, log, twice>>
      /\ wire' = IF bridge.lastFrame = None
                 THEN <<Status(bridge.connected)>>
                 ELSE <<Status(bridge.connected), Swarm(bridge.lastFrame)>>
  BY DEF audit, Connect, feed
<1>2. \A i \in 1 .. Len(wire') :
        wire'[i].type = "swarm" => i = 2 /\ wire'[i].state = bridge.lastFrame
                                         /\ bridge.lastFrame # None
  BY <1>1 DEF Status, Swarm
<1>3. OnWire' \subseteq InCache
  BY <1>2 DEF OnWire, InCache
<1>4. WireInOrder'
  BY <1>2 DEF WireInOrder
<1>5. OnPage' = OnPage /\ InCache' = InCache /\ InCalls' = InCalls
  BY <1>1 DEF OnPage, InCache, InCalls
<1>6. ~twice' => CallsInOrder'
  BY <1>1 DEF InOrder, CallsInOrder, After
<1>7. \A f, g \in InCache : After(f, g)
  BY DEF InCache, After
<1> QED BY <1>1, <1>3, <1>4, <1>5, <1>6, <1>7 DEF InOrder, Follows, After

\* The first frame on the wire is known before the others.
LEMMA OrderOnMessage == ASSUME IInv, InOrder, OnMessage PROVE InOrder'
<1> DEFINE msg == Head(wire)
           rest == Tail(wire)
<1>1. /\ UNCHANGED <<call, bridge, log, twice>> /\ wire # <<>> /\ wire' = rest
      /\ web' = IF msg.type = "swarm"
                THEN [web EXCEPT !.frame = msg.state, !.rendered = FALSE]
                ELSE [web EXCEPT !.connected = msg.connected]
  BY DEF audit, OnMessage, feed
<1>2. /\ wire \in Seq(Message)
      /\ web \in [frame : Frame \cup {None}, rendered : BOOLEAN, connected : BOOLEAN]
  BY DEF IInv, TypeOK
<1>3. /\ msg = wire[1] /\ 1 \in 1 .. Len(wire)
      /\ \A i \in 1 .. Len(rest) : i + 1 \in 1 .. Len(wire) /\ rest[i] = wire[i + 1]
  BY <1>1, <1>2, TailElements
<1> HIDE DEF msg, rest
<1>4. web'.frame = IF msg.type = "swarm" THEN msg.state ELSE web.frame
  BY <1>1, <1>2
<1> SUFFICES ASSUME ~twice' PROVE InOrder'
  BY DEF InOrder
<1>5. OnWire' \subseteq OnWire /\ InCache' = InCache /\ InCalls' = InCalls
  <2>1. OnWire' \subseteq OnWire
    BY <1>1, <1>3 DEF OnWire
  <2> QED BY <1>1, <2>1 DEF InCache, InCalls
<1>6. WireInOrder'
  <2>1. ASSUME NEW i \in 1 .. Len(rest), NEW j \in 1 .. Len(rest), i < j,
               rest[i].type = "swarm", rest[j].type = "swarm"
        PROVE  After(rest[i].state, rest[j].state)
    <3>1. i + 1 < j + 1
      BY <2>1
    <3> QED BY <1>1, <1>3, <2>1, <3>1 DEF InOrder, WireInOrder
  <2> QED BY <1>1, <2>1 DEF WireInOrder, After
<1>7. CallsInOrder'
  BY <1>1 DEF InOrder, CallsInOrder, After
<1>8. CASE msg.type = "swarm"
  <2>1. OnPage' \subseteq {msg.state}
    BY <1>4, <1>8 DEF OnPage
  <2>2. msg.state \in OnWire
    BY <1>3, <1>8 DEF OnWire
  <2>3. \A g \in OnWire' : After(msg.state, g)
    <3>1. ASSUME NEW i \in 1 .. Len(rest), rest[i].type = "swarm"
          PROVE  After(msg.state, rest[i].state)
      <4>1. 1 < i + 1
        OBVIOUS
      <4> QED BY <1>1, <1>3, <1>8, <3>1, <4>1 DEF InOrder, WireInOrder
    <3> QED BY <1>1, <3>1 DEF OnWire
  <2> QED BY <1>1, <1>5, <1>6, <1>7, <2>1, <2>2, <2>3 DEF InOrder, Follows, After
<1>9. CASE msg.type # "swarm"
  <2>1. OnPage' = OnPage
    BY <1>4, <1>9 DEF OnPage
  <2> QED BY <1>1, <1>5, <1>6, <1>7, <2>1 DEF InOrder, Follows, After
<1> QED BY <1>8, <1>9

LEMMA OrderOnClose == ASSUME IInv, InOrder, OnClose PROVE InOrder'
<1>1. /\ UNCHANGED <<call, bridge, log, twice>> /\ wire' = <<>>
      /\ web'.frame = web.frame
  BY DEF audit, OnClose, feed, IInv, TypeOK
<1>2. OnWire' = {} /\ WireInOrder'
  BY <1>1 DEF OnWire, WireInOrder
<1>3. OnPage' = OnPage /\ InCache' = InCache /\ InCalls' = InCalls
  BY <1>1 DEF OnPage, InCache, InCalls
<1>4. ~twice' => CallsInOrder'
  BY <1>1 DEF InOrder, CallsInOrder, After
<1> QED BY <1>1, <1>2, <1>3, <1>4 DEF InOrder, Follows, After

\* What the log takes over, and what it keeps, is known before the rest.
LEMMA OrderOfLog ==
  ASSUME InOrder, UNCHANGED <<call, bridge, wire, twice>>, web'.frame = web.frame,
         \A c \in DOMAIN log' :
           \/ log'[c] # "APPLIED"
           \/ c \in DOMAIN log /\ log'[c] = log[c]
           \/ web.frame # None /\ c \in DOMAIN web.frame /\ log'[c] = web.frame[c],
         ~twice /\ web.frame # None => After(log', web.frame)
  PROVE  InOrder'
<1>1. OnPage' = OnPage /\ OnWire' = OnWire /\ InCache' = InCache /\ InCalls' = InCalls
  BY DEF OnPage, OnWire, InCache, InCalls
<1>2. ~twice' => WireInOrder' /\ CallsInOrder'
  BY DEF InOrder, WireInOrder, CallsInOrder, After
<1>3. ~twice => \A g \in OnPage \cup OnWire \cup InCache \cup InCalls : After(log', g)
  BY DEF InOrder, Follows, After, OnPage
<1> QED BY <1>1, <1>2, <1>3 DEF InOrder, Follows, After

LEMMA OrderRender == ASSUME IInv, InOrder, Render PROVE InOrder'
<1>1. /\ UNCHANGED <<call, bridge, wire, twice>>
      /\ web'.frame = web.frame /\ web.frame # None
      /\ log' = [c \in DOMAIN log |-> Merged(c, web.frame)]
  BY DEF Render, feed, sockets, IInv, TypeOK, AllHonest, WebHonest
<1> QED BY <1>1, OrderOfLog DEF Merged, After

LEMMA OrderDoSend == ASSUME IInv, InOrder, NEW c \in Command, doSend(c) PROVE InOrder'
<1>1. /\ UNCHANGED <<call, bridge, wire, web, twice>>
      /\ log' = [d \in {e \in DOMAIN log \cup {c} : e > c - MAX_ENTRIES} |->
                   IF d = c THEN "PENDING" ELSE log[d]]
  BY DEF doSend, record, feed, sockets
<1>2. ~twice /\ web.frame # None => After(log, web.frame)
  BY DEF InOrder, Follows, OnPage
<1> QED BY <1>1, <1>2, OrderOfLog DEF After

LEMMA OrderStep == ASSUME IInv, InOrder, [Next]_vars PROVE InOrder'
<1>1. ASSUME NEW c \in Command, Advance(c) \/ Submit(c) PROVE InOrder'
  <2>1. UNCHANGED <<call, bridge, wire, web, log, twice>>
    BY <1>1 DEF audit, Advance, Submit, sockets
  <2> QED BY <2>1, OrderOfFewer
<1>2. CASE RestartServer
  <2>1. PICK next \in [Call -> UNION {Ended(call[s]) \cup {call[s]} : s \in Call}] :
          /\ \A s \in Call : IF call[s].at = "open" THEN next[s] \in Ended(call[s])
                                                    ELSE next[s] = call[s]
          /\ call' = next
          /\ twice' = (twice \/ \E s \in Call : next[s].due = {"error", "end"})
    BY <1>2 DEF RestartServer
  <2>2. UNCHANGED <<bridge, wire, web, log>> /\ call \in [Call -> CallState]
    BY <1>2 DEF audit, RestartServer, sockets, IInv, TypeOK, CallState
  <2>3. \A s \in Call : \A i \in 1 .. Len(call'[s].pipe) :
          i \in 1 .. Len(call[s].pipe) /\ call'[s].pipe[i] = call[s].pipe[i]
    BY <2>1, <2>2, EndedCorrect
  <2>4. ~twice' => ~twice
    BY <2>1
  <2> QED BY <2>2, <2>3, <2>4, OrderOfFewer
<1>3. ASSUME NEW s \in Call, EndCall(s) PROVE InOrder'
  <2>1. PICK k \in Ended(call[s]) : /\ call' = [call EXCEPT ![s] = k]
                                    /\ twice' = (twice \/ k.due = {"error", "end"})
    BY <1>3 DEF EndCall
  <2>2. UNCHANGED <<bridge, wire, web, log>> /\ call \in [Call -> CallState]
    BY <1>3 DEF audit, EndCall, sockets, IInv, TypeOK, CallState
  <2>3. /\ call'[s] = k /\ \A t \in Call : t # s => call'[t] = call[t]
    BY <2>1, <2>2
  <2>4. \A t \in Call : \A i \in 1 .. Len(call'[t].pipe) :
          i \in 1 .. Len(call[t].pipe) /\ call'[t].pipe[i] = call[t].pipe[i]
    <3>1. ASSUME NEW t \in Call, NEW i \in 1 .. Len(call'[t].pipe)
          PROVE  i \in 1 .. Len(call[t].pipe) /\ call'[t].pipe[i] = call[t].pipe[i]
      BY <2>2, <2>3, EndedCorrect
    <3> QED BY <3>1
  <2>5. ~twice' => ~twice
    BY <2>1
  <2> QED BY <2>2, <2>4, <2>5, OrderOfFewer
<1>4. ASSUME NEW s \in Call, NEW e \in {"error", "end"}, onDrop(s, e) PROVE InOrder'
  <2>1. /\ UNCHANGED <<web, log, twice>> /\ Broadcast(<<Status(FALSE)>>)
        /\ bridge'.lastFrame = bridge.lastFrame
        /\ call[s].pipe = <<>> /\ call \in [Call -> CallState]
        /\ \/ call' = [call EXCEPT ![s] = NoCall]
           \/ call' = [call EXCEPT ![s] = [call[s] EXCEPT !.due = call[s].due \ {e}]]
    BY <1>4 DEF audit, onDrop, Event, IInv, TypeOK, CallState
  <2>2. Len(NoCall.pipe) = 0
    BY DEF NoCall
  <2>3. Len([call[s] EXCEPT !.due = call[s].due \ {e}].pipe) = 0
    BY <2>1 DEF CallState
  <2>4. Len(call'[s].pipe) = 0 /\ \A t \in Call : t # s => call'[t] = call[t]
    BY <2>1, <2>2, <2>3
  <2> QED BY <2>1, <2>4, OrderOfStatus
<1>5. ASSUME NEW s \in Call, subscribe(s) PROVE InOrder'
  <2>1. /\ UNCHANGED <<web, log, twice>> /\ Broadcast(<<Status(FALSE)>>)
        /\ bridge'.lastFrame = bridge.lastFrame
        /\ call' = [call EXCEPT ![s] = NewCall] /\ call \in [Call -> CallState]
    BY <1>5 DEF audit, subscribe, IInv, TypeOK, CallState
  <2>2. Len(call'[s].pipe) = 0 /\ \A t \in Call : t # s => call'[t] = call[t]
    BY <2>1 DEF NewCall
  <2> QED BY <2>1, <2>2, OrderOfStatus
<1>6. ASSUME NEW c \in Command, OnCommand(c) PROVE InOrder'
  <2>1. UNCHANGED <<call, bridge, wire, web, log, twice>>
    BY <1>6 DEF audit, OnCommand, sockets, feed
  <2> QED BY <2>1, OrderOfFewer
<1>7. CASE OnOpen \/ BreakSocket \/ UNCHANGED vars
  <2>1. UNCHANGED <<call, bridge, wire, web, log, twice>>
    BY <1>7 DEF audit, OnOpen, BreakSocket, vars, feed, sockets
  <2> QED BY <2>1, OrderOfFewer
<1> QED BY <1>1, <1>2, <1>3, <1>4, <1>5, <1>6, <1>7, OrderSendFrame, OrderOnData,
           OrderRestartBridge, OrderConnect, OrderOnMessage, OrderOnClose, OrderRender,
           OrderDoSend
        DEF Next, Server, Stream, Browser

\* The log keeps an outcome for as long as it keeps the command's entry, and
\* that as long as it has room.  Of a command that it says was carried out no
\* frame on its way says that it is open: frames reach the browser in the order
\* in which the one call brought them, a bridge that is started again takes up
\* a call whose frames are newer, and the frame with which the bridge primes a
\* browser is the last one.
THEOREM LogKeepsOutcome == Spec => AuditKeepsOutcome
<1>1. Init => InOrder
  <2> SUFFICES ASSUME Init PROVE InOrder
    OBVIOUS
  <2>1. /\ \A s \in Call : Len(call[s].pipe) = 0
        /\ bridge.lastFrame = None /\ web.frame = None /\ Len(wire) = 0
    BY DEF Init, NewCall, NoCall
  <2>2. OnPage = {} /\ OnWire = {} /\ InCache = {} /\ InCalls = {}
    BY <2>1 DEF OnPage, OnWire, InCache, InCalls
  <2>3. WireInOrder /\ CallsInOrder
    BY <2>1 DEF WireInOrder, CallsInOrder
  <2> QED BY <2>2, <2>3 DEF InOrder, Follows
<1>2. IInv /\ InOrder /\ [Next]_vars => InOrder'
  BY OrderStep
<1>3. ASSUME IInv, InOrder, [Next]_vars
      PROVE  ~twice' => \A c \in DOMAIN log :
                          log[c] = "APPLIED" /\ c > issued' - MAX_ENTRIES =>
                            c \in DOMAIN log' /\ log'[c] = "APPLIED"
  <2>1. CASE Render
    <3>1. /\ log' = [c \in DOMAIN log |-> Merged(c, web.frame)]
          /\ web.frame \in Frame /\ web.frame # None /\ twice' = twice
      BY <1>3, <2>1 DEF Render, IInv, TypeOK, AllHonest, WebHonest
    <3>2. web.frame \in [DOMAIN web.frame -> Listed]
      BY <3>1, FrameElim
    <3>3. ~twice => After(log, web.frame)
      BY <1>3, <3>1 DEF InOrder, Follows, OnPage
    <3> QED BY <3>1, <3>2, <3>3 DEF Merged, After, Listed
  <2>2. ASSUME NEW c \in Command, doSend(c)
        PROVE  \A d \in DOMAIN log : d > issued' - MAX_ENTRIES =>
                 d \in DOMAIN log' /\ log'[d] = IF d = c THEN "PENDING" ELSE log[d]
    BY <2>2 DEF doSend, record
  <2>4. ASSUME NEW c \in Command, doSend(c) PROVE c \notin DOMAIN log
    BY <1>3, <2>4 DEF doSend, IInv, TypeOK, Recent
  <2>3. \/ UNCHANGED log
        \/ Render
        \/ \E c \in Command : doSend(c)
    BY <1>3 DEF audit, Next, Server, Stream, Browser, vars, Advance, Submit, RestartServer,
                SendFrame, OnData, subscribe, onDrop, EndCall, OnCommand, RestartBridge,
                Connect, OnOpen, OnMessage, OnClose, BreakSocket
  <2> QED BY <2>1, <2>2, <2>3, <2>4
<1> QED BY <1>1, <1>2, <1>3, Invariance, PTL DEF Spec, AuditKeepsOutcome
=============================================================================
