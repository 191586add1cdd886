--------------------------- MODULE RobotLinkProofs ---------------------------
(***************************************************************************)
(* Proofs about the robot side of the server, for any number of streams,   *)
(* robots and commands.                                                    *)
(*                                                                         *)
(* Two parts are independent but for the types.  The registry part needs   *)
(* to know that only the reactor of a running call has a read to complete  *)
(* (ReadsAreLive), for otherwise a reactor could register itself after its *)
(* OnDone.  The pump part is inductive as it is stated: order in the queue *)
(* rests on the buffer being the queue's front while a write is going on.  *)
(***************************************************************************)
EXTENDS RobotLink, TLAPS

ReadsAreLive == \A s \in Stream : read[s] # "none" => life[s] = "active"

RegistryInv == NoDanglingReactor /\ ReadsAreLive

PumpInv == OneWriteFromTheFront /\ HandedOverInOrder /\ PumpNeverStalls

IInv == TypeOK /\ RegistryInv /\ PumpInv

-----------------------------------------------------------------------------
(* Runs of consecutive ranks: what a queue holds.                          *)

Run(q, w) == \A i \in 1 .. Len(q) : q[i] = w + i

\* A run grows at its end ...
LEMMA AppendRun ==
  ASSUME NEW w \in Nat, NEW q \in Seq(Nat), NEW n \in Nat,
         w + Len(q) = n, Run(q, w)
  PROVE  /\ Append(q, n + 1) \in Seq(Nat)
         /\ w + Len(Append(q, n + 1)) = n + 1
         /\ Run(Append(q, n + 1), w)
<1> DEFINE longer == Append(q, n + 1)
<1>1. /\ longer \in Seq(Nat) /\ Len(longer) = Len(q) + 1
      /\ \A i \in 1 .. Len(q) : longer[i] = q[i]
      /\ longer[Len(q) + 1] = w + Len(q) + 1
  OBVIOUS
<1> HIDE DEF longer
<1>2. ASSUME NEW i \in 1 .. Len(longer) PROVE longer[i] = w + i
  <2>1. i \in 1 .. Len(q) \/ i = Len(q) + 1
    BY <1>1
  <2>2. CASE i \in 1 .. Len(q)
    BY <1>1, <2>2 DEF Run
  <2>3. CASE i = Len(q) + 1
    BY <1>1, <2>3
  <2> QED BY <2>1, <2>2, <2>3
<1>3. w + Len(longer) = n + 1
  BY <1>1
<1> QED BY <1>1, <1>2, <1>3 DEF Run, longer

\* ... and shrinks at its front, the front being the next rank.
LEMMA TailRun ==
  ASSUME NEW w \in Nat, NEW q \in Seq(Nat), Run(q, w), q # <<>>
  PROVE  /\ Head(q) = w + 1
         /\ Tail(q) \in Seq(Nat)
         /\ w + 1 + Len(Tail(q)) = w + Len(q)
         /\ Run(Tail(q), w + 1)
<1>1. /\ Len(q) \in Nat \ {0} /\ Head(q) = q[1]
      /\ Tail(q) \in Seq(Nat) /\ Len(Tail(q)) = Len(q) - 1
      /\ \A i \in 1 .. Len(Tail(q)) : Tail(q)[i] = q[i + 1]
  OBVIOUS
<1>2. ASSUME NEW i \in 1 .. Len(Tail(q)) PROVE Tail(q)[i] = w + 1 + i
  <2>1. i + 1 \in 1 .. Len(q) /\ i \in Nat
    BY <1>1
  <2>2. q[i + 1] = w + (i + 1)
    BY <2>1 DEF Run
  <2> QED BY <1>1, <2>1, <2>2
<1>3. Head(q) = w + 1
  BY <1>1 DEF Run
<1> QED BY <1>1, <1>2, <1>3 DEF Run

\* HandedOverInOrder, said with runs.
LEMMA InOrderAsRuns ==
  HandedOverInOrder <=>
    \A s \in Stream : /\ Len(wire[s]) + Len(queue[s]) = accepted[s]
                      /\ \A i \in 1 .. Len(wire[s]) : wire[s][i] = i
                      /\ Run(queue[s], Len(wire[s]))
BY DEF HandedOverInOrder, Run

-----------------------------------------------------------------------------
(* The pump.                                                               *)

\* What pumpLocked leaves when its caller kept its promises: the counter
\* agrees with the flag, and a write that goes on reads the queue's front.
LEMMA PumpLockedCorrect ==
  ASSUME TypeOK, NEW s \in Stream, NEW q \in Seq(Nat), NEW busy \in BOOLEAN,
         NEW outstanding \in Nat, pumpLocked(s, q, busy, outstanding),
         outstanding = (IF busy THEN 1 ELSE 0),
         busy => q # <<>> /\ outgoing[s] = Head(q)
  PROVE  /\ queue' = [queue EXCEPT ![s] = q]
         /\ queue' \in [Stream -> Seq(Nat)]
         /\ outgoing' \in [Stream -> Nat]
         /\ writing' \in [Stream -> BOOLEAN]
         /\ writes' \in [Stream -> Nat]
         /\ \A t \in Stream \ {s} : /\ outgoing'[t] = outgoing[t]
                                    /\ writing'[t] = writing[t]
                                    /\ writes'[t] = writes[t]
         /\ writes'[s] = (IF writing'[s] THEN 1 ELSE 0)
         /\ writing'[s] <=> q # <<>>
         /\ writing'[s] => outgoing'[s] = Head(q)
<1>1. CASE busy \/ q = <<>>
  BY <1>1 DEF pumpLocked, TypeOK
<1>2. CASE ~(busy \/ q = <<>>)
  <2>1. Head(q) \in Nat
    BY <1>2
  <2>2. /\ queue' = [queue EXCEPT ![s] = q]
        /\ writing' = [writing EXCEPT ![s] = TRUE]
        /\ writes' = [writes EXCEPT ![s] = outstanding + 1]
        /\ outgoing' = [outgoing EXCEPT ![s] = Head(q)]
    BY <1>2 DEF pumpLocked
  <2>3. writing' \in [Stream -> BOOLEAN]
    BY <2>2 DEF TypeOK
  <2>4. /\ queue' \in [Stream -> Seq(Nat)]
        /\ outgoing' \in [Stream -> Nat]
        /\ writes' \in [Stream -> Nat]
    BY <2>1, <2>2 DEF TypeOK
  <2>5. /\ \A t \in Stream \ {s} : /\ outgoing'[t] = outgoing[t]
                                   /\ writing'[t] = writing[t]
                                   /\ writes'[t] = writes[t]
        /\ writing'[s] = TRUE
        /\ writes'[s] = outstanding + 1
        /\ outgoing'[s] = Head(q)
    BY <2>2 DEF TypeOK
  <2> QED BY <1>2, <2>2, <2>3, <2>4, <2>5
<1> QED BY <1>1, <1>2

LEMMA SendCommandPump ==
  ASSUME IInv, NEW r \in RobotId, SendCommand(r)
  PROVE  TypeOK' /\ PumpInv'
<1> DEFINE s == registry[r]
           n == accepted[s] + 1
           q == Append(queue[s], n)
<1>1. /\ s \in Stream /\ n \in Nat /\ q \in Seq(Nat) /\ q # <<>>
      /\ accepted' = [accepted EXCEPT ![s] = n]
      /\ pumpLocked(s, q, writing[s], writes[s])
      /\ UNCHANGED <<registry, life, reads, finishes, broken, wire>>
  <2>1. s \in Stream
    BY DEF IInv, TypeOK, SendCommand
  <2>2. n \in Nat /\ queue[s] \in Seq(Nat)
    BY <2>1 DEF IInv, TypeOK
  <2>3. q \in Seq(Nat) /\ q # <<>>
    BY <2>2
  <2> QED BY <2>1, <2>2, <2>3 DEF SendCommand
<1>2. writing[s] => outgoing[s] = Head(q)
  <2> SUFFICES ASSUME writing[s] PROVE outgoing[s] = Head(q)
    OBVIOUS
  <2>1. queue[s] # <<>> /\ queue[s] \in Seq(Nat) /\ outgoing[s] = Head(queue[s])
    BY <1>1 DEF IInv, PumpInv, OneWriteFromTheFront, TypeOK
  <2> QED BY <1>1, <2>1
<1>3. writes[s] = (IF writing[s] THEN 1 ELSE 0) /\ writes[s] \in Nat /\ writing[s] \in BOOLEAN
  BY <1>1 DEF IInv, PumpInv, OneWriteFromTheFront, TypeOK
<1>4. TypeOK
  BY DEF IInv
<1> HIDE DEF s, n, q
<1>5. /\ queue' = [queue EXCEPT ![s] = q]
      /\ queue' \in [Stream -> Seq(Nat)]
      /\ outgoing' \in [Stream -> Nat]
      /\ writing' \in [Stream -> BOOLEAN]
      /\ writes' \in [Stream -> Nat]
      /\ \A t \in Stream \ {s} : /\ outgoing'[t] = outgoing[t]
                                 /\ writing'[t] = writing[t]
                                 /\ writes'[t] = writes[t]
      /\ writes'[s] = (IF writing'[s] THEN 1 ELSE 0)
      /\ writing'[s] <=> q # <<>>
      /\ writing'[s] => outgoing'[s] = Head(q)
  BY <1>1, <1>2, <1>3, <1>4, PumpLockedCorrect
<1>6. TypeOK'
  BY <1>1, <1>4, <1>5 DEF TypeOK, reads
<1>7. OneWriteFromTheFront'
  BY <1>1, <1>4, <1>5 DEF IInv, PumpInv, OneWriteFromTheFront, TypeOK
<1>8. PumpNeverStalls'
  BY <1>1, <1>4, <1>5 DEF IInv, PumpInv, PumpNeverStalls, TypeOK
<1>9. HandedOverInOrder'
  <2>1. ASSUME NEW t \in Stream, t # s
        PROVE  queue'[t] = queue[t] /\ accepted'[t] = accepted[t] /\ wire'[t] = wire[t]
    BY <1>1, <1>4, <1>5, <2>1 DEF TypeOK
  <2>2. /\ queue'[s] = q /\ accepted'[s] = n /\ wire'[s] = wire[s]
        /\ Len(wire[s]) \in Nat /\ Len(queue[s]) \in Nat /\ accepted[s] \in Nat
        /\ queue[s] \in Seq(Nat)
    BY <1>1, <1>4, <1>5 DEF n, TypeOK
  <2>3. /\ Len(wire[s]) + Len(queue[s]) = accepted[s]
        /\ \A i \in 1 .. Len(wire[s]) : wire[s][i] = i
        /\ Run(queue[s], Len(wire[s]))
    BY <1>1, InOrderAsRuns DEF IInv, PumpInv
  <2>6. Len(wire[s]) + Len(q) = n /\ Run(q, Len(wire[s]))
    BY <2>2, <2>3, AppendRun DEF q, n
  <2>7. /\ Len(wire'[s]) + Len(queue'[s]) = accepted'[s]
        /\ \A i \in 1 .. Len(wire'[s]) : wire'[s][i] = i
        /\ \A i \in 1 .. Len(queue'[s]) : queue'[s][i] = Len(wire'[s]) + i
    <3>1. \A i \in 1 .. Len(q) : q[i] = Len(wire[s]) + i
      BY <2>6 DEF Run
    <3> HIDE DEF HandedOverInOrder
    <3> QED BY <2>2, <2>3, <2>6, <3>1
  <2> QED BY <2>1, <2>7 DEF IInv, PumpInv, HandedOverInOrder
<1> QED BY <1>6, <1>7, <1>8, <1>9 DEF PumpInv

LEMMA WriteDonePump ==
  ASSUME IInv, NEW s \in Stream, OnWriteDoneOk(s)
  PROVE  TypeOK' /\ PumpInv'
<1> DEFINE q == Tail(queue[s])
           sent == Append(wire[s], outgoing[s])
           left == writes[s] - 1
<1>1. TypeOK /\ writing[s] /\ writes[s] = 1 /\ queue[s] # <<>>
      /\ outgoing[s] = Head(queue[s])
  BY DEF IInv, PumpInv, OneWriteFromTheFront, OnWriteDoneOk
<1>2. /\ queue[s] \in Seq(Nat) /\ wire[s] \in Seq(Nat) /\ outgoing[s] \in Nat
      /\ Len(wire[s]) \in Nat /\ Len(queue[s]) \in Nat
  BY <1>1 DEF TypeOK
<1>3. /\ Len(wire[s]) + Len(queue[s]) = accepted[s]
      /\ \A i \in 1 .. Len(wire[s]) : wire[s][i] = i
      /\ Run(queue[s], Len(wire[s]))
  BY InOrderAsRuns DEF IInv, PumpInv
<1>4. /\ q \in Seq(Nat)
      /\ outgoing[s] = Len(wire[s]) + 1
      /\ Len(wire[s]) + 1 + Len(q) = accepted[s]
      /\ Run(q, Len(wire[s]) + 1)
  BY <1>1, <1>2, <1>3, TailRun
<1>5. /\ sent \in Seq(Nat)
      /\ Len(sent) = Len(wire[s]) + 1
      /\ \A i \in 1 .. Len(sent) : sent[i] = i
  <2>1. /\ sent \in Seq(Nat) /\ Len(sent) = Len(wire[s]) + 1
        /\ \A i \in 1 .. Len(wire[s]) : sent[i] = wire[s][i]
        /\ sent[Len(wire[s]) + 1] = outgoing[s]
    BY <1>2
  <2> HIDE DEF sent
  <2>2. ASSUME NEW i \in 1 .. Len(sent) PROVE sent[i] = i
    <3>1. i \in 1 .. Len(wire[s]) \/ i = Len(wire[s]) + 1
      BY <1>2, <2>1
    <3> QED BY <1>3, <1>4, <2>1, <3>1
  <2> QED BY <2>1, <2>2
<1>6. left = 0 /\ pumpLocked(s, q, FALSE, left)
  <2>1. left = 0
    BY <1>1
  <2>2. pumpLocked(s, q, FALSE, left)
    BY Zenon DEF OnWriteDoneOk
  <2> QED BY <2>1, <2>2
<1>7. /\ wire' = [wire EXCEPT ![s] = sent]
      /\ UNCHANGED <<registry, life, reads, finishes, broken, accepted>>
  BY DEF OnWriteDoneOk
<1> HIDE DEF q, sent, left
<1>8. /\ queue' = [queue EXCEPT ![s] = q]
      /\ queue' \in [Stream -> Seq(Nat)]
      /\ outgoing' \in [Stream -> Nat]
      /\ writing' \in [Stream -> BOOLEAN]
      /\ writes' \in [Stream -> Nat]
      /\ \A t \in Stream \ {s} : /\ outgoing'[t] = outgoing[t]
                                 /\ writing'[t] = writing[t]
                                 /\ writes'[t] = writes[t]
      /\ writes'[s] = (IF writing'[s] THEN 1 ELSE 0)
      /\ writing'[s] <=> q # <<>>
      /\ writing'[s] => outgoing'[s] = Head(q)
  BY <1>1, <1>4, <1>6, PumpLockedCorrect
<1>9. TypeOK'
  BY <1>1, <1>5, <1>7, <1>8 DEF TypeOK, reads
<1>10. OneWriteFromTheFront'
  BY <1>1, <1>8 DEF IInv, PumpInv, OneWriteFromTheFront, TypeOK
<1>11. PumpNeverStalls'
  BY <1>1, <1>7, <1>8 DEF IInv, PumpInv, PumpNeverStalls, TypeOK
<1>12. HandedOverInOrder'
  <2>1. ASSUME NEW t \in Stream, t # s
        PROVE  queue'[t] = queue[t] /\ accepted'[t] = accepted[t] /\ wire'[t] = wire[t]
    BY <1>1, <1>7, <1>8, <2>1 DEF TypeOK
  <2>2. queue'[s] = q /\ accepted'[s] = accepted[s] /\ wire'[s] = sent
    BY <1>1, <1>7, <1>8 DEF TypeOK
  <2>3. /\ Len(wire'[s]) + Len(queue'[s]) = accepted'[s]
        /\ \A i \in 1 .. Len(wire'[s]) : wire'[s][i] = i
        /\ \A i \in 1 .. Len(queue'[s]) : queue'[s][i] = Len(wire'[s]) + i
    <3>1. \A i \in 1 .. Len(q) : q[i] = Len(sent) + i
      BY <1>4, <1>5 DEF Run
    <3>2. Len(sent) + Len(q) = accepted[s]
      BY <1>4, <1>5
    <3> QED BY <1>5, <2>2, <3>1, <3>2
  <2> QED BY <2>1, <2>3 DEF IInv, PumpInv, HandedOverInOrder
<1> QED BY <1>9, <1>10, <1>11, <1>12 DEF PumpInv

LEMMA WriteFailedPump ==
  ASSUME IInv, NEW s \in Stream, OnWriteDoneFailed(s)
  PROVE  TypeOK' /\ PumpInv'
<1>1. TypeOK /\ writing[s] /\ writes[s] = 1
  BY DEF IInv, PumpInv, OneWriteFromTheFront, OnWriteDoneFailed
<1>2. /\ writing' = [writing EXCEPT ![s] = FALSE]
      /\ writes' = [writes EXCEPT ![s] = 0]
      /\ finishes' = [finishes EXCEPT ![s] = finishes[s] + 1]
      /\ UNCHANGED <<registry, life, reads, queue, outgoing, broken, wire, accepted>>
  BY <1>1 DEF OnWriteDoneFailed
<1>3. writing' \in [Stream -> BOOLEAN] /\ writes' \in [Stream -> Nat]
      /\ finishes' \in [Stream -> Nat] /\ finishes'[s] > 0
      /\ ~writing'[s] /\ writes'[s] = 0
      /\ \A t \in Stream \ {s} : /\ writing'[t] = writing[t]
                                 /\ writes'[t] = writes[t]
                                 /\ finishes'[t] = finishes[t]
  BY <1>1, <1>2 DEF TypeOK
<1>4. TypeOK'
  BY <1>1, <1>2, <1>3 DEF TypeOK, reads
<1>5. OneWriteFromTheFront' /\ PumpNeverStalls'
  BY <1>1, <1>2, <1>3
     DEF IInv, PumpInv, OneWriteFromTheFront, PumpNeverStalls, TypeOK
<1>6. HandedOverInOrder'
  BY <1>2 DEF IInv, PumpInv, HandedOverInOrder
<1> QED BY <1>4, <1>5, <1>6 DEF PumpInv

\* A step that leaves the pump alone and never takes back a Finish.
LEMMA PumpUntouched ==
  ASSUME IInv, UNCHANGED <<pump, accepted>>, finishes' \in [Stream -> Nat],
         \A s \in Stream : finishes'[s] = 0 => finishes[s] = 0
  PROVE  PumpInv'
BY DEF IInv, PumpInv, pump, OneWriteFromTheFront, HandedOverInOrder, PumpNeverStalls

-----------------------------------------------------------------------------
(* The registry.                                                           *)

\* A step that leaves registry, memory and registrations alone, and starts
\* a read only for a call that runs.
LEMMA RegistryUntouched ==
  ASSUME IInv, UNCHANGED <<registry, life, robot_id, registered>>,
         \A s \in Stream : read'[s] # "none" => read[s] # "none"
  PROVE  RegistryInv'
BY DEF IInv, RegistryInv, NoDanglingReactor, ReadsAreLive

LEMMA LinkStep == ASSUME IInv, NEW s \in Stream, Link(s) PROVE IInv'
<1>1. TypeOK /\ UNCHANGED <<registry, robot_id, registered, pump, finishes, broken, accepted>>
      /\ life' = [life EXCEPT ![s] = "active"]
      /\ read' = [read EXCEPT ![s] = "outstanding"]
  BY DEF IInv, Link
<1>2. TypeOK'
  BY <1>1 DEF TypeOK, pump
<1>3. PumpInv'
  BY <1>1, PumpUntouched DEF TypeOK
<1>4. RegistryInv'
  BY <1>1 DEF IInv, RegistryInv, NoDanglingReactor, ReadsAreLive, TypeOK
<1> QED BY <1>2, <1>3, <1>4 DEF IInv

LEMMA FirstReadStep ==
  ASSUME IInv, NEW s \in Stream, NEW r \in RobotId, OnReadDoneFirst(s, r)
  PROVE  IInv'
<1>1. /\ TypeOK /\ ~registered[s] /\ life[s] = "active"
      /\ UNCHANGED <<life, pump, finishes, broken, accepted>>
      /\ robot_id' = [robot_id EXCEPT ![s] = r]
      /\ registry' = [registry EXCEPT ![r] = IF registry[r] = NoStream THEN s ELSE registry[r]]
      /\ registered' = [registered EXCEPT ![s] = TRUE]
      /\ read' = [read EXCEPT ![s] = "callback"]
  BY DEF IInv, RegistryInv, ReadsAreLive, OnReadDoneFirst
<1>2. TypeOK'
  BY <1>1 DEF TypeOK, pump
<1>3. PumpInv'
  BY <1>1, PumpUntouched DEF TypeOK
<1>4. NoDanglingReactor'
  \* No entry led to s before, since s was not registered.
  <2>1. \A x \in RobotId : registry[x] # s
    BY <1>1, NoStreamAssumption DEF IInv, RegistryInv, NoDanglingReactor
  <2>2. ASSUME NEW x \in RobotId, registry'[x] # NoStream
        PROVE  /\ life'[registry'[x]] = "active"
               /\ registered'[registry'[x]]
               /\ robot_id'[registry'[x]] = x
    <3>1. CASE registry'[x] = s
      <4>1. x = r
        BY <1>1, <2>1, <3>1 DEF TypeOK
      <4> QED BY <1>1, <3>1, <4>1 DEF TypeOK
    <3>2. CASE registry'[x] # s
      <4>1. registry'[x] = registry[x] /\ registry[x] \in Stream
        BY <1>1, <2>2, <3>2 DEF TypeOK
      <4>2. /\ life[registry[x]] = "active" /\ registered[registry[x]]
            /\ robot_id[registry[x]] = x
        BY <2>2, <4>1 DEF IInv, RegistryInv, NoDanglingReactor
      <4> QED BY <1>1, <3>2, <4>1, <4>2 DEF TypeOK
    <3> QED BY <3>1, <3>2
  <2> QED BY <2>2 DEF NoDanglingReactor
<1>5. ReadsAreLive'
  BY <1>1 DEF IInv, RegistryInv, ReadsAreLive, TypeOK
<1> QED BY <1>2, <1>3, <1>4, <1>5 DEF IInv, RegistryInv

LEMMA ReadStep ==
  ASSUME IInv, NEW s \in Stream, OnReadDoneNext(s) \/ StartNextRead(s)
  PROVE  IInv'
<1>1. PICK v \in {"callback", "outstanding"} :
        /\ TypeOK /\ read[s] # "none"
        /\ read' = [read EXCEPT ![s] = v]
        /\ UNCHANGED <<registry, life, robot_id, registered, pump, finishes, broken, accepted>>
  BY DEF IInv, OnReadDoneNext, StartNextRead
<1>2. TypeOK'
  BY <1>1 DEF TypeOK, pump
<1>3. PumpInv'
  BY <1>1, PumpUntouched DEF TypeOK
<1>4. RegistryInv'
  BY <1>1, RegistryUntouched DEF TypeOK
<1> QED BY <1>2, <1>3, <1>4 DEF IInv

LEMMA ReadFailedStep ==
  ASSUME IInv, NEW s \in Stream, OnReadDoneFailed(s) PROVE IInv'
<1>1. /\ TypeOK
      /\ read' = [read EXCEPT ![s] = "none"]
      /\ finishes' = [finishes EXCEPT ![s] = finishes[s] + 1]
      /\ UNCHANGED <<registry, life, robot_id, registered, pump, broken, accepted>>
  BY DEF IInv, OnReadDoneFailed
<1>2. TypeOK'
  BY <1>1 DEF TypeOK, pump
<1>3. PumpInv'
  BY <1>1, PumpUntouched DEF TypeOK
<1>4. RegistryInv'
  BY <1>1, RegistryUntouched DEF TypeOK
<1> QED BY <1>2, <1>3, <1>4 DEF IInv

\* The entry that OnDone erases may belong to another reactor, but every
\* entry that led to this one is under its own robot_id and goes with it.
LEMMA UnregisterStep ==
  ASSUME IInv, NEW s \in Stream, OnDoneUnregister(s) PROVE IInv'
<1>1. /\ TypeOK /\ read[s] = "none"
      /\ registry' = [registry EXCEPT ![robot_id[s]] = NoStream]
      /\ life' = [life EXCEPT ![s] = "done"]
      /\ UNCHANGED <<robot_id, registered, read, pump, finishes, broken, accepted>>
  BY DEF IInv, OnDoneUnregister, reads
<1>2. TypeOK'
  BY <1>1 DEF TypeOK, pump
<1>3. PumpInv'
  BY <1>1, PumpUntouched DEF TypeOK
<1>4. NoDanglingReactor'
  <2>1. ASSUME NEW x \in RobotId, registry'[x] # NoStream
        PROVE  /\ life'[registry'[x]] = "active"
               /\ registered'[registry'[x]]
               /\ robot_id'[registry'[x]] = x
    <3>1. x # robot_id[s] /\ registry'[x] = registry[x] /\ registry[x] \in Stream
      BY <1>1, <2>1 DEF TypeOK
    <3>2. /\ life[registry[x]] = "active" /\ registered[registry[x]]
          /\ robot_id[registry[x]] = x
      BY <2>1, <3>1 DEF IInv, RegistryInv, NoDanglingReactor
    <3> QED BY <1>1, <3>1, <3>2 DEF TypeOK
  <2> QED BY <2>1 DEF NoDanglingReactor
<1>5. ReadsAreLive'
  BY <1>1 DEF IInv, RegistryInv, ReadsAreLive, TypeOK
<1> QED BY <1>2, <1>3, <1>4, <1>5 DEF IInv, RegistryInv

LEMMA DeleteStep ==
  ASSUME IInv, NEW s \in Stream, OnDoneDelete(s) PROVE IInv'
<1>1. /\ TypeOK /\ life[s] = "done"
      /\ life' = [life EXCEPT ![s] = "deleted"]
      /\ UNCHANGED <<registry, robot_id, registered, read, pump, finishes, broken, accepted>>
  BY DEF IInv, OnDoneDelete, reads
<1>2. TypeOK'
  BY <1>1 DEF TypeOK, pump
<1>3. PumpInv'
  BY <1>1, PumpUntouched DEF TypeOK
<1>4. RegistryInv'
  BY <1>1 DEF IInv, RegistryInv, NoDanglingReactor, ReadsAreLive, TypeOK
<1> QED BY <1>2, <1>3, <1>4 DEF IInv

LEMMA HangupStep == ASSUME IInv, NEW s \in Stream, Hangup(s) PROVE IInv'
<1>1. /\ TypeOK
      /\ broken' = [broken EXCEPT ![s] = TRUE]
      /\ UNCHANGED <<registry, life, robot_id, registered, read, pump, finishes, accepted>>
  BY DEF IInv, Hangup, reads
<1>2. TypeOK'
  BY <1>1 DEF TypeOK, pump
<1>3. PumpInv'
  BY <1>1, PumpUntouched DEF TypeOK
<1>4. RegistryInv'
  BY <1>1, RegistryUntouched DEF TypeOK
<1> QED BY <1>2, <1>3, <1>4 DEF IInv

\* The steps that work on the pump leave the registry part alone.
LEMMA PumpStep ==
  ASSUME IInv,
         \/ \E r \in RobotId : SendCommand(r)
         \/ \E s \in Stream : OnWriteDoneOk(s) \/ OnWriteDoneFailed(s)
  PROVE  IInv'
<1>1. TypeOK' /\ PumpInv'
  BY SendCommandPump, WriteDonePump, WriteFailedPump
<1>2. UNCHANGED <<registry, life, robot_id, registered, read>>
  BY DEF SendCommand, OnWriteDoneOk, OnWriteDoneFailed, reads
<1>3. RegistryInv'
  BY <1>2, RegistryUntouched
<1> QED BY <1>1, <1>3 DEF IInv

LEMMA StutterStep == ASSUME IInv, UNCHANGED vars PROVE IInv'
<1>1. TypeOK' /\ UNCHANGED <<pump, accepted>> /\ finishes' \in [Stream -> Nat]
      /\ \A s \in Stream : finishes'[s] = 0 => finishes[s] = 0
  BY DEF IInv, TypeOK, vars, pump, reads
<1>2. UNCHANGED <<registry, life, robot_id, registered, read>>
  BY DEF vars, reads
<1> QED BY <1>1, <1>2, PumpUntouched, RegistryUntouched DEF IInv

-----------------------------------------------------------------------------
(* The theorems.                                                           *)

LEMMA InitIInv == Init => IInv
<1> SUFFICES ASSUME Init PROVE IInv
  OBVIOUS
<1>1. TypeOK
  BY EmptyIdAssumption DEF Init, TypeOK
<1>2. RegistryInv
  BY DEF Init, RegistryInv, NoDanglingReactor, ReadsAreLive
<1>3. PumpInv
  BY DEF Init, PumpInv, OneWriteFromTheFront, HandedOverInOrder, PumpNeverStalls
<1> QED BY <1>1, <1>2, <1>3 DEF IInv

LEMMA NextIInv == ASSUME IInv, [Next]_vars PROVE IInv'
<1>1. CASE \E r \in RobotId : SendCommandUnlinked(r)
  BY <1>1, StutterStep DEF SendCommandUnlinked
<1>2. CASE \/ \E r \in RobotId : SendCommand(r)
           \/ \E s \in Stream : OnWriteDoneOk(s) \/ OnWriteDoneFailed(s)
  BY <1>2, PumpStep
<1>3. CASE \E s \in Stream, r \in RobotId : OnReadDoneFirst(s, r)
  BY <1>3, FirstReadStep
<1>4. CASE \E s \in Stream : \/ Link(s) \/ OnReadDoneNext(s) \/ StartNextRead(s)
                             \/ OnReadDoneFailed(s) \/ Hangup(s)
  BY <1>4, LinkStep, ReadStep, ReadFailedStep, HangupStep
<1>5. CASE \E s \in Stream : OnDoneUnregister(s) \/ OnDoneDelete(s)
  BY <1>5, UnregisterStep, DeleteStep
<1>6. CASE UNCHANGED vars
  BY <1>6, StutterStep
<1> QED
  BY <1>1, <1>2, <1>3, <1>4, <1>5, <1>6 DEF Next, Environment, Library

LEMMA Invariance == Spec => []IInv
<1>1. IInv /\ [Next]_vars => IInv'
  BY NextIInv
<1> QED BY <1>1, InitIInv, PTL DEF Spec

\* Members, counters and queues keep their types.
THEOREM TypeCorrect == Spec => []TypeOK
BY Invariance, PTL DEF IInv

\* SendCommand never reaches a reactor whose OnDone ran: an entry of the
\* registry is alive and registered under its own id, whatever reconnects.
THEOREM NoUseAfterDelete == Spec => []NoDanglingReactor
BY Invariance, PTL DEF IInv, RegistryInv

\* At most one write is outstanding on a stream and its buffer is the front
\* of the queue until it completes.
THEOREM SingleWriter == Spec => []OneWriteFromTheFront
BY Invariance, PTL DEF IInv, PumpInv

\* A stream carries exactly the commands its reactor took, in their order,
\* and those not yet written are queued.
THEOREM InOrderHandover == Spec => []HandedOverInOrder
BY Invariance, PTL DEF IInv, PumpInv

\* A reactor whose call is not finished has a write going on whenever its
\* queue holds a command.
THEOREM NoLostWakeup == Spec => []PumpNeverStalls
BY Invariance, PTL DEF IInv, PumpInv
=============================================================================
