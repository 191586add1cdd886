-------------------------- MODULE SwarmPictureProofs --------------------------
(***************************************************************************)
(* Proofs about the picture, for any number of robots, processes,          *)
(* subscribers and any bands of the watchdog.                              *)
(*                                                                         *)
(* The invariant has three parts that meet in the frame.  Stored relates   *)
(* the tracks to what was delivered; Heard and Noted the watchdog's stamps *)
(* to the clock that the callbacks read, the latter for robots with one    *)
(* process; Current says that tracks only grow newer, so that what a frame *)
(* was begun with, read or shown is never newer than they are.             *)
(***************************************************************************)
EXTENDS SwarmPicture, TLAPS

Map(S)    == UNION {[R -> S] : R \in SUBSET Robot}
Health    == [status : {"LIVE", "STALE", "LOST"}, age : Int]
OptTime   == Nat \cup {NoTime}
Callback  == [at : {"idle", "update", "clock", "record"}, stamp : OptTime]
FrameType == [at : {"idle", "cells", "rows", "done"}, now : OptTime, cells : SUBSET Robot,
              robots : Map(Telemetry), health : Map(Health), floor : Map(Telemetry),
              noted : Map(OptTime), processes : Map(SUBSET Nat)]

StoreTypes ==
  /\ started \in [Robot -> Nat]
  /\ delivered \in [Stream -> Nat]
  /\ callback \in [Stream -> Callback]
  /\ tracks \in Map(Telemetry)
  /\ last_rx \in Map(Nat)
  /\ clock \in Nat
  /\ heard \in [Robot -> OptTime]
  /\ noted \in [Robot -> OptTime]

FrameTypes ==
  /\ frame \in [Subscriber -> FrameType]
  /\ shown \in [Subscriber -> Map(Telemetry)]

\* A track came on a stream, a callback that runs has a message, and one that
\* updates has a track.
Delivered ==
  /\ \A r \in DOMAIN tracks : <<r, tracks[r].start>> \in Stream
  /\ \A s \in Stream :
       /\ callback[s].at # "idle" => delivered[s] > 0
       /\ callback[s].at = "update" => s[1] \in DOMAIN tracks

Stored == FreshestKept /\ Delivered

\* A stamp, stored or on its way to the watchdog, is one the robot's callbacks
\* have read, and they have read nothing later than now.
Heard ==
  /\ \A s \in Stream : callback[s].at = "record" =>
       callback[s].stamp # NoTime /\ heard[s[1]] # NoTime /\ callback[s].stamp <= heard[s[1]]
  /\ \A r \in DOMAIN last_rx : heard[r] # NoTime /\ last_rx[r] <= heard[r]
  /\ \A r \in Robot : heard[r] # NoTime => heard[r] <= clock

\* Of a robot with one process at most, the stamp of the watchdog is the latest
\* that was recorded, and the one on its way is later still.
Noted ==
  /\ \A s \in Stream : callback[s].at # "idle" => s[2] <= started[s[1]]
  /\ \A r \in Robot : noted[r] # NoTime => noted[r] <= clock
  /\ \A r \in Robot : started[r] <= 1 /\ noted[r] # NoTime =>
       r \in DOMAIN last_rx /\ noted[r] <= last_rx[r]
  /\ \A s \in Stream : started[s[1]] <= 1 /\ callback[s].at = "record" /\ noted[s[1]] # NoTime =>
       noted[s[1]] <= callback[s].stamp

Begun(c) == frame[c].at \in {"cells", "rows"}

\* No older than: every robot of m is in n, with the same seq or a greater.
NoNewer(m, n) == \A r \in DOMAIN m : r \in DOMAIN n /\ m[r].seq <= n[r].seq

\* What a subscriber was shown, then what there was when its frame was begun,
\* then what it reads, then what there is.
CurrentAt(c) ==
  /\ NoNewer(shown[c], tracks)
  /\ Begun(c) => /\ frame[c].now # NoTime
                 /\ NoNewer(frame[c].floor, tracks)
                 /\ NoNewer(shown[c], frame[c].floor)
  /\ frame[c].at = "rows" =>
       /\ DOMAIN frame[c].floor \subseteq frame[c].cells
       /\ frame[c].cells \subseteq DOMAIN tracks
       /\ DOMAIN frame[c].robots \subseteq frame[c].cells
       /\ NoNewer(frame[c].robots, tracks)
       /\ \A r \in DOMAIN frame[c].floor \cap DOMAIN frame[c].robots :
            frame[c].robots[r].seq >= frame[c].floor[r].seq
       /\ DOMAIN frame[c].health \subseteq DOMAIN frame[c].robots
  /\ frame[c].at # "rows" => DOMAIN frame[c].robots = {} /\ DOMAIN frame[c].health = {}

Current == \A c \in Subscriber : CurrentAt(c)

\* The verdicts of a frame, and what it was begun with of the callbacks.
VerdictAt(c, r) ==
  LET row  == frame[c].health[r]
      last == frame[c].noted[r]
  IN /\ row.status = "LIVE" => heard[r] # NoTime /\ frame[c].now - heard[r] < StaleAfter
     /\ started[r] <= 1 /\ last # NoTime =>
          /\ row.age <= frame[c].now - last
          /\ row.status = "LOST" => frame[c].now - last >= LostAfter

NotedBy(c) ==
  Begun(c) => /\ DOMAIN frame[c].noted = Robot
              /\ \A r \in Robot : frame[c].noted[r] # NoTime =>
                   noted[r] # NoTime /\ frame[c].noted[r] <= noted[r]

Verdicts ==
  \A c \in Subscriber :
    /\ NotedBy(c)
    /\ \A r \in DOMAIN frame[c].health : VerdictAt(c, r)

IInv == StoreTypes /\ FrameTypes /\ Stored /\ Heard /\ Noted /\ Current /\ Verdicts

-----------------------------------------------------------------------------
(* Maps, streams and the order of pictures.                                *)

LEMMA MapIs ==
  ASSUME NEW S, NEW m \in Map(S)
  PROVE  /\ DOMAIN m \subseteq Robot
         /\ \A r \in DOMAIN m : m[r] \in S
BY DEF Map

LEMMA PutIs ==
  ASSUME NEW m, NEW k, NEW v
  PROVE  /\ DOMAIN Put(m, k, v) = DOMAIN m \cup {k}
         /\ Put(m, k, v)[k] = v
         /\ \A x \in DOMAIN m \ {k} : Put(m, k, v)[x] = m[x]
BY DEF Put

LEMMA PutMap ==
  ASSUME NEW S, NEW m \in Map(S), NEW k \in Robot, NEW v \in S
  PROVE  Put(m, k, v) \in Map(S)
<1>1. DOMAIN m \cup {k} \subseteq Robot /\ \A r \in DOMAIN m : m[r] \in S
  BY MapIs
<1>2. Put(m, k, v) \in [DOMAIN m \cup {k} -> S]
  BY <1>1 DEF Put
<1> QED BY <1>1, <1>2 DEF Map

LEMMA NoneMap == ASSUME NEW S PROVE None \in Map(S)
<1>1. None \in [{} -> S]
  BY DEF None
<1> QED BY <1>1 DEF Map

LEMMA StreamIs ==
  /\ \A s \in Stream : s[1] \in Robot /\ s[2] \in DOMAIN MaxSeq[s[1]] /\ s = <<s[1], s[2]>>
  /\ \A r \in Robot : \A k \in DOMAIN MaxSeq[r] : <<r, k>> \in Stream
  /\ \A s \in Stream : s[2] \in Nat \ {0}
<1>1. \A r \in Robot : DOMAIN MaxSeq[r] \subseteq Nat \ {0}
  BY BoundsAssumption
<1> QED BY <1>1 DEF Stream

LEMMA PictureIs ==
  ASSUME NEW m \in Map(Telemetry)
  PROVE  /\ DOMAIN m \subseteq Robot
         /\ \A r \in DOMAIN m : m[r] \in Telemetry /\ m[r].seq \in Nat
<1>1. DOMAIN m \subseteq Robot /\ \A r \in DOMAIN m : m[r] \in Telemetry
  BY MapIs
<1> QED BY <1>1 DEF Telemetry

LEMMA NoNewerTransitive ==
  ASSUME NEW l \in Map(Telemetry), NEW m \in Map(Telemetry), NEW n \in Map(Telemetry),
         NoNewer(l, m), NoNewer(m, n)
  PROVE  NoNewer(l, n)
BY PictureIs DEF NoNewer

LEMMA NoNewerReflexive == ASSUME NEW m \in Map(Telemetry) PROVE NoNewer(m, m)
BY PictureIs DEF NoNewer

-----------------------------------------------------------------------------
(* The callbacks and the clock: the stores only advance.                   *)

Advances ==
  /\ tracks' \in Map(Telemetry)
  /\ NoNewer(tracks, tracks')
  /\ \A r \in Robot : /\ heard'[r] \in OptTime
                      /\ heard[r] # NoTime => heard'[r] # NoTime /\ heard[r] <= heard'[r]
                      /\ noted[r] # NoTime => noted'[r] # NoTime /\ noted[r] <= noted'[r]
                      /\ started[r] <= started'[r]
  /\ UNCHANGED <<frame, shown>>

StoreInv == StoreTypes /\ Stored /\ Heard /\ Noted

LEMMA StartStep ==
  ASSUME StoreInv, NEW r \in Robot, Start(r)
  PROVE  StoreInv' /\ Advances
<1> USE DEF StoreInv
<1>1. /\ started' \in [Robot -> Nat]
      /\ \A q \in Robot : started[q] <= started'[q]
      /\ UNCHANGED <<delivered, callback, tracks, last_rx, clock, frame, shown, heard, noted>>
  BY DEF Start, StoreTypes, stores, history
<1>2. StoreTypes' /\ Stored' /\ Heard'
  BY <1>1 DEF StoreTypes, Stored, FreshestKept, Delivered, Returned, Heard
<1>3. Noted'
  <2>1. \A s \in Stream : s[1] \in Robot /\ s[2] \in Nat
    BY StreamIs
  <2> QED BY <1>1, <2>1 DEF Noted, StoreTypes
<1>4. Advances
  BY <1>1, NoNewerReflexive DEF Advances, StoreTypes, OptTime
<1> QED BY <1>2, <1>3, <1>4

LEMMA TickStep ==
  ASSUME StoreInv, Tick
  PROVE  StoreInv' /\ Advances
<1> USE DEF StoreInv
<1>1. /\ clock' = clock + 1 /\ clock \in Nat
      /\ UNCHANGED <<started, delivered, callback, tracks, last_rx, frame, shown, heard, noted>>
  BY DEF Tick, StoreTypes, robots, stores, history
<1>2. StoreTypes' /\ Stored'
  BY <1>1 DEF StoreTypes, Stored, FreshestKept, Delivered, Returned
<1>3. Heard' /\ Noted'
  BY <1>1 DEF Heard, Noted, StoreTypes, OptTime
<1>4. Advances
  BY <1>1, NoNewerReflexive DEF Advances, StoreTypes, OptTime
<1> QED BY <1>2, <1>3, <1>4

LEMMA UpsertStep ==
  ASSUME StoreInv, NEW s \in Stream, Upsert(s)
  PROVE  StoreInv' /\ Advances
<1> USE DEF StoreInv
<1> DEFINE r == s[1]
           new == [start |-> s[2], seq |-> delivered[s]]
<1>1. /\ r \in Robot /\ s[2] \in DOMAIN MaxSeq[r] /\ s[2] \in Nat \ {0} /\ s = <<r, s[2]>>
      /\ \A t \in Stream : t[1] \in Robot /\ t[2] \in Nat
  BY StreamIs
<1>2. /\ UNCHANGED <<started, last_rx, clock, frame, shown, heard, noted>>
      /\ s[2] <= started[r] /\ callback[s].at = "idle"
      /\ delivered[s] \in Nat /\ delivered' = [delivered EXCEPT ![s] = @ + 1]
      /\ delivered' \in [Stream -> Nat]
  BY DEF Upsert, history, StoreTypes
<1>3. CASE r \in DOMAIN tracks
  <2>1. /\ callback' = [callback EXCEPT ![s].at = "update"] /\ tracks' = tracks
        /\ callback' \in [Stream -> Callback]
    BY <1>3 DEF Upsert, StoreTypes, Callback
  <2>2. callback'[s].at = "update" /\ \A t \in Stream \ {s} : callback'[t] = callback[t]
    BY <2>1 DEF StoreTypes, Callback
  <2>3. \A t \in Stream : Returned(t)' = Returned(t) /\ delivered[t] <= delivered'[t]
    BY <1>2, <2>2 DEF Returned, StoreTypes
  <2>4. Stored'
    <3>1. \A q \in DOMAIN tracks : tracks[q].seq < delivered'[<<q, tracks[q].start>>]
      <4>1. ASSUME NEW q \in DOMAIN tracks
            PROVE  tracks[q].seq < delivered'[<<q, tracks[q].start>>]
        <5>1. /\ tracks[q].seq \in Nat /\ <<q, tracks[q].start>> \in Stream
              /\ tracks[q].seq < delivered[<<q, tracks[q].start>>]
          BY PictureIs DEF Stored, FreshestKept, Delivered, StoreTypes
        <5>2. /\ delivered[<<q, tracks[q].start>>] \in Nat
              /\ delivered'[<<q, tracks[q].start>>] \in Nat
              /\ delivered[<<q, tracks[q].start>>] <= delivered'[<<q, tracks[q].start>>]
          BY <1>2, <2>3, <5>1 DEF StoreTypes
        <5> QED BY <5>1, <5>2
      <4> QED BY <4>1
    <3>2. FreshestKept'
      BY <2>1, <2>3, <3>1 DEF Stored, FreshestKept
    <3>3. Delivered'
      BY <1>2, <1>3, <2>1, <2>2 DEF Stored, Delivered, StoreTypes
    <3> QED BY <3>2, <3>3 DEF Stored
  <2>5. StoreTypes' /\ Heard' /\ Noted'
    BY <1>1, <1>2, <2>1, <2>2 DEF StoreTypes, Heard, Noted
  <2>6. Advances
    BY <1>2, <2>1, NoNewerReflexive DEF Advances, StoreTypes, OptTime
  <2> QED BY <2>4, <2>5, <2>6
<1>4. CASE r \notin DOMAIN tracks
  <2>1. /\ callback' = [callback EXCEPT ![s].at = "clock"] /\ tracks' = Put(tracks, r, new)
        /\ callback' \in [Stream -> Callback]
    BY <1>4 DEF Upsert, StoreTypes, Callback
  <2>2. callback'[s].at = "clock" /\ \A t \in Stream \ {s} : callback'[t] = callback[t]
    BY <2>1 DEF StoreTypes, Callback
  <2>3. /\ \A t \in Stream \ {s} : Returned(t)' = Returned(t)
        /\ Returned(s)' = delivered[s] + 1
        /\ \A t \in Stream : delivered[t] <= delivered'[t]
    BY <1>2, <2>2 DEF Returned, StoreTypes
  <2>4. /\ DOMAIN tracks' = DOMAIN tracks \cup {r}
        /\ tracks'[r] = new /\ \A q \in DOMAIN tracks : tracks'[q] = tracks[q]
    BY <1>4, <2>1 DEF Put
  <2>5. tracks' \in Map(Telemetry)
    <3>1. new \in Telemetry
      BY <1>1, <1>2 DEF Telemetry
    <3> QED BY <1>1, <2>1, <3>1, PutMap DEF StoreTypes
  <2>6. Stored'
    <3>1. /\ \A q \in DOMAIN tracks : tracks[q].seq < delivered'[<<q, tracks[q].start>>]
          /\ new.seq < delivered'[<<r, new.start>>]
      BY <1>1, <1>2, <2>3, PictureIs DEF Stored, FreshestKept, Delivered, StoreTypes
    <3>2. \A t \in Stream : Returned(t)' > 0 =>
            t[1] \in DOMAIN tracks' /\ tracks'[t[1]].seq >= Returned(t)' - 1
      <4>1. ASSUME NEW t \in Stream \ {s}, Returned(t)' > 0
            PROVE  t[1] \in DOMAIN tracks' /\ tracks'[t[1]].seq >= Returned(t)' - 1
        BY <2>3, <2>4, <4>1 DEF Stored, FreshestKept
      <4>2. r \in DOMAIN tracks' /\ tracks'[r].seq >= Returned(s)' - 1
        BY <1>2, <2>3, <2>4
      <4> QED BY <4>1, <4>2
    <3>3. FreshestKept'
      BY <2>4, <3>1, <3>2 DEF FreshestKept
    <3>4. Delivered'
      BY <1>1, <1>2, <2>1, <2>2, <2>4 DEF Stored, Delivered, StoreTypes
    <3> QED BY <3>3, <3>4 DEF Stored
  <2>7. StoreTypes' /\ Heard' /\ Noted'
    BY <1>1, <1>2, <2>1, <2>2, <2>5 DEF StoreTypes, Heard, Noted
  <2>8. NoNewer(tracks, tracks')
    BY <2>4, PictureIs DEF NoNewer, StoreTypes
  <2>9. Advances
    BY <1>2, <2>5, <2>8 DEF Advances, StoreTypes, OptTime
  <2> QED BY <2>6, <2>7, <2>9
<1> QED BY <1>3, <1>4

LEMMA UpdateStep ==
  ASSUME StoreInv, NEW s \in Stream, Update(s)
  PROVE  StoreInv' /\ Advances
<1> USE DEF StoreInv
<1> DEFINE r == s[1]
           newer == Sample(s).seq > tracks[r].seq
<1>1. /\ r \in Robot /\ s[2] \in Nat \ {0} /\ s = <<r, s[2]>>
      /\ \A t \in Stream : t[1] \in Robot /\ t[2] \in Nat
  BY StreamIs
<1>2. /\ UNCHANGED <<started, delivered, last_rx, clock, frame, shown, heard, noted>>
      /\ callback[s].at = "update"
      /\ callback' = [callback EXCEPT ![s].at = "clock"]
      /\ callback' \in [Stream -> Callback]
      /\ tracks' = IF newer THEN [tracks EXCEPT ![r] = Sample(s)] ELSE tracks
  BY DEF Update, history, StoreTypes, Callback
<1>3. callback'[s].at = "clock" /\ \A t \in Stream \ {s} : callback'[t] = callback[t]
  BY <1>2 DEF StoreTypes, Callback
<1>4. r \in DOMAIN tracks /\ delivered[s] \in Nat \ {0}
  BY <1>2 DEF Stored, Delivered, StoreTypes
<1>5. Sample(s) \in Telemetry /\ Sample(s).seq = delivered[s] - 1 /\ Sample(s).start = s[2]
  BY <1>1, <1>4 DEF Sample, Telemetry
<1>6. /\ DOMAIN tracks' = DOMAIN tracks
      /\ \A q \in DOMAIN tracks \ {r} : tracks'[q] = tracks[q]
      /\ tracks'[r] = tracks[r] \/ tracks'[r] = Sample(s)
      /\ tracks'[r].seq >= tracks[r].seq /\ tracks'[r].seq >= delivered[s] - 1
  BY <1>2, <1>4, <1>5, PictureIs DEF StoreTypes
<1>7. tracks' \in Map(Telemetry)
  <2>1. tracks' \in [DOMAIN tracks -> Telemetry]
    BY <1>2, <1>4, <1>5 DEF StoreTypes, Map
  <2> QED BY <2>1, PictureIs DEF Map, StoreTypes
<1>8. NoNewer(tracks, tracks')
  BY <1>4, <1>6, PictureIs DEF NoNewer, StoreTypes
<1>9. Stored'
  <2>1. Returned(s)' = delivered[s] /\ \A t \in Stream \ {s} : Returned(t)' = Returned(t)
    BY <1>2, <1>3, <1>4 DEF Returned
  <2>2. \A q \in DOMAIN tracks' : /\ <<q, tracks'[q].start>> \in Stream
                                  /\ tracks'[q].seq < delivered[<<q, tracks'[q].start>>]
    BY <1>1, <1>4, <1>5, <1>6 DEF Stored, FreshestKept, Delivered
  <2>3. \A t \in Stream : Returned(t)' > 0 =>
          t[1] \in DOMAIN tracks' /\ tracks'[t[1]].seq >= Returned(t)' - 1
    <3>1. ASSUME NEW t \in Stream \ {s}, Returned(t)' > 0
          PROVE  t[1] \in DOMAIN tracks' /\ tracks'[t[1]].seq >= Returned(t)' - 1
      <4>1. t[1] \in DOMAIN tracks /\ tracks[t[1]].seq >= Returned(t) - 1
        BY <2>1, <3>1 DEF Stored, FreshestKept
      <4>2. /\ tracks'[t[1]].seq \in Nat /\ tracks[t[1]].seq \in Nat
            /\ tracks'[t[1]].seq >= tracks[t[1]].seq /\ Returned(t) \in Int
        BY <1>6, <1>7, <1>8, <4>1, PictureIs DEF NoNewer, StoreTypes, Returned
      <4> QED BY <1>6, <2>1, <4>1, <4>2
    <3> QED BY <1>4, <1>6, <2>1, <3>1
  <2>4. FreshestKept'
    BY <1>2, <2>2, <2>3 DEF FreshestKept
  <2>5. Delivered'
    BY <1>2, <1>3, <1>4, <1>6, <2>2 DEF Stored, Delivered
  <2> QED BY <2>4, <2>5 DEF Stored
<1>10. StoreTypes' /\ Heard' /\ Noted'
  BY <1>1, <1>2, <1>3, <1>7 DEF StoreTypes, Heard, Noted
<1>11. Advances
  BY <1>2, <1>7, <1>8 DEF Advances, StoreTypes, OptTime
<1> QED BY <1>9, <1>10, <1>11

LEMMA ReadClockStep ==
  ASSUME StoreInv, NEW s \in Stream, ReadClock(s)
  PROVE  StoreInv' /\ Advances
<1> USE DEF StoreInv
<1> DEFINE r == s[1]
<1>1. r \in Robot /\ \A t \in Stream : t[1] \in Robot
  BY StreamIs
<1>2. /\ UNCHANGED <<started, delivered, tracks, last_rx, clock, frame, shown, noted>>
      /\ callback[s].at = "clock" /\ clock \in Nat /\ clock # NoTime
      /\ callback' = [callback EXCEPT ![s] = [at |-> "record", stamp |-> clock]]
      /\ heard' = [heard EXCEPT ![r] = clock]
      /\ callback' \in [Stream -> Callback] /\ heard' \in [Robot -> OptTime]
  BY <1>1, NoTimeAssumption DEF ReadClock, StoreTypes, Callback, OptTime
<1>3. /\ callback'[s].at = "record" /\ callback'[s].stamp = clock
      /\ \A t \in Stream \ {s} : callback'[t] = callback[t]
      /\ heard'[r] = clock /\ \A q \in Robot \ {r} : heard'[q] = heard[q]
  BY <1>1, <1>2 DEF StoreTypes
<1>4. StoreTypes'
  BY <1>2 DEF StoreTypes
<1>5. Stored'
  BY <1>2, <1>3 DEF Stored, FreshestKept, Delivered, Returned
<1>6. \A q \in Robot : heard[q] # NoTime => heard'[q] # NoTime /\ heard[q] <= heard'[q]
  BY <1>2, <1>3 DEF StoreTypes, Heard, OptTime
<1>7. Heard'
  <2>1. ASSUME NEW t \in Stream, callback'[t].at = "record"
        PROVE  /\ callback'[t].stamp # NoTime /\ heard'[t[1]] # NoTime
               /\ callback'[t].stamp <= heard'[t[1]]
    <3>1. CASE t = s
      BY <1>2, <1>3, <3>1
    <3>2. CASE t # s
      <4>1. callback'[t] = callback[t] /\ t[1] \in Robot
        BY <1>1, <1>3, <3>2
      <4>2. callback[t].stamp \in OptTime /\ heard[t[1]] \in OptTime /\ heard'[t[1]] \in OptTime
        BY <1>2, <4>1 DEF StoreTypes, Callback
      <4>3. callback[t].stamp # NoTime /\ heard[t[1]] # NoTime /\ callback[t].stamp <= heard[t[1]]
        BY <2>1, <4>1 DEF Heard
      <4>4. heard'[t[1]] # NoTime /\ heard[t[1]] <= heard'[t[1]]
        BY <1>6, <4>1, <4>3
      <4> QED BY <4>1, <4>2, <4>3, <4>4 DEF OptTime
    <3> QED BY <3>1, <3>2
  <2>2. ASSUME NEW q \in DOMAIN last_rx
        PROVE  heard'[q] # NoTime /\ last_rx[q] <= heard'[q]
    <3>1. q \in Robot /\ last_rx[q] \in Nat
      BY MapIs DEF StoreTypes
    <3> QED BY <1>2, <1>6, <3>1 DEF Heard, StoreTypes, OptTime
  <2>3. \A q \in Robot : heard'[q] # NoTime => heard'[q] <= clock
    BY <1>2, <1>3 DEF Heard
  <2> QED BY <1>2, <2>1, <2>2, <2>3 DEF Heard
<1>8. Noted'
  BY <1>1, <1>2, <1>3 DEF Noted
<1>9. Advances
  BY <1>2, <1>6, NoNewerReflexive DEF Advances, StoreTypes, OptTime
<1> QED BY <1>4, <1>5, <1>7, <1>8, <1>9

LEMMA RecordStep ==
  ASSUME StoreInv, NEW s \in Stream, Record(s)
  PROVE  StoreInv' /\ Advances
<1> USE DEF StoreInv
<1> DEFINE r == s[1]
           stamp == callback[s].stamp
<1>1. /\ r \in Robot /\ s = <<r, s[2]>> /\ s[2] \in Nat \ {0}
      /\ \A t \in Stream : t[1] \in Robot /\ t[2] \in Nat \ {0} /\ t = <<t[1], t[2]>>
  BY StreamIs
<1>2. /\ UNCHANGED <<started, delivered, tracks, clock, frame, shown, heard>>
      /\ callback[s].at = "record"
      /\ callback' = [callback EXCEPT ![s] = [at |-> "idle", stamp |-> NoTime]]
      /\ callback' \in [Stream -> Callback]
      /\ last_rx' = Put(last_rx, r, stamp)
      /\ noted' = [noted EXCEPT ![r] = IF @ = NoTime \/ @ < stamp THEN stamp ELSE @]
  BY DEF Record, StoreTypes, Callback, OptTime
<1>3. /\ stamp \in Nat /\ heard[r] \in Nat /\ clock \in Nat
      /\ stamp # NoTime /\ heard[r] # NoTime /\ stamp <= heard[r] /\ heard[r] <= clock
  BY <1>1, <1>2 DEF Heard, StoreTypes, Callback, OptTime
<1>4. /\ callback'[s].at = "idle"
      /\ \A t \in Stream \ {s} : callback'[t] = callback[t]
  BY <1>2 DEF StoreTypes
<1>5. /\ DOMAIN last_rx' = DOMAIN last_rx \cup {r} /\ last_rx'[r] = stamp
      /\ \A q \in DOMAIN last_rx \ {r} : last_rx'[q] = last_rx[q]
      /\ last_rx' \in Map(Nat)
  <2>1. last_rx' \in Map(Nat)
    BY <1>1, <1>2, <1>3, PutMap DEF StoreTypes
  <2> QED BY <1>2, <2>1 DEF Put
<1>6. /\ noted' \in [Robot -> OptTime] /\ noted'[r] \in Nat
      /\ noted[r] # NoTime => noted[r] \in Nat /\ noted[r] <= noted'[r]
      /\ noted'[r] = stamp \/ (noted[r] # NoTime /\ noted'[r] = noted[r] /\ stamp <= noted[r])
      /\ \A q \in Robot \ {r} : noted'[q] = noted[q]
  BY <1>1, <1>2, <1>3 DEF StoreTypes, OptTime
<1>7. StoreTypes'
  BY <1>2, <1>5, <1>6 DEF StoreTypes
<1>8. Stored'
  BY <1>2, <1>4 DEF Stored, FreshestKept, Delivered, Returned
<1>9. Heard'
  BY <1>2, <1>3, <1>4, <1>5 DEF Heard
<1>10. Noted'
  <2>1. \A t \in Stream : callback'[t].at # "idle" => t[2] <= started[t[1]]
    BY <1>4 DEF Noted
  <2>2. \A q \in Robot : noted'[q] # NoTime => noted'[q] <= clock
    BY <1>3, <1>6 DEF Noted, StoreTypes, OptTime
  \* The stamp on its way was not older than what is noted: it is noted now.
  <2>3. ASSUME NEW q \in Robot, started[q] <= 1, noted'[q] # NoTime
        PROVE  q \in DOMAIN last_rx' /\ noted'[q] <= last_rx'[q]
    <3>1. CASE q = r
      BY <1>1, <1>2, <1>3, <1>5, <1>6, <2>3, <3>1 DEF Noted
    <3>2. CASE q # r
      BY <1>5, <1>6, <2>3, <3>2 DEF Noted
    <3> QED BY <3>1, <3>2
  \* No other stream of the robot runs a callback.
  <2>4. ASSUME NEW t \in Stream, started[t[1]] <= 1, callback'[t].at = "record",
               noted'[t[1]] # NoTime
        PROVE  noted'[t[1]] <= callback'[t].stamp
    <3>1. t # s /\ callback'[t] = callback[t]
      BY <1>4, <2>4
    <3>2. t[2] = 1
      <4>1. t[2] <= started[t[1]]
        BY <2>4, <3>1 DEF Noted
      <4>2. t[2] \in Nat \ {0} /\ started[t[1]] \in Nat
        BY <1>1 DEF StoreTypes
      <4> QED BY <2>4, <4>1, <4>2
    <3>3. t[1] # r
      <4>1. SUFFICES ASSUME t[1] = r PROVE FALSE
        OBVIOUS
      <4>2. s[2] <= started[r]
        BY <1>2 DEF Noted
      <4>3. s[2] = 1
        BY <1>1, <2>4, <4>1, <4>2 DEF StoreTypes
      <4> QED BY <1>1, <3>1, <3>2, <4>1, <4>3
    <3> QED BY <1>1, <1>6, <2>4, <3>1, <3>3 DEF Noted
  <2> QED BY <1>2, <2>1, <2>2, <2>3, <2>4 DEF Noted
<1>11. Advances
  BY <1>2, <1>6, <1>3, NoTimeAssumption, NoNewerReflexive DEF Advances, StoreTypes, OptTime
<1> QED BY <1>7, <1>8, <1>9, <1>10, <1>11

-----------------------------------------------------------------------------
(* The frames.                                                             *)

\* Stores that advance make no frame wrong.
LEMMA FramesStand ==
  ASSUME IInv, StoreTypes', Advances
  PROVE  FrameTypes' /\ Current' /\ Verdicts'
<1>1. UNCHANGED <<frame, shown>>
  BY DEF Advances
<1>2. FrameTypes'
  BY <1>1 DEF IInv, FrameTypes
<1>3. ASSUME NEW c \in Subscriber
      PROVE  CurrentAt(c)'
  <2>1. /\ shown[c] \in Map(Telemetry) /\ frame[c] \in FrameType
        /\ frame[c].floor \in Map(Telemetry) /\ frame[c].robots \in Map(Telemetry)
    BY <1>3 DEF IInv, FrameTypes, FrameType
  <2>2. tracks \in Map(Telemetry) /\ tracks' \in Map(Telemetry) /\ NoNewer(tracks, tracks')
    BY DEF IInv, StoreTypes, Advances
  <2>3. \A m \in Map(Telemetry) : NoNewer(m, tracks) => NoNewer(m, tracks')
    BY <2>2, NoNewerTransitive
  <2>4. CurrentAt(c)
    BY <1>3 DEF IInv, Current
  <2>5. DOMAIN tracks \subseteq DOMAIN tracks'
    BY <2>2 DEF NoNewer
  <2> QED BY <1>1, <2>1, <2>3, <2>4, <2>5 DEF CurrentAt, Begun
<1>4. ASSUME NEW c \in Subscriber
      PROVE  NotedBy(c)' /\ \A r \in DOMAIN frame'[c].health : VerdictAt(c, r)'
  <2>1. /\ frame[c] \in FrameType /\ frame[c].noted \in Map(OptTime)
        /\ frame[c].health \in Map(Health) /\ frame[c].now \in OptTime
    BY <1>4 DEF IInv, FrameTypes, FrameType
  <2>2. NotedBy(c) /\ \A r \in DOMAIN frame[c].health : VerdictAt(c, r)
    BY <1>4 DEF IInv, Verdicts
  <2>3. NotedBy(c)'
    <3>1. ASSUME NEW r \in Robot, Begun(c), frame[c].noted[r] # NoTime
          PROVE  noted'[r] # NoTime /\ frame[c].noted[r] <= noted'[r]
      <4>1. noted[r] # NoTime /\ frame[c].noted[r] <= noted[r] /\ DOMAIN frame[c].noted = Robot
        BY <2>2, <3>1 DEF NotedBy
      <4>2. noted'[r] # NoTime /\ noted[r] <= noted'[r]
        BY <4>1 DEF Advances
      <4>3. frame[c].noted[r] \in OptTime
        BY <2>1, <4>1, MapIs
      <4>4. frame[c].noted[r] \in Nat /\ noted[r] \in Nat /\ noted'[r] \in Nat
        BY <3>1, <4>1, <4>2, <4>3 DEF IInv, StoreTypes, OptTime
      <4> QED BY <4>1, <4>2, <4>4
    <3> QED BY <1>1, <2>2, <3>1 DEF NotedBy, Begun
  <2>4. ASSUME NEW r \in DOMAIN frame[c].health
        PROVE  VerdictAt(c, r)'
    <3>1. r \in Robot
      BY <2>1, MapIs
    <3>2. started[r] <= started'[r] /\ started[r] \in Nat
      BY <3>1 DEF Advances, IInv, StoreTypes
    <3>3. frame[c].now \in Nat
      BY <2>1, <2>4, <1>4 DEF IInv, Current, CurrentAt, Begun, OptTime
    <3>4. heard[r] # NoTime => heard'[r] # NoTime /\ heard[r] <= heard'[r]
      BY <3>1 DEF Advances
    <3>5. heard[r] # NoTime => heard[r] \in Nat /\ heard'[r] \in Nat
      BY <3>1, <3>4 DEF IInv, StoreTypes, OptTime
    <3>6. started'[r] \in Nat
      BY <3>1 DEF StoreTypes
    <3>7. frame[c].health[r].status = "LIVE" =>
            heard'[r] # NoTime /\ frame[c].now - heard'[r] < StaleAfter
      BY <2>2, <3>3, <3>4, <3>5, BandsAssumption DEF VerdictAt
    <3>8. started'[r] <= 1 => started[r] <= 1
      BY <3>2, <3>6
    <3> QED BY <1>1, <2>2, <3>7, <3>8 DEF VerdictAt
  <2> QED BY <1>1, <2>3, <2>4
<1> QED BY <1>2, <1>3, <1>4 DEF Current, Verdicts

StoresRest == UNCHANGED <<robots, stores, clock, history>>

OthersRest(c) == \A d \in Subscriber \ {c} : frame'[d] = frame[d] /\ shown'[d] = shown[d]

\* A step of a subscriber's loop has to show that its own frame stays right.
LEMMA OneFrame ==
  ASSUME IInv, StoresRest, FrameTypes', NEW c \in Subscriber, OthersRest(c),
         CurrentAt(c)', NotedBy(c)', \A r \in DOMAIN frame'[c].health : VerdictAt(c, r)'
  PROVE  IInv'
<1>1. UNCHANGED <<started, delivered, callback, tracks, last_rx, clock, heard, noted>>
  BY DEF StoresRest, robots, stores, history
<1>2. (StoreTypes /\ Stored /\ Heard /\ Noted)'
  BY <1>1 DEF IInv, StoreTypes, Stored, FreshestKept, Delivered, Returned, Heard, Noted
<1>3. ASSUME NEW d \in Subscriber \ {c}
      PROVE  /\ CurrentAt(d)' /\ NotedBy(d)'
             /\ \A r \in DOMAIN frame'[d].health : VerdictAt(d, r)'
  <2>1. /\ CurrentAt(d) /\ NotedBy(d)
        /\ \A r \in DOMAIN frame[d].health : VerdictAt(d, r)
    BY DEF IInv, Current, Verdicts
  <2>2. frame'[d] = frame[d] /\ shown'[d] = shown[d]
    BY DEF OthersRest
  <2> QED BY <1>1, <2>1, <2>2 DEF CurrentAt, NotedBy, VerdictAt, Begun
<1> QED BY <1>2, <1>3 DEF IInv, Current, Verdicts

LEMMA IdleIs ==
  /\ Idle \in FrameType /\ Idle.at = "idle"
  /\ DOMAIN Idle.robots = {} /\ DOMAIN Idle.health = {}
<1>1. None \in Map(Telemetry) /\ None \in Map(Health) /\ None \in Map(OptTime)
      /\ None \in Map(SUBSET Nat)
  BY NoneMap
<1>2. DOMAIN None = {}
  BY DEF None
<1>3. NoTime \in OptTime
  BY DEF OptTime
<1> HIDE DEF None
<1> QED BY <1>1, <1>2, <1>3 DEF Idle, FrameType

LEMMA StartFrameStep ==
  ASSUME IInv, NEW c \in Subscriber, StartFrame(c)
  PROVE  IInv'
<1> DEFINE handled == [r \in Robot |-> {k \in DOMAIN MaxSeq[r] : Returned(<<r, k>>) > 0}]
           new == [Idle EXCEPT !.at = "cells", !.now = clock, !.floor = tracks, !.noted = noted,
                     !.processes = handled]
<1>1. /\ frame' = [frame EXCEPT ![c] = new] /\ shown' = shown
      /\ StoresRest
  BY DEF StartFrame, StoresRest
<1>2. frame \in [Subscriber -> FrameType] /\ shown \in [Subscriber -> Map(Telemetry)]
      /\ clock \in Nat /\ tracks \in Map(Telemetry) /\ noted \in [Robot -> OptTime]
  BY DEF IInv, FrameTypes, StoreTypes
<1>3. new \in FrameType
  <2>1. noted \in Map(OptTime)
    BY <1>2 DEF Map
  <2>2. handled \in Map(SUBSET Nat)
    <3>1. \A r \in Robot : DOMAIN MaxSeq[r] \subseteq Nat
      BY BoundsAssumption
    <3>2. handled \in [Robot -> SUBSET Nat]
      BY <3>1
    <3> QED BY <3>2 DEF Map
  <2> HIDE DEF handled
  <2> QED BY <1>2, <2>1, <2>2, IdleIs DEF FrameType, OptTime
<1>4. /\ new.at = "cells" /\ new.now = clock /\ new.floor = tracks /\ new.noted = noted
      /\ DOMAIN new.robots = {} /\ DOMAIN new.health = {}
  BY IdleIs DEF FrameType, Idle
<1> HIDE DEF new, handled
<1>5. /\ frame'[c] = new /\ OthersRest(c) /\ FrameTypes'
      /\ UNCHANGED <<started, tracks, heard, noted, shown>>
  BY <1>1, <1>2, <1>3 DEF OthersRest, FrameTypes, StoresRest, robots, stores, history
<1>6. CurrentAt(c)'
  <2>1. NoNewer(shown[c], tracks) /\ NoNewer(tracks, tracks) /\ clock # NoTime
    BY <1>2, NoNewerReflexive, NoTimeAssumption DEF IInv, Current, CurrentAt
  <2> QED BY <1>4, <1>5, <2>1 DEF CurrentAt, Begun
<1>7. NotedBy(c)'
  BY <1>2, <1>4, <1>5 DEF NotedBy, OptTime
<1>8. \A r \in DOMAIN frame'[c].health : VerdictAt(c, r)'
  BY <1>4, <1>5
<1> QED BY <1>1, <1>5, <1>6, <1>7, <1>8, OneFrame

LEMMA CopyCellsStep ==
  ASSUME IInv, NEW c \in Subscriber, CopyCells(c)
  PROVE  IInv'
<1> DEFINE old == frame[c]
<1>1. frame \in [Subscriber -> FrameType] /\ old \in FrameType
      /\ shown \in [Subscriber -> Map(Telemetry)] /\ DOMAIN tracks \subseteq Robot
  BY PictureIs DEF IInv, FrameTypes, StoreTypes
<1>2. /\ old.at = "cells" /\ shown' = shown /\ StoresRest
      /\ frame' = [frame EXCEPT ![c] = [old EXCEPT !.at = "rows", !.cells = DOMAIN tracks]]
      /\ UNCHANGED <<started, tracks, heard, noted, shown>>
  BY <1>1 DEF CopyCells, StoresRest, robots, stores, history
<1>3. /\ frame'[c] \in FrameType /\ frame'[c].at = "rows" /\ frame'[c].cells = DOMAIN tracks
      /\ frame'[c].now = old.now /\ frame'[c].robots = old.robots
      /\ frame'[c].health = old.health /\ frame'[c].floor = old.floor
      /\ frame'[c].noted = old.noted
  BY <1>1, <1>2 DEF FrameType
<1>4. OthersRest(c) /\ FrameTypes'
  BY <1>1, <1>2, <1>3 DEF OthersRest, FrameTypes
<1>5. CurrentAt(c) /\ NotedBy(c)
  BY DEF IInv, Current, Verdicts
<1>6. CurrentAt(c)'
  BY <1>2, <1>3, <1>5 DEF CurrentAt, Begun, NoNewer
<1>7. NotedBy(c)'
  BY <1>2, <1>3, <1>5 DEF NotedBy, Begun
<1>8. \A r \in DOMAIN frame'[c].health : VerdictAt(c, r)'
  BY <1>2, <1>3, <1>5 DEF CurrentAt
<1> QED BY <1>2, <1>4, <1>6, <1>7, <1>8, OneFrame

LEMMA ReadCellStep ==
  ASSUME IInv, NEW c \in Subscriber, NEW r \in Robot, ReadCell(c, r)
  PROVE  IInv'
<1> DEFINE old == frame[c]
           read == Put(old.robots, r, tracks[r])
<1>1. /\ frame \in [Subscriber -> FrameType] /\ old \in FrameType
      /\ shown \in [Subscriber -> Map(Telemetry)] /\ tracks \in Map(Telemetry)
      /\ old.robots \in Map(Telemetry) /\ old.floor \in Map(Telemetry)
  BY DEF IInv, FrameTypes, FrameType, StoreTypes
<1>2. /\ old.at = "rows" /\ r \in old.cells /\ r \notin DOMAIN old.robots
      /\ frame' = [frame EXCEPT ![c] = [old EXCEPT !.robots = read]]
      /\ shown' = shown /\ StoresRest
      /\ UNCHANGED <<started, tracks, heard, noted>>
  BY <1>1 DEF ReadCell, StoresRest, robots, stores, history
<1>3. CurrentAt(c) /\ NotedBy(c) /\ \A q \in DOMAIN old.health : VerdictAt(c, q)
  BY DEF IInv, Current, Verdicts
<1>4. r \in DOMAIN tracks /\ tracks[r] \in Telemetry /\ tracks[r].seq \in Nat
  BY <1>1, <1>2, <1>3, PictureIs DEF CurrentAt
<1>5. /\ read \in Map(Telemetry) /\ DOMAIN read = DOMAIN old.robots \cup {r}
      /\ read[r] = tracks[r] /\ \A q \in DOMAIN old.robots : read[q] = old.robots[q]
  <2>1. read \in Map(Telemetry)
    BY <1>1, <1>4, PutMap
  <2> QED BY <1>2, <2>1 DEF Put
<1> HIDE DEF read
<1>6. /\ frame'[c] \in FrameType /\ frame'[c].at = "rows" /\ frame'[c].cells = old.cells
      /\ frame'[c].now = old.now /\ frame'[c].robots = read
      /\ frame'[c].health = old.health /\ frame'[c].floor = old.floor
      /\ frame'[c].noted = old.noted
  BY <1>1, <1>2, <1>5 DEF FrameType
<1>7. OthersRest(c) /\ FrameTypes'
  BY <1>1, <1>2, <1>6 DEF OthersRest, FrameTypes
<1>8. CurrentAt(c)'
  <2>1. NoNewer(read, tracks)
    BY <1>2, <1>3, <1>4, <1>5 DEF CurrentAt, NoNewer
  <2>2. \A q \in DOMAIN old.floor \cap DOMAIN read : read[q].seq >= old.floor[q].seq
    <3>1. ASSUME r \in DOMAIN old.floor PROVE tracks[r].seq >= old.floor[r].seq
      BY <1>1, <1>2, <1>3, <1>4, <3>1, PictureIs DEF CurrentAt, Begun, NoNewer
    <3> QED BY <1>2, <1>3, <1>5, <3>1 DEF CurrentAt
  <2>3. DOMAIN read \subseteq old.cells /\ DOMAIN old.health \subseteq DOMAIN read
    BY <1>2, <1>3, <1>5 DEF CurrentAt
  <2> QED BY <1>2, <1>3, <1>6, <2>1, <2>2, <2>3 DEF CurrentAt, Begun
<1>9. NotedBy(c)'
  BY <1>2, <1>3, <1>6 DEF NotedBy, Begun
<1>10. \A q \in DOMAIN frame'[c].health : VerdictAt(c, q)'
  BY <1>2, <1>3, <1>6 DEF VerdictAt
<1> QED BY <1>2, <1>7, <1>8, <1>9, <1>10, OneFrame

LEMMA ClassifyIs ==
  ASSUME IInv, NEW r \in Robot, NEW now \in Nat
  PROVE  /\ classify(r, now) \in Health
         /\ classify(r, now).status = "LIVE" =>
              r \in DOMAIN last_rx /\ now - last_rx[r] < StaleAfter
         /\ r \in DOMAIN last_rx =>
              /\ last_rx[r] \in Nat /\ classify(r, now).age = now - last_rx[r]
              /\ classify(r, now).status = "LOST" => now - last_rx[r] >= LostAfter
<1>1. r \in DOMAIN last_rx => last_rx[r] \in Nat
  BY MapIs DEF IInv, StoreTypes
<1> QED BY <1>1, BandsAssumption DEF classify, Health

LEMMA ClassifyStep ==
  ASSUME IInv, NEW c \in Subscriber, NEW r \in Robot, Classify(c, r)
  PROVE  IInv'
<1> DEFINE old == frame[c]
           row == classify(r, old.now)
           rows == Put(old.health, r, row)
<1>1. /\ frame \in [Subscriber -> FrameType] /\ old \in FrameType
      /\ shown \in [Subscriber -> Map(Telemetry)]
      /\ old.health \in Map(Health) /\ old.now \in OptTime /\ old.noted \in Map(OptTime)
  BY DEF IInv, FrameTypes, FrameType
<1>2. /\ old.at = "rows" /\ r \in old.cells \ DOMAIN old.health
      /\ DOMAIN old.robots = old.cells
      /\ frame' = [frame EXCEPT ![c] = [old EXCEPT !.health = rows]]
      /\ shown' = shown /\ StoresRest
      /\ UNCHANGED <<started, tracks, heard, noted>>
  BY <1>1 DEF Classify, StoresRest, robots, stores, history
<1>3. CurrentAt(c) /\ NotedBy(c) /\ \A q \in DOMAIN old.health : VerdictAt(c, q)
  BY DEF IInv, Current, Verdicts
<1>4. old.now \in Nat
  BY <1>1, <1>2, <1>3 DEF CurrentAt, Begun, OptTime
<1>5. /\ rows \in Map(Health) /\ DOMAIN rows = DOMAIN old.health \cup {r}
      /\ rows[r] = row /\ \A q \in DOMAIN old.health : rows[q] = old.health[q]
  <2>1. row \in Health
    BY <1>4, ClassifyIs
  <2> HIDE DEF row
  <2>2. rows \in Map(Health)
    BY <1>1, <2>1, PutMap
  <2> QED BY <1>2, <2>2 DEF Put
<1> HIDE DEF rows
<1>6. /\ frame'[c] \in FrameType /\ frame'[c].at = "rows" /\ frame'[c].cells = old.cells
      /\ frame'[c].now = old.now /\ frame'[c].robots = old.robots
      /\ frame'[c].health = rows /\ frame'[c].floor = old.floor
      /\ frame'[c].noted = old.noted
  BY <1>1, <1>2, <1>5 DEF FrameType
<1>7. OthersRest(c) /\ FrameTypes'
  BY <1>1, <1>2, <1>6 DEF OthersRest, FrameTypes
<1>8. CurrentAt(c)'
  BY <1>2, <1>3, <1>5, <1>6 DEF CurrentAt, Begun, NoNewer
<1>9. NotedBy(c)'
  BY <1>2, <1>3, <1>6 DEF NotedBy, Begun
<1>10. VerdictAt(c, r)'
  <2>1. row.status = "LIVE" => heard[r] # NoTime /\ old.now - heard[r] < StaleAfter
    <3>1. SUFFICES ASSUME row.status = "LIVE"
                   PROVE  heard[r] # NoTime /\ old.now - heard[r] < StaleAfter
      OBVIOUS
    <3>2. r \in DOMAIN last_rx /\ last_rx[r] \in Nat /\ old.now - last_rx[r] < StaleAfter
      BY <1>4, <3>1, ClassifyIs
    <3>3. heard[r] # NoTime /\ last_rx[r] <= heard[r]
      BY <3>2 DEF IInv, Heard
    <3>4. heard[r] \in Nat
      BY <3>3 DEF IInv, StoreTypes, OptTime
    <3> QED BY <1>4, <3>2, <3>3, <3>4, BandsAssumption
  <2>2. ASSUME started[r] <= 1, old.noted[r] # NoTime
        PROVE  /\ row.age <= old.now - old.noted[r]
               /\ row.status = "LOST" => old.now - old.noted[r] >= LostAfter
    <3>1. /\ noted[r] # NoTime /\ old.noted[r] <= noted[r] /\ old.noted[r] \in OptTime
      BY <1>1, <1>2, <1>3, <2>2, MapIs DEF NotedBy, Begun
    <3>2. r \in DOMAIN last_rx /\ noted[r] <= last_rx[r] /\ noted[r] \in Nat
      BY <2>2, <3>1 DEF IInv, Noted, StoreTypes, OptTime
    <3>3. /\ last_rx[r] \in Nat /\ row.age = old.now - last_rx[r]
          /\ row.status = "LOST" => old.now - last_rx[r] >= LostAfter
      BY <1>4, <3>2, ClassifyIs
    <3>4. old.noted[r] \in Nat
      BY <2>2, <3>1 DEF OptTime
    <3> QED BY <1>4, <3>1, <3>2, <3>3, <3>4, BandsAssumption
  <2> HIDE DEF row
  <2> QED BY <1>2, <1>5, <1>6, <2>1, <2>2 DEF VerdictAt
<1>11. \A q \in DOMAIN frame'[c].health : VerdictAt(c, q)'
  <2>1. ASSUME NEW q \in DOMAIN old.health PROVE VerdictAt(c, q)'
    BY <1>2, <1>3, <1>5, <1>6 DEF VerdictAt
  <2> QED BY <1>5, <1>6, <1>10, <2>1
<1> QED BY <1>2, <1>7, <1>8, <1>9, <1>11, OneFrame

LEMMA WriteFrameStep ==
  ASSUME IInv, NEW c \in Subscriber, WriteFrame(c)
  PROVE  IInv' /\ (\A r \in DOMAIN shown[c] :
                     r \in DOMAIN shown'[c] /\ shown'[c][r].seq >= shown[c][r].seq)
               /\ OthersRest(c)
<1> DEFINE old == frame[c]
<1>1. /\ frame \in [Subscriber -> FrameType] /\ old \in FrameType
      /\ shown \in [Subscriber -> Map(Telemetry)] /\ shown[c] \in Map(Telemetry)
      /\ old.robots \in Map(Telemetry) /\ old.floor \in Map(Telemetry)
  BY DEF IInv, FrameTypes, FrameType
<1>2. /\ old.at = "rows" /\ DOMAIN old.health = old.cells /\ StoresRest
      /\ UNCHANGED <<started, tracks, heard, noted>>
  BY DEF WriteFrame, StoresRest, robots, stores, history
<1>3. CurrentAt(c)
  BY DEF IInv, Current
<1>4. NoNewer(old.robots, tracks) /\ NoNewer(shown[c], old.robots)
  <2>1. DOMAIN old.robots = old.cells /\ DOMAIN old.floor \subseteq old.cells
    BY <1>2, <1>3 DEF CurrentAt
  <2>2. NoNewer(old.floor, old.robots)
    BY <1>1, <1>2, <1>3, <2>1, PictureIs DEF CurrentAt, NoNewer
  <2>3. NoNewer(shown[c], old.floor)
    BY <1>2, <1>3 DEF CurrentAt, Begun
  <2> QED BY <1>1, <1>2, <1>3, <2>2, <2>3, NoNewerTransitive DEF CurrentAt
<1>5. /\ shown' \in [Subscriber -> Map(Telemetry)]
      /\ shown'[c] = old.robots \/ shown'[c] = shown[c]
      /\ frame'[c] = Idle \/ frame'[c] = [Idle EXCEPT !.at = "done"]
      /\ frame' \in [Subscriber -> FrameType] /\ OthersRest(c)
  BY <1>1, IdleIs DEF WriteFrame, OthersRest, FrameType
<1>6. /\ frame'[c].at \in {"idle", "done"}
      /\ DOMAIN frame'[c].robots = {} /\ DOMAIN frame'[c].health = {}
  BY <1>5, IdleIs DEF FrameType
<1>7. CurrentAt(c)'
  BY <1>2, <1>3, <1>4, <1>5, <1>6 DEF CurrentAt, Begun
<1>8. NotedBy(c)' /\ \A r \in DOMAIN frame'[c].health : VerdictAt(c, r)'
  BY <1>6 DEF NotedBy, Begun
<1>9. \A r \in DOMAIN shown[c] : r \in DOMAIN shown'[c] /\ shown'[c][r].seq >= shown[c][r].seq
  BY <1>1, <1>4, <1>5, PictureIs DEF NoNewer
<1>10. FrameTypes'
  BY <1>5 DEF FrameTypes
<1> QED BY <1>2, <1>5, <1>7, <1>8, <1>9, <1>10, OneFrame

-----------------------------------------------------------------------------
(* The invariant and the theorems.                                         *)

LEMMA InitInv == Init => IInv
<1> SUFFICES ASSUME Init PROVE IInv
  OBVIOUS
<1>1. None \in Map(Telemetry) /\ None \in Map(Nat)
  BY NoneMap
<1>2. DOMAIN None = {}
  BY DEF None
<1> HIDE DEF None
<1>3. StoreTypes
  BY <1>1 DEF Init, StoreTypes, Callback, OptTime
<1>4. FrameTypes
  BY <1>1, IdleIs DEF Init, FrameTypes
<1>5. Stored
  BY <1>2, <1>3 DEF Init, Stored, FreshestKept, Delivered, Returned, StoreTypes
<1>6. Heard /\ Noted
  BY <1>2, StreamIs DEF Init, Heard, Noted
<1>7. Current
  BY <1>2, IdleIs DEF Init, Current, CurrentAt, Begun, NoNewer
<1>8. Verdicts
  BY IdleIs DEF Init, Verdicts, NotedBy, Begun
<1> QED BY <1>3, <1>4, <1>5, <1>6, <1>7, <1>8 DEF IInv

\* The stores keep their part of the invariant, and with it the frames theirs.
LEMMA StoreStep ==
  ASSUME IInv, StoreInv', Advances
  PROVE  IInv'
BY FramesStand DEF IInv, StoreInv

LEMMA NextInv == IInv /\ [Next]_vars => IInv'
<1> SUFFICES ASSUME IInv, [Next]_vars PROVE IInv'
  OBVIOUS
<1>1. StoreInv
  BY DEF IInv, StoreInv
<1>2. CASE \E r \in Robot : Start(r)
  BY <1>1, <1>2, StartStep, StoreStep
<1>3. CASE \E s \in Stream : OnTelemetry(s)
  BY <1>1, <1>3, UpsertStep, UpdateStep, ReadClockStep, RecordStep, StoreStep DEF OnTelemetry
<1>4. CASE \E c \in Subscriber : Subscribe(c)
  BY <1>4, StartFrameStep, CopyCellsStep, WriteFrameStep, ReadCellStep, ClassifyStep DEF Subscribe
<1>5. CASE Tick
  BY <1>1, <1>5, TickStep, StoreStep
<1>6. CASE UNCHANGED vars
  BY <1>6 DEF vars, robots, stores, history, IInv, StoreTypes, FrameTypes, Stored, FreshestKept,
              Delivered, Returned, Heard, Noted, Current, CurrentAt, Begun, NoNewer, Verdicts,
              NotedBy, VerdictAt
<1> QED BY <1>2, <1>3, <1>4, <1>5, <1>6 DEF Next

LEMMA Inductive == Spec => []IInv
BY InitInv, NextInv, PTL DEF Spec

\* upsert keeps the newest telemetry of every robot, whatever callbacks of
\* however many streams find, create and compare side by side
\* (track_store.cpp:5-26).
THEOREM StoreKeepsNewest == Spec => []FreshestKept
<1>1. IInv => FreshestKept
  BY DEF IInv, Stored
<1> QED BY <1>1, Inductive, PTL

\* A frame shows every robot known when it was begun, with a telemetry at least
\* as new, although its snapshot reads the tracks one by one
\* (track_store.cpp:28-47).
THEOREM SnapshotCurrent == Spec => []FrameIsCurrent
<1>1. IInv => FrameIsCurrent
  BY DEF IInv, Current, CurrentAt, FrameIsCurrent
<1> QED BY <1>1, Inductive, PTL

\* A robot is LIVE in a frame only if one of its callbacks read the clock less
\* than stale_after before the frame's reading (link_watchdog.cpp:15-34).
THEOREM SilentNotLive == Spec => []SilentIsNotLive
<1>1. IInv => SilentIsNotLive
  BY DEF IInv, Verdicts, VerdictAt, SilentIsNotLive
<1> QED BY <1>1, Inductive, PTL

\* A robot that has started once is not shown older than its last callback that
\* had returned when the frame was begun (main.cpp:28-29, link_watchdog.cpp:9).
THEOREM AgeCorrect == Spec => []AgeNotOverstated
<1>1. IInv => AgeNotOverstated
  <2> SUFFICES ASSUME IInv, NEW c \in Subscriber, NEW r \in DOMAIN frame[c].health,
                      started[r] = 1, frame[c].noted[r] # NoTime
               PROVE  /\ frame[c].health[r].age <= frame[c].now - frame[c].noted[r]
                      /\ frame[c].health[r].status = "LOST" =>
                           frame[c].now - frame[c].noted[r] >= LostAfter
    BY DEF AgeNotOverstated
  <2>1. VerdictAt(c, r)
    BY DEF IInv, Verdicts
  <2> QED BY <2>1 DEF VerdictAt
<1> QED BY <1>1, Inductive, PTL

\* From one frame of a subscriber to its next no robot goes missing and none
\* goes back to an older telemetry (operator_feed_service.cpp:159-186).
THEOREM NeverBack == Spec => ShownNeverRegresses
<1> DEFINE kept == \A c \in Subscriber : \A r \in DOMAIN shown[c] :
                     r \in DOMAIN shown'[c] /\ shown'[c][r].seq >= shown[c][r].seq
<1>1. IInv /\ [Next]_vars => [kept]_vars
  <2> SUFFICES ASSUME IInv, [Next]_vars PROVE kept
    OBVIOUS
  <2>1. ASSUME NEW c \in Subscriber, NEW r \in DOMAIN shown[c]
        PROVE  shown[c][r].seq \in Nat
    BY PictureIs DEF IInv, FrameTypes
  <2>2. CASE shown' = shown
    BY <2>1, <2>2
  <2>3. CASE \E c \in Subscriber : WriteFrame(c)
    <3>1. PICK c \in Subscriber : WriteFrame(c)
      BY <2>3
    <3> QED BY <2>1, <3>1, WriteFrameStep DEF OthersRest
  <2>4. shown' = shown \/ \E c \in Subscriber : WriteFrame(c)
    BY DEF Next, Start, OnTelemetry, Upsert, Update, ReadClock, Record, Subscribe, StartFrame,
           CopyCells, ReadCell, Classify, Tick, vars
  <2> QED BY <2>2, <2>3, <2>4
<1>2. Spec => [][kept]_vars
  BY <1>1, Inductive, PTL DEF Spec
<1> QED BY <1>2 DEF ShownNeverRegresses
=============================================================================
