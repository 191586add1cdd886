----------------------------- MODULE SwarmPicture -----------------------------
(***************************************************************************)
(* How telemetry becomes the picture the operators see: the callback of    *)
(* main.cpp that feeds the TrackStore and the LinkWatchdog, and the loop of *)
(* OperatorFeedService::Subscribe that reads both.                         *)
(*                                                                         *)
(* A robot process opens one Link stream and numbers its telemetry from 0;  *)
(* the gateway runs one callback at a time for a stream, and those of      *)
(* different streams side by side.  When a robot is started again, what    *)
(* its former process sent may still arrive.  Every critical section of    *)
(* the two stores is a step, and so is every reading of the clock.         *)
(***************************************************************************)
EXTENDS Integers, Sequences

CONSTANTS
  Robot,        \* robot ids
  Subscriber,   \* the Subscribe calls
  StaleAfter,   \* stale_after_
  LostAfter,    \* lost_after_
  MaxTime,      \* bound on the steady clock
  MaxSeq,       \* bound on the telemetry of each process of each robot
  NoTime        \* no reading of the clock

ASSUME BandsAssumption == StaleAfter \in Nat /\ LostAfter \in Nat /\ StaleAfter <= LostAfter
ASSUME BoundsAssumption == MaxTime \in Nat /\ MaxSeq \in [Robot -> Seq(Nat)]
ASSUME NoTimeAssumption == NoTime \notin Nat

VARIABLES
  started,    \* how many processes of a robot were started
  delivered,  \* how many telemetry messages of a stream reached the server
  callback,   \* where the telemetry callback of a stream is
  tracks,     \* tracks_: the latest telemetry of each known robot
  last_rx,    \* last_rx_
  clock,      \* the steady clock
  frame,      \* the frame a subscriber's loop is assembling
  shown,      \* the robots of the frame a subscriber was sent last
  heard,      \* history: the latest clock reading of a robot's callbacks
  noted       \* history: the latest of those of callbacks that returned

robots  == <<started, delivered, callback>>
stores  == <<tracks, last_rx>>
history == <<heard, noted>>
vars    == <<robots, stores, clock, frame, shown, history>>

Time      == 0 .. MaxTime
Stream    == UNION {{r} \X DOMAIN MaxSeq[r] : r \in Robot}
Telemetry == [start : Nat \ {0}, seq : Nat]
None      == [r \in {} |-> 0]

\* m[k] = v of a std::map.
Put(m, k, v) == [x \in DOMAIN m \cup {k} |-> IF x = k THEN v ELSE m[x]]

\* The message the callback of a stream is about.
Sample(s) == [start |-> s[2], seq |-> delivered[s] - 1]

\* How many calls of upsert for a stream have returned.
Returned(s) == delivered[s] - (IF callback[s].at = "update" THEN 1 ELSE 0)

-----------------------------------------------------------------------------
(* Telemetry.                                                              *)

\* A robot process starts; the one before it, if any, is gone.
Start(r) ==
  /\ started[r] < Len(MaxSeq[r])
  /\ started' = [started EXCEPT ![r] = @ + 1]
  /\ UNCHANGED <<delivered, callback, stores, clock, frame, shown, history>>

\* Mutation: every message makes a new track.
UpsertAnew(s) ==
  /\ s[2] <= started[s[1]]
  /\ callback[s].at = "idle"
  /\ delivered[s] < MaxSeq[s[1]][s[2]]
  /\ delivered' = [delivered EXCEPT ![s] = @ + 1]
  /\ tracks' = Put(tracks, s[1], [start |-> s[2], seq |-> delivered[s]])
  /\ callback' = [callback EXCEPT ![s].at = "clock"]
  /\ UNCHANGED <<started, last_rx, clock, frame, shown, history>>

\* A message arrives; upsert, under the map's lock, makes a track for a new
\* robot or finds the one there is.
Upsert(s) ==
  /\ s[2] <= started[s[1]]
  /\ callback[s].at = "idle"
  /\ delivered[s] < MaxSeq[s[1]][s[2]]
  /\ delivered' = [delivered EXCEPT ![s] = @ + 1]
  /\ IF s[1] \in DOMAIN tracks
     THEN /\ callback' = [callback EXCEPT ![s].at = "update"]
          /\ UNCHANGED tracks
     ELSE /\ tracks' = Put(tracks, s[1], [start |-> s[2], seq |-> delivered[s]])
          /\ callback' = [callback EXCEPT ![s].at = "clock"]
  /\ UNCHANGED <<started, last_rx, clock, frame, shown, history>>

\* Mutation: the seq is not compared.
UpdateAlways(s) ==
  /\ callback[s].at = "update"
  /\ tracks' = [tracks EXCEPT ![s[1]] = Sample(s)]
  /\ callback' = [callback EXCEPT ![s].at = "clock"]
  /\ UNCHANGED <<started, delivered, last_rx, clock, frame, shown, history>>

\* upsert, under the track's lock: a greater seq wins.
Update(s) ==
  /\ callback[s].at = "update"
  /\ tracks' = IF Sample(s).seq > tracks[s[1]].seq
               THEN [tracks EXCEPT ![s[1]] = Sample(s)]
               ELSE tracks
  /\ callback' = [callback EXCEPT ![s].at = "clock"]
  /\ UNCHANGED <<started, delivered, last_rx, clock, frame, shown, history>>

\* The argument of record: the clock is read before the watchdog is locked.
ReadClock(s) ==
  /\ callback[s].at = "clock"
  /\ callback' = [callback EXCEPT ![s] = [at |-> "record", stamp |-> clock]]
  /\ heard' = [heard EXCEPT ![s[1]] = clock]
  /\ UNCHANGED <<started, delivered, tracks, last_rx, clock, frame, shown, noted>>

\* Mutation: the stamp of a robot that has one is kept.
RecordFirst(s) ==
  /\ callback[s].at = "record"
  /\ last_rx' = IF s[1] \in DOMAIN last_rx THEN last_rx ELSE Put(last_rx, s[1], callback[s].stamp)
  /\ callback' = [callback EXCEPT ![s] = [at |-> "idle", stamp |-> NoTime]]
  /\ noted' = [noted EXCEPT ![s[1]] = IF @ = NoTime \/ @ < callback[s].stamp
                                      THEN callback[s].stamp ELSE @]
  /\ UNCHANGED <<started, delivered, tracks, clock, frame, shown, heard>>

\* record, and the callback returns.
Record(s) ==
  /\ callback[s].at = "record"
  /\ last_rx' = Put(last_rx, s[1], callback[s].stamp)
  /\ callback' = [callback EXCEPT ![s] = [at |-> "idle", stamp |-> NoTime]]
  /\ noted' = [noted EXCEPT ![s[1]] = IF @ = NoTime \/ @ < callback[s].stamp
                                      THEN callback[s].stamp ELSE @]
  /\ UNCHANGED <<started, delivered, tracks, clock, frame, shown, heard>>

-----------------------------------------------------------------------------
(* Frames.                                                                 *)

Idle == [at |-> "idle", now |-> NoTime, cells |-> {}, robots |-> None,
         health |-> None, floor |-> None, noted |-> None, processes |-> None]

\* Mutation: a threshold that is reached does not enter its band.
classifyAbove(r, now) ==
  LET age == now - last_rx[r]
  IN  IF r \notin DOMAIN last_rx THEN [status |-> "LOST", age |-> -1]
      ELSE [status |-> IF age > LostAfter THEN "LOST"
                       ELSE IF age > StaleAfter THEN "STALE" ELSE "LIVE",
            age |-> age]

\* classify: the band the age falls in; a robot never heard from is LOST and
\* its age -1.
classify(r, now) ==
  LET age == now - last_rx[r]
  IN  IF r \notin DOMAIN last_rx THEN [status |-> "LOST", age |-> -1]
      ELSE [status |-> IF age >= LostAfter THEN "LOST"
                       ELSE IF age >= StaleAfter THEN "STALE" ELSE "LIVE",
            age |-> age]

\* The loop reads the clock for the whole frame.  The rest is history:
\* floor, the tracks at that time, noted, and processes, those of each robot
\* of which a telemetry was stored or turned down by then.
StartFrame(c) ==
  /\ frame[c].at = "idle"
  /\ frame' = [frame EXCEPT ![c] =
       [Idle EXCEPT !.at = "cells", !.now = clock, !.floor = tracks, !.noted = noted,
          !.processes = [r \in Robot |->
                           {k \in DOMAIN MaxSeq[r] : Returned(<<r, k>>) > 0}]]]
  /\ UNCHANGED <<robots, stores, clock, shown, history>>

\* Mutation: the robots of the last frame are taken for all there are.
CopyCellsOfLastFrame(c) ==
  /\ frame[c].at = "cells"
  /\ frame' = [frame EXCEPT ![c].at = "rows",
                            ![c].cells = IF shown[c] = None THEN DOMAIN tracks
                                         ELSE DOMAIN shown[c]]
  /\ UNCHANGED <<robots, stores, clock, shown, history>>

\* snapshot, under the map's lock: the tracks there are.
CopyCells(c) ==
  /\ frame[c].at = "cells"
  /\ frame' = [frame EXCEPT ![c].at = "rows", ![c].cells = DOMAIN tracks]
  /\ UNCHANGED <<robots, stores, clock, shown, history>>

\* snapshot, under a track's lock.
ReadCell(c, r) ==
  /\ frame[c].at = "rows"
  /\ r \in frame[c].cells \ DOMAIN frame[c].robots
  /\ frame' = [frame EXCEPT ![c].robots = Put(@, r, tracks[r])]
  /\ UNCHANGED <<robots, stores, clock, shown, history>>

\* toProtobufRobots: every row gets its robot's health.
Classify(c, r) ==
  /\ frame[c].at = "rows"
  /\ DOMAIN frame[c].robots = frame[c].cells
  /\ r \in frame[c].cells \ DOMAIN frame[c].health
  /\ frame' = [frame EXCEPT ![c].health = Put(@, r, classify(r, frame[c].now))]
  /\ UNCHANGED <<robots, stores, clock, shown, history>>

\* Write: the subscriber gets the frame, or it is gone and the loop ends.
WriteFrame(c) ==
  /\ frame[c].at = "rows"
  /\ DOMAIN frame[c].health = frame[c].cells
  /\ \/ /\ shown' = [shown EXCEPT ![c] = frame[c].robots]
        /\ frame' = [frame EXCEPT ![c] = Idle]
     \/ /\ frame' = [frame EXCEPT ![c] = [Idle EXCEPT !.at = "done"]]
        /\ UNCHANGED shown
  /\ UNCHANGED <<robots, stores, clock, history>>

Tick ==
  /\ clock < MaxTime
  /\ clock' = clock + 1
  /\ UNCHANGED <<robots, stores, frame, shown, history>>

-----------------------------------------------------------------------------

Init ==
  /\ started = [r \in Robot |-> 0]
  /\ delivered = [s \in Stream |-> 0]
  /\ callback = [s \in Stream |-> [at |-> "idle", stamp |-> NoTime]]
  /\ tracks = None
  /\ last_rx = None
  /\ clock = 0
  /\ frame = [c \in Subscriber |-> Idle]
  /\ shown = [c \in Subscriber |-> None]
  /\ heard = [r \in Robot |-> NoTime]
  /\ noted = [r \in Robot |-> NoTime]

OnTelemetry(s) == Upsert(s) \/ Update(s) \/ ReadClock(s) \/ Record(s)

Subscribe(c) ==
  \/ StartFrame(c) \/ CopyCells(c) \/ WriteFrame(c)
  \/ \E r \in Robot : ReadCell(c, r) \/ Classify(c, r)

Next ==
  \/ \E r \in Robot : Start(r)
  \/ \E s \in Stream : OnTelemetry(s)
  \/ \E c \in Subscriber : Subscribe(c)
  \/ Tick

Spec == Init /\ [][Next]_vars

-----------------------------------------------------------------------------
(* Properties.                                                             *)

\* upsert under its two locks, with the callbacks of a robot's streams side
\* by side: a track was received on its stream, and no upsert that returned
\* brought a greater seq than the track has.
FreshestKept ==
  /\ \A r \in DOMAIN tracks : tracks[r].seq < delivered[<<r, tracks[r].start>>]
  /\ \A s \in Stream : Returned(s) > 0 =>
       /\ s[1] \in DOMAIN tracks
       /\ tracks[s[1]].seq >= Returned(s) - 1

\* The snapshot reads one track at a time: a frame nevertheless shows every
\* robot that was known when it was begun, with a telemetry at least as new.
FrameIsCurrent ==
  \A c \in Subscriber : frame[c].at = "rows" =>
    /\ DOMAIN frame[c].floor \subseteq frame[c].cells
    /\ \A r \in DOMAIN frame[c].floor \cap DOMAIN frame[c].robots :
         frame[c].robots[r].seq >= frame[c].floor[r].seq

\* From one frame to the next no robot goes missing and none moves back to
\* an older seq, not even when a former process's telemetry arrives late.
ShownNeverRegresses ==
  [][\A c \in Subscriber : \A r \in DOMAIN shown[c] :
       r \in DOMAIN shown'[c] /\ shown'[c][r].seq >= shown[c][r].seq]_vars

\* A robot is shown LIVE only if a callback of one of its streams read the
\* clock less than stale_after before the frame's time: a silent robot is
\* never shown LIVE, whenever the callbacks run.
SilentIsNotLive ==
  \A c \in Subscriber : \A r \in DOMAIN frame[c].health :
    frame[c].health[r].status = "LIVE" =>
      heard[r] # NoTime /\ frame[c].now - heard[r] < StaleAfter

\* A robot that has started once is never shown older than it is: the last
\* callback that had returned when the frame was begun bounds its age.
AgeNotOverstated ==
  \A c \in Subscriber : \A r \in DOMAIN frame[c].health :
    LET last == frame[c].noted[r]
    IN  started[r] = 1 /\ last # NoTime =>
          /\ frame[c].health[r].age <= frame[c].now - last
          /\ frame[c].health[r].status = "LOST" => frame[c].now - last >= LostAfter

\* What the README says of the TrackStore, that it holds the latest state of
\* each robot: a robot shown LIVE is not shown by what a former process sent,
\* when its telemetry of a later one was received before the frame was begun.
LiveShowsLatestProcess ==
  \A c \in Subscriber : \A r \in DOMAIN frame[c].health :
    frame[c].health[r].status = "LIVE" =>
      \A k \in frame[c].processes[r] : k <= frame[c].robots[r].start
=============================================================================
