-------------------------- MODULE CommandPathProofs --------------------------
(***************************************************************************)
(* Proofs about the path of a command, for any number of requests, robots  *)
(* and subscribers and any clock.                                          *)
(*                                                                         *)
(* The tracker's own proofs are instantiated here: they say what a call    *)
(* keeps of the map.  What this module adds is where a verdict comes from: *)
(* a result that is on its way, in a stream, in a queue or in a callback,  *)
(* is of a request that was handed over and, when it says applied, that    *)
(* the robot carried out.  When ids are reused this is not so, and the     *)
(* theorems about verdicts say so in their hypothesis.                     *)
(***************************************************************************)
EXTENDS CommandPath, TLAPS, WellFoundedInduction

Known == INSTANCE CommandTrackerProofs

-----------------------------------------------------------------------------
(* The tracker's lemmas, for the tracker of this module.                   *)

LEMMA KnownAssumptions ==
  /\ Known!TimeAssumption /\ Known!RetentionAssumption
  /\ Known!MaxTargetsAssumption /\ Known!NoTimeAssumption
BY TrackerAssumption
   DEF Time, Known!TimeAssumption, Known!RetentionAssumption, Known!MaxTargetsAssumption,
       Known!NoTimeAssumption

LEMMA SameSubmit ==
  ASSUME NEW c, NEW targets, NEW offline, NEW expiry, NEW now,
         Tracker!onCommandSubmitted(c, targets, offline, expiry, now)
  PROVE  Known!onCommandSubmitted(c, targets, offline, expiry, now)
BY DEF Tracker!onCommandSubmitted, Known!onCommandSubmitted, Tracker!Tracked, Known!Tracked,
       Tracker!refreshCompletion, Known!refreshCompletion, Tracker!Settled, Known!Settled,
       Tracker!Terminal, Known!Terminal, Tracker!FanOut, Known!FanOut, Tracker!FirstEntry,
       Known!FirstEntry

LEMMA SameSent ==
  ASSUME NEW c, NEW r, Tracker!onCommandSent(c, r)
  PROVE  Known!onCommandSent(c, r)
BY DEF Tracker!onCommandSent, Known!onCommandSent, Tracker!TargetIn, Known!TargetIn

LEMMA SameResult ==
  ASSUME NEW c, NEW r, NEW code, NEW now, Tracker!onCommandResult(c, r, code, now)
  PROVE  Known!onCommandResult(c, r, code, now)
BY Zenon DEF Tracker!onCommandResult, Known!onCommandResult, Tracker!TargetIn, Known!TargetIn,
       Tracker!InFlight, Known!InFlight, Tracker!WithResult, Known!WithResult,
       Tracker!AfterResult, Known!AfterResult, Tracker!refreshCompletion,
       Known!refreshCompletion, Tracker!Settled, Known!Settled, Tracker!Terminal, Known!Terminal

LEMMA SameSweep ==
  ASSUME NEW now, Tracker!sweepExpired(now)
  PROVE  Known!sweepExpired(now)
BY Zenon DEF Tracker!sweepExpired, Known!sweepExpired, Tracker!Expire, Known!Expire,
       Tracker!Expired, Known!Expired, Tracker!InFlight, Known!InFlight,
       Tracker!refreshCompletion, Known!refreshCompletion, Tracker!Settled, Known!Settled,
       Tracker!Terminal, Known!Terminal, Tracker!Held, Known!Held

LEMMA TargetsAreList ==
  ASSUME NEW q \in Request
  PROVE  /\ IdOf[q] \in CommandId /\ TargetsOf[q] \in Known!TargetList
         /\ \A i \in DOMAIN TargetsOf[q] : TargetsOf[q][i] \in Robot
         /\ DOMAIN TargetsOf[q] \subseteq Nat
<1>1. TargetsOf[q] \in Seq(Robot) /\ Len(TargetsOf[q]) \in 0 .. MaxTargets
  BY RequestAssumption, TrackerAssumption
<1>2. TargetsOf[q] \in [1 .. Len(TargetsOf[q]) -> Robot]
  BY <1>1
<1>3. IdOf[q] \in CommandId
  BY RequestAssumption
<1> QED BY <1>1, <1>2, <1>3 DEF Known!TargetList

-----------------------------------------------------------------------------
(* What the calls of the tracker do to the states of the targets.          *)

\* A tracked command goes on: its expiry and its targets are kept.
GoesOn(c) ==
  /\ c \in DOMAIN commands /\ c \in DOMAIN commands'
  /\ commands'[c].expiry = commands[c].expiry
  /\ DOMAIN commands'[c].targets = DOMAIN commands[c].targets

LEMMA EntryIs ==
  ASSUME Known!IInv, NEW c \in DOMAIN commands
  PROVE  /\ commands[c] \in Known!TrackedCommand
         /\ commands[c].expiry \in Time
         /\ DOMAIN commands[c].targets \subseteq Robot
         /\ commands[c].targets \in [DOMAIN commands[c].targets -> Known!TargetState]
         /\ commands[c].completed_at # NoTime <=> Known!Settled(commands[c])
<1>1. commands[c] \in Known!TrackedCommand
  BY DEF Known!IInv, Known!TypeOK
<1>2. commands[c].completed_at # NoTime <=> Known!Settled(commands[c])
  BY DEF Known!IInv, Known!CompletedIffSettled
<1> QED BY <1>1, <1>2, KnownAssumptions, Known!TrackedElim

LEMMA SubmitEffect ==
  ASSUME Known!IInv, NEW q \in Request, NEW offline \in [DOMAIN TargetsOf[q] -> BOOLEAN],
         NEW expiry \in Time, NEW now \in Time,
         Tracker!onCommandSubmitted(IdOf[q], TargetsOf[q], offline, expiry, now)
  PROVE  /\ Known!IInv'
         /\ DOMAIN commands' = DOMAIN commands \cup {IdOf[q]}
         /\ \A d \in DOMAIN commands : commands'[d] = commands[d]
         /\ IdOf[q] \notin DOMAIN commands =>
              LET new == commands'[IdOf[q]]
              IN /\ new.expiry = expiry
                 /\ DOMAIN new.targets = {TargetsOf[q][i] : i \in DOMAIN TargetsOf[q]}
                 /\ \A i \in DOMAIN TargetsOf[q] :
                      new.targets[TargetsOf[q][i]] = IF offline[i] THEN "ROBOT_OFFLINE" ELSE "PENDING"
<1> DEFINE list == TargetsOf[q]
           fan == Tracker!FanOut(list, offline)
           fresh == [expiry |-> expiry, targets |-> fan, completed_at |-> NoTime]
<1>1. Known!IInv'
  BY TargetsAreList, SameSubmit, KnownAssumptions, Known!SubmitStep
<1>2. /\ DOMAIN commands' = DOMAIN commands \cup {IdOf[q]}
      /\ \A d \in DOMAIN commands : commands'[d] = commands[d]
      /\ IdOf[q] \notin DOMAIN commands =>
           commands'[IdOf[q]] = Tracker!refreshCompletion(fresh, now)
  BY DEF Tracker!onCommandSubmitted, Tracker!Tracked
<1>3. /\ Tracker!refreshCompletion(fresh, now).expiry = expiry
      /\ Tracker!refreshCompletion(fresh, now).targets = fan
  <2> HIDE DEF fan
  <2> QED BY DEF Tracker!refreshCompletion
<1>4. /\ DOMAIN fan = {list[i] : i \in DOMAIN list}
      /\ \A i \in DOMAIN list : fan[list[i]] = IF offline[i] THEN "ROBOT_OFFLINE" ELSE "PENDING"
  <2>1. ASSUME NEW i \in DOMAIN list PROVE Tracker!FirstEntry(list, list[i]) = i
    <3>1. \A j \in DOMAIN list : list[j] = list[i] => j = i
      BY RequestAssumption
    <3>2. i \in Nat
      BY TargetsAreList
    <3> QED BY <3>1, <3>2 DEF Tracker!FirstEntry
  <2> QED BY <2>1 DEF Tracker!FanOut
<1> HIDE DEF fan, fresh
<1> QED BY <1>1, <1>2, <1>3, <1>4

LEMMA SentEffect ==
  ASSUME Known!IInv, NEW c \in CommandId, NEW r \in Robot, Tracker!onCommandSent(c, r)
  PROVE  /\ Known!IInv' /\ DOMAIN commands' = DOMAIN commands
         /\ \A d \in DOMAIN commands :
              /\ GoesOn(d)
              /\ \A s \in DOMAIN commands[d].targets :
                   \/ commands'[d].targets[s] = commands[d].targets[s]
                   \/ d = c /\ s = r /\ commands'[d].targets[s] = "SENT"
         /\ c \in DOMAIN commands /\ r \in DOMAIN commands[c].targets =>
              commands'[c].targets[r] # "PENDING"
<1>1. Known!IInv'
  BY SameSent, KnownAssumptions, Known!SentStep
<1>2. CASE Tracker!TargetIn(c, r, {"PENDING"})
  <2> DEFINE old == commands[c]
             new == [old EXCEPT !.targets[r] = "SENT"]
  <2>1. /\ c \in DOMAIN commands /\ r \in DOMAIN old.targets
        /\ commands' = [commands EXCEPT ![c] = new]
    BY <1>2 DEF Tracker!TargetIn, Tracker!onCommandSent
  <2>2. /\ new.expiry = old.expiry /\ DOMAIN new.targets = DOMAIN old.targets
        /\ new.targets[r] = "SENT"
        /\ \A s \in DOMAIN old.targets \ {r} : new.targets[s] = old.targets[s]
    BY <2>1, EntryIs DEF Known!TrackedCommand
  <2> HIDE DEF new
  <2>3. /\ DOMAIN commands' = DOMAIN commands /\ commands'[c] = new
        /\ \A d \in DOMAIN commands \ {c} : commands'[d] = commands[d]
    BY <2>1
  <2> QED BY <1>1, <2>1, <2>2, <2>3 DEF GoesOn
<1>3. CASE ~Tracker!TargetIn(c, r, {"PENDING"})
  BY <1>1, <1>3 DEF Tracker!TargetIn, Tracker!onCommandSent, GoesOn
<1> QED BY <1>2, <1>3

LEMMA ResultEffect ==
  ASSUME Known!IInv, NEW c \in CommandId, NEW r \in Robot,
         NEW code \in {"RESULT_APPLIED", "RESULT_REJECTED"}, NEW now \in Time,
         Tracker!onCommandResult(c, r, code, now)
  PROVE  /\ Known!IInv' /\ DOMAIN commands' = DOMAIN commands
         /\ \A d \in DOMAIN commands :
              /\ GoesOn(d)
              /\ \A s \in DOMAIN commands[d].targets :
                   \/ commands'[d].targets[s] = commands[d].targets[s]
                   \/ /\ d = c /\ s = r
                      /\ commands'[d].targets[s] =
                           IF code = "RESULT_APPLIED" THEN "APPLIED" ELSE "REJECTED"
<1>1. Known!IInv'
  BY SameResult, KnownAssumptions, Known!ResultStep DEF Known!ResultCode
<1>2. CASE Tracker!TargetIn(c, r, Tracker!InFlight)
  <2> DEFINE old == commands[c]
             verdict == IF code = "RESULT_APPLIED" THEN "APPLIED" ELSE "REJECTED"
             moved == [old EXCEPT !.targets[r] = verdict]
             new == Tracker!refreshCompletion(moved, now)
  <2>1. c \in DOMAIN commands /\ r \in DOMAIN old.targets
    BY <1>2 DEF Tracker!TargetIn
  <2>2. /\ moved.expiry = old.expiry /\ DOMAIN moved.targets = DOMAIN old.targets
        /\ moved.targets[r] = verdict
        /\ \A s \in DOMAIN old.targets \ {r} : moved.targets[s] = old.targets[s]
        /\ moved = [expiry |-> old.expiry, targets |-> moved.targets,
                    completed_at |-> old.completed_at]
    BY <2>1, EntryIs DEF Known!TrackedCommand
  <2>3. commands' = [commands EXCEPT ![c] = new]
    BY <1>2 DEF Tracker!onCommandResult, Tracker!WithResult, Tracker!AfterResult
  <2> HIDE DEF moved, verdict
  <2>4. new.expiry = moved.expiry /\ new.targets = moved.targets
    BY <2>2 DEF Tracker!refreshCompletion
  <2> HIDE DEF new
  <2>5. /\ DOMAIN commands' = DOMAIN commands /\ commands'[c] = new
        /\ \A d \in DOMAIN commands \ {c} : commands'[d] = commands[d]
    BY <2>1, <2>3
  <2> QED BY <1>1, <2>1, <2>2, <2>4, <2>5 DEF GoesOn, verdict
<1>3. CASE ~Tracker!TargetIn(c, r, Tracker!InFlight)
  BY <1>1, <1>3 DEF Tracker!onCommandResult, GoesOn
<1> QED BY <1>2, <1>3

LEMMA SweepEffect ==
  ASSUME Known!IInv, NEW now \in Time, Tracker!sweepExpired(now)
  PROVE  /\ Known!IInv' /\ DOMAIN commands' \subseteq DOMAIN commands
         /\ \A d \in DOMAIN commands' :
              /\ GoesOn(d)
              /\ \A s \in DOMAIN commands[d].targets :
                   \/ commands'[d].targets[s] = commands[d].targets[s]
                   \/ commands'[d].targets[s] = "EXPIRED" /\ now >= commands[d].expiry
         /\ \A d \in DOMAIN commands \ DOMAIN commands' :
              /\ Tracker!Settled(commands[d])
              /\ commands[d].completed_at \in Time
              /\ now - commands[d].completed_at >= Retention
<1> DEFINE aged == [c \in DOMAIN commands |-> Known!Expire(commands[c], now)]
           kept == {c \in DOMAIN commands : Known!Held(aged[c], now)}
<1>1. Known!sweepExpired(now)
  BY SameSweep
<1>2. Known!IInv'
  BY <1>1, KnownAssumptions, Known!SweepStep
<1>3. commands' = [c \in kept |-> aged[c]]
  BY <1>1 DEF Known!sweepExpired
<1>4. ASSUME NEW c \in DOMAIN commands
      PROVE  /\ aged[c].expiry = commands[c].expiry
             /\ DOMAIN aged[c].targets = DOMAIN commands[c].targets
             /\ \A s \in DOMAIN commands[c].targets :
                  \/ aged[c].targets[s] = commands[c].targets[s]
                  \/ aged[c].targets[s] = "EXPIRED" /\ now >= commands[c].expiry
             /\ Known!Settled(commands[c]) => aged[c] = commands[c]
             /\ aged[c].completed_at \in {commands[c].completed_at, now}
  <2>1. commands[c].expiry \in Int /\ now \in Int
    BY EntryIs DEF Time
  <2>2. now < commands[c].expiry => aged[c] = commands[c]
    BY DEF Known!Expire
  <2>3. /\ aged[c].expiry = commands[c].expiry
        /\ DOMAIN aged[c].targets = DOMAIN commands[c].targets
        /\ \A s \in DOMAIN commands[c].targets :
             \/ aged[c].targets[s] = commands[c].targets[s]
             \/ aged[c].targets[s] = "EXPIRED"
        /\ Known!Settled(commands[c]) => aged[c] = commands[c]
        /\ aged[c].completed_at \in {commands[c].completed_at, now}
    BY EntryIs, KnownAssumptions, Known!ExpireCorrect
  <2> QED BY <2>1, <2>2, <2>3
<1>5. ASSUME NEW c \in DOMAIN commands \ kept
      PROVE  /\ Known!Settled(commands[c])
             /\ commands[c].completed_at \in Time
             /\ now - commands[c].completed_at >= Retention
  <2>1. /\ aged[c].completed_at # NoTime
        /\ ~(now - aged[c].completed_at < Retention)
    BY DEF Known!Held
  <2>2. now \in Int /\ now - now < Retention
    BY TrackerAssumption DEF Time
  <2>3. aged[c].completed_at = commands[c].completed_at
    BY <1>4, <2>1, <2>2
  <2>4. Known!Settled(commands[c]) /\ commands[c].completed_at \in Time
    BY <2>1, <2>3, EntryIs DEF Known!TrackedCommand
  <2> QED BY <2>1, <2>3, <2>4, TrackerAssumption DEF Time
<1> HIDE DEF aged
<1>6. ASSUME NEW c PROVE Known!Settled(c) <=> Tracker!Settled(c)
  BY DEF Known!Settled, Tracker!Settled, Known!Terminal, Tracker!Terminal
<1> QED BY <1>2, <1>3, <1>4, <1>5, <1>6 DEF GoesOn

-----------------------------------------------------------------------------
(* The threads: what each one carries from one mutex to the next.          *)

Phase == {"new", "invalid", "entered", "dispatch", "confirm"}

\* A reading a thread took is not ahead of the clock.
Reading(now) == now \in Time /\ now <= clock

\* A call that entered has its readings; one that dispatches walks a part of
\* its list of targets.
CallRecord ==
  [pc : Phase, now : Time \cup {NoTime}, expiry : Time \cup {NoTime}, todo : SUBSET Nat]

Carries(q, c) ==
  /\ c.pc = "entered" => Reading(c.now)
  /\ c.pc \in {"entered", "dispatch", "confirm"} => c.expiry \in Time
  /\ c.todo \subseteq DOMAIN TargetsOf[q]
  /\ c.pc \in {"new", "invalid", "entered"} => c.todo = {}
  /\ c.pc = "confirm" => c.todo # {}

CallTypes ==
  /\ call \in [Request -> CallRecord]
  /\ \A q \in Request : Carries(q, call[q])

StreamTypes ==
  /\ link \in [Robot -> {"none", "open", "broken"}]
  /\ down \in [Robot -> Seq(Request)]
  /\ up \in [Robot -> Seq(Request)]
  /\ reader \in [Robot -> {<<>>} \cup Request \X Time]
  /\ \A r \in Robot : reader[r] # <<>> => reader[r][1] \in Request /\ Reading(reader[r][2])
  /\ handed \subseteq Request \X Robot

SubTypes ==
  /\ sub \in [Subscriber -> [pc : {"off", "loop", "sweep", "write"}, now : Time \cup {NoTime}]]
  /\ \A s \in Subscriber : sub[s].pc = "sweep" => Reading(sub[s].now)

Types == clock \in Time /\ Known!IInv /\ CallTypes /\ StreamTypes /\ SubTypes

\* Every set of entries of a list has a first one.
LEMMA FirstOf ==
  ASSUME NEW T, T \subseteq Nat, T # {}
  PROVE  \E m \in T : \A k \in T : m <= k
<1> DEFINE R == {ss \in Nat \X Nat : ss[1] < ss[2]}
<1>1. IsWellFoundedOn(R, Nat)
  BY NatLessThanWellFounded DEF OpToRel
<1> HIDE DEF R
<1>2. PICK m \in T : \A k \in T : <<k, m>> \notin R
  BY <1>1, WFMin
<1>3. \A k \in T : ~(k < m)
  BY <1>2 DEF R
<1> QED BY <1>3

\* The entry the dispatch loop is at is one that is still to do.
LEMMA CurrentIsTodo ==
  ASSUME CallTypes, NEW q \in Request, call[q].todo # {}
  PROVE  Current(q) \in call[q].todo /\ TargetsOf[q][Current(q)] \in Robot
<1>1. call[q].todo \subseteq Nat /\ call[q].todo \subseteq DOMAIN TargetsOf[q]
  BY TargetsAreList DEF CallTypes, Carries
<1>2. PICK m \in call[q].todo : \A k \in call[q].todo : m <= k
  BY <1>1, FirstOf
<1>3. Current(q) \in call[q].todo
  BY <1>2 DEF Current
<1> QED BY <1>1, <1>3, TargetsAreList

LEMMA TypesInit == Init => Types
<1> SUFFICES ASSUME Init PROVE Types
  OBVIOUS
<1>1. Known!IInv
  BY KnownAssumptions, Known!InitIInv DEF Init, Tracker!Init, Known!Init
<1>2. clock \in Time /\ CallTypes /\ SubTypes
  BY TrackerAssumption
     DEF Init, Time, CallTypes, CallRecord, Carries, SubTypes, NoCall, Phase
<1>3. StreamTypes
  BY DEF Init, StreamTypes
<1> QED BY <1>1, <1>2, <1>3 DEF Types

\* A step of one call touches its own record only.
LEMMA CallUpdate ==
  ASSUME CallTypes, NEW q \in Request, NEW c \in CallRecord, Carries(q, c),
         call' = [call EXCEPT ![q] = c], UNCHANGED clock
  PROVE  CallTypes'
<1>1. call' \in [Request -> CallRecord]
  BY DEF CallTypes
<1>2. ASSUME NEW p \in Request PROVE Carries(p, call[p])'
  <2>1. Carries(p, call'[p])
    BY DEF CallTypes
  <2> QED BY <2>1 DEF Carries, Reading
<1> QED BY <1>1, <1>2 DEF CallTypes

LEMMA EnterTypes ==
  ASSUME Types, NEW q \in Request, Enter(q) PROVE Types'
<1>1. CallTypes'
  <2>1. CASE call' = [call EXCEPT ![q].pc = "invalid"]
    <3> DEFINE c == [call[q] EXCEPT !.pc = "invalid"]
    <3>1. call[q] \in CallRecord /\ call[q].pc = "new" /\ Carries(q, call[q])
      BY DEF Enter, Types, CallTypes
    <3>2. c \in CallRecord /\ Carries(q, c)
      BY <3>1 DEF CallRecord, Carries, Phase
    <3>3. call' = [call EXCEPT ![q] = c]
      BY <2>1 DEF Types, CallTypes
    <3> HIDE DEF c
    <3> QED BY <3>2, <3>3, CallUpdate DEF Enter, Types
  <2>2. ASSUME NEW expiry \in ExpiryTimes,
               call' = [call EXCEPT ![q].pc = "entered", ![q].now = clock, ![q].expiry = expiry]
        PROVE  CallTypes'
    <3> DEFINE c == [call[q] EXCEPT !.pc = "entered", !.now = clock, !.expiry = expiry]
    <3>1. expiry \in Time /\ clock \in Time /\ Reading(clock)
      BY ExpiryAssumption DEF Types, Time, Reading
    <3>2. call[q] \in CallRecord /\ call[q].pc = "new" /\ Carries(q, call[q])
      BY DEF Enter, Types, CallTypes
    <3>3. c \in CallRecord /\ Carries(q, c)
      BY <3>1, <3>2 DEF CallRecord, Carries, Phase
    <3>4. call' = [call EXCEPT ![q] = c]
      BY <2>2 DEF Types, CallTypes
    <3> HIDE DEF c
    <3> QED BY <3>3, <3>4, CallUpdate DEF Enter, Types
  <2> QED BY <2>1, <2>2 DEF Enter
<1> QED BY <1>1 DEF Enter, Types, Links, History, Known!IInv, Known!TypeOK,
            Known!CompletedIffSettled, StreamTypes, SubTypes, Reading

LEMMA SubmitTypes ==
  ASSUME Types, NEW q \in Request, Submit(q) PROVE Types'
<1>1. PICK offline \in [DOMAIN TargetsOf[q] -> BOOLEAN] :
        /\ Tracker!onCommandSubmitted(IdOf[q], TargetsOf[q], offline, call[q].expiry, call[q].now)
        /\ call' = [call EXCEPT ![q].pc = "dispatch",
                                ![q].todo = Tracker!ToDispatch(TargetsOf[q], offline)]
  BY DEF Submit
<1>2. Known!IInv'
  BY <1>1, SubmitEffect DEF Submit, Types, CallTypes, Carries, Reading
<1>3. /\ Tracker!ToDispatch(TargetsOf[q], offline) \subseteq DOMAIN TargetsOf[q]
      /\ Tracker!ToDispatch(TargetsOf[q], offline) \in SUBSET Nat
  BY TargetsAreList DEF Tracker!ToDispatch
<1>4. CallTypes'
  <2> DEFINE c == [call[q] EXCEPT !.pc = "dispatch",
                                  !.todo = Tracker!ToDispatch(TargetsOf[q], offline)]
  <2>1. c \in CallRecord /\ Carries(q, c) /\ call' = [call EXCEPT ![q] = c]
    <3>1. call[q] \in CallRecord /\ call[q].pc = "entered" /\ Carries(q, call[q])
      BY DEF Submit, Types, CallTypes
    <3>2. c \in CallRecord /\ Carries(q, c)
      BY <1>3, <3>1 DEF CallRecord, Carries, Phase
    <3>3. call' = [call EXCEPT ![q] = c]
      BY <1>1 DEF Types, CallTypes
    <3> QED BY <3>2, <3>3
  <2> HIDE DEF c
  <2> QED BY <2>1, CallUpdate DEF Submit, Types
<1> QED BY <1>2, <1>4 DEF Submit, Types, Links, History, StreamTypes, SubTypes, Reading

LEMMA DispatchTypes ==
  ASSUME Types, NEW q \in Request, Dispatch(q) PROVE Types'
<1> DEFINE i == Current(q)
           r == TargetsOf[q][i]
<1>1. i \in call[q].todo /\ r \in Robot
  BY CurrentIsTodo DEF Dispatch, Types
<1>2. UNCHANGED <<clock, commands, link, up, reader, sub>>
  BY DEF Dispatch
<1>3. CallTypes'
  <2>1. PICK c \in {[call[q] EXCEPT !.todo = @ \ {i}], [call[q] EXCEPT !.pc = "confirm"]} :
          call' = [call EXCEPT ![q] = c]
    BY DEF Dispatch, Types, CallTypes
  <2>2. c \in CallRecord /\ Carries(q, c)
    <3> HIDE DEF i
    <3> QED BY <1>1 DEF Dispatch, Types, CallTypes, CallRecord, Carries, Phase
  <2> QED BY <1>2, <2>1, <2>2, CallUpdate DEF Types
<1>4. StreamTypes'
  <2>1. down' \in [Robot -> Seq(Request)]
    <3>1. PICK x \in Robot : down' = down \/ down' = [down EXCEPT ![x] = Append(down[x], q)]
      BY <1>1 DEF Dispatch
    <3>2. down \in [Robot -> Seq(Request)] /\ Append(down[x], q) \in Seq(Request)
      BY DEF Types, StreamTypes
    <3> QED BY <3>1, <3>2
  <2>2. handed' \subseteq Request \X Robot
    BY <1>1 DEF Dispatch, Types, StreamTypes
  <2> QED BY <1>2, <2>1, <2>2 DEF Types, StreamTypes, Reading
<1> QED BY <1>2, <1>3, <1>4 DEF Types, SubTypes, Reading, Known!IInv, Known!TypeOK,
            Known!CompletedIffSettled

LEMMA ConfirmTypes ==
  ASSUME Types, NEW q \in Request, Confirm(q) PROVE Types'
<1>1. Current(q) \in call[q].todo /\ TargetsOf[q][Current(q)] \in Robot
  BY CurrentIsTodo DEF Confirm, Types, CallTypes, Carries
<1>2. Known!IInv'
  BY <1>1, TargetsAreList, SentEffect DEF Confirm, Types
<1>3. CallTypes'
  <2> DEFINE c == [call[q] EXCEPT !.pc = "dispatch", !.todo = @ \ {Current(q)}]
  <2>1. c \in CallRecord /\ Carries(q, c) /\ call' = [call EXCEPT ![q] = c]
    BY DEF Confirm, Types, CallTypes, CallRecord, Carries, Phase
  <2> HIDE DEF c
  <2> QED BY <2>1, CallUpdate DEF Confirm, Types
<1> QED BY <1>2, <1>3 DEF Confirm, Types, Links, History, StreamTypes, SubTypes, Reading

LEMMA StreamStepTypes ==
  ASSUME Types, NEW r \in Robot, Stream(r) \/ Execute(r) \/ ReadResult(r) PROVE Types'
<1>1. UNCHANGED <<clock, commands, call, sub>>
  BY DEF Stream, LinkUp, Break, Unlink, Execute, ReadResult, History
<1>2. StreamTypes'
  <2>1. CASE Stream(r)
    <3>1. link' \in [Robot -> {"none", "open", "broken"}] /\ UNCHANGED <<clock, reader, handed>>
      BY <2>1 DEF Types, StreamTypes, Stream, LinkUp, Break, Unlink, History
    <3>2. down' \in [Robot -> Seq(Request)] /\ up' \in [Robot -> Seq(Request)]
      <4>1. <<>> \in Seq(Request)
        OBVIOUS
      <4> QED BY <2>1, <4>1 DEF Types, StreamTypes, Stream, LinkUp, Break, Unlink
    <3> QED BY <3>1, <3>2 DEF Types, StreamTypes, Reading
  <2>2. CASE Execute(r)
    <3>1. down[r] \in Seq(Request) /\ down[r] # <<>>
      BY <2>2 DEF Execute, Types, StreamTypes
    <3>2. Head(down[r]) \in Request /\ Tail(down[r]) \in Seq(Request)
      BY <3>1
    <3>3. down' \in [Robot -> Seq(Request)]
      BY <2>2, <3>2 DEF Execute, Types, StreamTypes
    <3>4. up' \in [Robot -> Seq(Request)]
      BY <2>2, <3>2 DEF Execute, Types, StreamTypes
    <3> QED BY <2>2, <3>3, <3>4 DEF Execute, Types, StreamTypes, Reading
  <2>3. CASE ReadResult(r)
    <3>1. up[r] \in Seq(Request) /\ up[r] # <<>>
      BY <2>3 DEF ReadResult, Types, StreamTypes
    <3>2. Head(up[r]) \in Request /\ Tail(up[r]) \in Seq(Request)
      BY <3>1
    <3>3. up' \in [Robot -> Seq(Request)]
      BY <2>3, <3>2 DEF ReadResult, Types, StreamTypes
    <3>4. Reading(clock)
      BY DEF Types, Time, Reading
    <3>5. /\ reader' \in [Robot -> {<<>>} \cup Request \X Time]
          /\ reader'[r][1] = Head(up[r]) /\ reader'[r][2] = clock
          /\ \A s \in Robot \ {r} : reader'[s] = reader[s]
      BY <2>3, <3>2 DEF ReadResult, Types, StreamTypes
    <3>6. \A s \in Robot : reader'[s] # <<>> => reader'[s][1] \in Request /\ Reading(reader'[s][2])
      BY <3>2, <3>4, <3>5 DEF Types, StreamTypes
    <3> QED BY <1>1, <2>3, <3>3, <3>5, <3>6 DEF ReadResult, Types, StreamTypes, History, Reading
  <2> QED BY <2>1, <2>2, <2>3
<1> QED BY <1>1, <1>2 DEF Types, CallTypes, Carries, SubTypes, Reading, Known!IInv, Known!TypeOK,
            Known!CompletedIffSettled

LEMMA RecordTypes ==
  ASSUME Types, NEW r \in Robot, RecordResult(r) PROVE Types'
<1> DEFINE q == reader[r][1]
<1>1. q \in Request /\ reader[r][2] \in Time
  BY DEF RecordResult, Types, StreamTypes, Reading
<1>2. Known!IInv'
  BY <1>1, TargetsAreList, ResultEffect DEF RecordResult, Types, Verdict
<1>3. StreamTypes'
  BY DEF RecordResult, Types, StreamTypes, History, Reading
<1> QED BY <1>2, <1>3 DEF RecordResult, Types, CallTypes, Carries, SubTypes, Reading

LEMMA FrameTypes ==
  ASSUME Types, NEW s \in Subscriber, Connect(s) \/ Frame(s) PROVE Types'
<1>1. Known!IInv'
  <2>1. CASE SweepFrame(s)
    BY <2>1, SweepEffect DEF SweepFrame, Types, SubTypes, Reading
  <2>2. CASE ~SweepFrame(s)
    BY <2>2 DEF Frame, Connect, StartFrame, WriteFrame, Types, Known!IInv, Known!TypeOK,
                Known!CompletedIffSettled
  <2> QED BY <2>1, <2>2
<1>2. SubTypes' /\ UNCHANGED <<clock, call, Links, History>>
  BY DEF Frame, Connect, StartFrame, SweepFrame, WriteFrame, Types, SubTypes, Time, Reading
<1> QED BY <1>1, <1>2 DEF Types, Links, History, CallTypes, Carries, StreamTypes, Reading

LEMMA TickTypes == ASSUME Types, Tick PROVE Types'
<1>1. clock' \in Time /\ \A now : Reading(now) => Reading(now)'
  BY TrackerAssumption DEF Tick, Types, Time, Reading
<1> QED BY <1>1 DEF Tick, Types, Links, History, CallTypes, Carries, StreamTypes, SubTypes,
            Known!IInv, Known!TypeOK, Known!CompletedIffSettled

LEMMA TypesStep == Types /\ [Next]_vars => Types'
<1> SUFFICES ASSUME Types, [Next]_vars PROVE Types'
  OBVIOUS
<1>1. ASSUME NEW q \in Request, Operator(q) PROVE Types'
  BY <1>1, EnterTypes, SubmitTypes, DispatchTypes, ConfirmTypes DEF Operator
<1>2. ASSUME NEW r \in Robot, Stream(r) \/ RobotStep(r) PROVE Types'
  BY <1>2, StreamStepTypes, RecordTypes DEF RobotStep
<1>3. CASE UNCHANGED vars
  BY <1>3 DEF vars, Types, CallTypes, Carries, StreamTypes, SubTypes, Reading, Known!IInv, Known!TypeOK,
              Known!CompletedIffSettled
<1> QED BY <1>1, <1>2, <1>3, FrameTypes, TickTypes DEF Next

LEMMA TypesAlways == Spec => []Types
BY TypesInit, TypesStep, PTL DEF Spec

-----------------------------------------------------------------------------
(* What is dropped.                                                        *)

\* The entry of a command goes away only in a sweep, and the reading of that
\* sweep, which is not ahead of the clock, is Retention after the reading at
\* which its last target was settled: a thread that carries an old reading
\* into the tracker drops nothing early.
THEOREM DropIsLate == Spec => DroppedOnlyAfterRetention
<1> DEFINE Late == \A c \in DOMAIN commands \ DOMAIN commands' :
                     /\ Tracker!Settled(commands[c])
                     /\ clock - commands[c].completed_at >= Retention
<1>1. ASSUME Types, [Next]_vars PROVE [Late]_vars
  <2>1. ASSUME NEW s \in Subscriber, SweepFrame(s) PROVE Late
    <3>1. /\ sub[s].now \in Int /\ sub[s].now <= clock /\ clock \in Int
          /\ sub[s].now \in Time /\ Tracker!sweepExpired(sub[s].now)
      BY <1>1, <2>1 DEF SweepFrame, Types, SubTypes, Reading, Time
    <3>2. ASSUME NEW c \in DOMAIN commands \ DOMAIN commands'
          PROVE  /\ Tracker!Settled(commands[c])
                 /\ commands[c].completed_at \in Int
                 /\ sub[s].now - commands[c].completed_at >= Retention
      BY <1>1, <3>1, SweepEffect DEF Types, Time
    <3> QED BY <3>1, <3>2, TrackerAssumption
  <2>2. ASSUME NEW q \in Request, Operator(q) PROVE Late
    <3>1. CASE Submit(q)
      <4>1. DOMAIN commands \subseteq DOMAIN commands'
        BY <3>1 DEF Submit, Tracker!onCommandSubmitted
      <4> QED BY <4>1
    <3>2. CASE Confirm(q)
      <4>1. TargetsOf[q][Current(q)] \in Robot
        BY <1>1, <3>2, CurrentIsTodo DEF Confirm, Types, CallTypes, Carries
      <4>2. DOMAIN commands' = DOMAIN commands
        BY <1>1, <3>2, <4>1, TargetsAreList, SentEffect DEF Confirm, Types
      <4> QED BY <4>2
    <3> QED BY <2>2, <3>1, <3>2 DEF Operator, Enter, Dispatch
  <2>3. ASSUME NEW r \in Robot, Stream(r) \/ RobotStep(r) PROVE Late
    <3>1. CASE RecordResult(r)
      <4>1. reader[r][1] \in Request /\ reader[r][2] \in Time
        BY <1>1, <3>1 DEF RecordResult, Types, StreamTypes, Reading
      <4>2. DOMAIN commands' = DOMAIN commands
        BY <1>1, <3>1, <4>1, TargetsAreList, ResultEffect DEF RecordResult, Types, Verdict
      <4> QED BY <4>2
    <3> QED BY <2>3, <3>1 DEF Stream, RobotStep, LinkUp, Break, Unlink, Execute, ReadResult
  <2> QED BY <1>1, <2>1, <2>2, <2>3
          DEF Next, Connect, Frame, StartFrame, WriteFrame, Tick, vars
<1> QED BY <1>1, TypesAlways, PTL DEF Spec, DroppedOnlyAfterRetention

-----------------------------------------------------------------------------
(* Where a result comes from.                                              *)

On(queue) == {queue[i] : i \in DOMAIN queue}

LEMMA QueueFacts ==
  ASSUME NEW S, NEW queue \in Seq(S)
  PROVE  /\ \A e \in S : On(Append(queue, e)) = On(queue) \cup {e}
         /\ queue # <<>> => /\ Head(queue) \in On(queue)
                            /\ On(Tail(queue)) \subseteq On(queue)
<1>1. ASSUME NEW e \in S PROVE On(Append(queue, e)) = On(queue) \cup {e}
  <2>1. /\ DOMAIN queue = 1 .. Len(queue) /\ Len(queue) \in Nat
        /\ DOMAIN Append(queue, e) = 1 .. Len(queue) + 1
        /\ Append(queue, e)[Len(queue) + 1] = e
        /\ \A i \in 1 .. Len(queue) : Append(queue, e)[i] = queue[i]
    OBVIOUS
  <2>2. 1 .. Len(queue) + 1 = (1 .. Len(queue)) \cup {Len(queue) + 1}
    BY <2>1
  <2> QED BY <2>1, <2>2 DEF On
<1>2. ASSUME queue # <<>> PROVE Head(queue) \in On(queue) /\ On(Tail(queue)) \subseteq On(queue)
  <2>1. /\ DOMAIN queue = 1 .. Len(queue) /\ Len(queue) \in Nat \ {0}
        /\ Head(queue) = queue[1]
        /\ DOMAIN Tail(queue) = 1 .. Len(queue) - 1
        /\ \A i \in 1 .. Len(queue) - 1 : Tail(queue)[i] = queue[i + 1]
    BY <1>2
  <2> QED BY <2>1 DEF On
<1> QED BY <1>1, <1>2

\* The robot has answered the request, and applied it if it says so.
Answered(q, r) ==
  /\ <<q, r>> \in handed
  /\ q \notin Refused => <<q, r>> \in executed

\* What is on its way down was handed over, and what is on its way up was
\* answered by the robot whose stream it is on.
OnTheWay ==
  \A r \in Robot :
    /\ \A q \in On(down[r]) : <<q, r>> \in handed
    /\ \A q \in On(up[r]) : Answered(q, r)
    /\ reader[r] # <<>> => Answered(reader[r][1], r)

\* A robot applies only what was handed over and what applyParams accepts.
AppliedIsHanded ==
  \A q \in Request, r \in Robot :
    <<q, r>> \in executed => <<q, r>> \in handed /\ q \notin Refused

\* The loop hands a target over when it is at its entry and not before.
HandedInTurn ==
  \A q \in Request :
    /\ call[q].pc \in {"new", "invalid", "entered"} => \A r \in Robot : <<q, r>> \notin handed
    /\ call[q].pc = "dispatch" => \A i \in call[q].todo : <<q, TargetsOf[q][i]>> \notin handed
    /\ call[q].pc = "confirm" =>
         /\ <<q, TargetsOf[q][Current(q)]>> \in handed
         /\ \A i \in call[q].todo \ {Current(q)} : <<q, TargetsOf[q][i]>> \notin handed

Origins == OnTheWay /\ AppliedIsHanded /\ HandedInTurn

LEMMA OriginsInit == Init => Origins
BY DEF Init, NoCall, Origins, OnTheWay, AppliedIsHanded, HandedInTurn, On

\* What a step of a call leaves alone.
LEMMA EnterOrSubmitOrigins ==
  ASSUME Types, Origins, NEW q \in Request, Enter(q) \/ Submit(q) PROVE Origins'
<1>1. UNCHANGED <<down, up, reader, handed, executed>>
  BY DEF Enter, Submit, Links, History
<1>2. /\ call[q].pc \in {"new", "entered"} /\ call'[q].pc \in {"invalid", "entered", "dispatch"}
      /\ call'[q].todo \subseteq DOMAIN TargetsOf[q]
      /\ \A p \in Request \ {q} : call'[p] = call[p]
  <2>1. call' \in [Request -> CallRecord] /\ Carries(q, call[q])'
    BY EnterTypes, SubmitTypes DEF Types, CallTypes
  <2> QED BY <2>1 DEF Enter, Submit, Types, CallTypes, CallRecord, Carries
<1>3. ASSUME NEW p \in Request
      PROVE  /\ call'[p].pc \in {"new", "invalid", "entered"} =>
                  \A r \in Robot : <<p, r>> \notin handed
             /\ call'[p].pc = "dispatch" =>
                  \A i \in call'[p].todo : <<p, TargetsOf[p][i]>> \notin handed
             /\ call'[p].pc = "confirm" =>
                  /\ <<p, TargetsOf[p][Current(p)']>> \in handed
                  /\ \A i \in call'[p].todo \ {Current(p)'} : <<p, TargetsOf[p][i]>> \notin handed
  <2>1. CASE p = q
    <3>1. \A r \in Robot : <<q, r>> \notin handed
      BY <1>2 DEF Origins, HandedInTurn
    <3> QED BY <1>2, <2>1, <3>1, TargetsAreList
  <2>2. CASE p # q
    <3>1. call'[p] = call[p] /\ Current(p)' = Current(p)
      BY <1>2, <2>2 DEF Current
    <3> QED BY <3>1 DEF Origins, HandedInTurn
  <2> QED BY <2>1, <2>2
<1>4. HandedInTurn'
  BY <1>1, <1>3 DEF HandedInTurn
<1> QED BY <1>1, <1>4 DEF Origins, OnTheWay, AppliedIsHanded, Answered

LEMMA DispatchOrigins ==
  ASSUME Types, Origins, NEW q \in Request, Dispatch(q) PROVE Origins'
<1> DEFINE i == Current(q)
           r == TargetsOf[q][i]
<1>1. /\ i \in call[q].todo /\ r \in Robot /\ call[q].pc = "dispatch"
      /\ call[q].todo \subseteq DOMAIN TargetsOf[q]
      /\ \A j \in call[q].todo \ {i} : TargetsOf[q][j] # r
  <2>1. call[q].pc = "dispatch" /\ call[q].todo # {} /\ Carries(q, call[q])
    BY DEF Dispatch, Types, CallTypes
  <2> QED BY <2>1, CurrentIsTodo, RequestAssumption DEF Types, Carries
<1>2. UNCHANGED <<up, reader, executed>>
  BY DEF Dispatch
<1>3. /\ \A p \in Request \ {q} : call'[p] = call[p] /\ Current(p)' = Current(p)
      /\ \/ /\ call'[q].pc = "dispatch" /\ call'[q].todo = call[q].todo \ {i}
            /\ UNCHANGED <<down, handed>>
         \/ /\ call'[q].pc = "confirm" /\ call'[q].todo = call[q].todo
            /\ down' = down \/ down' = [down EXCEPT ![r] = Append(@, q)]
            /\ handed' = handed \cup {<<q, r>>}
  <2>1. /\ \A p \in Request \ {q} : call'[p] = call[p]
        /\ \/ /\ call'[q].pc = "dispatch" /\ call'[q].todo = call[q].todo \ {i}
              /\ UNCHANGED <<down, handed>>
           \/ /\ call'[q].pc = "confirm" /\ call'[q].todo = call[q].todo
              /\ down' = down \/ down' = [down EXCEPT ![r] = Append(@, q)]
              /\ handed' = handed \cup {<<q, r>>}
    <3>1. call \in [Request -> CallRecord]
      BY DEF Types, CallTypes
    <3>2. CASE link[r] = "none"
      <4>1. call' = [call EXCEPT ![q].todo = @ \ {i}] /\ UNCHANGED <<down, handed>>
        BY <3>2 DEF Dispatch
      <4> QED BY <1>1, <3>1, <4>1 DEF CallRecord
    <3>3. CASE link[r] # "none"
      <4>1. /\ call' = [call EXCEPT ![q].pc = "confirm"]
            /\ down' = down \/ down' = [down EXCEPT ![r] = Append(@, q)]
            /\ handed' = handed \cup {<<q, r>>}
        BY <3>3, Zenon DEF Dispatch
      <4> QED BY <3>1, <4>1 DEF CallRecord
    <3> QED BY <3>2, <3>3
  <2> QED BY <2>1, Zenon DEF Current
<1>4. call'[q].pc = "confirm" => Current(q)' = i
  BY <1>1, <1>3, Zenon DEF Current
<1> HIDE DEF i, r
<1>5. OnTheWay'
  <2>1. ASSUME NEW s \in Robot, NEW p \in On(down'[s]) PROVE <<p, s>> \in handed'
    <3>1. down \in [Robot -> Seq(Request)]
      BY DEF Types, StreamTypes
    <3>2. \/ p \in On(down[s])
          \/ s = r /\ p = q /\ <<q, r>> \in handed'
      <4>1. down[s] \in Seq(Request)
        BY <3>1
      <4>2. On(Append(down[s], q)) = On(down[s]) \cup {q}
        BY <4>1, QueueFacts
      <4>3. CASE down' = [down EXCEPT ![r] = Append(@, q)] /\ handed' = handed \cup {<<q, r>>}
        <5>1. down'[s] = IF s = r THEN Append(down[s], q) ELSE down[s]
          BY <3>1, <4>3
        <5> QED BY <2>1, <4>2, <4>3, <5>1
      <4>4. CASE down' = down
        BY <2>1, <4>4
      <4> QED BY <1>3, <4>3, <4>4
    <3> QED BY <1>3, <3>2 DEF Origins, OnTheWay
  <2>2. handed \subseteq handed'
    BY <1>3
  <2> QED BY <1>2, <2>1, <2>2 DEF Origins, OnTheWay, Answered
<1>6. AppliedIsHanded'
  BY <1>2, <1>3 DEF Origins, AppliedIsHanded
<1>7. HandedInTurn'
  <2>1. ASSUME NEW p \in Request, p # q
        PROVE  /\ call'[p] = call[p] /\ Current(p)' = Current(p)
               /\ \A s \in Robot : <<p, s>> \in handed' <=> <<p, s>> \in handed
               /\ call[p].todo \subseteq DOMAIN TargetsOf[p]
               /\ call[p].pc = "confirm" => TargetsOf[p][Current(p)] \in Robot
    BY <1>3, <2>1, CurrentIsTodo DEF Types, CallTypes, Carries
  <2>2. ASSUME NEW j \in call'[q].todo, j # i
        PROVE  <<q, TargetsOf[q][j]>> \notin handed'
    <3>1. /\ j \in call[q].todo
          /\ handed' \subseteq handed \cup {<<q, r>>}
      BY <1>3, <2>2
    <3>2. <<q, TargetsOf[q][j]>> \notin handed
      BY <1>1, <3>1 DEF Origins, HandedInTurn
    <3>3. TargetsOf[q][j] # r
      BY <1>1, <2>2, <3>1
    <3> QED BY <3>1, <3>2, <3>3
  <2>3. CASE call'[q].pc = "dispatch"
    BY <1>3, <2>1, <2>2, <2>3, TargetsAreList DEF Origins, HandedInTurn
  <2>4. CASE call'[q].pc = "confirm"
    <3>1. <<q, TargetsOf[q][i]>> \in handed' /\ Current(q)' = i
      BY <1>3, <1>4, <2>4 DEF r
    <3>2. ASSUME NEW p \in Request
          PROVE  /\ call'[p].pc \in {"new", "invalid", "entered"} =>
                      \A s \in Robot : <<p, s>> \notin handed'
                 /\ call'[p].pc = "dispatch" =>
                      \A j \in call'[p].todo : <<p, TargetsOf[p][j]>> \notin handed'
                 /\ call'[p].pc = "confirm" =>
                      /\ <<p, TargetsOf[p][Current(p)']>> \in handed'
                      /\ \A j \in call'[p].todo \ {Current(p)'} :
                           <<p, TargetsOf[p][j]>> \notin handed'
      <4>1. CASE p = q
        BY <2>2, <2>4, <3>1, <4>1
      <4>2. CASE p # q
        BY <2>1, <4>2, TargetsAreList DEF Origins, HandedInTurn
      <4> QED BY <4>1, <4>2
    <3> QED BY <3>2 DEF HandedInTurn
  <2> QED BY <1>3, <2>3, <2>4
<1> QED BY <1>5, <1>6, <1>7 DEF Origins

LEMMA ConfirmOrigins ==
  ASSUME Types, Origins, NEW q \in Request, Confirm(q) PROVE Origins'
<1>1. UNCHANGED <<down, up, reader, handed, executed>>
  BY DEF Confirm, Links, History
<1>2. /\ call[q].pc = "confirm" /\ call'[q].pc = "dispatch"
      /\ call'[q].todo = call[q].todo \ {Current(q)}
      /\ \A p \in Request \ {q} : call'[p] = call[p]
  BY DEF Confirm, Types, CallTypes, CallRecord
<1>3. \A p \in Request \ {q} : Current(p)' = Current(p)
  BY <1>2 DEF Current
<1> QED BY <1>1, <1>2, <1>3 DEF Origins, OnTheWay, AppliedIsHanded, HandedInTurn, Answered

\* Only a step of a call moves a dispatch loop.
LEMMA TurnKept ==
  ASSUME HandedInTurn, UNCHANGED <<call, handed>> PROVE HandedInTurn'
<1>1. \A q \in Request : Current(q)' = Current(q)
  BY DEF Current
<1> QED BY <1>1 DEF HandedInTurn

LEMMA StreamOrigins ==
  ASSUME Types, Origins, NEW r \in Robot, Stream(r) PROVE Origins'
<1>1. /\ UNCHANGED <<call, reader, handed, executed>>
      /\ \A s \in Robot : /\ down'[s] = down[s] \/ down'[s] = <<>>
                          /\ up'[s] = up[s] \/ up'[s] = <<>>
  BY DEF Stream, LinkUp, Break, Unlink, History, Types, StreamTypes
<1>2. On(<<>>) = {}
  BY DEF On
<1>3. OnTheWay'
  BY <1>1, <1>2 DEF Origins, OnTheWay, Answered
<1> QED BY <1>1, <1>3, TurnKept DEF Origins, AppliedIsHanded

LEMMA ExecuteOrigins ==
  ASSUME Types, Origins, NEW r \in Robot, Execute(r) PROVE Origins'
<1> DEFINE q == Head(down[r])
<1>1. /\ down[r] \in Seq(Request) /\ down[r] # <<>> /\ up[r] \in Seq(Request)
      /\ down \in [Robot -> Seq(Request)] /\ up \in [Robot -> Seq(Request)]
      /\ q \in Request
  <2>1. down[r] \in Seq(Request) /\ down[r] # <<>>
    BY DEF Execute, Types, StreamTypes
  <2> QED BY <2>1 DEF Types, StreamTypes
<1>2. q \in On(down[r]) /\ On(Tail(down[r])) \subseteq On(down[r])
  BY <1>1, QueueFacts
<1>3. <<q, r>> \in handed
  BY <1>2 DEF Origins, OnTheWay
<1>4. /\ down' = [down EXCEPT ![r] = Tail(@)]
      /\ up' = [up EXCEPT ![r] = Append(@, q)] \/ up' = up
      /\ executed' = IF q \in Refused THEN executed ELSE executed \cup {<<q, r>>}
      /\ UNCHANGED <<call, reader, handed>>
  BY DEF Execute, Verdict
<1>5. On(Append(up[r], q)) = On(up[r]) \cup {q}
  BY <1>1, QueueFacts
<1> HIDE DEF q
<1>6. executed \subseteq executed'
  BY <1>4
<1>7. OnTheWay'
  <2>1. ASSUME NEW s \in Robot, NEW p \in On(down'[s]) PROVE <<p, s>> \in handed'
    <3>1. p \in On(down[s])
      BY <1>1, <1>2, <1>4, <2>1
    <3> QED BY <1>4, <3>1 DEF Origins, OnTheWay
  <2>2. ASSUME NEW s \in Robot, NEW p \in On(up'[s]) PROVE Answered(p, s)'
    <3>1. CASE p \in On(up[s])
      BY <1>4, <1>6, <3>1 DEF Origins, OnTheWay, Answered
    <3>2. CASE p \notin On(up[s])
      <4>1. s = r /\ p = q
        <5>1. up' = [up EXCEPT ![r] = Append(@, q)]
          BY <1>4, <2>2, <3>2
        <5>2. up'[s] = IF s = r THEN Append(up[r], q) ELSE up[s]
          BY <1>1, <5>1
        <5> QED BY <1>5, <2>2, <3>2, <5>2
      <4> QED BY <1>3, <1>4, <4>1 DEF Answered
    <3> QED BY <3>1, <3>2
  <2> QED BY <1>4, <1>6, <2>1, <2>2 DEF Origins, OnTheWay, Answered
<1>8. AppliedIsHanded'
  BY <1>3, <1>4 DEF Origins, AppliedIsHanded
<1> QED BY <1>4, <1>7, <1>8, TurnKept DEF Origins

LEMMA ReadOrigins ==
  ASSUME Types, Origins, NEW r \in Robot, ReadResult(r) PROVE Origins'
<1>1. up[r] \in Seq(Request) /\ up[r] # <<>> /\ up \in [Robot -> Seq(Request)]
  BY DEF ReadResult, Types, StreamTypes
<1>2. Head(up[r]) \in On(up[r]) /\ On(Tail(up[r])) \subseteq On(up[r])
  BY <1>1, QueueFacts
<1>3. /\ UNCHANGED <<call, down, handed, executed>>
      /\ up' = [up EXCEPT ![r] = Tail(@)]
      /\ reader'[r][1] = Head(up[r])
      /\ \A s \in Robot \ {r} : reader'[s] = reader[s]
  BY DEF ReadResult, History, Types, StreamTypes
<1>4. \A s \in Robot : On(up'[s]) \subseteq On(up[s])
  BY <1>1, <1>2, <1>3
<1>5. OnTheWay'
  BY <1>2, <1>3, <1>4 DEF Origins, OnTheWay, Answered
<1> QED BY <1>3, <1>5, TurnKept DEF Origins, AppliedIsHanded

LEMMA RecordOrigins ==
  ASSUME Types, Origins, NEW r \in Robot, RecordResult(r) PROVE Origins'
<1>1. /\ UNCHANGED <<call, down, up, handed, executed>>
      /\ \A s \in Robot : reader'[s] = reader[s] \/ reader'[s] = <<>>
  BY DEF RecordResult, History, Types, StreamTypes
<1> QED BY <1>1, TurnKept DEF Origins, OnTheWay, AppliedIsHanded, Answered

LEMMA OriginsStep == Types /\ Origins /\ [Next]_vars => Origins'
<1> SUFFICES ASSUME Types, Origins, [Next]_vars PROVE Origins'
  OBVIOUS
<1>1. ASSUME NEW q \in Request, Operator(q) PROVE Origins'
  BY <1>1, EnterOrSubmitOrigins, DispatchOrigins, ConfirmOrigins DEF Operator
<1>2. ASSUME NEW r \in Robot, Stream(r) \/ RobotStep(r) PROVE Origins'
  BY <1>2, StreamOrigins, ExecuteOrigins, ReadOrigins, RecordOrigins DEF RobotStep
<1>3. ASSUME UNCHANGED <<call, Links, History>> PROVE Origins'
  BY <1>3, TurnKept DEF Links, History, Origins, OnTheWay, AppliedIsHanded, Answered
<1>4. ASSUME NEW s \in Subscriber, Connect(s) \/ Frame(s) PROVE Origins'
  BY <1>3, <1>4 DEF Connect, Frame, StartFrame, SweepFrame, WriteFrame
<1>5. CASE Tick
  BY <1>3, <1>5 DEF Tick
<1>6. CASE UNCHANGED vars
  BY <1>3, <1>6 DEF vars, Links, History
<1> QED BY <1>1, <1>2, <1>4, <1>5, <1>6 DEF Next

LEMMA OriginsAlways == Spec => []Origins
BY OriginsInit, OriginsStep, TypesAlways, PTL DEF Spec

-----------------------------------------------------------------------------
(* What is told of a request whose id is its own.                          *)

UniqueIds == \A p, q \in Request : IdOf[p] = IdOf[q] => p = q

\* A request is tracked only when its call submitted it, under its expiry.
TrackedIsSubmitted ==
  \A q \in Request :
    IdOf[q] \in DOMAIN commands =>
      /\ call[q].pc \in {"dispatch", "confirm"}
      /\ commands[IdOf[q]].expiry = call[q].expiry

\* What the state of a target says of the link, the robot and the clock.
TruthOf(q, r) ==
  /\ StateOf(q, r) = "ROBOT_OFFLINE" =>
       /\ <<q, r>> \notin handed
       /\ \A i \in call[q].todo : TargetsOf[q][i] # r
  /\ StateOf(q, r) = "PENDING" /\ <<q, r>> \in handed =>
       call[q].pc = "confirm" /\ TargetsOf[q][Current(q)] = r
  /\ StateOf(q, r) = "SENT" => <<q, r>> \in handed
  /\ StateOf(q, r) = "APPLIED" => <<q, r>> \in executed
  /\ StateOf(q, r) = "REJECTED" => <<q, r>> \in handed /\ q \in Refused
  /\ StateOf(q, r) = "EXPIRED" => clock >= call[q].expiry

Truth == \A q \in Request, r \in Robot : TruthOf(q, r)

Told == TrackedIsSubmitted /\ Truth

\* StateOf reads the entry of the target, when there is one.
LEMMA StateIs ==
  ASSUME Known!IInv, NEW q \in Request, NEW r \in Robot
  PROVE  StateOf(q, r) =
           IF IdOf[q] \in DOMAIN commands /\ r \in DOMAIN commands[IdOf[q]].targets
           THEN commands[IdOf[q]].targets[r] ELSE "NONE"
<1>1. ASSUME IdOf[q] \in DOMAIN commands, r \in DOMAIN commands[IdOf[q]].targets
      PROVE  commands[IdOf[q]].targets[r] \in Tracker!TargetState
  BY <1>1, EntryIs DEF Known!TargetState, Tracker!TargetState, Known!InFlight, Tracker!InFlight,
                       Known!Terminal, Tracker!Terminal
<1> QED BY <1>1 DEF StateOf, Tracker!TargetIn

LEMMA EntryIsNext ==
  ASSUME Known!IInv', NEW c \in DOMAIN commands'
  PROVE  commands'[c].targets \in [DOMAIN commands'[c].targets -> Known!TargetState]
<1>1. commands'[c] \in Known!TrackedCommand
  BY DEF Known!IInv, Known!TypeOK
<1> QED BY <1>1, KnownAssumptions, Known!TrackedElim

LEMMA StateIsNext ==
  ASSUME Known!IInv', NEW q \in Request, NEW r \in Robot
  PROVE  StateOf(q, r)' =
           IF IdOf[q] \in DOMAIN commands' /\ r \in DOMAIN commands'[IdOf[q]].targets
           THEN commands'[IdOf[q]].targets[r] ELSE "NONE"
<1>1. ASSUME IdOf[q] \in DOMAIN commands', r \in DOMAIN commands'[IdOf[q]].targets
      PROVE  commands'[IdOf[q]].targets[r] \in Tracker!TargetState
  BY <1>1, EntryIsNext DEF Known!TargetState, Tracker!TargetState, Known!InFlight,
                           Tracker!InFlight, Known!Terminal, Tracker!Terminal
<1> QED BY <1>1 DEF StateOf, Tracker!TargetIn

LEMMA StateSame ==
  ASSUME UNCHANGED commands, NEW q \in Request, NEW r \in Robot
  PROVE  StateOf(q, r)' = StateOf(q, r)
BY DEF StateOf, Tracker!TargetIn

\* A target keeps its truth when its call and its hand-over are untouched.
LEMMA TruthKept ==
  ASSUME Types, TrackedIsSubmitted, NEW q \in Request, NEW r \in Robot, TruthOf(q, r),
         StateOf(q, r)' \in {StateOf(q, r), "NONE"}, call'[q] = call[q],
         <<q, r>> \in handed' <=> <<q, r>> \in handed,
         executed \subseteq executed', clock' \in Time, clock <= clock'
  PROVE  TruthOf(q, r)'
<1>1. Current(q)' = Current(q)
  BY DEF Current
<1>2. StateOf(q, r) # "NONE" => call[q].expiry \in Time
  BY StateIs, EntryIs DEF Types, TrackedIsSubmitted
<1>3. ASSUME StateOf(q, r)' = "EXPIRED" PROVE clock' >= call'[q].expiry
  BY <1>2, <1>3 DEF TruthOf, Types, Time
<1> QED BY <1>1, <1>3 DEF TruthOf

\* A step that touches no command, no call and no hand-over.
LEMMA ToldKept ==
  ASSUME Types, Told, UNCHANGED <<commands, call, handed>>,
         executed \subseteq executed', clock' \in Time, clock <= clock'
  PROVE  Told'
<1>1. ASSUME NEW q \in Request, NEW r \in Robot PROVE TruthOf(q, r)'
  BY StateSame, TruthKept DEF Told, Truth
<1> QED BY <1>1 DEF Told, Truth, TrackedIsSubmitted

LEMMA ToldInit == Init => Told
BY DEF Init, Tracker!Init, Told, TrackedIsSubmitted, Truth, TruthOf, StateOf, Tracker!TargetIn

LEMMA EnterTold ==
  ASSUME Types, Told, NEW q \in Request, Enter(q) PROVE Told'
<1>1. /\ UNCHANGED <<commands, handed, executed, clock>> /\ call[q].pc = "new"
      /\ \A p \in Request \ {q} : call'[p] = call[p]
  BY DEF Enter, History, Types, CallTypes
<1>2. IdOf[q] \notin DOMAIN commands
  BY <1>1 DEF Told, TrackedIsSubmitted
<1>3. \A r \in Robot : StateOf(q, r)' = "NONE"
  BY <1>1, <1>2 DEF StateOf, Tracker!TargetIn
<1>4. ASSUME NEW p \in Request, NEW r \in Robot PROVE TruthOf(p, r)'
  <2>1. CASE p = q
    BY <1>3, <2>1 DEF TruthOf
  <2>2. CASE p # q
    BY <1>1, <2>2, StateSame, TruthKept DEF Told, Truth, Types, Time
  <2> QED BY <2>1, <2>2
<1>5. TrackedIsSubmitted'
  BY <1>1, <1>2 DEF Told, TrackedIsSubmitted
<1> QED BY <1>4, <1>5 DEF Told, Truth

LEMMA SubmitTold ==
  ASSUME UniqueIds, Types, Origins, Told, NEW q \in Request, Submit(q) PROVE Told'
<1> DEFINE c == IdOf[q]
           list == TargetsOf[q]
<1>1. PICK offline \in [DOMAIN list -> BOOLEAN] :
        /\ Tracker!onCommandSubmitted(c, list, offline, call[q].expiry, call[q].now)
        /\ call' = [call EXCEPT ![q].pc = "dispatch", ![q].todo = Tracker!ToDispatch(list, offline)]
  BY DEF Submit
<1>2. /\ call[q].pc = "entered" /\ UNCHANGED <<handed, executed, clock>>
      /\ c \notin DOMAIN commands
      /\ \A r \in Robot : <<q, r>> \notin handed
  BY DEF Submit, History, Told, TrackedIsSubmitted, Origins, HandedInTurn
<1>3. /\ Known!IInv' /\ DOMAIN commands' = DOMAIN commands \cup {c}
      /\ \A d \in DOMAIN commands : commands'[d] = commands[d]
      /\ commands'[c].expiry = call[q].expiry
      /\ DOMAIN commands'[c].targets = {list[i] : i \in DOMAIN list}
      /\ \A i \in DOMAIN list :
           commands'[c].targets[list[i]] = IF offline[i] THEN "ROBOT_OFFLINE" ELSE "PENDING"
  <2>1. /\ Known!IInv /\ call[q].expiry \in Time /\ call[q].now \in Time
        /\ offline \in [DOMAIN TargetsOf[q] -> BOOLEAN]
        /\ Tracker!onCommandSubmitted(IdOf[q], TargetsOf[q], offline, call[q].expiry, call[q].now)
    BY <1>1, <1>2 DEF Types, CallTypes, Carries, Reading
  <2>2. /\ Known!IInv'
        /\ DOMAIN commands' = DOMAIN commands \cup {IdOf[q]}
        /\ \A d \in DOMAIN commands : commands'[d] = commands[d]
        /\ IdOf[q] \notin DOMAIN commands =>
             LET new == commands'[IdOf[q]]
             IN /\ new.expiry = call[q].expiry
                /\ DOMAIN new.targets = {TargetsOf[q][i] : i \in DOMAIN TargetsOf[q]}
                /\ \A i \in DOMAIN TargetsOf[q] :
                     new.targets[TargetsOf[q][i]] = IF offline[i] THEN "ROBOT_OFFLINE" ELSE "PENDING"
    BY <2>1, SubmitEffect
  <2> QED BY <1>2, <2>2
<1>4. /\ call'[q].pc = "dispatch" /\ call'[q].expiry = call[q].expiry
      /\ call'[q].todo = {i \in DOMAIN list : ~offline[i]}
      /\ \A p \in Request \ {q} : call'[p] = call[p]
  BY <1>1 DEF Types, CallTypes, CallRecord, Tracker!ToDispatch
<1>5. \A p \in Request \ {q} : IdOf[p] # c
  BY DEF UniqueIds
<1>6. ASSUME NEW p \in Request, NEW r \in Robot PROVE TruthOf(p, r)'
  <2>1. CASE p # q
    <3>1. StateOf(p, r)' = StateOf(p, r)
      BY <1>3, <1>5, <2>1, StateIs, StateIsNext DEF Types
    <3> QED BY <1>2, <1>4, <2>1, <3>1, TruthKept DEF Told, Truth, Types, Time
  <2>2. CASE p = q /\ \E i \in DOMAIN list : list[i] = r
    <3>1. PICK i \in DOMAIN list : list[i] = r
      BY <2>2
    <3>2. StateOf(q, r)' = IF offline[i] THEN "ROBOT_OFFLINE" ELSE "PENDING"
      BY <1>3, <3>1, StateIsNext
    <3>3. \A j \in DOMAIN list : list[j] = r => j = i
      BY <3>1, RequestAssumption
    <3>4. offline[i] => \A j \in call'[q].todo : list[j] # r
      BY <1>4, <3>3
    <3> QED BY <1>2, <2>2, <3>2, <3>4 DEF TruthOf
  <2>3. CASE p = q /\ ~\E i \in DOMAIN list : list[i] = r
    <3>1. StateOf(q, r)' = "NONE"
      BY <1>3, <2>3, StateIsNext
    <3> QED BY <2>3, <3>1 DEF TruthOf
  <2> QED BY <2>1, <2>2, <2>3
<1>7. TrackedIsSubmitted'
  BY <1>3, <1>4, <1>5 DEF Told, TrackedIsSubmitted
<1> QED BY <1>6, <1>7 DEF Told, Truth

LEMMA DispatchTold ==
  ASSUME Types, Told, NEW q \in Request, Dispatch(q) PROVE Told'
<1> DEFINE i == Current(q)
           t == TargetsOf[q][i]
<1>1. i \in call[q].todo /\ call[q].pc = "dispatch" /\ t \in Robot
  BY CurrentIsTodo DEF Dispatch, Types
<1>2. /\ UNCHANGED <<commands, clock, executed>>
      /\ \A p \in Request \ {q} : call'[p] = call[p]
      /\ call'[q].expiry = call[q].expiry
      /\ \/ /\ call'[q].pc = "dispatch" /\ call'[q].todo = call[q].todo \ {i}
            /\ handed' = handed
         \/ /\ call'[q].pc = "confirm" /\ call'[q].todo = call[q].todo
            /\ handed' = handed \cup {<<q, t>>}
  BY DEF Dispatch, Types, CallTypes, CallRecord
<1>3. call'[q].pc = "confirm" => TargetsOf[q][Current(q)'] = t
  BY <1>2 DEF Current
<1> HIDE DEF i, t
<1>4. ASSUME NEW p \in Request, NEW r \in Robot PROVE TruthOf(p, r)'
  <2>1. CASE p # q
    <3>1. <<p, r>> \in handed' <=> <<p, r>> \in handed
      BY <1>2, <2>1
    <3> QED BY <1>2, <2>1, <3>1, StateSame, TruthKept DEF Told, Truth, Types, Time
  <2>2. CASE p = q
    <3>1. StateOf(q, r)' = StateOf(q, r) /\ TruthOf(q, r)
      BY <1>2, StateSame DEF Told, Truth
    <3>2. call'[q].todo \subseteq call[q].todo /\ handed \subseteq handed'
      BY <1>2
    <3>3. StateOf(q, r) = "ROBOT_OFFLINE" =>
            <<q, r>> \notin handed' /\ \A j \in call'[q].todo : TargetsOf[q][j] # r
      <4>1. StateOf(q, r) = "ROBOT_OFFLINE" => r # t
        BY <1>1, <3>1 DEF TruthOf, t
      <4> QED BY <1>2, <3>1, <3>2, <4>1 DEF TruthOf
    <3>4. StateOf(q, r) = "PENDING" /\ <<q, r>> \in handed' =>
            call'[q].pc = "confirm" /\ TargetsOf[q][Current(q)'] = r
      BY <1>1, <1>2, <1>3, <3>1 DEF TruthOf
    <3> QED BY <1>2, <2>2, <3>1, <3>2, <3>3, <3>4 DEF TruthOf
  <2> QED BY <2>1, <2>2
<1>5. TrackedIsSubmitted'
  BY <1>2 DEF Told, TrackedIsSubmitted
<1> QED BY <1>4, <1>5 DEF Told, Truth

LEMMA ConfirmTold ==
  ASSUME UniqueIds, Types, Origins, Told, NEW q \in Request, Confirm(q) PROVE Told'
<1> DEFINE c == IdOf[q]
<1>0. PICK t \in Robot : t = TargetsOf[q][Current(q)]
  BY CurrentIsTodo DEF Confirm, Types, CallTypes, Carries
<1>1. call[q].pc = "confirm" /\ <<q, t>> \in handed
  BY <1>0 DEF Confirm, Origins, HandedInTurn
<1>2. /\ call'[q].pc = "dispatch" /\ call'[q].todo \subseteq call[q].todo
      /\ call'[q].expiry = call[q].expiry
      /\ UNCHANGED <<handed, executed, clock>>
      /\ \A p \in Request \ {q} : call'[p] = call[p]
  BY DEF Confirm, History, Types, CallTypes, CallRecord
<1>3. /\ Known!IInv' /\ DOMAIN commands' = DOMAIN commands
      /\ \A d \in DOMAIN commands :
           /\ GoesOn(d)
           /\ \A s \in DOMAIN commands[d].targets :
                \/ commands'[d].targets[s] = commands[d].targets[s]
                \/ d = c /\ s = t /\ commands'[d].targets[s] = "SENT"
      /\ c \in DOMAIN commands /\ t \in DOMAIN commands[c].targets =>
           commands'[c].targets[t] # "PENDING"
  BY <1>0, TargetsAreList, SentEffect DEF Confirm, Types
<1>4. \A p \in Request \ {q} : IdOf[p] # c
  BY DEF UniqueIds
<1>5. ASSUME NEW p \in Request, NEW r \in Robot PROVE TruthOf(p, r)'
  <2>1. \/ StateOf(p, r)' = StateOf(p, r)
        \/ p = q /\ r = t /\ StateOf(p, r)' = "SENT"
    BY <1>3, <1>4, StateIs, StateIsNext DEF Types, GoesOn
  <2>2. CASE p # q
    BY <1>2, <2>1, <2>2, TruthKept DEF Told, Truth, Types, Time
  <2>3. CASE p = q
    <3>1. StateOf(q, t)' # "PENDING"
      BY <1>1, <1>3, StateIsNext DEF GoesOn
    <3>2. StateOf(q, r) = "PENDING" /\ <<q, r>> \in handed => r = t
      BY <1>0, <1>1 DEF Told, Truth, TruthOf
    <3> QED BY <1>1, <1>2, <2>1, <2>3, <3>1, <3>2 DEF Told, Truth, TruthOf
  <2> QED BY <2>2, <2>3
<1>6. TrackedIsSubmitted'
  BY <1>2, <1>3 DEF Told, TrackedIsSubmitted, GoesOn
<1> QED BY <1>5, <1>6 DEF Told, Truth

LEMMA RecordTold ==
  ASSUME UniqueIds, Types, Origins, Told, NEW r \in Robot, RecordResult(r) PROVE Told'
<1>0. PICK q \in Request, now \in Time : q = reader[r][1] /\ now = reader[r][2]
  BY DEF RecordResult, Types, StreamTypes, Reading
<1> DEFINE c == IdOf[q]
<1>1. Answered(q, r)
  BY <1>0 DEF RecordResult, Origins, OnTheWay
<1>2. UNCHANGED <<call, handed, executed, clock>>
  BY DEF RecordResult, History
<1>3. /\ Known!IInv' /\ DOMAIN commands' = DOMAIN commands
      /\ \A d \in DOMAIN commands :
           /\ GoesOn(d)
           /\ \A s \in DOMAIN commands[d].targets :
                \/ commands'[d].targets[s] = commands[d].targets[s]
                \/ /\ d = c /\ s = r
                   /\ commands'[d].targets[s] =
                        IF Verdict(q) = "RESULT_APPLIED" THEN "APPLIED" ELSE "REJECTED"
  BY <1>0, TargetsAreList, ResultEffect DEF RecordResult, Types, Verdict
<1>4. \A p \in Request \ {q} : IdOf[p] # c
  BY DEF UniqueIds
<1>5. ASSUME NEW p \in Request, NEW s \in Robot PROVE TruthOf(p, s)'
  <2>1. \/ StateOf(p, s)' = StateOf(p, s)
        \/ p = q /\ s = r /\ StateOf(p, s)' = IF q \in Refused THEN "REJECTED" ELSE "APPLIED"
    BY <1>3, <1>4, StateIs, StateIsNext DEF Types, GoesOn, Verdict
  <2>2. CASE StateOf(p, s)' = StateOf(p, s)
    BY <1>2, <2>2, TruthKept DEF Told, Truth, Types, Time
  <2>3. CASE p = q /\ s = r /\ StateOf(p, s)' = IF q \in Refused THEN "REJECTED" ELSE "APPLIED"
    BY <1>1, <1>2, <2>3 DEF TruthOf, Answered
  <2> QED BY <2>1, <2>2, <2>3
<1>6. TrackedIsSubmitted'
  BY <1>2, <1>3 DEF Told, TrackedIsSubmitted, GoesOn
<1> QED BY <1>5, <1>6 DEF Told, Truth

LEMMA SweepTold ==
  ASSUME Types, Told, NEW s \in Subscriber, SweepFrame(s) PROVE Told'
<1>0. PICK now \in Time : now = sub[s].now /\ now <= clock
  BY DEF SweepFrame, Types, SubTypes, Reading
<1>1. UNCHANGED <<call, handed, executed, clock>>
  BY DEF SweepFrame, History
<1>2. /\ Known!IInv' /\ DOMAIN commands' \subseteq DOMAIN commands
      /\ \A d \in DOMAIN commands' :
           /\ GoesOn(d)
           /\ \A r \in DOMAIN commands[d].targets :
                \/ commands'[d].targets[r] = commands[d].targets[r]
                \/ commands'[d].targets[r] = "EXPIRED" /\ now >= commands[d].expiry
  BY <1>0, SweepEffect DEF SweepFrame, Types
<1>3. ASSUME NEW p \in Request, NEW r \in Robot PROVE TruthOf(p, r)'
  <2>1. \/ StateOf(p, r)' \in {StateOf(p, r), "NONE"}
        \/ /\ StateOf(p, r)' = "EXPIRED" /\ IdOf[p] \in DOMAIN commands
           /\ now >= commands[IdOf[p]].expiry
    BY <1>2, StateIs, StateIsNext DEF Types, GoesOn
  <2>2. CASE StateOf(p, r)' \in {StateOf(p, r), "NONE"}
    BY <1>1, <2>2, TruthKept DEF Told, Truth, Types, Time
  <2>3. CASE /\ StateOf(p, r)' = "EXPIRED" /\ IdOf[p] \in DOMAIN commands
             /\ now >= commands[IdOf[p]].expiry
    <3>1. commands[IdOf[p]].expiry = call[p].expiry /\ call[p].expiry \in Int
      BY <2>3, EntryIs DEF Told, TrackedIsSubmitted, Types, Time
    <3>2. clock >= call[p].expiry
      BY <1>0, <2>3, <3>1 DEF Types, Time
    <3> QED BY <1>1, <2>3, <3>2 DEF TruthOf
  <2> QED BY <2>1, <2>2, <2>3
<1>4. TrackedIsSubmitted'
  BY <1>1, <1>2 DEF Told, TrackedIsSubmitted, GoesOn
<1> QED BY <1>3, <1>4 DEF Told, Truth

LEMMA ToldStep == UniqueIds /\ Types /\ Origins /\ Told /\ [Next]_vars => Told'
<1> SUFFICES ASSUME UniqueIds, Types, Origins, Told, [Next]_vars PROVE Told'
  OBVIOUS
<1>1. ASSUME UNCHANGED <<commands, call, handed, clock>>, executed \subseteq executed' PROVE Told'
  BY <1>1, ToldKept DEF Types, Time
<1>2. ASSUME NEW q \in Request, Operator(q) PROVE Told'
  BY <1>2, EnterTold, SubmitTold, DispatchTold, ConfirmTold DEF Operator
<1>3. ASSUME NEW r \in Robot, Stream(r) \/ RobotStep(r) PROVE Told'
  <2>1. CASE RecordResult(r)
    BY <2>1, RecordTold
  <2>2. CASE ~RecordResult(r)
    BY <1>1, <1>3, <2>2 DEF Stream, RobotStep, LinkUp, Break, Unlink, Execute, ReadResult, History
  <2> QED BY <2>1, <2>2
<1>4. ASSUME NEW s \in Subscriber, Connect(s) \/ Frame(s) PROVE Told'
  <2>1. CASE SweepFrame(s)
    BY <2>1, SweepTold
  <2>2. CASE ~SweepFrame(s)
    BY <1>1, <1>4, <2>2 DEF Connect, Frame, StartFrame, WriteFrame, History
  <2> QED BY <2>1, <2>2
<1>5. CASE Tick
  <2>1. clock' \in Time /\ clock <= clock'
    BY <1>5, TrackerAssumption DEF Tick, Types, Time
  <2> QED BY <1>5, <2>1, ToldKept DEF Tick, History
<1>6. CASE UNCHANGED vars
  BY <1>1, <1>6 DEF vars
<1> QED BY <1>2, <1>3, <1>4, <1>5, <1>6 DEF Next

LEMMA ToldAlways == ASSUME UniqueIds PROVE Spec => []Told
<1>1. Types /\ Origins /\ Told /\ [Next]_vars => Told'
  BY ToldStep
<1> QED BY <1>1, ToldInit, TypesAlways, OriginsAlways, PTL DEF Spec

\* A verdict is of what happened on the robot, whatever the order in which
\* the sending thread, the stream and the sweep enter the tracker, as long as
\* no client reuses an id.
THEOREM VerdictCorrect == ASSUME UniqueIds PROVE Spec => []VerdictMatchesRobot
<1>1. Origins /\ Told => VerdictMatchesRobot
  BY DEF Origins, AppliedIsHanded, Told, Truth, TruthOf, VerdictMatchesRobot
<1> QED BY <1>1, ToldAlways, OriginsAlways, PTL

\* SENT is told of what the gateway took; when the call has returned, what is
\* still PENDING was not taken.
THEOREM SentCorrect == ASSUME UniqueIds PROVE Spec => []SentIffHanded
<1>1. Told => SentIffHanded
  BY DEF Told, Truth, TruthOf, SentIffHanded, Returned
<1> QED BY <1>1, ToldAlways, PTL

\* EXPIRED is never told early: a sweep carries a reading the clock has
\* passed, and the expiry it compares is the one of the request.
THEOREM ExpiryCorrect == ASSUME UniqueIds PROVE Spec => []ExpiredNotEarly
<1>1. Told => ExpiredNotEarly
  BY DEF Told, Truth, TruthOf, ExpiredNotEarly
<1> QED BY <1>1, ToldAlways, PTL

-----------------------------------------------------------------------------
(* The path of a command is a behaviour of the tracker.                    *)

LEMMA StepIsTrackerStep ==
  ASSUME Types, [Next]_vars PROVE [Known!Next]_commands
<1>1. ASSUME NEW q \in Request, Submit(q) PROVE Known!Next
  <2>1. PICK offline \in [DOMAIN TargetsOf[q] -> BOOLEAN] :
          Tracker!onCommandSubmitted(IdOf[q], TargetsOf[q], offline, call[q].expiry, call[q].now)
    BY <1>1 DEF Submit
  <2>2. call[q].expiry \in Time /\ call[q].now \in Time
    BY <1>1 DEF Submit, Types, CallTypes, Carries, Reading
  <2>3. Known!onCommandSubmitted(IdOf[q], TargetsOf[q], offline, call[q].expiry, call[q].now)
    BY <2>1, SameSubmit
  <2> QED BY <2>2, <2>3, TargetsAreList DEF Known!Next, Known!Submit
<1>2. ASSUME NEW q \in Request, Confirm(q) PROVE Known!Next
  <2>1. TargetsOf[q][Current(q)] \in Robot
    BY <1>2, CurrentIsTodo DEF Confirm, Types, CallTypes, Carries
  <2>2. Known!onCommandSent(IdOf[q], TargetsOf[q][Current(q)])
    BY <1>2, SameSent DEF Confirm
  <2> QED BY <2>1, <2>2, TargetsAreList DEF Known!Next, Known!Sent
<1>3. ASSUME NEW r \in Robot, RecordResult(r) PROVE Known!Next
  <2>1. reader[r][1] \in Request /\ reader[r][2] \in Time
    BY <1>3 DEF RecordResult, Types, StreamTypes, Reading
  <2>2. Known!onCommandResult(IdOf[reader[r][1]], r, Verdict(reader[r][1]), reader[r][2])
    BY <1>3, SameResult DEF RecordResult
  <2>3. Verdict(reader[r][1]) \in Known!ResultCode
    BY DEF Verdict, Known!ResultCode
  <2> QED BY <2>1, <2>2, <2>3, TargetsAreList DEF Known!Next, Known!Result
<1>4. ASSUME NEW s \in Subscriber, SweepFrame(s) PROVE Known!Next
  <2>1. sub[s].now \in Time
    BY <1>4 DEF SweepFrame, Types, SubTypes, Reading
  <2>2. Known!sweepExpired(sub[s].now)
    BY <1>4, SameSweep DEF SweepFrame
  <2> QED BY <2>1, <2>2 DEF Known!Next, Known!Sweep
<1> QED BY <1>1, <1>2, <1>3, <1>4
        DEF Next, Operator, Enter, Dispatch, Stream, LinkUp, Break, Unlink, RobotStep, Execute,
            ReadResult, Connect, Frame, StartFrame, WriteFrame, Tick, vars

\* Whatever the threads do, the tracker sees calls its own module allows, so
\* that what is proved of it there holds here: the states an operator reads
\* of a command follow the life cycle.
THEOREM PathFollowsLifecycle == Spec => Known!ImplementsLifecycle
<1>1. Init => Known!Init
  BY DEF Init, Tracker!Init, Known!Init
<1>2. Types /\ [Next]_vars => [Known!Next]_commands
  BY StepIsTrackerStep
<1>3. Spec => Known!Spec
  BY <1>1, <1>2, TypesAlways, PTL DEF Spec, Known!Spec, Known!vars
<1>4. Known!Spec => Known!ImplementsLifecycle
  BY KnownAssumptions, Known!Refinement
<1> QED BY <1>3, <1>4, PTL
=============================================================================
