------------------------ MODULE CommandTrackerProofs ------------------------
(***************************************************************************)
(* Proofs about the command tracker, for every set of ids, robots and      *)
(* clock readings and every retention.                                     *)
(*                                                                         *)
(* The inductive invariant is TypeOK /\ CompletedIffSettled: the sweep     *)
(* decides by the completion stamp what it may drop, so that a dropped     *)
(* command had no target in flight follows only with the second conjunct.  *)
(***************************************************************************)
EXTENDS CommandTracker, TLAPS

-----------------------------------------------------------------------------
(* What the helpers on one tracked command return.                         *)

\* A record is a tracked command as soon as its three fields have their types.
LEMMA TrackedIntro ==
  ASSUME NEW expiry \in Time, NEW S \in SUBSET Robot,
         NEW targets \in [S -> TargetState], NEW stamp \in Time \cup {NoTime}
  PROVE  [expiry |-> expiry, targets |-> targets, completed_at |-> stamp]
           \in TrackedCommand
BY DEF TrackedCommand

\* The fields of a tracked command have their types.
LEMMA TrackedElim ==
  ASSUME NEW tc \in TrackedCommand
  PROVE  /\ tc.expiry \in Time
         /\ tc.completed_at \in Time \cup {NoTime}
         /\ DOMAIN tc.targets \subseteq Robot
         /\ tc.targets \in [DOMAIN tc.targets -> TargetState]
         /\ tc = [expiry |-> tc.expiry, targets |-> tc.targets,
                  completed_at |-> tc.completed_at]
BY DEF TrackedCommand

\* The optional is empty or holds a clock reading, never both.
LEMMA NoTimeIsNoReading == NoTime \notin Time
BY TimeAssumption, NoTimeAssumption

\* refreshCompletion changes the stamp only: it makes the stamp agree with
\* the targets of a command that had none, and keeps a stamp that is there.
LEMMA RefreshCorrect ==
  ASSUME NEW tc \in TrackedCommand, NEW now \in Time,
         tc.completed_at = NoTime \/ Settled(tc)
  PROVE  LET out == refreshCompletion(tc, now)
         IN  /\ out \in TrackedCommand
             /\ out.expiry = tc.expiry
             /\ out.targets = tc.targets
             /\ tc.completed_at # NoTime => out = tc
             /\ out.completed_at # NoTime <=> Settled(out)
<1>1. CASE tc.completed_at = NoTime /\ Settled(tc)
  <2>1. refreshCompletion(tc, now) =
          [expiry |-> tc.expiry, targets |-> tc.targets, completed_at |-> now]
    BY <1>1, TrackedElim DEF refreshCompletion, TrackedCommand
  <2> QED
    BY <1>1, <2>1, TrackedElim, TrackedIntro, NoTimeIsNoReading DEF Settled
<1>2. CASE ~(tc.completed_at = NoTime /\ Settled(tc))
  BY <1>2 DEF refreshCompletion, Settled
<1> QED BY <1>1, <1>2

\* A command as it leaves onCommandSubmitted: its targets are those of the
\* list, each in a first state, and an all-offline command is born settled.
LEMMA TrackedCorrect ==
  ASSUME NEW targets \in TargetList, NEW offline \in [DOMAIN targets -> BOOLEAN],
         NEW expiry \in Time, NEW now \in Time
  PROVE  LET out == Tracked(targets, offline, expiry, now)
         IN  /\ out \in TrackedCommand
             /\ \A r \in DOMAIN out.targets :
                  out.targets[r] \in {"PENDING", "ROBOT_OFFLINE"}
             /\ out.completed_at # NoTime <=> Settled(out)
<1> DEFINE S == {targets[i] : i \in DOMAIN targets}
           fresh == [expiry |-> expiry, targets |-> FanOut(targets, offline),
                     completed_at |-> NoTime]
<1>1. S \subseteq Robot
  BY DEF TargetList
<1>2. FanOut(targets, offline) \in [S -> {"PENDING", "ROBOT_OFFLINE"}]
  BY DEF FanOut
<1>3. fresh \in TrackedCommand
  <2>1. FanOut(targets, offline) \in [S -> TargetState]
    BY <1>2 DEF TargetState, InFlight, Terminal
  <2> QED BY <1>1, <2>1, TrackedIntro
<1>4. fresh.completed_at = NoTime /\ fresh.targets = FanOut(targets, offline)
  OBVIOUS
<1> HIDE DEF fresh
<1>5. /\ refreshCompletion(fresh, now) \in TrackedCommand
      /\ refreshCompletion(fresh, now).targets = FanOut(targets, offline)
      /\ refreshCompletion(fresh, now).completed_at # NoTime
           <=> Settled(refreshCompletion(fresh, now))
  BY <1>3, <1>4, RefreshCorrect
<1> QED BY <1>2, <1>5 DEF Tracked, fresh

\* A result touches a command that is not settled; it keeps its expiry and
\* its targets, moves one target forward and stamps the command if that was
\* the last one.
LEMMA WithResultCorrect ==
  ASSUME NEW tc \in TrackedCommand, NEW r \in DOMAIN tc.targets,
         NEW code \in ResultCode, NEW now \in Time,
         tc.targets[r] \in InFlight,
         tc.completed_at # NoTime <=> Settled(tc)
  PROVE  LET out == WithResult(tc, r, code, now)
         IN  /\ out \in TrackedCommand
             /\ out.expiry = tc.expiry
             /\ out.targets = [tc.targets EXCEPT ![r] = AfterResult(@, code)]
             /\ out.completed_at # NoTime <=> Settled(out)
<1> DEFINE moved == [tc EXCEPT !.targets[r] = AfterResult(@, code)]
<1>1. ~Settled(tc) /\ tc.completed_at = NoTime
  BY DEF Settled, InFlight, Terminal
<1>2. /\ moved.expiry = tc.expiry
      /\ moved.targets = [tc.targets EXCEPT ![r] = AfterResult(@, code)]
      /\ moved.completed_at = NoTime
      /\ moved = [expiry |-> moved.expiry, targets |-> moved.targets,
                  completed_at |-> moved.completed_at]
  BY <1>1 DEF TrackedCommand
<1>3. AfterResult(tc.targets[r], code) \in TargetState
  BY DEF AfterResult, TargetState, ResultCode, InFlight, Terminal
<1>4. moved \in TrackedCommand
  <2> DEFINE D == DOMAIN tc.targets
  <2>1. D \in SUBSET Robot /\ tc.targets \in [D -> TargetState] /\ tc.expiry \in Time
    BY TrackedElim
  <2>2. moved.targets \in [D -> TargetState]
    BY <1>2, <1>3, <2>1
  <2> HIDE DEF moved, D
  <2> QED BY <1>2, <2>1, <2>2, TrackedIntro
<1> HIDE DEF moved
<1>5. refreshCompletion(moved, now).completed_at # NoTime
        <=> Settled(refreshCompletion(moved, now))
  BY <1>2, <1>4, RefreshCorrect
<1> QED BY <1>2, <1>4, <1>5, RefreshCorrect DEF WithResult, moved

\* The first phase of the sweep leaves a settled command as it is, keeps
\* expiry and targets of the others and moves targets in flight to EXPIRED.
LEMMA ExpireCorrect ==
  ASSUME NEW tc \in TrackedCommand, NEW now \in Time,
         tc.completed_at # NoTime <=> Settled(tc)
  PROVE  LET out == Expire(tc, now)
         IN  /\ out \in TrackedCommand
             /\ out.expiry = tc.expiry
             /\ DOMAIN out.targets = DOMAIN tc.targets
             /\ \A r \in DOMAIN tc.targets :
                  \/ out.targets[r] = tc.targets[r]
                  \/ tc.targets[r] \in InFlight /\ out.targets[r] = "EXPIRED"
             /\ Settled(tc) => out = tc
             /\ out.completed_at # NoTime <=> Settled(out)
             /\ out.completed_at \in {tc.completed_at, now}
<1> DEFINE cut == [r \in DOMAIN tc.targets |->
                     IF tc.targets[r] \in InFlight THEN "EXPIRED" ELSE tc.targets[r]]
           aged == [tc EXCEPT !.targets = cut]
<1>1. CASE now < tc.expiry
  BY <1>1 DEF Expire, Expired
<1>2. CASE ~(now < tc.expiry)
  <2>1. aged = [expiry |-> tc.expiry, targets |-> cut,
                completed_at |-> tc.completed_at]
    BY DEF TrackedCommand
  <2>2. cut \in [DOMAIN tc.targets -> Terminal]
    BY TrackedElim DEF TargetState, Terminal
  <2>3. aged \in TrackedCommand
    <3> HIDE DEF cut, aged
    <3>1. cut \in [DOMAIN tc.targets -> TargetState]
      BY <2>2 DEF TargetState
    <3> QED BY <2>1, <3>1, TrackedElim, TrackedIntro
  <2>4. Settled(aged) /\ aged.targets = cut
    BY <2>1, <2>2 DEF Settled
  <2>5. Settled(tc) => aged = tc
    <3> SUFFICES ASSUME Settled(tc) PROVE aged = tc
      OBVIOUS
    <3>1. \A r \in DOMAIN tc.targets : tc.targets[r] \notin InFlight
      BY DEF Settled, Terminal, InFlight
    <3>2. cut = tc.targets
      BY <3>1, TrackedElim
    <3> QED BY <2>1, <3>2, TrackedElim
  <2>6. Expire(tc, now) = refreshCompletion(aged, now)
    BY <1>2 DEF Expire, Expired
  <2>7. aged.completed_at = tc.completed_at /\ aged.expiry = tc.expiry
    BY <2>1
  <2>8. refreshCompletion(aged, now).completed_at \in {tc.completed_at, now}
    BY <2>1 DEF refreshCompletion
  <2>9. \A r \in DOMAIN tc.targets :
          \/ cut[r] = tc.targets[r]
          \/ tc.targets[r] \in InFlight /\ cut[r] = "EXPIRED"
    OBVIOUS
  <2>10. DOMAIN cut = DOMAIN tc.targets
    OBVIOUS
  <2> HIDE DEF cut, aged
  <2>11. /\ Expire(tc, now) \in TrackedCommand
         /\ Expire(tc, now).expiry = tc.expiry
         /\ Expire(tc, now).targets = cut
         /\ aged.completed_at # NoTime => Expire(tc, now) = aged
         /\ Expire(tc, now).completed_at # NoTime <=> Settled(Expire(tc, now))
    BY <2>3, <2>4, <2>6, <2>7, RefreshCorrect
  <2>12. Settled(tc) => Expire(tc, now) = tc
    BY <2>5, <2>7, <2>11
  <2> QED BY <2>6, <2>8, <2>9, <2>10, <2>11, <2>12
<1> QED BY <1>1, <1>2

-----------------------------------------------------------------------------
(* What a step does to one command: nothing, or it is issued, kept with    *)
(* its targets moved forward, or dropped after it was settled.             *)

IInv == TypeOK /\ CompletedIffSettled

Issued(c) ==
  /\ c \notin DOMAIN commands
  /\ c \in DOMAIN commands'
  /\ \A r \in DOMAIN commands'[c].targets :
       commands'[c].targets[r] \in {"PENDING", "ROBOT_OFFLINE"}

Kept(c) ==
  /\ c \in DOMAIN commands \cap DOMAIN commands'
  /\ commands'[c].expiry = commands[c].expiry
  /\ DOMAIN commands'[c].targets = DOMAIN commands[c].targets
  /\ \A r \in DOMAIN commands[c].targets :
       \/ commands'[c].targets[r] = commands[c].targets[r]
       \/ <<commands[c].targets[r], commands'[c].targets[r]>> \in Lifecycle!Forward
  /\ Settled(commands[c]) => commands'[c] = commands[c]

Dropped(c) ==
  /\ c \in DOMAIN commands \ DOMAIN commands'
  /\ Settled(commands[c])

Absent(c) == c \notin DOMAIN commands \cup DOMAIN commands'

StepShape == \A c \in CommandId : Issued(c) \/ Kept(c) \/ Dropped(c) \/ Absent(c)

\* The invariant, one command at a time.
LEMMA IInvPointwise ==
  IInv <=> /\ DOMAIN commands \subseteq CommandId
           /\ commands = [c \in DOMAIN commands |-> commands[c]]
           /\ \A c \in DOMAIN commands :
                /\ commands[c] \in TrackedCommand
                /\ commands[c].completed_at # NoTime <=> Settled(commands[c])
BY DEF IInv, TypeOK, CompletedIffSettled

LEMMA SubmitStep ==
  ASSUME IInv, NEW c \in CommandId, NEW targets \in TargetList,
         NEW offline \in [DOMAIN targets -> BOOLEAN],
         NEW expiry \in Time, NEW now \in Time,
         onCommandSubmitted(c, targets, offline, expiry, now)
  PROVE  IInv' /\ StepShape
<1> DEFINE out == Tracked(targets, offline, expiry, now)
<1>1. /\ out \in TrackedCommand
      /\ \A r \in DOMAIN out.targets : out.targets[r] \in {"PENDING", "ROBOT_OFFLINE"}
      /\ out.completed_at # NoTime <=> Settled(out)
  BY TrackedCorrect
<1> HIDE DEF out
<1>2. /\ DOMAIN commands' = DOMAIN commands \cup {c}
      /\ commands' = [d \in DOMAIN commands' |-> commands'[d]]
      /\ \A d \in DOMAIN commands : commands'[d] = commands[d]
      /\ c \notin DOMAIN commands => commands'[c] = out
  BY DEF onCommandSubmitted, out
<1>3. IInv'
  <2>1. DOMAIN commands' \subseteq CommandId
    BY <1>2, IInvPointwise
  <2>2. ASSUME NEW d \in DOMAIN commands'
        PROVE  /\ commands'[d] \in TrackedCommand
               /\ commands'[d].completed_at # NoTime <=> Settled(commands'[d])
    BY <1>1, <1>2, IInvPointwise
  <2> QED BY <1>2, <2>1, <2>2 DEF IInv, TypeOK, CompletedIffSettled
<1>4. StepShape
  BY <1>1, <1>2 DEF StepShape, Issued, Kept, Absent
<1> QED BY <1>3, <1>4

\* A step that replaces one entry by a valid one that continues it.
LEMMA ReplaceStep ==
  ASSUME IInv, NEW c \in DOMAIN commands, NEW out \in TrackedCommand,
         commands' = [commands EXCEPT ![c] = out],
         out.completed_at # NoTime <=> Settled(out),
         Kept(c)
  PROVE  IInv' /\ StepShape
<1>1. /\ DOMAIN commands' = DOMAIN commands
      /\ commands' = [d \in DOMAIN commands' |-> commands'[d]]
      /\ commands'[c] = out
      /\ \A d \in DOMAIN commands \ {c} : commands'[d] = commands[d]
  BY IInvPointwise
<1>2. IInv'
  BY <1>1, IInvPointwise DEF IInv, TypeOK, CompletedIffSettled
<1>3. StepShape
  BY <1>1 DEF StepShape, Kept, Absent
<1> QED BY <1>2, <1>3

LEMMA StutterStep == ASSUME IInv, UNCHANGED commands PROVE IInv' /\ StepShape
BY DEF IInv, TypeOK, CompletedIffSettled, StepShape, Kept, Absent

LEMMA SentStep ==
  ASSUME IInv, NEW c \in CommandId, NEW r \in Robot, onCommandSent(c, r)
  PROVE  IInv' /\ StepShape
<1>1. CASE TargetIn(c, r, {"PENDING"})
  <2> DEFINE tc  == commands[c]
             out == [expiry |-> tc.expiry,
                     targets |-> [tc.targets EXCEPT ![r] = "SENT"],
                     completed_at |-> tc.completed_at]
  <2>1. /\ c \in DOMAIN commands /\ r \in DOMAIN tc.targets
        /\ tc.targets[r] = "PENDING"
        /\ tc \in TrackedCommand
        /\ tc.completed_at # NoTime <=> Settled(tc)
    BY <1>1, IInvPointwise DEF TargetIn
  <2>2. ~Settled(tc) /\ tc.completed_at = NoTime
    BY <2>1 DEF Settled, Terminal
  <2>3. commands' = [commands EXCEPT ![c] = out]
    <3>1. [tc EXCEPT !.targets[r] = "SENT"] = out
      BY <2>1 DEF TrackedCommand
    <3> QED BY <1>1, <3>1 DEF onCommandSent
  <2>4. [tc.targets EXCEPT ![r] = "SENT"] \in [DOMAIN tc.targets -> TargetState]
    BY <2>1, TrackedElim DEF TargetState, InFlight
  <2>5. out \in TrackedCommand
    <3> HIDE DEF tc
    <3> QED BY <2>1, <2>4, TrackedElim, TrackedIntro
  <2>6. out.targets[r] = "SENT" /\ r \in DOMAIN out.targets
    BY <2>1, TrackedElim
  <2>7. out.completed_at # NoTime <=> Settled(out)
    BY <2>2, <2>6 DEF Settled, Terminal
  <2>8. Kept(c)
    <3>1. commands'[c] = out /\ c \in DOMAIN commands'
      BY <2>1, <2>3, IInvPointwise
    <3>2. \A q \in DOMAIN tc.targets :
            \/ out.targets[q] = tc.targets[q]
            \/ <<tc.targets[q], out.targets[q]>> \in Lifecycle!Forward
      BY <2>1, TrackedElim DEF Lifecycle!Forward
    <3> QED BY <2>1, <2>2, <3>1, <3>2 DEF Kept
  <2> HIDE DEF out, tc
  <2> QED BY <2>1, <2>3, <2>5, <2>7, <2>8, ReplaceStep
<1>2. CASE ~TargetIn(c, r, {"PENDING"})
  BY <1>2, StutterStep DEF onCommandSent
<1> QED BY <1>1, <1>2

LEMMA ResultStep ==
  ASSUME IInv, NEW c \in CommandId, NEW r \in Robot, NEW code \in ResultCode,
         NEW now \in Time, onCommandResult(c, r, code, now)
  PROVE  IInv' /\ StepShape
<1>1. CASE TargetIn(c, r, InFlight)
  <2> DEFINE tc  == commands[c]
             out == WithResult(tc, r, code, now)
  <2>1. /\ c \in DOMAIN commands /\ r \in DOMAIN tc.targets
        /\ tc.targets[r] \in InFlight
        /\ tc \in TrackedCommand
        /\ tc.completed_at # NoTime <=> Settled(tc)
    BY <1>1, IInvPointwise DEF TargetIn
  <2>2. ~Settled(tc)
    BY <2>1 DEF Settled, InFlight, Terminal
  <2> HIDE DEF tc
  <2>3. /\ out \in TrackedCommand
        /\ out.expiry = tc.expiry
        /\ out.targets = [tc.targets EXCEPT ![r] = AfterResult(@, code)]
        /\ out.completed_at # NoTime <=> Settled(out)
    BY <2>1, WithResultCorrect
  <2>4. commands' = [commands EXCEPT ![c] = out]
    BY <1>1 DEF onCommandResult, tc
  <2>5. Kept(c)
    <3> HIDE DEF out
    <3>1. commands'[c] = out /\ c \in DOMAIN commands'
      BY <2>1, <2>4, IInvPointwise
    <3>2. \/ AfterResult(tc.targets[r], code) = tc.targets[r]
          \/ <<tc.targets[r], AfterResult(tc.targets[r], code)>> \in Lifecycle!Forward
      BY <2>1 DEF AfterResult, InFlight, Lifecycle!Forward
    <3>3. /\ DOMAIN out.targets = DOMAIN tc.targets
          /\ \A q \in DOMAIN tc.targets :
               \/ out.targets[q] = tc.targets[q]
               \/ <<tc.targets[q], out.targets[q]>> \in Lifecycle!Forward
      BY <2>1, <2>3, <3>2
    <3> QED BY <2>1, <2>2, <2>3, <3>1, <3>3 DEF Kept, tc
  <2> HIDE DEF out
  <2> QED BY <2>1, <2>3, <2>4, <2>5, ReplaceStep
<1>2. CASE ~TargetIn(c, r, InFlight)
  BY <1>2, StutterStep DEF onCommandResult
<1> QED BY <1>1, <1>2

LEMMA SweepStep ==
  ASSUME IInv, NEW now \in Time, sweepExpired(now)
  PROVE  IInv' /\ StepShape
<1> DEFINE aged == [c \in DOMAIN commands |-> Expire(commands[c], now)]
           kept == {c \in DOMAIN commands : Held(aged[c], now)}
<1>1. commands' = [c \in kept |-> aged[c]]
  BY DEF sweepExpired
<1>2. ASSUME NEW c \in DOMAIN commands
      PROVE  /\ aged[c] \in TrackedCommand
             /\ aged[c].expiry = commands[c].expiry
             /\ DOMAIN aged[c].targets = DOMAIN commands[c].targets
             /\ \A r \in DOMAIN commands[c].targets :
                  \/ aged[c].targets[r] = commands[c].targets[r]
                  \/ /\ commands[c].targets[r] \in InFlight
                     /\ aged[c].targets[r] = "EXPIRED"
             /\ Settled(commands[c]) => aged[c] = commands[c]
             /\ aged[c].completed_at # NoTime <=> Settled(aged[c])
             /\ aged[c].completed_at \in {commands[c].completed_at, now}
  BY IInvPointwise, ExpireCorrect
<1>3. ASSUME NEW c \in DOMAIN commands \ kept
      PROVE  Settled(commands[c])
  <2>1. /\ aged[c].completed_at # NoTime
        /\ ~(now - aged[c].completed_at < Retention)
    BY DEF Held
  <2>2. now \in Int /\ now - now < Retention
    BY TimeAssumption, RetentionAssumption
  <2>3. aged[c].completed_at = commands[c].completed_at
    BY <1>2, <2>1, <2>2
  <2> QED BY <2>1, <2>3, IInvPointwise
<1> HIDE DEF aged
<1>4. IInv'
  <2>1. DOMAIN commands' \subseteq CommandId
    BY <1>1, IInvPointwise
  <2> QED BY <1>1, <1>2, <2>1 DEF IInv, TypeOK, CompletedIffSettled
<1>5. ASSUME NEW c \in kept PROVE Kept(c)
  <2>1. /\ c \in DOMAIN commands \cap DOMAIN commands'
        /\ commands'[c] = aged[c]
    BY <1>1
  <2>2. \A r \in DOMAIN commands[c].targets :
          \/ aged[c].targets[r] = commands[c].targets[r]
          \/ <<commands[c].targets[r], aged[c].targets[r]>> \in Lifecycle!Forward
    BY <1>2 DEF Lifecycle!Forward, InFlight
  <2> QED BY <1>2, <2>1, <2>2 DEF Kept
<1>6. StepShape
  BY <1>1, <1>3, <1>5 DEF StepShape, Dropped, Absent
<1> QED BY <1>4, <1>6

LEMMA AnyStep == ASSUME IInv, [Next]_vars PROVE IInv' /\ StepShape
<1>1. CASE Submit
  BY <1>1, SubmitStep DEF Submit
<1>2. CASE Sent
  BY <1>2, SentStep DEF Sent
<1>3. CASE Result
  BY <1>3, ResultStep DEF Result
<1>4. CASE Sweep
  BY <1>4, SweepStep DEF Sweep
<1>5. CASE UNCHANGED vars
  BY <1>5, StutterStep DEF vars
<1> QED BY <1>1, <1>2, <1>3, <1>4, <1>5 DEF Next

LEMMA InitIInv == Init => IInv
BY DEF Init, IInv, TypeOK, CompletedIffSettled

-----------------------------------------------------------------------------
(* The theorems.                                                           *)

LEMMA Invariance == Spec => []IInv
<1>1. IInv /\ [Next]_vars => IInv'
  BY AnyStep
<1> QED BY <1>1, InitIInv, PTL DEF Spec

\* The map of the tracker only ever holds commands of the operators whose
\* fields have the types of command_tracker.hpp.
THEOREM TypeCorrect == Spec => []TypeOK
BY Invariance, PTL DEF IInv

\* A tracked command carries a completion stamp exactly when all its targets
\* are terminal, in every reachable state of the tracker.
THEOREM StampCorrect == Spec => []CompletedIffSettled
BY Invariance, PTL DEF IInv

\* No call changes the expiry or the target set of a tracked command, and no
\* call at all changes one that is settled.
THEOREM Stability == Spec => TrackedIsStable
<1> DEFINE Stable ==
      \A c \in DOMAIN commands \cap DOMAIN commands' :
        /\ commands'[c].expiry = commands[c].expiry
        /\ DOMAIN commands'[c].targets = DOMAIN commands[c].targets
        /\ Settled(commands[c]) => commands'[c] = commands[c]
<1>1. ASSUME IInv, [Next]_vars PROVE Stable
  <2>1. StepShape /\ DOMAIN commands \subseteq CommandId
    BY <1>1, AnyStep, IInvPointwise
  <2> QED BY <2>1 DEF StepShape, Issued, Kept, Dropped, Absent
<1>2. IInv /\ [Next]_vars => [Stable]_vars
  BY <1>1
<1> HIDE DEF Stable
<1>3. Spec => [][Stable]_vars
  BY <1>2, Invariance, PTL DEF Spec
<1> QED BY <1>3 DEF Stable, TrackedIsStable

\* The abstract state of one command, read off the map.
LEMMA StatusOf ==
  ASSUME NEW c \in CommandId, NEW r \in Robot,
         \A d \in DOMAIN commands : commands[d] \in TrackedCommand
  PROVE  /\ Status[c][r] \in Lifecycle!Status
         /\ c \in DOMAIN commands /\ r \in DOMAIN commands[c].targets
              => /\ Status[c][r] = commands[c].targets[r]
                 /\ Status[c][r] \in TargetState
         /\ ~(c \in DOMAIN commands /\ r \in DOMAIN commands[c].targets)
              => Status[c][r] = "NONE"
<1>1. c \in DOMAIN commands => commands[c].targets \in [DOMAIN commands[c].targets -> TargetState]
  BY TrackedElim
<1> QED
  BY <1>1 DEF Status, TargetIn, TargetState, InFlight, Terminal,
              Lifecycle!Status, Lifecycle!Final

\* The same for the next state.
LEMMA StatusOfNext ==
  ASSUME NEW c \in CommandId, NEW r \in Robot,
         \A d \in DOMAIN commands' : commands'[d] \in TrackedCommand
  PROVE  /\ Status'[c][r] \in Lifecycle!Status
         /\ c \in DOMAIN commands' /\ r \in DOMAIN commands'[c].targets
              => /\ Status'[c][r] = commands'[c].targets[r]
                 /\ Status'[c][r] \in TargetState
         /\ ~(c \in DOMAIN commands' /\ r \in DOMAIN commands'[c].targets)
              => Status'[c][r] = "NONE"
<1>1. c \in DOMAIN commands' => commands'[c].targets \in [DOMAIN commands'[c].targets -> TargetState]
  BY TrackedElim
<1> QED
  BY <1>1 DEF Status, TargetIn, TargetState, InFlight, Terminal,
              Lifecycle!Status, Lifecycle!Final

\* Every call of the tracker is a step of the abstract life cycle.
LEMMA StepRefines == ASSUME IInv, [Next]_vars PROVE Lifecycle!Next
<1>1. StepShape /\ IInv'
  BY AnyStep
<1>2. /\ \A d \in DOMAIN commands : /\ commands[d] \in TrackedCommand
                                    /\ DOMAIN commands[d].targets \subseteq Robot
      /\ \A d \in DOMAIN commands' : /\ commands'[d] \in TrackedCommand
                                     /\ DOMAIN commands'[d].targets \subseteq Robot
  <2>1. \A d \in DOMAIN commands' : commands'[d] \in TrackedCommand
    BY <1>1 DEF IInv, TypeOK
  <2> QED BY <2>1, IInvPointwise, TrackedElim
<1>3. Status' \in [CommandId -> [Robot -> Lifecycle!Status]]
  <2>1. \A c \in CommandId, r \in Robot : Status'[c][r] \in Lifecycle!Status
    BY <1>2, StatusOfNext
  <2> QED BY <2>1 DEF Status
<1>4. ASSUME NEW c \in CommandId
      PROVE  Lifecycle!Issue(c) \/ Lifecycle!Progress(c) \/ Lifecycle!Retire(c)
  <2> DEFINE Row  == Status[c]
             Next1 == Status'[c]
  <2>1. Row = [r \in Robot |-> Row[r]] /\ Next1 = [r \in Robot |-> Next1[r]]
    BY DEF Status
  <2>2. CASE Issued(c)
    <3>1. \A r \in Robot : Row[r] = "NONE"
      BY <1>2, <2>2, StatusOf DEF Issued
    <3>2. \A r \in Robot : Next1[r] \in {"NONE", "PENDING", "ROBOT_OFFLINE"}
      BY <1>2, <2>2, StatusOfNext DEF Issued
    <3> QED BY <2>1, <3>1, <3>2 DEF Lifecycle!Issue, Lifecycle!Untracked
  <2>3. CASE Kept(c)
    <3>1. ASSUME NEW r \in Robot
          PROVE  \/ Next1[r] = Row[r]
                 \/ <<Row[r], Next1[r]>> \in Lifecycle!Forward
      <4>1. CASE r \in DOMAIN commands[c].targets
        BY <1>2, <2>3, <4>1, StatusOf, StatusOfNext DEF Kept
      <4>2. CASE r \notin DOMAIN commands[c].targets
        BY <1>2, <2>3, <4>2, StatusOf, StatusOfNext DEF Kept
      <4> QED BY <4>1, <4>2
    <3> QED BY <3>1 DEF Lifecycle!Progress
  <2>4. CASE Dropped(c)
    <3>1. \A r \in Robot : Row[r] \in Lifecycle!Final \cup {"NONE"}
      BY <1>2, <2>4, StatusOf DEF Dropped, Settled, Terminal, Lifecycle!Final
    <3>2. \A r \in Robot : Next1[r] = "NONE"
      BY <1>2, <2>4, StatusOfNext DEF Dropped
    <3> QED BY <2>1, <3>1, <3>2 DEF Lifecycle!Retire, Lifecycle!Untracked
  <2>5. CASE Absent(c)
    <3>1. \A r \in Robot : Row[r] = "NONE" /\ Next1[r] = "NONE"
      BY <1>2, <2>5, StatusOf, StatusOfNext DEF Absent
    <3> QED BY <3>1 DEF Lifecycle!Progress
  <2> QED BY <1>1, <2>2, <2>3, <2>4, <2>5 DEF StepShape
<1> QED BY <1>3, <1>4 DEF Lifecycle!Next

LEMMA InitRefines == Init => Lifecycle!Init
BY DEF Init, Status, TargetIn, Lifecycle!Init, Lifecycle!Untracked

\* The tracker implements the abstract life cycle: states only move forward,
\* a terminal state is final, and a command is forgotten as a whole and only
\* after a state in which it was settled.
THEOREM Refinement == Spec => ImplementsLifecycle
<1>1. IInv /\ [Next]_vars => [Lifecycle!Next]_Status
  BY StepRefines
<1> QED
  BY <1>1, InitRefines, Invariance, PTL
     DEF Spec, ImplementsLifecycle, Lifecycle!Spec
=============================================================================
