--------------------------- MODULE CommandTracker ---------------------------
(***************************************************************************)
(* The command tracker of the C2 server (src/src/core/command_tracker.cpp): *)
(* the life cycle of every operator command, kept per command and per      *)
(* target robot under one mutex.                                           *)
(*                                                                         *)
(* Every public method holds commands_mutex_ for all of its effect on the  *)
(* map, so a method is one action.  Time is injected: the caller reads the *)
(* system clock before the mutex is taken, so two calls may be served in   *)
(* the opposite order of their clock readings, and the system clock may be *)
(* set back.  `now' is therefore any element of Time in every action.      *)
(*                                                                         *)
(* The detail text of a target and the payload of a command are left out:  *)
(* no decision of the tracker reads them.                                  *)
(***************************************************************************)
EXTENDS Integers, Sequences

CONSTANTS
  CommandId,   \* identities the operators give to commands
  Robot,       \* robot identities
  Time,        \* readings of the system clock
  Retention,   \* retention_: how long a settled command is still shown
  MaxTargets,  \* bound on the length of OperatorCommand.targets
  NoTime       \* an empty std::optional<time_point>

ASSUME TimeAssumption == Time \subseteq Int
ASSUME RetentionAssumption == Retention \in Nat \ {0}
ASSUME MaxTargetsAssumption == MaxTargets \in Nat
ASSUME NoTimeAssumption == NoTime \notin Int

VARIABLE commands   \* commands_: a partial function from CommandId

vars == commands

-----------------------------------------------------------------------------
(* Target states and commands.                                             *)

InFlight == {"PENDING", "SENT"}

\* isTerminal
Terminal == {"APPLIED", "REJECTED", "EXPIRED", "ROBOT_OFFLINE"}

TargetState == InFlight \cup Terminal

ResultCode == {"RESULT_UNSPECIFIED", "RESULT_APPLIED", "RESULT_REJECTED"}

\* The values a TrackedCommand takes; `targets' is a partial function.
TrackedCommand ==
  [expiry       : Time,
   targets      : UNION {[S -> TargetState] : S \in SUBSET Robot},
   completed_at : Time \cup {NoTime}]

\* Every target of the command is terminal.
Settled(tc) == \A r \in DOMAIN tc.targets : tc.targets[r] \in Terminal

\* Stamp the completion time the first time every target is terminal.
refreshCompletion(tc, now) ==
  IF tc.completed_at = NoTime /\ Settled(tc)
  THEN [tc EXCEPT !.completed_at = now]
  ELSE tc

-----------------------------------------------------------------------------
(* Fan-out of an operator command.  `targets' is the list the operator     *)
(* sent, which may name a robot twice; offline[i] is the answer is_offline *)
(* gave for its i-th entry.                                                *)

TargetList == UNION {[1 .. n -> Robot] : n \in 0 .. MaxTargets}

FirstEntry(targets, r) ==
  CHOOSE i \in DOMAIN targets :
    /\ targets[i] = r
    /\ \A j \in DOMAIN targets : targets[j] = r => i <= j

\* targets.emplace keeps the verdict of the first entry of a robot ...
FanOut(targets, offline) ==
  [r \in {targets[i] : i \in DOMAIN targets} |->
     IF offline[FirstEntry(targets, r)] THEN "ROBOT_OFFLINE" ELSE "PENDING"]

\* ... while to_dispatch gets a command for every entry that is online.
ToDispatch(targets, offline) == {i \in DOMAIN targets : ~offline[i]}

Tracked(targets, offline, expiry, now) ==
  refreshCompletion([expiry       |-> expiry,
                     targets      |-> FanOut(targets, offline),
                     completed_at |-> NoTime], now)

-----------------------------------------------------------------------------
(* The operations.                                                         *)

Init == commands = [c \in {} |-> NoTime]

\* commands_.emplace does not replace the entry of an id that is tracked.
onCommandSubmitted(c, targets, offline, expiry, now) ==
  commands' = [d \in DOMAIN commands \cup {c} |->
                 IF d \in DOMAIN commands
                 THEN commands[d]
                 ELSE Tracked(targets, offline, expiry, now)]

\* Is the target known, and in one of the given states?
TargetIn(c, r, states) ==
  /\ c \in DOMAIN commands
  /\ r \in DOMAIN commands[c].targets
  /\ commands[c].targets[r] \in states

\* Mutation: the guard against an answer that came first is missing.
onCommandSentUnguarded(c, r) ==
  IF TargetIn(c, r, TargetState)
  THEN commands' = [commands EXCEPT ![c].targets[r] = "SENT"]
  ELSE UNCHANGED commands

onCommandSent(c, r) ==
  IF TargetIn(c, r, {"PENDING"})
  THEN commands' = [commands EXCEPT ![c].targets[r] = "SENT"]
  ELSE UNCHANGED commands

\* Mutation: a code that is no outcome is taken over as a state.
AfterResultVerbatim(state, code) ==
  CASE code = "RESULT_APPLIED"  -> "APPLIED"
    [] code = "RESULT_REJECTED" -> "REJECTED"
    [] OTHER                    -> code

\* Mutation: any answer counts as success.
AfterAnyResult(state, code) == "APPLIED"

\* The state a result moves a non-terminal target to.
AfterResult(state, code) ==
  CASE code = "RESULT_APPLIED"  -> "APPLIED"
    [] code = "RESULT_REJECTED" -> "REJECTED"
    [] OTHER                    -> state

WithResult(tc, r, code, now) ==
  refreshCompletion([tc EXCEPT !.targets[r] = AfterResult(@, code)], now)

\* Mutation: terminal states are not sticky.
onCommandResultUnguarded(c, r, code, now) ==
  IF TargetIn(c, r, TargetState)
  THEN commands' = [commands EXCEPT ![c] = WithResult(@, r, code, now)]
  ELSE UNCHANGED commands

\* A result for an unknown command or target, or for a terminal target, is
\* ignored.
onCommandResult(c, r, code, now) ==
  IF TargetIn(c, r, InFlight)
  THEN commands' = [commands EXCEPT ![c] = WithResult(@, r, code, now)]
  ELSE UNCHANGED commands

\* The targets of the command in one of the given states expire.
Expired(tc, from) ==
  [tc EXCEPT !.targets =
     [r \in DOMAIN tc.targets |->
        IF tc.targets[r] \in from THEN "EXPIRED" ELSE tc.targets[r]]]

\* Mutation: the completion stamp is forgotten.
ExpireUnstamped(tc, now) ==
  IF now < tc.expiry THEN tc ELSE Expired(tc, InFlight)

\* Mutation: the expiry is not compared.
ExpireAnyTime(tc, now) == refreshCompletion(Expired(tc, InFlight), now)

\* Mutation: a command that was sent does not expire.
ExpirePendingOnly(tc, now) ==
  IF now < tc.expiry THEN tc
  ELSE refreshCompletion(Expired(tc, {"PENDING"}), now)

\* Phase 1 of the sweep, for one command.
Expire(tc, now) ==
  IF now < tc.expiry
  THEN tc
  ELSE refreshCompletion(Expired(tc, InFlight), now)

\* Mutation: an entry is dropped one tick early.
HeldTooShort(tc, now) ==
  \/ tc.completed_at = NoTime
  \/ now - tc.completed_at < Retention - 1

\* Phase 2 keeps a command that is not completed or not held long enough.
Held(tc, now) ==
  \/ tc.completed_at = NoTime
  \/ now - tc.completed_at < Retention

sweepExpired(now) ==
  LET aged == [c \in DOMAIN commands |-> Expire(commands[c], now)]
  IN  commands' = [c \in {d \in DOMAIN commands : Held(aged[d], now)} |-> aged[c]]

-----------------------------------------------------------------------------

Submit ==
  \E c \in CommandId, targets \in TargetList, expiry \in Time, now \in Time :
    \E offline \in [DOMAIN targets -> BOOLEAN] :
      onCommandSubmitted(c, targets, offline, expiry, now)

Sent == \E c \in CommandId, r \in Robot : onCommandSent(c, r)

Result ==
  \E c \in CommandId, r \in Robot, code \in ResultCode, now \in Time :
    onCommandResult(c, r, code, now)

Sweep == \E now \in Time : sweepExpired(now)

Next == Submit \/ Sent \/ Result \/ Sweep

Spec == Init /\ [][Next]_vars

-----------------------------------------------------------------------------
(* Properties.                                                             *)

\* Every entry of the map is a command of the operators with a state from
\* the life cycle for each of its targets (the types of command_tracker.hpp).
TypeOK ==
  /\ DOMAIN commands \subseteq CommandId
  /\ commands \in [DOMAIN commands -> TrackedCommand]

\* The completion stamp agrees with the targets in every state: a command
\* carries a stamp exactly when nothing about it is in flight any more.  The
\* sweep drops commands by the stamp alone, so a stamp set too early loses a
\* command in flight and a stamp never set keeps its entry for ever.
CompletedIffSettled ==
  \A c \in DOMAIN commands :
    commands[c].completed_at # NoTime <=> Settled(commands[c])

\* As long as a command is tracked, nothing changes its expiry or its set of
\* targets, and once it is settled nothing changes it at all: not a late
\* result, not a confirmation of dispatch that comes after the answer, not a
\* sweep with a stale clock reading, and not a second command with its id.
TrackedIsStable ==
  [][\A c \in DOMAIN commands \cap DOMAIN commands' :
       /\ commands'[c].expiry = commands[c].expiry
       /\ DOMAIN commands'[c].targets = DOMAIN commands[c].targets
       /\ Settled(commands[c]) => commands'[c] = commands[c]]_vars

\* The life cycle the tracker promises to its callers, target by target.
Status ==
  [c \in CommandId |->
     [r \in Robot |->
        IF TargetIn(c, r, TargetState) THEN commands[c].targets[r] ELSE "NONE"]]

Lifecycle == INSTANCE CommandLifecycle WITH status <- Status

\* The tracker implements the abstract life cycle: states only move forward,
\* a terminal state is final, all targets of a command are issued together,
\* and a command disappears as a whole, after it was settled in an earlier
\* state: the call that settles it never drops it as well.
ImplementsLifecycle == Lifecycle!Spec
=============================================================================
