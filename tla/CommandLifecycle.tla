-------------------------- MODULE CommandLifecycle --------------------------
(***************************************************************************)
(* What the command tracker promises about one operator command, whatever  *)
(* its implementation: for every target robot a state of the life cycle    *)
(*                                                                         *)
(*   PENDING -> SENT -> APPLIED / REJECTED / EXPIRED                       *)
(*   ROBOT_OFFLINE                                                         *)
(*                                                                         *)
(* where the answer or the expiry may also overtake the confirmation that  *)
(* the command was sent.  "NONE" stands for a target nobody tracks.        *)
(***************************************************************************)
CONSTANTS CommandId, Robot

VARIABLE status   \* status[c][r]: the state of target r of command c

Final == {"APPLIED", "REJECTED", "EXPIRED", "ROBOT_OFFLINE"}

Status == {"NONE", "PENDING", "SENT"} \cup Final

\* The moves a target that is tracked may make.
Forward ==
  {<<"PENDING", "SENT">>}
    \cup ({"PENDING", "SENT"} \X {"APPLIED", "REJECTED", "EXPIRED"})

Untracked == [r \in Robot |-> "NONE"]

\* A command is issued to all its targets at once, each in a first state.
Issue(c) ==
  /\ status[c] = Untracked
  /\ \A r \in Robot : status'[c][r] \in {"NONE", "PENDING", "ROBOT_OFFLINE"}

\* Some targets move forward, the others stay.
Progress(c) ==
  \A r \in Robot : \/ status'[c][r] = status[c][r]
                   \/ <<status[c][r], status'[c][r]>> \in Forward

\* A command is forgotten as a whole, and only when nothing is in flight.
Retire(c) ==
  /\ \A r \in Robot : status[c][r] \in Final \cup {"NONE"}
  /\ status'[c] = Untracked

Init == status = [c \in CommandId |-> Untracked]

Next ==
  /\ status' \in [CommandId -> [Robot -> Status]]
  /\ \A c \in CommandId : Issue(c) \/ Progress(c) \/ Retire(c)

Spec == Init /\ [][Next]_status
=============================================================================
