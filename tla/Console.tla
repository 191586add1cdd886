-------------------------------- MODULE Console --------------------------------
(***************************************************************************)
(* The operator's side of a command in the web client: App with the one    *)
(* selection, CommandPanel with its two fields, and the dialog that        *)
(* confirms a wide command.                                                *)
(*                                                                         *)
(* A handler runs to its end and React renders what it set, with the       *)
(* effects, before the next: a click and its effects are one step.  The    *)
(* dialog hides the page from the mouse and not from the keyboard, so      *)
(* everything may happen while it is open.                                 *)
(***************************************************************************)
EXTENDS Integers, Sequences, FiniteSets, SequencesExt

CONSTANTS
  Robot,         \* the robots
  Reported,      \* what robots report of a parameter, in halves of its unit
  Frames,        \* the frames that may be rendered
  Typed,         \* what the operator types that is a number, in halves
  CONFIRM_ABOVE, \* a command for more robots than this is confirmed
  Preselected,   \* the selections a page may start with (?sel=)
  MaxAsks,       \* bound on the commands the operator asks for
  None           \* no robot, no dialog, no number in a field

Field == {"speed", "radius"}

ASSUME ValuesAssumption == Reported \subseteq Nat /\ Typed \subseteq Nat
ASSUME BoundsAssumption == CONFIRM_ABOVE \in Nat /\ MaxAsks \in Nat
ASSUME NoneAssumption == None \notin Robot /\ None \notin Nat

VARIABLES
  robots,     \* the frame: what each robot in it reports
  selected,   \* the selection, in the order it was made
  text,       \* the fields: a number, or None for any other text
  confirm,    \* what the dialog waits with
  demo,       \* the page's ?confirm= or ?fire=
  demoFired,  \* whether that was done
  sent,       \* history: the commands sent
  asked,      \* history: the commands asked for, with whom APPLY's values are of
  origin      \* history: the robot whose selection last filled a field

fields  == <<text, origin>>
history == <<sent, asked>>
vars    == <<robots, selected, fields, confirm, demo, demoFired, history>>

SomeSeq(S) == UNION {SetToSeqs(T) : T \in SUBSET S}

ASSUME PreselectedAssumption == Preselected \subseteq SomeSeq(Robot)

Frame == UNION {[R -> [Field -> Reported]] : R \in SUBSET Robot}

ASSUME FramesAssumption == Frames \subseteq Frame

\* toFixed(0), in halves: the nearest integer, the larger of two.
toFixed(v) == 2 * ((v + 1) \div 2)

\* targets[0].
First(s) == IF s = <<>> THEN None ELSE s[1]

\* Mutation: a robot that is not in the frame leaves the fields alone.
PrefillOfKnown(sel) ==
  IF First(sel) = First(selected) \/ First(sel) \notin DOMAIN robots THEN UNCHANGED fields
  ELSE /\ text' = [f \in Field |-> toFixed(robots[First(sel)][f])]
       /\ origin' = [f \in Field |-> First(sel)]

\* The effect of a selection: run when its first robot is another one.
Prefill(sel) ==
  IF First(sel) = First(selected) THEN UNCHANGED fields
  ELSE /\ text' = [f \in Field |-> IF First(sel) \in DOMAIN robots
                                     THEN toFixed(robots[First(sel)][f]) ELSE None]
       /\ origin' = [f \in Field |-> First(sel)]

Select(sel) ==
  /\ selected' = sel
  /\ Prefill(sel)
  /\ UNCHANGED <<robots, confirm, demo, demoFired, history>>

Wide(intent) == intent.allStop \/ Len(intent.targets) > CONFIRM_ABOVE

doSend(ask) == sent' = Append(sent, ask)

\* Mutation: only a command for many robots is confirmed.
issueCommandByNumber(intent) ==
  LET ask == [intent |-> intent, n |-> Len(asked) + 1]
  IN IF Len(intent.targets) > CONFIRM_ABOVE THEN confirm' = ask /\ UNCHANGED sent
     ELSE doSend(ask) /\ UNCHANGED confirm

\* A wide command opens the dialog, or takes it over from the one that waits.
issueCommand(intent) ==
  LET ask == [intent |-> intent, n |-> Len(asked) + 1]
  IN IF Wide(intent) THEN confirm' = ask /\ UNCHANGED sent
     ELSE doSend(ask) /\ UNCHANGED confirm

StopAll(ids) == [targets |-> SetToSeq(ids), params |-> [f \in {"speed"} |-> 0], allStop |-> TRUE]

Asked(intent) ==
  LET from == IF intent.allStop THEN {} ELSE DOMAIN intent.params
  IN asked' = Append(asked, [intent |-> intent, origin |-> [f \in from |-> origin[f]]])

Init ==
  /\ robots = [r \in {} |-> None]
  /\ selected \in Preselected
  /\ text = [f \in Field |-> None]
  /\ confirm = None
  /\ demo \in {"none", "confirm", "fire"}
  /\ demoFired = FALSE
  /\ sent = <<>>
  /\ asked = <<>>
  /\ origin = [f \in Field |-> First(selected)]

\* A frame is rendered.  The first one with robots does what the page's
\* address asks for.
NewFrame(frame) ==
  LET now == demo # "none" /\ ~demoFired /\ DOMAIN frame # {}
      stop == StopAll(DOMAIN frame)
  IN /\ now => Len(asked) < MaxAsks
     /\ robots' = frame
     /\ demoFired' = (demoFired \/ now)
     /\ IF ~now THEN UNCHANGED <<confirm, history>>
        ELSE /\ Asked(stop)
             /\ IF demo = "confirm" THEN issueCommand(stop)
                ELSE doSend([intent |-> stop, n |-> Len(asked) + 1]) /\ UNCHANGED confirm
     /\ UNCHANGED <<selected, fields, demo>>

\* A click on a robot of the roster or of the map, with a modifier or without.
handleSelect(r, additive) ==
  /\ r \in DOMAIN robots
  /\ Select(IF ~additive THEN <<r>>
            ELSE IF Contains(selected, r) THEN Remove(selected, r) ELSE Append(selected, r))

\* A click on the map beside the robots.
clearSelection == Select(<<>>)

\* A click on an alert, whose robot may have left the frame.
flyToRobot(r) == Select(<<r>>)

Edit(f, value) ==
  /\ selected # <<>>
  /\ text' = [text EXCEPT ![f] = value]
  /\ UNCHANGED <<robots, selected, confirm, demo, demoFired, history, origin>>

\* APPLY: what is a number in a field is sent, typed or not.
apply ==
  LET filled == {f \in Field : text[f] # None}
      intent == [targets |-> selected, params |-> [f \in filled |-> text[f]], allStop |-> FALSE]
  IN /\ Len(asked) < MaxAsks
     /\ selected # <<>> /\ filled # {}
     /\ Asked(intent)
     /\ issueCommand(intent)
     /\ UNCHANGED <<robots, selected, fields, demo, demoFired>>

onAllStop ==
  LET intent == StopAll(DOMAIN robots)
  IN /\ Len(asked) < MaxAsks
     /\ DOMAIN robots # {}
     /\ Asked(intent)
     /\ issueCommand(intent)
     /\ UNCHANGED <<robots, selected, fields, demo, demoFired>>

\* Mutation: the targets are read when the dialog is confirmed.
onConfirmOfSelection ==
  /\ confirm # None
  /\ doSend([confirm EXCEPT !.intent.targets =
               IF confirm.intent.allStop THEN @ ELSE selected])
  /\ confirm' = None
  /\ UNCHANGED <<robots, selected, fields, demo, demoFired, asked>>

onConfirm ==
  /\ confirm # None
  /\ doSend(confirm)
  /\ confirm' = None
  /\ UNCHANGED <<robots, selected, fields, demo, demoFired, asked>>

onCancel ==
  /\ confirm # None
  /\ confirm' = None
  /\ UNCHANGED <<robots, selected, fields, demo, demoFired, history>>

Next ==
  \/ \E frame \in Frames : NewFrame(frame)
  \/ \E r \in Robot, additive \in BOOLEAN : handleSelect(r, additive)
  \/ clearSelection
  \/ \E r \in Robot : flyToRobot(r)
  \/ \E f \in Field, value \in Typed \cup {None} : Edit(f, value)
  \/ apply
  \/ onAllStop
  \/ onConfirm
  \/ onCancel

Spec == Init /\ [][Next]_vars

-----------------------------------------------------------------------------
(* Properties *)

\* A command for many robots or an all-stop goes out only when the operator
\* confirms the dialog that names it, with the targets and values it names,
\* whatever was selected, typed or received meanwhile (App.tsx:77-96).  The
\* page that is opened with ?fire= is what the code excepts.
WideIsConfirmed ==
  [][\A i \in DOMAIN sent' \ DOMAIN sent :
       Wide(sent'[i].intent) /\ demo # "fire" => confirm = sent'[i] /\ confirm' = None]_vars

\* What goes out is what the operator asked for at the click, once per click:
\* neither a dialog that is replaced nor a later frame or selection changes it
\* (App.tsx:83-93, 106-111).
SentAsAsked ==
  /\ \A i \in DOMAIN sent : sent[i].n \in DOMAIN asked /\ sent[i].intent = asked[sent[i].n].intent
  /\ \A i, j \in DOMAIN sent : sent[i].n = sent[j].n => i = j
  /\ confirm # None => \A i \in DOMAIN sent : sent[i].n # confirm.n

\* A value that is sent was reported by the first robot of the targets or
\* typed for it: what a field held for another robot is gone with the
\* selection (CommandPanel.tsx:25-36).
ValueOfFirstTarget ==
  \A i \in DOMAIN sent :
    LET a == asked[sent[i].n]
    IN \A f \in DOMAIN a.origin : a.origin[f] = a.intent.targets[1]

=============================================================================
