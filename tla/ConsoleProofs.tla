----------------------------- MODULE ConsoleProofs -----------------------------
(***************************************************************************)
(* Proofs about Console, for any number of robots, frames and commands.    *)
(* What the dialog waits with is a command that was asked for and is not   *)
(* sent: the next one asked for has a number that none of them has.        *)
(***************************************************************************)
EXTENDS Console, TLAPS

\* Nothing else is asked of the members of a list.
IsSeq(s) == s \in Seq({s[i] : i \in DOMAIN s})

\* a is a command as it was asked for.
Genuine(a) == a.n \in DOMAIN asked /\ a.intent = asked[a.n].intent

Pending ==
  confirm # None => /\ Genuine(confirm)
                    /\ \A i \in DOMAIN sent : sent[i].n # confirm.n

SentOnce ==
  /\ \A i \in DOMAIN sent : Genuine(sent[i])
  /\ \A i, j \in DOMAIN sent : sent[i].n = sent[j].n => i = j

\* What the fields hold is for the first robot of the selection.
FilledForFirst ==
  /\ origin = [f \in Field |-> origin[f]]
  /\ \A f \in Field : origin[f] = First(selected)

AskedForFirst ==
  \A k \in DOMAIN asked : \A f \in DOMAIN asked[k].origin :
    asked[k].origin[f] = asked[k].intent.targets[1]

IInv ==
  /\ IsSeq(asked)
  /\ IsSeq(sent)
  /\ demo \in {"none", "confirm", "fire"}
  /\ Pending
  /\ SentOnce
  /\ FilledForFirst
  /\ AskedForFirst

-----------------------------------------------------------------------------

\* Appending to a list.
LEMMA Appended ==
  ASSUME NEW s, IsSeq(s), NEW x
  PROVE  LET t == Append(s, x)
         IN  /\ IsSeq(t)
             /\ Len(s) \in Nat
             /\ DOMAIN s = 1 .. Len(s)
             /\ DOMAIN t = 1 .. Len(s) + 1
             /\ \A i \in DOMAIN s : t[i] = s[i]
             /\ t[Len(s) + 1] = x
<1> DEFINE S == {s[i] : i \in DOMAIN s} \cup {x}
           t == Append(s, x)
<1>1. s \in Seq(S) /\ x \in S
  <2>1. {s[i] : i \in DOMAIN s} \subseteq S
    OBVIOUS
  <2>2. s \in Seq({s[i] : i \in DOMAIN s})
    BY DEF IsSeq
  <2> HIDE DEF S
  <2>3. s \in Seq(S)
    BY <2>1, <2>2
  <2> QED BY <2>3 DEF S
<1> HIDE DEF S
<1>2. /\ t \in Seq(S)
      /\ Len(t) = Len(s) + 1
      /\ Len(s) \in Nat
      /\ DOMAIN s = 1 .. Len(s)
      /\ \A i \in 1 .. Len(s) : t[i] = s[i]
      /\ t[Len(s) + 1] = x
  BY <1>1
<1>3. DOMAIN t = 1 .. Len(s) + 1
  BY <1>2
<1> HIDE DEF t
<1>4. IsSeq(t)
  BY <1>2 DEF IsSeq
<1> QED BY <1>2, <1>3, <1>4 DEF t

\* The number of a command that is asked for now is new.
LEMMA AskedStep ==
  ASSUME IsSeq(asked), NEW intent, Asked(intent)
  PROVE  LET n == Len(asked) + 1
         IN  /\ IsSeq(asked')
             /\ n \notin DOMAIN asked
             /\ DOMAIN asked' = DOMAIN asked \cup {n}
             /\ \A k \in DOMAIN asked : asked'[k] = asked[k]
             /\ asked'[n].intent = intent
             /\ asked'[n].origin = [f \in IF intent.allStop THEN {} ELSE DOMAIN intent.params
                                      |-> origin[f]]
<1> DEFINE from == IF intent.allStop THEN {} ELSE DOMAIN intent.params
           a == [intent |-> intent, origin |-> [f \in from |-> origin[f]]]
           n == Len(asked) + 1
<1>1. asked' = Append(asked, a)
  BY DEF Asked
<1> HIDE DEF a
<1>2. /\ IsSeq(asked')
      /\ Len(asked) \in Nat
      /\ DOMAIN asked = 1 .. Len(asked)
      /\ DOMAIN asked' = 1 .. Len(asked) + 1
      /\ \A k \in DOMAIN asked : asked'[k] = asked[k]
      /\ asked'[Len(asked) + 1] = a
  BY <1>1, Appended
<1>3. n \notin DOMAIN asked /\ DOMAIN asked' = DOMAIN asked \cup {n}
  BY <1>2
<1>4. a.intent = intent /\ a.origin = [f \in from |-> origin[f]]
  BY DEF a
<1> HIDE DEF from
<1>5. asked'[n].intent = intent /\ asked'[n].origin = [f \in from |-> origin[f]]
  BY <1>2, <1>4
<1> QED BY <1>2, <1>3, <1>5 DEF from

\* What happens to the dialog and the commands sent when a command is asked
\* for: it waits in the dialog, or is sent at once.
LEMMA IssueStep ==
  ASSUME IInv, NEW intent, Asked(intent), NEW ask,
         ask = [intent |-> intent, n |-> Len(asked) + 1],
         \/ confirm' = ask /\ UNCHANGED sent
         \/ doSend(ask) /\ UNCHANGED confirm
  PROVE  IsSeq(asked') /\ IsSeq(sent') /\ Pending' /\ SentOnce'
<1> DEFINE n == Len(asked) + 1
<1>1. /\ IsSeq(asked')
      /\ n \notin DOMAIN asked
      /\ DOMAIN asked' = DOMAIN asked \cup {n}
      /\ \A k \in DOMAIN asked : asked'[k] = asked[k]
      /\ asked'[n].intent = intent
  BY AskedStep DEF IInv
<1>2. ask.n = n /\ ask.intent = intent
  OBVIOUS
<1> HIDE DEF n
<1>3. /\ ask.n \in DOMAIN asked' /\ ask.intent = asked'[ask.n].intent
      /\ \A a : Genuine(a) =>
           a.n # ask.n /\ a.n \in DOMAIN asked' /\ a.intent = asked'[a.n].intent
  BY <1>1, <1>2 DEF Genuine
<1>4. CASE confirm' = ask /\ UNCHANGED sent
  <2>1. IsSeq(sent') /\ SentOnce'
    BY <1>3, <1>4 DEF IInv, SentOnce, Genuine
  <2>2. Pending'
    BY <1>3, <1>4 DEF IInv, SentOnce, Pending, Genuine
  <2> QED BY <1>1, <2>1, <2>2
<1>5. CASE doSend(ask) /\ UNCHANGED confirm
  <2>1. /\ IsSeq(sent')
        /\ Len(sent) \in Nat
        /\ DOMAIN sent = 1 .. Len(sent)
        /\ DOMAIN sent' = 1 .. Len(sent) + 1
        /\ \A i \in DOMAIN sent : sent'[i] = sent[i]
        /\ sent'[Len(sent) + 1] = ask
    BY <1>5, Appended DEF IInv, doSend
  <2>2. \A i \in DOMAIN sent' : i \in DOMAIN sent \/ i = Len(sent) + 1
    BY <2>1
  <2>3. SentOnce'
    BY <1>3, <2>1, <2>2 DEF IInv, SentOnce, Genuine
  <2>4. Pending'
    BY <1>3, <1>5, <2>1, <2>2 DEF IInv, Pending, Genuine
  <2> QED BY <1>1, <2>1, <2>3, <2>4
<1> QED BY <1>4, <1>5

\* APPLY and the commands of no field fill the record of whom values are for.
LEMMA AskedForStep ==
  ASSUME IInv, NEW intent, Asked(intent),
         \/ intent.allStop
         \/ /\ selected # <<>>
            /\ intent.targets = selected
            /\ DOMAIN intent.params \subseteq Field
  PROVE  AskedForFirst'
<1> DEFINE n == Len(asked) + 1
           from == IF intent.allStop THEN {} ELSE DOMAIN intent.params
<1>1. /\ DOMAIN asked' = DOMAIN asked \cup {n}
      /\ \A k \in DOMAIN asked : asked'[k] = asked[k]
      /\ asked'[n].intent = intent
      /\ asked'[n].origin = [f \in from |-> origin[f]]
  BY AskedStep DEF IInv
<1>2. \A f \in from : origin[f] = intent.targets[1]
  <2>1. CASE intent.allStop
    BY <2>1
  <2>2. CASE ~intent.allStop
    <3> SUFFICES ASSUME NEW f \in from PROVE origin[f] = intent.targets[1]
      OBVIOUS
    <3>1. f \in Field /\ intent.targets = selected /\ selected # <<>>
      BY <2>2
    <3>2. origin[f] = First(selected)
      BY <3>1 DEF IInv, FilledForFirst
    <3> QED BY <3>1, <3>2 DEF First
  <2> QED BY <2>1, <2>2
<1> HIDE DEF n, from
<1>3. \A f \in DOMAIN asked'[n].origin :
        asked'[n].origin[f] = asked'[n].intent.targets[1]
  BY <1>1, <1>2
<1>4. \A k \in DOMAIN asked : \A f \in DOMAIN asked'[k].origin :
        asked'[k].origin[f] = asked'[k].intent.targets[1]
  BY <1>1 DEF IInv, AskedForFirst
<1> QED BY <1>1, <1>3, <1>4 DEF AskedForFirst

\* A selection refills the fields when their robot is another one.
LEMMA SelectStep == ASSUME IInv, NEW sel, Select(sel) PROVE IInv'
<1>1. UNCHANGED <<robots, confirm, demo, demoFired, sent, asked>> /\ selected' = sel
  BY DEF Select, history
<1>2. FilledForFirst'
  <2>1. CASE First(sel) = First(selected)
    <3>1. origin' = origin
      BY <2>1 DEF Select, Prefill, fields
    <3> QED BY <1>1, <2>1, <3>1 DEF IInv, FilledForFirst
  <2>2. CASE First(sel) # First(selected)
    <3>1. origin' = [f \in Field |-> First(sel)]
      BY <2>2 DEF Select, Prefill
    <3>2. /\ origin' = [f \in Field |-> origin'[f]]
          /\ \A f \in Field : origin'[f] = First(sel)
      BY <3>1
    <3> QED BY <1>1, <3>2 DEF FilledForFirst
  <2> QED BY <2>1, <2>2
<1>3. Pending' /\ SentOnce' /\ AskedForFirst'
  BY <1>1 DEF IInv, Pending, SentOnce, AskedForFirst, Genuine
<1> QED BY <1>1, <1>2, <1>3 DEF IInv, IsSeq

LEMMA EditStep == ASSUME IInv, NEW f \in Field, NEW value, Edit(f, value) PROVE IInv'
<1>1. UNCHANGED <<selected, confirm, demo, sent, asked, origin>>
  BY DEF Edit, history
<1> QED BY <1>1 DEF IInv, IsSeq, Pending, SentOnce, FilledForFirst, AskedForFirst, Genuine

LEMMA ApplyStep == ASSUME IInv, apply PROVE IInv'
<1> DEFINE filled == {f \in Field : text[f] # None}
           intent == [targets |-> selected, params |-> [f \in filled |-> text[f]],
                      allStop |-> FALSE]
           ask == [intent |-> intent, n |-> Len(asked) + 1]
<1>1. /\ Asked(intent) /\ issueCommand(intent)
      /\ selected # <<>>
      /\ UNCHANGED <<selected, text, origin, demo>>
  BY DEF apply, fields
<1>2. \/ confirm' = ask /\ UNCHANGED sent
      \/ doSend(ask) /\ UNCHANGED confirm
  BY <1>1 DEF issueCommand
<1>3. intent.targets = selected /\ DOMAIN intent.params \subseteq Field
  OBVIOUS
<1> HIDE DEF intent
<1>4. IsSeq(asked') /\ IsSeq(sent') /\ Pending' /\ SentOnce'
  BY <1>1, <1>2, IssueStep
<1>5. AskedForFirst'
  BY <1>1, <1>3, AskedForStep
<1>6. FilledForFirst' /\ demo' \in {"none", "confirm", "fire"}
  BY <1>1 DEF IInv, FilledForFirst
<1> QED BY <1>4, <1>5, <1>6 DEF IInv

\* An all-stop, asked for with the button or by the address of the page.
LEMMA StopStep ==
  ASSUME IInv, NEW ids, Asked(StopAll(ids)),
         \/ issueCommand(StopAll(ids))
         \/ doSend([intent |-> StopAll(ids), n |-> Len(asked) + 1]) /\ UNCHANGED confirm,
         UNCHANGED <<selected, text, origin, demo>>
  PROVE  IInv'
<1> DEFINE ask == [intent |-> StopAll(ids), n |-> Len(asked) + 1]
<1>1. \/ confirm' = ask /\ UNCHANGED sent
      \/ doSend(ask) /\ UNCHANGED confirm
  BY DEF issueCommand
<1>2. IsSeq(asked') /\ IsSeq(sent') /\ Pending' /\ SentOnce'
  BY <1>1, IssueStep
<1>3. StopAll(ids).allStop
  BY DEF StopAll
<1>4. AskedForFirst'
  BY <1>3, AskedForStep
<1>5. FilledForFirst' /\ demo' \in {"none", "confirm", "fire"}
  BY DEF IInv, FilledForFirst
<1> QED BY <1>2, <1>4, <1>5 DEF IInv

LEMMA NewFrameStep == ASSUME IInv, NEW frame, NewFrame(frame) PROVE IInv'
<1> DEFINE now == demo # "none" /\ ~demoFired /\ DOMAIN frame # {}
           stop == StopAll(DOMAIN frame)
<1>1. UNCHANGED <<selected, text, origin, demo>>
  BY DEF NewFrame, fields
<1>2. CASE ~now
  <2>1. UNCHANGED <<confirm, sent, asked>>
    BY <1>2 DEF NewFrame, history
  <2> QED BY <1>1, <2>1 DEF IInv, IsSeq, Pending, SentOnce, FilledForFirst, AskedForFirst, Genuine
<1>3. CASE now
  <2>1. /\ Asked(stop)
        /\ \/ issueCommand(stop)
           \/ doSend([intent |-> stop, n |-> Len(asked) + 1]) /\ UNCHANGED confirm
    BY <1>3 DEF NewFrame
  <2> QED BY <1>1, <2>1, StopStep
<1> QED BY <1>2, <1>3

\* What waits in the dialog is sent, and has a number of its own.
LEMMA ConfirmStep == ASSUME IInv, onConfirm PROVE IInv'
<1>1. /\ confirm # None /\ confirm' = None /\ sent' = Append(sent, confirm)
      /\ UNCHANGED <<selected, text, origin, demo, asked>>
  BY DEF onConfirm, doSend, fields
<1>2. /\ IsSeq(sent')
      /\ Len(sent) \in Nat
      /\ DOMAIN sent = 1 .. Len(sent)
      /\ DOMAIN sent' = 1 .. Len(sent) + 1
      /\ \A i \in DOMAIN sent : sent'[i] = sent[i]
      /\ sent'[Len(sent) + 1] = confirm
  BY <1>1, Appended DEF IInv
<1>3. \A i \in DOMAIN sent' : i \in DOMAIN sent \/ i = Len(sent) + 1
  BY <1>2
<1>4. SentOnce'
  BY <1>1, <1>2, <1>3 DEF IInv, SentOnce, Pending, Genuine
<1>5. Pending' /\ FilledForFirst' /\ AskedForFirst' /\ IsSeq(asked')
  BY <1>1 DEF IInv, Pending, FilledForFirst, AskedForFirst, IsSeq
<1> QED BY <1>1, <1>2, <1>4, <1>5 DEF IInv

LEMMA CancelStep == ASSUME IInv, onCancel PROVE IInv'
<1>1. confirm' = None /\ UNCHANGED <<selected, text, origin, demo, sent, asked>>
  BY DEF onCancel, fields, history
<1> QED BY <1>1 DEF IInv, IsSeq, Pending, SentOnce, FilledForFirst, AskedForFirst, Genuine

LEMMA InitHolds == ASSUME Init PROVE IInv
<1>1. asked = <<>> /\ sent = <<>> /\ confirm = None
  BY DEF Init
<1>2. IsSeq(asked) /\ IsSeq(sent) /\ DOMAIN asked = {} /\ DOMAIN sent = {}
  BY <1>1 DEF IsSeq
<1>3. origin = [f \in Field |-> First(selected)]
  BY DEF Init
<1>4. \A f \in Field : origin[f] = First(selected)
  BY <1>3
<1>5. FilledForFirst
  BY <1>3, <1>4 DEF FilledForFirst
<1>6. demo \in {"none", "confirm", "fire"}
  BY DEF Init
<1> QED BY <1>1, <1>2, <1>5, <1>6 DEF IInv, Pending, SentOnce, AskedForFirst

LEMMA NextStep == ASSUME IInv, [Next]_vars PROVE IInv'
<1>1. ASSUME NEW frame \in Frames, NewFrame(frame) PROVE IInv'
  BY <1>1, NewFrameStep
<1>2. ASSUME NEW r \in Robot, NEW additive \in BOOLEAN, handleSelect(r, additive) PROVE IInv'
  BY <1>2, SelectStep DEF handleSelect
<1>3. CASE clearSelection
  BY <1>3, SelectStep DEF clearSelection
<1>4. ASSUME NEW r \in Robot, flyToRobot(r) PROVE IInv'
  BY <1>4, SelectStep DEF flyToRobot
<1>5. ASSUME NEW f \in Field, NEW value \in Typed \cup {None}, Edit(f, value) PROVE IInv'
  BY <1>5, EditStep
<1>6. CASE apply
  BY <1>6, ApplyStep
<1>7. CASE onAllStop
  BY <1>7, StopStep DEF onAllStop, fields
<1>8. CASE onConfirm
  BY <1>8, ConfirmStep
<1>9. CASE onCancel
  BY <1>9, CancelStep
<1>10. CASE UNCHANGED vars
  BY <1>10 DEF vars, fields, history, IInv, IsSeq, Pending, SentOnce, FilledForFirst,
               AskedForFirst, Genuine
<1> QED BY <1>1, <1>2, <1>3, <1>4, <1>5, <1>6, <1>7, <1>8, <1>9, <1>10 DEF Next

LEMMA Invariance == Spec => []IInv
<1>1. Init => IInv
  BY InitHolds
<1>2. IInv /\ [Next]_vars => IInv'
  BY NextStep
<1> QED BY <1>1, <1>2, PTL DEF Spec

-----------------------------------------------------------------------------
(* Theorems *)

\* What goes out is what was asked for at the click, once per click, for any
\* number of robots and frames (App.tsx:83-93).
THEOREM AskedOnce == Spec => []SentAsAsked
<1>1. IInv => SentAsAsked
  BY DEF IInv, SentAsAsked, SentOnce, Pending, Genuine
<1> QED BY <1>1, Invariance, PTL

\* No value goes out that a field held for another robot than the first of
\* the targets (CommandPanel.tsx:25-36).
THEOREM FilledForTarget == Spec => []ValueOfFirstTarget
<1>1. IInv => ValueOfFirstTarget
  BY DEF IInv, ValueOfFirstTarget, AskedForFirst, SentOnce, Genuine
<1> QED BY <1>1, Invariance, PTL

\* A wide command goes out by the dialog that names it (App.tsx:77-96).
THEOREM Confirmed == Spec => WideIsConfirmed
<1> DEFINE Held == \A i \in DOMAIN sent' \ DOMAIN sent :
                     Wide(sent'[i].intent) /\ demo # "fire" => confirm = sent'[i] /\ confirm' = None
<1>1. ASSUME IInv, NEW ask, sent' = Append(sent, ask)
      PROVE  \A i \in DOMAIN sent' \ DOMAIN sent : sent'[i] = ask
  <2>1. /\ Len(sent) \in Nat
        /\ DOMAIN sent = 1 .. Len(sent)
        /\ DOMAIN sent' = 1 .. Len(sent) + 1
        /\ sent'[Len(sent) + 1] = ask
    BY <1>1, Appended DEF IInv
  <2> QED BY <2>1
<1>2. ASSUME IInv, NEW intent, issueCommand(intent) PROVE Held
  <2> DEFINE ask == [intent |-> intent, n |-> Len(asked) + 1]
  <2>1. CASE Wide(intent)
    <3>1. sent' = sent
      BY <1>2, <2>1 DEF issueCommand
    <3> QED BY <3>1
  <2>2. CASE ~Wide(intent)
    <3>1. sent' = Append(sent, ask)
      BY <1>2, <2>2 DEF issueCommand, doSend
    <3>2. ask.intent = intent
      OBVIOUS
    <3> HIDE DEF ask
    <3>3. \A i \in DOMAIN sent' \ DOMAIN sent : sent'[i] = ask
      BY <1>1, <1>2, <3>1
    <3> QED BY <2>2, <3>2, <3>3
  <2> QED BY <2>1, <2>2
<1>3. ASSUME IInv, NEW frame, NewFrame(frame) PROVE Held
  <2> DEFINE now == demo # "none" /\ ~demoFired /\ DOMAIN frame # {}
  <2>1. CASE ~now
    <3>1. sent' = sent
      BY <1>3, <2>1 DEF NewFrame, history
    <3> QED BY <3>1
  <2>2. CASE now /\ demo = "confirm"
    BY <1>2, <1>3, <2>2 DEF NewFrame
  <2>3. CASE now /\ demo # "confirm"
    BY <1>3, <2>3 DEF IInv
  <2> QED BY <2>1, <2>2, <2>3
<1>4. ASSUME IInv, onConfirm PROVE Held
  <2>1. sent' = Append(sent, confirm) /\ confirm' = None
    BY <1>4 DEF onConfirm, doSend
  <2> QED BY <1>1, <1>4, <2>1
<1>5. ASSUME IInv, NEW sel, Select(sel) PROVE Held
  BY <1>5 DEF Select, history
<1>6. ASSUME NEW f, NEW value, Edit(f, value) PROVE Held
  BY <1>6 DEF Edit, history
<1>7. ASSUME onCancel \/ UNCHANGED vars PROVE Held
  BY <1>7 DEF onCancel, vars, history
<1>8. IInv /\ [Next]_vars => Held
  <2> SUFFICES ASSUME IInv, [Next]_vars PROVE Held
    OBVIOUS
  <2>1. ASSUME apply \/ onAllStop PROVE Held
    BY <2>1, <1>2 DEF apply, onAllStop
  <2>2. ASSUME NEW r \in Robot, NEW additive \in BOOLEAN, handleSelect(r, additive) PROVE Held
    BY <2>2, <1>5 DEF handleSelect
  <2>3. ASSUME clearSelection PROVE Held
    BY <2>3, <1>5 DEF clearSelection
  <2>4. ASSUME NEW r \in Robot, flyToRobot(r) PROVE Held
    BY <2>4, <1>5 DEF flyToRobot
  <2> HIDE DEF Held
  <2> QED BY <1>3, <1>4, <1>6, <1>7, <2>1, <2>2, <2>3, <2>4 DEF Next
<1>9. IInv /\ [Next]_vars => [Held]_vars
  BY <1>8
<1> QED BY <1>9, Invariance, PTL DEF Spec, WideIsConfirmed
=============================================================================
