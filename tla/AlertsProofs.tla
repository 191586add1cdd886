---------------------------- MODULE AlertsProofs ----------------------------
(***************************************************************************)
(* Proofs about the alerts, for any robots, commands, frames and bounds.   *)
(*                                                                         *)
(* FlattenSeq is a recursive function, so what it returns needs induction  *)
(* over numbers: AllNumbers has it from the first member of a set, which   *)
(* the well-founded order of the numbers gives.  From what a frame makes   *)
(* of each row follows what it makes of all (CreatedCorrect): an alert of  *)
(* every change that the frame tells, and of nothing else.                 *)
(*                                                                         *)
(* Of the changes, the invariant says what the property does: an alert     *)
(* that n others of its kind and robot follow tells the change that n      *)
(* others follow (TellsAs).  It is about the end of the list, so it is     *)
(* shown of the whole list (TellsWhole), where a change adds one alert and *)
(* one change (TellsOneMore), and handed on to the last members            *)
(* (TellsSuffix).  Remembers ties the history to the engine's memory, or   *)
(* the next frame might show a change that the engine does not see.        *)
(* Of the failures it says that the keys in the list were seen, or one     *)
(* would come twice.                                                       *)
(* For the acknowledgements, numbers not yet given are not acknowledged.   *)
(***************************************************************************)
EXTENDS Alerts, TLAPS, WellFoundedInduction, FiniteSetTheorems

-----------------------------------------------------------------------------
(* Induction, and what a list of lists holds.                              *)

\* Every set of numbers that is not empty has a first one.
LEMMA FirstOf ==
  ASSUME NEW T, T \subseteq Nat, T # {}
  PROVE  \E m \in T : \A k \in T : m <= k
<1> DEFINE R == {ss \in Nat \X Nat : ss[1] < ss[2]}
<1>1. IsWellFoundedOn(R, Nat)
  BY NatLessThanWellFounded DEF OpToRel
<1> HIDE DEF R
<1>2. PICK m \in T : \A k \in T : <<k, m>> \notin R
  BY <1>1, WFMin
<1>3. \A k \in T : ~(k < m)
  BY <1>2 DEF R
<1> QED BY <1>3

\* Induction, for a set of numbers.
LEMMA AllNumbers ==
  ASSUME NEW S, 0 \in S, \A n \in Nat : n \in S => n + 1 \in S
  PROVE  Nat \subseteq S
<1> SUFFICES ASSUME NEW x \in Nat, x \notin S PROVE FALSE
  OBVIOUS
<1> DEFINE T == {n \in Nat : n \notin S}
<1>1. PICK m \in T : \A k \in T : m <= k
  BY FirstOf
<1>2. m # 0 /\ m - 1 \in Nat
  OBVIOUS
<1>3. m - 1 \in S
  BY <1>1, <1>2
<1>4. (m - 1) + 1 = m
  BY <1>2
<1> QED BY <1>2, <1>3, <1>4

\* The function by which FlattenSeq is defined, for the first n lists.
Flat(seqs, n, g) ==
  g = [i \in 1 .. n |-> IF i = 1 THEN seqs[i] ELSE g[i - 1] \o seqs[i]]

\* It exists.
LEMMA FlatExists ==
  ASSUME NEW A, NEW seqs \in Seq(Seq(A)), NEW n \in Nat, n <= Len(seqs)
  PROVE  \E g \in [1 .. n -> Seq(A)] : Flat(seqs, n, g)
<1> DEFINE S == {k \in Nat : k <= Len(seqs) => \E g \in [1 .. k -> Seq(A)] : Flat(seqs, k, g)}
<1>1. 0 \in S
  <2> DEFINE g == [i \in 1 .. 0 |-> IF i = 1 THEN seqs[i] ELSE <<>>]
  <2>1. g \in [1 .. 0 -> Seq(A)] /\ Flat(seqs, 0, g)
    BY DEF Flat
  <2> QED BY <2>1
<1>2. ASSUME NEW k \in Nat, k \in S, k + 1 <= Len(seqs) PROVE k + 1 \in S
  <2>1. PICK g \in [1 .. k -> Seq(A)] : Flat(seqs, k, g)
    BY <1>2
  <2> DEFINE h == [i \in 1 .. k + 1 |-> IF i = k + 1
                                        THEN (IF i = 1 THEN seqs[i] ELSE g[i - 1] \o seqs[i])
                                        ELSE g[i]]
  <2>2. k + 1 \in 1 .. Len(seqs) /\ seqs[k + 1] \in Seq(A)
    BY <1>2
  <2>3. ASSUME NEW i \in 1 .. k + 1 PROVE h[i] \in Seq(A)
    <3>1. CASE i = k + 1 /\ i = 1
      BY <2>2, <3>1
    <3>2. CASE i = k + 1 /\ i # 1
      <4>1. i - 1 \in 1 .. k
        BY <3>2
      <4>2. g[i - 1] \in Seq(A)
        BY <2>1, <4>1
      <4> QED BY <2>2, <3>2, <4>2
    <3>3. CASE i # k + 1
      <4>1. i \in 1 .. k
        BY <3>3
      <4> QED BY <2>1, <3>3, <4>1
    <3> QED BY <3>1, <3>2, <3>3
  <2>4. ASSUME NEW i \in 1 .. k + 1
        PROVE  h[i] = IF i = 1 THEN seqs[i] ELSE h[i - 1] \o seqs[i]
    <3>1. i # 1 => i - 1 \in 1 .. k
      OBVIOUS
    <3>2. i # 1 => h[i - 1] = g[i - 1]
      BY <3>1
    <3>3. CASE i = k + 1
      BY <3>2, <3>3
    <3>4. CASE i # k + 1
      <4>1. i \in 1 .. k
        BY <3>4
      <4>2. g[i] = IF i = 1 THEN seqs[i] ELSE g[i - 1] \o seqs[i]
        BY <2>1, <4>1 DEF Flat
      <4> QED BY <3>2, <3>4, <4>2
    <3> QED BY <3>3, <3>4
  <2>5. h \in [1 .. k + 1 -> Seq(A)]
    BY <2>3
  <2>6. Flat(seqs, k + 1, h)
    <3>1. h = [i \in 1 .. k + 1 |-> h[i]]
      OBVIOUS
    <3> HIDE DEF h
    <3> QED BY <2>4, <3>1 DEF Flat
  <2> HIDE DEF h
  <2> QED BY <2>5, <2>6
<1>3. \A k \in Nat : k \in S => k + 1 \in S
  <2> SUFFICES ASSUME NEW k \in Nat, k \in S PROVE k + 1 \in S
    OBVIOUS
  <2>1. CASE k + 1 <= Len(seqs)
    BY <1>2, <2>1
  <2>2. CASE ~(k + 1 <= Len(seqs))
    BY <2>2
  <2> QED BY <2>1, <2>2
<1> HIDE DEF S
<1>4. n \in S
  BY <1>1, <1>3, AllNumbers
<1> QED BY <1>4 DEF S

\* The members of two lists, one behind the other.
LEMMA Concatenated ==
  ASSUME NEW A, NEW p \in Seq(A), NEW q \in Seq(A)
  PROVE  /\ p \o q \in Seq(A) /\ Len(p \o q) = Len(p) + Len(q)
         /\ \A x \in 1 .. Len(p) : x \in 1 .. Len(p \o q) /\ (p \o q)[x] = p[x]
         /\ \A y \in 1 .. Len(q) : /\ y + Len(p) \in 1 .. Len(p \o q)
                                   /\ (p \o q)[y + Len(p)] = q[y]
         /\ \A x \in 1 .. Len(p \o q) :
              \/ x \in 1 .. Len(p)
              \/ x - Len(p) \in 1 .. Len(q) /\ (p \o q)[x] = q[x - Len(p)]
OBVIOUS

\* q is made of the members of the first k lists.
MadeOf(q, seqs, k) ==
  /\ \A x \in 1 .. Len(q) : \E i \in 1 .. k : \E j \in 1 .. Len(seqs[i]) : q[x] = seqs[i][j]
  /\ \A i \in 1 .. k : \A j \in 1 .. Len(seqs[i]) : \E x \in 1 .. Len(q) : q[x] = seqs[i][j]

\* No member is in the lists twice.
AllDiffer(seqs) ==
  \A i, j \in 1 .. Len(seqs) : \A a \in 1 .. Len(seqs[i]) : \A b \in 1 .. Len(seqs[j]) :
    seqs[i][a] = seqs[j][b] => i = j /\ a = b

Distinct(q) == \A x, y \in 1 .. Len(q) : q[x] = q[y] => x = y

LEMMA FlatStep ==
  ASSUME NEW A, NEW seqs \in Seq(Seq(A)), NEW k \in Nat, k + 1 <= Len(seqs), k # 0,
         NEW p \in Seq(A), MadeOf(p, seqs, k)
  PROVE  /\ p \o seqs[k + 1] \in Seq(A)
         /\ MadeOf(p \o seqs[k + 1], seqs, k + 1)
         /\ AllDiffer(seqs) /\ Distinct(p) => Distinct(p \o seqs[k + 1])
<1> DEFINE q == seqs[k + 1]
           w == p \o q
<1>1. k + 1 \in 1 .. Len(seqs) /\ q \in Seq(A)
  OBVIOUS
<1>2. /\ w \in Seq(A) /\ Len(w) = Len(p) + Len(q)
      /\ \A x \in 1 .. Len(p) : x \in 1 .. Len(w) /\ w[x] = p[x]
      /\ \A y \in 1 .. Len(q) : y + Len(p) \in 1 .. Len(w) /\ w[y + Len(p)] = q[y]
      /\ \A x \in 1 .. Len(w) : \/ x \in 1 .. Len(p)
                                \/ x - Len(p) \in 1 .. Len(q) /\ w[x] = q[x - Len(p)]
  <2> HIDE DEF q
  <2> QED BY <1>1, Concatenated
<1> HIDE DEF w
<1>3. \A i \in 1 .. k + 1 : i \in 1 .. k \/ i = k + 1
  OBVIOUS
<1>4. \A i \in 1 .. k : i \in 1 .. k + 1 /\ i \in 1 .. Len(seqs) /\ i # k + 1
  OBVIOUS
<1>5. ASSUME NEW x \in 1 .. Len(w)
      PROVE  \E i \in 1 .. k + 1 : \E j \in 1 .. Len(seqs[i]) : w[x] = seqs[i][j]
  <2>1. CASE x \in 1 .. Len(p)
    <3>1. PICK i \in 1 .. k : \E j \in 1 .. Len(seqs[i]) : p[x] = seqs[i][j]
      BY <2>1 DEF MadeOf
    <3> QED BY <1>2, <1>4, <2>1, <3>1
  <2>2. CASE x - Len(p) \in 1 .. Len(q) /\ w[x] = q[x - Len(p)]
    BY <2>2
  <2> QED BY <1>2, <2>1, <2>2
<1>6. ASSUME NEW i \in 1 .. k + 1, NEW j \in 1 .. Len(seqs[i])
      PROVE  \E x \in 1 .. Len(w) : w[x] = seqs[i][j]
  <2>1. CASE i \in 1 .. k
    <3>1. PICK x \in 1 .. Len(p) : p[x] = seqs[i][j]
      BY <2>1 DEF MadeOf
    <3> QED BY <1>2, <3>1
  <2>2. CASE i = k + 1
    BY <1>2, <2>2
  <2> QED BY <1>3, <2>1, <2>2
<1>7. MadeOf(w, seqs, k + 1)
  BY <1>5, <1>6 DEF MadeOf
<1>8. ASSUME AllDiffer(seqs), Distinct(p), NEW x \in 1 .. Len(w), NEW y \in 1 .. Len(w),
             w[x] = w[y]
      PROVE  x = y
  <2>1. ASSUME NEW a \in 1 .. Len(p), NEW b \in 1 .. Len(q), p[a] = q[b] PROVE FALSE
    <3>1. PICK i \in 1 .. k : \E j \in 1 .. Len(seqs[i]) : p[a] = seqs[i][j]
      BY DEF MadeOf
    <3> QED BY <1>1, <1>4, <1>8, <2>1, <3>1 DEF AllDiffer
  <2>2. CASE x \in 1 .. Len(p) /\ y \in 1 .. Len(p)
    BY <1>2, <1>8, <2>2 DEF Distinct
  <2>3. CASE x \in 1 .. Len(p) /\ y \notin 1 .. Len(p)
    <3>1. w[x] = p[x] /\ y - Len(p) \in 1 .. Len(q) /\ w[y] = q[y - Len(p)]
      BY <1>2, <2>3
    <3> QED BY <1>8, <2>1, <2>3, <3>1
  <2>4. CASE x \notin 1 .. Len(p) /\ y \in 1 .. Len(p)
    <3>1. w[y] = p[y] /\ x - Len(p) \in 1 .. Len(q) /\ w[x] = q[x - Len(p)]
      BY <1>2, <2>4
    <3> QED BY <1>8, <2>1, <2>4, <3>1
  <2>5. CASE x \notin 1 .. Len(p) /\ y \notin 1 .. Len(p)
    <3> DEFINE a == x - Len(p)
               b == y - Len(p)
    <3>1. a \in 1 .. Len(q) /\ b \in 1 .. Len(q) /\ q[a] = q[b]
      BY <1>2, <1>8, <2>5
    <3> HIDE DEF a, b
    <3>2. a = b
      BY <1>1, <1>8, <3>1 DEF AllDiffer
    <3>3. x - Len(p) = y - Len(p)
      BY <3>2 DEF a, b
    <3> QED BY <3>3
  <2> QED BY <2>2, <2>3, <2>4, <2>5
<1>9. AllDiffer(seqs) /\ Distinct(p) => Distinct(w)
  BY <1>8 DEF Distinct
<1> QED BY <1>2, <1>7, <1>9 DEF w

LEMMA FlatMembers ==
  ASSUME NEW A, NEW seqs \in Seq(Seq(A)), NEW n \in Nat, n = Len(seqs), NEW g, Flat(seqs, n, g)
  PROVE  \A k \in 1 .. n : /\ g[k] \in Seq(A) /\ MadeOf(g[k], seqs, k)
                           /\ AllDiffer(seqs) => Distinct(g[k])
<1> DEFINE Good(k) == /\ g[k] \in Seq(A) /\ MadeOf(g[k], seqs, k)
                      /\ AllDiffer(seqs) => Distinct(g[k])
           S == {k \in Nat : k \in 1 .. n => Good(k)}
<1>1. \A i \in 1 .. n : g[i] = IF i = 1 THEN seqs[i] ELSE g[i - 1] \o seqs[i]
  BY DEF Flat
<1>2. ASSUME 1 \in 1 .. n PROVE Good(1)
  <2>1. g[1] = seqs[1] /\ seqs[1] \in Seq(A)
    BY <1>1, <1>2
  <2>2. MadeOf(seqs[1], seqs, 1)
    BY DEF MadeOf
  <2>3. AllDiffer(seqs) => Distinct(seqs[1])
    BY <1>2 DEF AllDiffer, Distinct
  <2> QED BY <2>1, <2>2, <2>3
<1>3. ASSUME NEW k \in Nat, k \in S, k + 1 \in 1 .. n PROVE Good(k + 1)
  <2>1. CASE k = 0
    BY <1>2, <1>3, <2>1
  <2>2. CASE k # 0
    <3>1. k \in 1 .. n /\ k + 1 # 1 /\ (k + 1) - 1 = k
      BY <1>3, <2>2
    <3>2. Good(k)
      BY <1>3, <3>1
    <3>3. g[k + 1] = g[k] \o seqs[k + 1]
      BY <1>1, <1>3, <3>1
    <3>4. k + 1 <= Len(seqs)
      BY <1>3
    <3> QED BY <2>2, <3>2, <3>3, <3>4, FlatStep
  <2> QED BY <2>1, <2>2
<1> HIDE DEF Good
<1>4. 0 \in S /\ \A k \in Nat : k \in S => k + 1 \in S
  BY <1>3
<1> HIDE DEF S
<1>5. Nat \subseteq S
  BY <1>4, AllNumbers
<1> QED BY <1>5 DEF S, Good

\* FlattenSeq lists the members of the lists, and each once if all differ.
LEMMA Flattened ==
  ASSUME NEW A, NEW seqs \in Seq(Seq(A))
  PROVE  /\ FlattenSeq(seqs) \in Seq(A)
         /\ MadeOf(FlattenSeq(seqs), seqs, Len(seqs))
         /\ AllDiffer(seqs) => Distinct(FlattenSeq(seqs))
<1>1. CASE Len(seqs) = 0
  <2>1. FlattenSeq(seqs) = <<>>
    BY <1>1 DEF FlattenSeq
  <2> QED BY <1>1, <2>1 DEF MadeOf, Distinct
<1>2. CASE Len(seqs) # 0
  <2> DEFINE n == Len(seqs)
             g == CHOOSE f : Flat(seqs, n, f)
  <2>1. n \in Nat /\ n \in 1 .. n
    BY <1>2
  <2>2. FlattenSeq(seqs) = g[n]
    BY <1>2 DEF FlattenSeq, Flat
  <2>3. Flat(seqs, n, g)
    <3>1. n <= Len(seqs)
      OBVIOUS
    <3> HIDE DEF n
    <3>2. \E f \in [1 .. n -> Seq(A)] : Flat(seqs, n, f)
      BY <2>1, <3>1, FlatExists
    <3> QED BY <3>2
  <2> HIDE DEF g
  <2> QED BY <2>1, <2>2, <2>3, FlatMembers
<1> QED BY <1>1, <1>2

-----------------------------------------------------------------------------
(* The alerts that a frame makes.                                          *)

Severity == {"info", "warn", "critical"}
NewAlert == [kind : {"link", "geofence", "command"}, severity : Severity, robot : Robot,
             command : Command \cup {None}]
Alert    == [id : Nat, kind : {"link", "geofence", "command"}, severity : Severity,
             robot : Robot, command : Command \cup {None}]

Types ==
  /\ prevLink \in [Robot -> LinkStatus \cup {None}]
  /\ prevInside \in [Robot -> BOOLEAN \cup {None}]
  /\ seenCmdTargets \subseteq Command \X Robot
  /\ seq \in Nat
  /\ alerts \in Seq(Alert) /\ shown \in Seq(Alert)
  /\ acked \subseteq Nat
  /\ breachPulseNonce \in Nat
  /\ links \in [Robot -> Seq(LinkStatus)] /\ sides \in [Robot -> Seq(BOOLEAN)]

\* What a frame tells the engine that it does not know.
LinkChanges(f, r) == r \in Seen(f) /\ prevLink[r] \notin {None, RowOf(f, r).link}
Crosses(f, r) ==
  r \in Looked(f) /\ RowOf(f, r).inside # (IF prevInside[r] = None THEN TRUE ELSE prevInside[r])
FailedKeys(f) == {Key(f.commands[i]) : i \in Failures(f)}

\* A robot is in one row of a frame.
LEMMA Rows ==
  ASSUME NEW f \in Frames
  PROVE  /\ f.robots \in Seq(RobotState) /\ f.commands \in Seq(TargetStatus)
         /\ \A i \in 1 .. Len(f.robots) : /\ f.robots[i] \in RobotState
                                          /\ f.robots[i].robot \in Seen(f)
                                          /\ RowOf(f, f.robots[i].robot) = f.robots[i]
         /\ \A r \in Seen(f) : /\ r \in Robot /\ RowOf(f, r) \in RobotState
                               /\ \E i \in 1 .. Len(f.robots) :
                                    RowOf(f, r) = f.robots[i] /\ f.robots[i].robot = r
         /\ Seen(f) \subseteq Robot /\ Looked(f) \subseteq Seen(f)
<1>1. f.robots \in Seq(RobotState) /\ f.commands \in Seq(TargetStatus)
  BY FramesAssumption DEF SwarmState
<1>2. DOMAIN f.robots = 1 .. Len(f.robots) /\ \A i \in 1 .. Len(f.robots) : f.robots[i] \in RobotState
  BY <1>1
<1>3. ASSUME NEW r \in Seen(f)
      PROVE  \E i \in 1 .. Len(f.robots) : RowOf(f, r) = f.robots[i] /\ f.robots[i].robot = r
  <2>1. \E i \in DOMAIN f.robots : f.robots[i].robot = r
    BY DEF Seen
  <2> DEFINE i == CHOOSE i \in DOMAIN f.robots : f.robots[i].robot = r
  <2>2. i \in DOMAIN f.robots /\ f.robots[i].robot = r
    BY <2>1
  <2>3. RowOf(f, r) = f.robots[i]
    BY DEF RowOf
  <2> QED BY <1>2, <2>2, <2>3
<1>4. ASSUME NEW r \in Seen(f) PROVE r \in Robot /\ RowOf(f, r) \in RobotState
  BY <1>2, <1>3 DEF RobotState
<1>5. ASSUME NEW i \in 1 .. Len(f.robots)
      PROVE  f.robots[i].robot \in Seen(f) /\ RowOf(f, f.robots[i].robot) = f.robots[i]
  <2>1. f.robots[i].robot \in Seen(f)
    BY <1>2 DEF Seen
  <2>2. PICK j \in 1 .. Len(f.robots) : /\ RowOf(f, f.robots[i].robot) = f.robots[j]
                                        /\ f.robots[j].robot = f.robots[i].robot
    BY <1>3, <2>1
  <2>3. j = i
    BY <1>2, <2>2, FramesAssumption
  <2> QED BY <2>1, <2>2, <2>3
<1> QED BY <1>1, <1>2, <1>3, <1>4, <1>5 DEF Looked

\* The alert of a change to a status.
LEMMA LinkSeverities ==
  ASSUME NEW r \in Robot, NEW c \in LinkStatus
  PROVE  /\ linkAlert(r, c) \in NewAlert
         /\ linkAlert(r, c).kind = "link" /\ linkAlert(r, c).robot = r
         /\ linkAlert(r, c).severity = LinkSeverity[c]
BY DEF linkAlert, mk, LinkStatus, NewAlert, Severity, LinkSeverity

\* What is made of a row: one alert of a kind at most, and of a change one.
LEMMA RowAlerts ==
  ASSUME Types, NEW f \in Frames, NEW i \in 1 .. Len(f.robots)
  PROVE  LET row  == f.robots[i]
             r    == row.robot
             made == LinkAlerts(row) \o FenceAlerts(row)
         IN /\ made \in Seq(NewAlert)
            /\ \A a \in 1 .. Len(made) :
                 /\ made[a].robot = r /\ made[a].kind \in {"link", "geofence"}
                 /\ made[a].kind = "link" =>
                      LinkChanges(f, r) /\ made[a].severity = linkAlert(r, row.link).severity
                 /\ made[a].kind = "geofence" =>
                      /\ Crosses(f, r)
                      /\ made[a].severity = IF row.inside THEN "info" ELSE "critical"
            /\ \A a, b \in 1 .. Len(made) : made[a].kind = made[b].kind => a = b
            /\ LinkChanges(f, r) => \E a \in 1 .. Len(made) : made[a].kind = "link"
            /\ Crosses(f, r) => \E a \in 1 .. Len(made) : made[a].kind = "geofence"
<1> DEFINE row == f.robots[i]
           r   == row.robot
           p   == LinkAlerts(row)
           q   == FenceAlerts(row)
           made == p \o q
<1>1. /\ row \in RobotState /\ r \in Seen(f) /\ r \in Robot /\ RowOf(f, r) = row
      /\ row.link \in LinkStatus /\ row.inside \in BOOLEAN
  BY Rows DEF RobotState
<1>2. linkAlert(r, row.link) \in NewAlert /\ linkAlert(r, row.link).kind = "link"
      /\ linkAlert(r, row.link).robot = r
  BY <1>1, LinkSeverities
<1>3. LinkChanges(f, r) <=> prevLink[r] \notin {None, row.link}
  BY <1>1 DEF LinkChanges
<1> DEFINE fence == mk("geofence", IF row.inside THEN "info" ELSE "critical", r, None)
<1>4. /\ fence \in NewAlert /\ fence.kind = "geofence" /\ fence.robot = r
      /\ fence.severity = IF row.inside THEN "info" ELSE "critical"
  BY <1>1 DEF mk, NewAlert, Severity
<1>5. Crosses(f, r) <=> ~(row.link = "LINK_LOST" \/ row.inside =
                           IF prevInside[r] = None THEN TRUE ELSE prevInside[r])
  BY <1>1 DEF Crosses, Looked
<1>6. p = IF LinkChanges(f, r) THEN <<linkAlert(r, row.link)>> ELSE <<>>
  BY <1>3 DEF LinkAlerts
<1>7. q = IF Crosses(f, r) THEN <<fence>> ELSE <<>>
  BY <1>5 DEF FenceAlerts
<1> HIDE DEF p, q, fence, row
<1>8. /\ p \in Seq(NewAlert)
      /\ Len(p) = IF LinkChanges(f, r) THEN 1 ELSE 0
      /\ \A a \in 1 .. Len(p) : a = 1 /\ p[a] = linkAlert(r, row.link)
  BY <1>2, <1>6
<1>9. /\ q \in Seq(NewAlert)
      /\ Len(q) = IF Crosses(f, r) THEN 1 ELSE 0
      /\ \A a \in 1 .. Len(q) : a = 1 /\ q[a] = fence
  BY <1>4, <1>7
<1>10. /\ made \in Seq(NewAlert) /\ Len(made) = Len(p) + Len(q)
       /\ \A x \in 1 .. Len(p) : x \in 1 .. Len(made) /\ made[x] = p[x]
       /\ \A y \in 1 .. Len(q) : y + Len(p) \in 1 .. Len(made) /\ made[y + Len(p)] = q[y]
       /\ \A x \in 1 .. Len(made) : \/ x \in 1 .. Len(p)
                                    \/ x - Len(p) \in 1 .. Len(q) /\ made[x] = q[x - Len(p)]
  BY <1>8, <1>9, Concatenated
<1> HIDE DEF made
<1>11. ASSUME NEW a \in 1 .. Len(made)
       PROVE  \/ a = 1 /\ LinkChanges(f, r) /\ made[a] = linkAlert(r, row.link)
              \/ a = 1 + Len(p) /\ Crosses(f, r) /\ made[a] = fence
  <2>1. CASE a \in 1 .. Len(p)
    <3>1. a = 1 /\ made[a] = linkAlert(r, row.link)
      BY <1>8, <1>10, <2>1
    <3>2. LinkChanges(f, r)
      BY <1>8, <2>1
    <3> QED BY <3>1, <3>2
  <2>2. CASE a - Len(p) \in 1 .. Len(q) /\ made[a] = q[a - Len(p)]
    <3> DEFINE b == a - Len(p)
    <3>1. b \in 1 .. Len(q) /\ made[a] = q[b] /\ a = b + Len(p)
      BY <1>8, <2>2
    <3> HIDE DEF b
    <3>2. b = 1 /\ made[a] = fence
      BY <1>9, <3>1
    <3>3. Crosses(f, r)
      BY <1>9, <3>1
    <3> QED BY <1>8, <3>1, <3>2, <3>3
  <2> QED BY <1>10, <2>1, <2>2
<1>12. \A a \in 1 .. Len(made) :
         /\ made[a].robot = r /\ made[a].kind \in {"link", "geofence"}
         /\ made[a].kind = "link" =>
              LinkChanges(f, r) /\ made[a].severity = linkAlert(r, row.link).severity
         /\ made[a].kind = "geofence" =>
              Crosses(f, r) /\ made[a].severity = IF row.inside THEN "info" ELSE "critical"
  BY <1>2, <1>4, <1>11
<1>13. \A a, b \in 1 .. Len(made) : made[a].kind = made[b].kind => a = b
  BY <1>2, <1>4, <1>11
<1>14. LinkChanges(f, r) => \E a \in 1 .. Len(made) : made[a].kind = "link"
  <2> SUFFICES ASSUME LinkChanges(f, r) PROVE \E a \in 1 .. Len(made) : made[a].kind = "link"
    OBVIOUS
  <2>1. 1 \in 1 .. Len(p)
    BY <1>8
  <2> QED BY <1>2, <1>8, <1>10, <2>1
<1>15. Crosses(f, r) => \E a \in 1 .. Len(made) : made[a].kind = "geofence"
  <2> SUFFICES ASSUME Crosses(f, r) PROVE \E a \in 1 .. Len(made) : made[a].kind = "geofence"
    OBVIOUS
  <2>1. 1 \in 1 .. Len(q)
    BY <1>9
  <2>2. 1 + Len(p) \in 1 .. Len(made) /\ made[1 + Len(p)] = fence
    BY <1>9, <1>10, <2>1
  <2> QED BY <1>4, <2>2
<1> QED BY <1>10, <1>12, <1>13, <1>14, <1>15 DEF made, p, q, row

Same(a, b) == a.kind = b.kind /\ a.robot = b.robot

OfRobots(f)  == [i \in DOMAIN f.robots |-> LinkAlerts(f.robots[i]) \o FenceAlerts(f.robots[i])]
OfCommands(f) == [i \in DOMAIN f.commands |-> FailureAlerts(f, i)]

\* What is made of the rows: of every change one alert, and no other.
LEMMA RobotAlerts ==
  ASSUME Types, NEW f \in Frames, NEW made,
         made = FlattenSeq(OfRobots(f))
  PROVE  /\ made \in Seq(NewAlert)
         /\ \A a \in 1 .. Len(made) :
              LET r == made[a].robot
              IN /\ made[a].kind \in {"link", "geofence"}
                 /\ made[a].kind = "link" =>
                      /\ LinkChanges(f, r)
                      /\ made[a].severity = linkAlert(r, RowOf(f, r).link).severity
                 /\ made[a].kind = "geofence" =>
                      /\ Crosses(f, r)
                      /\ made[a].severity = IF RowOf(f, r).inside THEN "info" ELSE "critical"
         /\ \A a, b \in 1 .. Len(made) : Same(made[a], made[b]) => a = b
         /\ \A r \in Robot :
              /\ LinkChanges(f, r) =>
                   \E a \in 1 .. Len(made) : made[a].kind = "link" /\ made[a].robot = r
              /\ Crosses(f, r) =>
                   \E a \in 1 .. Len(made) : made[a].kind = "geofence" /\ made[a].robot = r
<1> DEFINE n == Len(f.robots)
           Of(i) == LinkAlerts(f.robots[i]) \o FenceAlerts(f.robots[i])
           parts == [i \in 1 .. n |-> Of(i)]
           Good(i, a) == LET r == a.robot
                         IN /\ r = f.robots[i].robot /\ a.kind \in {"link", "geofence"}
                            /\ a.kind = "link" =>
                                 /\ LinkChanges(f, r)
                                 /\ a.severity = linkAlert(r, RowOf(f, r).link).severity
                            /\ a.kind = "geofence" =>
                                 /\ Crosses(f, r)
                                 /\ a.severity = IF RowOf(f, r).inside THEN "info" ELSE "critical"
<1>1. /\ f.robots \in Seq(RobotState) /\ DOMAIN f.robots = 1 .. n /\ n \in Nat
      /\ \A i \in 1 .. n : RowOf(f, f.robots[i].robot) = f.robots[i]
      /\ \A r \in Seen(f) : \E i \in 1 .. n : f.robots[i].robot = r
  BY Rows
<1>2. ASSUME NEW i \in 1 .. n
      PROVE  /\ Of(i) \in Seq(NewAlert)
             /\ \A a \in 1 .. Len(Of(i)) : Good(i, Of(i)[a])
             /\ \A a, b \in 1 .. Len(Of(i)) : Of(i)[a].kind = Of(i)[b].kind => a = b
             /\ LinkChanges(f, f.robots[i].robot) =>
                  \E a \in 1 .. Len(Of(i)) : Of(i)[a].kind = "link"
             /\ Crosses(f, f.robots[i].robot) =>
                  \E a \in 1 .. Len(Of(i)) : Of(i)[a].kind = "geofence"
  <2>1. RowOf(f, f.robots[i].robot) = f.robots[i]
    BY <1>1
  <2> DEFINE r == f.robots[i].robot
  <2>2. /\ Of(i) \in Seq(NewAlert)
        /\ \A a \in 1 .. Len(Of(i)) :
             /\ Of(i)[a].robot = r /\ Of(i)[a].kind \in {"link", "geofence"}
             /\ Of(i)[a].kind = "link" =>
                  /\ LinkChanges(f, r)
                  /\ Of(i)[a].severity = linkAlert(r, f.robots[i].link).severity
             /\ Of(i)[a].kind = "geofence" =>
                  /\ Crosses(f, r)
                  /\ Of(i)[a].severity = IF f.robots[i].inside THEN "info" ELSE "critical"
        /\ \A a, b \in 1 .. Len(Of(i)) : Of(i)[a].kind = Of(i)[b].kind => a = b
        /\ LinkChanges(f, r) => \E a \in 1 .. Len(Of(i)) : Of(i)[a].kind = "link"
        /\ Crosses(f, r) => \E a \in 1 .. Len(Of(i)) : Of(i)[a].kind = "geofence"
    BY RowAlerts, Zenon
  <2> HIDE DEF Of
  <2>3. \A a \in 1 .. Len(Of(i)) : Good(i, Of(i)[a])
    BY <2>1, <2>2
  <2> QED BY <2>2, <2>3
<1> HIDE DEF Of, Good
<1>3. parts \in Seq(Seq(NewAlert)) /\ Len(parts) = n /\ \A i \in 1 .. n : parts[i] = Of(i)
  BY <1>1, <1>2
<1> HIDE DEF parts
<1>4. \A i, j \in 1 .. n : f.robots[i].robot = f.robots[j].robot => i = j
  BY <1>1, FramesAssumption
\* The parts an alert is from, and the alerts of the parts.
<1>5. AllDiffer(parts)
  <2>1. ASSUME NEW i \in 1 .. n, NEW j \in 1 .. n, NEW a \in 1 .. Len(Of(i)),
               NEW b \in 1 .. Len(Of(j)), Of(i)[a] = Of(j)[b]
        PROVE  i = j /\ a = b
    <3>1. Good(i, Of(i)[a]) /\ Good(j, Of(j)[b])
      BY <1>2
    <3>2. i = j
      BY <1>4, <2>1, <3>1 DEF Good
    <3>3. Of(i)[a].kind = Of(i)[b].kind /\ b \in 1 .. Len(Of(i))
      BY <2>1, <3>2
    <3> QED BY <1>2, <3>2, <3>3
  <2> QED BY <1>3, <2>1 DEF AllDiffer
<1>6. made = FlattenSeq(parts)
  BY <1>1 DEF parts, Of, OfRobots
<1>7. made \in Seq(NewAlert) /\ MadeOf(made, parts, n) /\ Distinct(made)
  BY <1>3, <1>5, <1>6, Flattened
<1>8. ASSUME NEW x \in 1 .. Len(made)
      PROVE  \E i \in 1 .. n : \E a \in 1 .. Len(Of(i)) : made[x] = Of(i)[a]
  <2>1. PICK i \in 1 .. n : \E a \in 1 .. Len(parts[i]) : made[x] = parts[i][a]
    BY <1>7 DEF MadeOf
  <2> QED BY <1>3, <2>1
<1>9. ASSUME NEW i \in 1 .. n, NEW a \in 1 .. Len(Of(i))
      PROVE  \E x \in 1 .. Len(made) : made[x] = Of(i)[a]
  <2>1. parts[i] = Of(i)
    BY <1>3
  <2>2. \E x \in 1 .. Len(made) : made[x] = parts[i][a]
    BY <1>7, <2>1 DEF MadeOf
  <2> QED BY <2>1, <2>2
<1>10. ASSUME NEW x \in 1 .. Len(made) PROVE \E i \in 1 .. n : Good(i, made[x])
  BY <1>2, <1>8
<1>11. ASSUME NEW x \in 1 .. Len(made), NEW y \in 1 .. Len(made), Same(made[x], made[y])
       PROVE  x = y
  <2>1. PICK i \in 1 .. n : \E a \in 1 .. Len(Of(i)) : made[x] = Of(i)[a]
    BY <1>8
  <2>2. PICK a \in 1 .. Len(Of(i)) : made[x] = Of(i)[a]
    BY <2>1
  <2>3. PICK j \in 1 .. n : \E b \in 1 .. Len(Of(j)) : made[y] = Of(j)[b]
    BY <1>8
  <2>4. PICK b \in 1 .. Len(Of(j)) : made[y] = Of(j)[b]
    BY <2>3
  <2>5. Good(i, Of(i)[a]) /\ Good(j, Of(j)[b])
    BY <1>2
  <2>6. i = j
    BY <1>4, <1>11, <2>2, <2>4, <2>5 DEF Good, Same
  <2>7. b \in 1 .. Len(Of(i)) /\ Of(i)[a].kind = Of(i)[b].kind
    BY <1>11, <2>2, <2>4, <2>6 DEF Same
  <2>8. a = b
    BY <1>2, <2>7
  <2> QED BY <1>7, <2>2, <2>4, <2>6, <2>8 DEF Distinct
<1>12. ASSUME NEW r \in Robot, LinkChanges(f, r)
       PROVE  \E x \in 1 .. Len(made) : made[x].kind = "link" /\ made[x].robot = r
  <2>1. PICK i \in 1 .. n : f.robots[i].robot = r
    BY <1>1, <1>12 DEF LinkChanges
  <2>2. PICK a \in 1 .. Len(Of(i)) : Of(i)[a].kind = "link"
    BY <1>2, <1>12, <2>1
  <2>3. Of(i)[a].robot = r
    BY <1>2, <2>1 DEF Good
  <2> QED BY <1>9, <2>2, <2>3
<1>13. ASSUME NEW r \in Robot, Crosses(f, r)
       PROVE  \E x \in 1 .. Len(made) : made[x].kind = "geofence" /\ made[x].robot = r
  <2>1. PICK i \in 1 .. n : f.robots[i].robot = r
    BY <1>1, <1>13 DEF Crosses, Looked
  <2>2. PICK a \in 1 .. Len(Of(i)) : Of(i)[a].kind = "geofence"
    BY <1>2, <1>13, <2>1
  <2>3. Of(i)[a].robot = r
    BY <1>2, <2>1 DEF Good
  <2> QED BY <1>9, <2>2, <2>3
<1>14. \A a \in 1 .. Len(made) :
         LET r == made[a].robot
         IN /\ made[a].kind \in {"link", "geofence"}
            /\ made[a].kind = "link" =>
                 /\ LinkChanges(f, r)
                 /\ made[a].severity = linkAlert(r, RowOf(f, r).link).severity
            /\ made[a].kind = "geofence" =>
                 /\ Crosses(f, r)
                 /\ made[a].severity = IF RowOf(f, r).inside THEN "info" ELSE "critical"
  BY <1>10 DEF Good
<1> QED BY <1>7, <1>11, <1>12, <1>13, <1>14

\* What is made of the failures: of every one that is new one alert.
LEMMA CommandAlerts ==
  ASSUME Types, NEW f \in Frames, NEW made,
         made = FlattenSeq(OfCommands(f))
  PROVE  /\ made \in Seq(NewAlert)
         /\ \A a \in 1 .. Len(made) : /\ made[a].kind = "command"
                                      /\ Key(made[a]) \in FailedKeys(f) \ seenCmdTargets
         /\ \A a, b \in 1 .. Len(made) : Key(made[a]) = Key(made[b]) => a = b
         /\ \A k \in FailedKeys(f) \ seenCmdTargets : \E a \in 1 .. Len(made) : Key(made[a]) = k
<1> DEFINE n == Len(f.commands)
           K(i) == Key(f.commands[i])
           First(i) == /\ i \in Failures(f) /\ K(i) \notin seenCmdTargets
                       /\ \A j \in Failures(f) : j < i => K(j) # K(i)
           alert(i) == mk("command", "warn", f.commands[i].robot, f.commands[i].command)
           parts == [i \in 1 .. n |-> FailureAlerts(f, i)]
<1>1. /\ DOMAIN f.commands = 1 .. n /\ n \in Nat
      /\ \A i \in 1 .. n : f.commands[i] \in TargetStatus
  BY Rows
<1>2. Failures(f) \subseteq 1 .. n
  BY <1>1 DEF Failures
<1>3. \A i \in 1 .. n : /\ alert(i) \in NewAlert /\ alert(i).kind = "command"
                        /\ Key(alert(i)) = K(i)
  BY <1>1 DEF mk, NewAlert, Severity, TargetStatus, Key
<1>4. \A i \in 1 .. n : FailureAlerts(f, i) = IF First(i) THEN <<alert(i)>> ELSE <<>>
  BY DEF FailureAlerts
<1> HIDE DEF alert, First, K
<1>5. ASSUME NEW i \in 1 .. n
      PROVE  /\ FailureAlerts(f, i) \in Seq(NewAlert)
             /\ \A a \in 1 .. Len(FailureAlerts(f, i)) :
                  First(i) /\ a = 1 /\ FailureAlerts(f, i)[a] = alert(i)
             /\ First(i) => /\ 1 \in 1 .. Len(FailureAlerts(f, i))
                            /\ FailureAlerts(f, i)[1] = alert(i)
  <2>1. CASE First(i)
    <3>1. FailureAlerts(f, i) = <<alert(i)>> /\ alert(i) \in NewAlert
      BY <1>3, <1>4, <2>1
    <3> QED BY <2>1, <3>1
  <2>2. CASE ~First(i)
    <3>1. FailureAlerts(f, i) = <<>>
      BY <1>4, <2>2
    <3> QED BY <2>2, <3>1
  <2> QED BY <2>1, <2>2
<1>6. parts \in Seq(Seq(NewAlert)) /\ Len(parts) = n /\ \A i \in 1 .. n : parts[i] = FailureAlerts(f, i)
  BY <1>1, <1>5
<1>7. made = FlattenSeq(parts)
  BY <1>1 DEF parts, OfCommands
<1> HIDE DEF parts
<1>8. \A i, j \in 1 .. n : First(i) /\ First(j) /\ K(i) = K(j) => i = j
  BY <1>2 DEF First
<1>9. AllDiffer(parts)
  <2>1. ASSUME NEW i \in 1 .. n, NEW j \in 1 .. n, NEW a \in 1 .. Len(FailureAlerts(f, i)),
               NEW b \in 1 .. Len(FailureAlerts(f, j)),
               FailureAlerts(f, i)[a] = FailureAlerts(f, j)[b]
        PROVE  i = j /\ a = b
    <3>1. First(i) /\ First(j) /\ a = 1 /\ b = 1 /\ alert(i) = alert(j)
      BY <1>5, <2>1
    <3>2. K(i) = K(j)
      BY <1>3, <3>1
    <3> QED BY <1>8, <3>1, <3>2
  <2> QED BY <1>6, <2>1 DEF AllDiffer
<1>10. made \in Seq(NewAlert) /\ MadeOf(made, parts, n) /\ Distinct(made)
  BY <1>6, <1>9, <1>7, Flattened
<1>11. \A x \in 1 .. Len(made) : \E i \in 1 .. n : First(i) /\ made[x] = alert(i)
  <2> SUFFICES ASSUME NEW x \in 1 .. Len(made)
               PROVE  \E i \in 1 .. n : First(i) /\ made[x] = alert(i)
    OBVIOUS
  <2>1. PICK i \in 1 .. n : \E a \in 1 .. Len(parts[i]) : made[x] = parts[i][a]
    BY <1>10 DEF MadeOf
  <2> QED BY <1>5, <1>6, <2>1
<1>12. \A i \in 1 .. n : First(i) => \E x \in 1 .. Len(made) : made[x] = alert(i)
  <2> SUFFICES ASSUME NEW i \in 1 .. n, First(i)
               PROVE  \E x \in 1 .. Len(made) : made[x] = alert(i)
    OBVIOUS
  <2>1. 1 \in 1 .. Len(parts[i]) /\ parts[i][1] = alert(i)
    BY <1>5, <1>6
  <2>2. \E x \in 1 .. Len(made) : made[x] = parts[i][1]
    BY <1>10, <2>1 DEF MadeOf
  <2> QED BY <2>1, <2>2
<1>13. \A x \in 1 .. Len(made) : /\ made[x].kind = "command"
                                 /\ Key(made[x]) \in FailedKeys(f) \ seenCmdTargets
  BY <1>3, <1>11 DEF First, FailedKeys, K
<1>14. \A x, y \in 1 .. Len(made) : Key(made[x]) = Key(made[y]) => x = y
  <2> SUFFICES ASSUME NEW x \in 1 .. Len(made), NEW y \in 1 .. Len(made),
                      Key(made[x]) = Key(made[y])
               PROVE  x = y
    OBVIOUS
  <2>1. PICK i \in 1 .. n : First(i) /\ made[x] = alert(i)
    BY <1>11
  <2>2. PICK j \in 1 .. n : First(j) /\ made[y] = alert(j)
    BY <1>11
  <2>3. i = j
    BY <1>3, <1>8, <2>1, <2>2
  <2> QED BY <1>10, <2>1, <2>2, <2>3 DEF Distinct
<1>15. ASSUME NEW k \in FailedKeys(f) \ seenCmdTargets
       PROVE  \E x \in 1 .. Len(made) : Key(made[x]) = k
  <2> DEFINE T == {i \in Failures(f) : K(i) = k}
  <2>1. T # {} /\ T \subseteq Nat
    BY <1>2 DEF FailedKeys, K
  <2>2. PICK i \in T : \A j \in T : i <= j
    BY <2>1, FirstOf
  <2>3. First(i) /\ i \in 1 .. n
    BY <1>2, <2>2 DEF First
  <2> QED BY <1>3, <1>12, <2>2, <2>3
<1> QED BY <1>10, <1>13, <1>14, <1>15

\* What the alerts of a frame tell: every change that it tells, and no other.
Right(out, f) ==
  /\ \A x \in 1 .. Len(out) :
       LET r == out[x].robot
       IN /\ out[x].kind = "link" =>
               /\ LinkChanges(f, r)
               /\ out[x].severity = linkAlert(r, RowOf(f, r).link).severity
          /\ out[x].kind = "geofence" =>
               /\ Crosses(f, r)
               /\ out[x].severity = IF RowOf(f, r).inside THEN "info" ELSE "critical"
          /\ out[x].kind = "command" => Key(out[x]) \in FailedKeys(f) \ seenCmdTargets
  /\ \A x, y \in 1 .. Len(out) :
       Same(out[x], out[y]) /\ (out[x].kind = "command" => Key(out[x]) = Key(out[y])) => x = y
  /\ \A r \in Robot :
       /\ LinkChanges(f, r) =>
            \E x \in 1 .. Len(out) : out[x].kind = "link" /\ out[x].robot = r
       /\ Crosses(f, r) =>
            \E x \in 1 .. Len(out) : out[x].kind = "geofence" /\ out[x].robot = r
  /\ \A k \in FailedKeys(f) \ seenCmdTargets :
       \E x \in 1 .. Len(out) : out[x].kind = "command" /\ Key(out[x]) = k

LEMMA CreatedCorrect ==
  ASSUME Types, NEW f \in Frames
  PROVE  Created(f) \in Seq(NewAlert) /\ Right(Created(f), f)
<1> DEFINE p == FlattenSeq(OfRobots(f))
           q == FlattenSeq(OfCommands(f))
           out == p \o q
<1>1. Created(f) = out
  BY DEF Created, OfRobots, OfCommands
<1>2. p = FlattenSeq(OfRobots(f)) /\ q = FlattenSeq(OfCommands(f))
  OBVIOUS
<1> HIDE DEF p, q
<1>3. /\ p \in Seq(NewAlert)
      /\ \A a \in 1 .. Len(p) :
           LET r == p[a].robot
           IN /\ p[a].kind \in {"link", "geofence"}
              /\ p[a].kind = "link" =>
                   /\ LinkChanges(f, r)
                   /\ p[a].severity = linkAlert(r, RowOf(f, r).link).severity
              /\ p[a].kind = "geofence" =>
                   /\ Crosses(f, r)
                   /\ p[a].severity = IF RowOf(f, r).inside THEN "info" ELSE "critical"
      /\ \A a, b \in 1 .. Len(p) : Same(p[a], p[b]) => a = b
      /\ \A r \in Robot :
           /\ LinkChanges(f, r) => \E a \in 1 .. Len(p) : p[a].kind = "link" /\ p[a].robot = r
           /\ Crosses(f, r) => \E a \in 1 .. Len(p) : p[a].kind = "geofence" /\ p[a].robot = r
  BY <1>2, RobotAlerts
<1>4. /\ q \in Seq(NewAlert)
      /\ \A a \in 1 .. Len(q) : /\ q[a].kind = "command"
                                /\ Key(q[a]) \in FailedKeys(f) \ seenCmdTargets
      /\ \A a, b \in 1 .. Len(q) : Key(q[a]) = Key(q[b]) => a = b
      /\ \A k \in FailedKeys(f) \ seenCmdTargets : \E a \in 1 .. Len(q) : Key(q[a]) = k
  BY <1>2, CommandAlerts
<1>5. /\ out \in Seq(NewAlert) /\ Len(out) = Len(p) + Len(q)
      /\ \A x \in 1 .. Len(p) : x \in 1 .. Len(out) /\ out[x] = p[x]
      /\ \A y \in 1 .. Len(q) : y + Len(p) \in 1 .. Len(out) /\ out[y + Len(p)] = q[y]
      /\ \A x \in 1 .. Len(out) : \/ x \in 1 .. Len(p)
                                  \/ x - Len(p) \in 1 .. Len(q) /\ out[x] = q[x - Len(p)]
  BY <1>3, <1>4, Concatenated
<1> HIDE DEF out
<1>6. ASSUME NEW x \in 1 .. Len(out)
      PROVE  \/ x \in 1 .. Len(p) /\ out[x] = p[x] /\ out[x].kind # "command"
             \/ \E y \in 1 .. Len(q) : x = y + Len(p) /\ out[x] = q[y] /\ out[x].kind = "command"
  <2>1. CASE x \in 1 .. Len(p)
    BY <1>3, <1>5, <2>1
  <2>2. CASE x - Len(p) \in 1 .. Len(q) /\ out[x] = q[x - Len(p)]
    <3> DEFINE y == x - Len(p)
    <3>1. y \in 1 .. Len(q) /\ out[x] = q[y] /\ x = y + Len(p)
      BY <1>3, <2>2
    <3> HIDE DEF y
    <3> QED BY <1>4, <3>1
  <2> QED BY <1>5, <2>1, <2>2
<1>7. ASSUME NEW x \in 1 .. Len(out)
      PROVE  LET r == out[x].robot
             IN /\ out[x].kind = "link" =>
                     /\ LinkChanges(f, r)
                     /\ out[x].severity = linkAlert(r, RowOf(f, r).link).severity
                /\ out[x].kind = "geofence" =>
                     /\ Crosses(f, r)
                     /\ out[x].severity = IF RowOf(f, r).inside THEN "info" ELSE "critical"
                /\ out[x].kind = "command" => Key(out[x]) \in FailedKeys(f) \ seenCmdTargets
  <2>1. CASE x \in 1 .. Len(p) /\ out[x] = p[x] /\ out[x].kind # "command"
    BY <1>3, <2>1
  <2>2. CASE \E y \in 1 .. Len(q) : x = y + Len(p) /\ out[x] = q[y] /\ out[x].kind = "command"
    BY <1>4, <2>2
  <2> QED BY <1>6, <2>1, <2>2
<1>8. ASSUME NEW x \in 1 .. Len(out), NEW y \in 1 .. Len(out), Same(out[x], out[y]),
             out[x].kind = "command" => Key(out[x]) = Key(out[y])
      PROVE  x = y
  <2>1. CASE out[x].kind = "command"
    <3>1. out[y].kind = "command"
      BY <1>8, <2>1 DEF Same
    <3>2. PICK a \in 1 .. Len(q) : x = a + Len(p) /\ out[x] = q[a]
      BY <1>6, <2>1
    <3>3. PICK b \in 1 .. Len(q) : y = b + Len(p) /\ out[y] = q[b]
      BY <1>6, <3>1
    <3> QED BY <1>4, <1>8, <2>1, <3>2, <3>3
  <2>2. CASE out[x].kind # "command"
    <3>1. out[y].kind # "command"
      BY <1>8, <2>2 DEF Same
    <3> QED BY <1>3, <1>6, <1>8, <2>2, <3>1
  <2> QED BY <2>1, <2>2
<1>9. \A r \in Robot :
        /\ LinkChanges(f, r) =>
             \E x \in 1 .. Len(out) : out[x].kind = "link" /\ out[x].robot = r
        /\ Crosses(f, r) =>
             \E x \in 1 .. Len(out) : out[x].kind = "geofence" /\ out[x].robot = r
  <2>1. ASSUME NEW r \in Robot, LinkChanges(f, r)
        PROVE  \E x \in 1 .. Len(out) : out[x].kind = "link" /\ out[x].robot = r
    <3>1. PICK a \in 1 .. Len(p) : p[a].kind = "link" /\ p[a].robot = r
      BY <1>3, <2>1
    <3> QED BY <1>5, <3>1
  <2>2. ASSUME NEW r \in Robot, Crosses(f, r)
        PROVE  \E x \in 1 .. Len(out) : out[x].kind = "geofence" /\ out[x].robot = r
    <3>1. PICK a \in 1 .. Len(p) : p[a].kind = "geofence" /\ p[a].robot = r
      BY <1>3, <2>2
    <3> QED BY <1>5, <3>1
  <2> QED BY <2>1, <2>2
<1>10. ASSUME NEW k \in FailedKeys(f) \ seenCmdTargets
      PROVE  \E x \in 1 .. Len(out) : out[x].kind = "command" /\ Key(out[x]) = k
  <2>1. PICK a \in 1 .. Len(q) : Key(q[a]) = k /\ q[a].kind = "command"
    BY <1>4
  <2> QED BY <1>5, <2>1
<1>11. Right(out, f)
  BY <1>7, <1>8, <1>9, <1>10 DEF Right
<1> QED BY <1>1, <1>5, <1>11

\* They are numbered on.
LEMMA NumberedCorrect ==
  ASSUME Types, NEW f \in Frames
  PROVE  LET new == Numbered(Created(f))
         IN /\ new \in Seq(Alert) /\ Len(new) = Len(Created(f))
            /\ \A x \in 1 .. Len(new) : new[x].id = seq + x - 1
            /\ Right(new, f)
<1> DEFINE out == Created(f)
           new == Numbered(out)
<1>1. out \in Seq(NewAlert) /\ Right(out, f) /\ Len(out) \in Nat /\ DOMAIN out = 1 .. Len(out)
  BY CreatedCorrect
<1> HIDE DEF out
<1>2. ASSUME NEW x \in 1 .. Len(out)
      PROVE  /\ new[x] = [id |-> seq + x - 1, kind |-> out[x].kind, severity |-> out[x].severity,
                          robot |-> out[x].robot, command |-> out[x].command]
             /\ new[x] \in Alert
             /\ new[x].id = seq + x - 1 /\ new[x].kind = out[x].kind
             /\ new[x].severity = out[x].severity /\ new[x].robot = out[x].robot
             /\ new[x].command = out[x].command
  <2>1. new[x] = [id |-> seq + x - 1, kind |-> out[x].kind, severity |-> out[x].severity,
                  robot |-> out[x].robot, command |-> out[x].command]
    BY <1>1 DEF Numbered
  <2>2. out[x] \in NewAlert /\ seq + x - 1 \in Nat
    BY <1>1 DEF Types
  <2> QED BY <2>1, <2>2 DEF NewAlert, Alert
<1>3. DOMAIN new = 1 .. Len(out) /\ new = [x \in 1 .. Len(out) |-> new[x]]
  BY <1>1 DEF Numbered
<1> HIDE DEF new
<1>4. new \in Seq(Alert) /\ Len(new) = Len(out)
  BY <1>1, <1>2, <1>3
<1>5. \A x \in 1 .. Len(new) : Key(new[x]) = Key(out[x])
  BY <1>2, <1>4 DEF Key
<1>6. \A x, y \in 1 .. Len(new) : Same(new[x], new[y]) = Same(out[x], out[y])
  BY <1>2, <1>4 DEF Same
<1>7. Len(new) = Len(out) /\ \A x \in 1 .. Len(out) :
        /\ new[x].kind = out[x].kind /\ new[x].severity = out[x].severity
        /\ new[x].robot = out[x].robot /\ Key(new[x]) = Key(out[x])
  BY <1>2, <1>4, <1>5
<1>8. Right(out, f)
  BY <1>1
<1>9. Right(new, f)
  <2>1. \A x \in 1 .. Len(new) :
          LET r == new[x].robot
          IN /\ new[x].kind = "link" =>
                  /\ LinkChanges(f, r)
                  /\ new[x].severity = linkAlert(r, RowOf(f, r).link).severity
             /\ new[x].kind = "geofence" =>
                  /\ Crosses(f, r)
                  /\ new[x].severity = IF RowOf(f, r).inside THEN "info" ELSE "critical"
             /\ new[x].kind = "command" => Key(new[x]) \in FailedKeys(f) \ seenCmdTargets
    BY <1>7, <1>8 DEF Right
  <2>2. \A x, y \in 1 .. Len(new) :
          Same(new[x], new[y]) /\ (new[x].kind = "command" => Key(new[x]) = Key(new[y])) => x = y
    BY <1>4, <1>6, <1>7, <1>8 DEF Right
  <2>3. \A r \in Robot :
          /\ LinkChanges(f, r) =>
               \E x \in 1 .. Len(new) : new[x].kind = "link" /\ new[x].robot = r
          /\ Crosses(f, r) =>
               \E x \in 1 .. Len(new) : new[x].kind = "geofence" /\ new[x].robot = r
    BY <1>7, <1>8 DEF Right
  <2>4. \A k \in FailedKeys(f) \ seenCmdTargets :
          \E x \in 1 .. Len(new) : new[x].kind = "command" /\ Key(new[x]) = k
    BY <1>7, <1>8 DEF Right
  <2> QED BY <2>1, <2>2, <2>3, <2>4 DEF Right
<1>10. \A x \in 1 .. Len(new) : new[x].id = seq + x - 1
  BY <1>2, <1>4
<1> QED BY <1>4, <1>9, <1>10 DEF new, out

-----------------------------------------------------------------------------
(* The list that is kept.                                                  *)

\* The last MaxAlerts of a list, which are its members from d on.
LEMMA KeptOf ==
  ASSUME NEW A, NEW w \in Seq(A)
  PROVE  /\ Kept(w) \in Seq(A) /\ Len(Kept(w)) <= MaxAlerts
         /\ \E d \in Nat : /\ Len(w) = Len(Kept(w)) + d
                           /\ Len(w) <= MaxAlerts => d = 0 /\ Kept(w) = w
                           /\ Len(w) > MaxAlerts => Len(Kept(w)) = MaxAlerts
                           /\ \A i \in 1 .. Len(Kept(w)) : i + d \in 1 .. Len(w) /\ Kept(w)[i] = w[i + d]
<1>1. MaxAlerts \in Nat \ {0} /\ Len(w) \in Nat
  BY BoundsAssumption
<1>2. CASE Len(w) <= MaxAlerts
  <2> DEFINE v == SubSeq(w, 1, Len(w))
  <2>1. ~(Len(w) > MaxAlerts)
    BY <1>1, <1>2
  <2>2. Kept(w) = v
    BY <2>1, Zenon DEF Kept
  <2>3. v \in Seq(A) /\ Len(v) = Len(w) /\ \A i \in 1 .. Len(w) : v[i] = w[i]
    BY <1>1
  <2> HIDE DEF v
  <2>4. v = w
    BY <2>3
  <2> QED BY <1>1, <1>2, <2>2, <2>4
<1>3. CASE Len(w) > MaxAlerts
  <2> DEFINE d == Len(w) - MaxAlerts
  <2>1. Kept(w) = SubSeq(w, d + 1, Len(w))
    BY <1>3 DEF Kept
  <2>2. d \in Nat /\ d # 0 /\ Len(w) = MaxAlerts + d
    BY <1>1, <1>3
  <2> HIDE DEF d
  <2>3. /\ Kept(w) \in Seq(A) /\ Len(Kept(w)) = MaxAlerts
        /\ \A i \in 1 .. MaxAlerts : i + d \in 1 .. Len(w) /\ Kept(w)[i] = w[i + d]
    BY <1>1, <2>1, <2>2
  <2> QED BY <1>1, <1>3, <2>2, <2>3
<1> QED BY <1>1, <1>2, <1>3

\* What a list tells of a kind and a robot, against a list of changes.
TellsAs(list, kind, r, c) ==
  \A i \in 1 .. Len(list) : list[i].kind = kind /\ list[i].robot = r =>
    LET n == Cardinality({m \in Told(list, kind, r) : m > list[i].id})
    IN n < Len(c) /\ list[i].severity = c[Len(c) - n]

Increasing(list) == \A i, j \in 1 .. Len(list) : i < j => list[i].id < list[j].id

\* What a list tells of the failures, against those that were seen.
Sound(list, seen) ==
  /\ \A i \in 1 .. Len(list) : list[i].kind = "command" => Key(list[i]) \in seen
  /\ \A i, j \in 1 .. Len(list) :
       list[i].kind = "command" /\ list[j].kind = "command" /\ Key(list[i]) = Key(list[j])
         => i = j

Complete(list, seen) ==
  \A k \in seen : \E i \in 1 .. Len(list) : list[i].kind = "command" /\ Key(list[i]) = k

Counted ==
  /\ Len(alerts) <= MaxAlerts /\ Len(alerts) <= seq
  /\ seq <= MaxAlerts => Len(alerts) = seq
  /\ \A i \in 1 .. Len(alerts) : alerts[i].id < seq
  /\ Increasing(alerts)

\* Of the numbers kept, those acknowledged are on the screen.
Acks ==
  /\ \A id \in acked \cup Ids(shown) : id < seq
  /\ \A i \in 1 .. Len(alerts) : alerts[i].id \in acked => alerts[i].id \in Ids(shown)

\* The engine remembers the latest change of each.
Remembers ==
  \A r \in Robot :
    /\ prevLink[r] = IF links[r] = <<>> THEN None ELSE Last(links[r])
    /\ sides[r] # <<>>
    /\ (IF prevInside[r] = None THEN TRUE ELSE prevInside[r]) = Last(sides[r])

Kinds == {"link", "geofence"}

\* Every change is told by the alert that stands for it.
Telling ==
  \A kind \in Kinds, r \in Robot :
    /\ TellsAs(alerts, kind, r, Changes(kind, r))
    /\ seq <= MaxAlerts => Cardinality(Told(alerts, kind, r)) = Len(Changes(kind, r))

IInv ==
  /\ Types /\ Counted /\ Acks /\ Remembers /\ Telling
  /\ Sound(alerts, seenCmdTargets)
  /\ seq <= MaxAlerts => Complete(alerts, seenCmdTargets)

-----------------------------------------------------------------------------
(* The changes that a frame shows.                                         *)

\* A list of changes, and the one with one more.
OneMore(c, d, x) ==
  /\ Len(d) = Len(c) + 1
  /\ \A k \in 1 .. Len(c) : d[k] = c[k]
  /\ d[Len(d)] = x

\* The history is extended by what differs.
LEMMA ExtendedOf ==
  ASSUME NEW A, NEW s \in Seq(A), NEW x \in A
  PROVE  /\ Extended(s, x) \in Seq(A) /\ Extended(s, x) # <<>> /\ Last(Extended(s, x)) = x
         /\ s # <<>> /\ Last(s) = x => Extended(s, x) = s
         /\ s = <<>> \/ Last(s) # x => OneMore(s, Extended(s, x), x)
<1>1. CASE s # <<>> /\ Last(s) = x
  BY <1>1 DEF Extended
<1>2. CASE ~(s # <<>> /\ Last(s) = x)
  <2> DEFINE t == Append(s, x)
  <2>1. Extended(s, x) = t
    BY <1>2 DEF Extended
  <2>2. /\ t \in Seq(A) /\ Len(t) = Len(s) + 1 /\ t[Len(s) + 1] = x
        /\ \A k \in 1 .. Len(s) : t[k] = s[k]
    OBVIOUS
  <2>3. t # <<>>
    BY <2>2
  <2> HIDE DEF t
  <2> QED BY <1>2, <2>1, <2>2, <2>3 DEF OneMore, Last
<1> QED BY <1>1, <1>2

\* The alert that a change calls for.
Calls(f, kind, r) ==
  IF kind = "link" THEN LinkSeverity[RowOf(f, r).link]
                   ELSE IF RowOf(f, r).inside THEN "info" ELSE "critical"

Changed(f, kind, r) == IF kind = "link" THEN LinkChanges(f, r) ELSE Crosses(f, r)

\* The histories are of the types of what they are about.
LEMMA WitnessTypes ==
  ASSUME Types, NEW f \in Frames, Witness(f)
  PROVE  links' \in [Robot -> Seq(LinkStatus)] /\ sides' \in [Robot -> Seq(BOOLEAN)]
<1>1. \A r \in Seen(f) : RowOf(f, r).link \in LinkStatus /\ RowOf(f, r).inside \in BOOLEAN
  BY Rows DEF RobotState
<1>2. links \in [Robot -> Seq(LinkStatus)] /\ sides \in [Robot -> Seq(BOOLEAN)]
  BY DEF Types
<1>3. ASSUME NEW r \in Robot, r \in Seen(f)
      PROVE  /\ Extended(links[r], RowOf(f, r).link) \in Seq(LinkStatus)
             /\ Extended(sides[r], RowOf(f, r).inside) \in Seq(BOOLEAN)
  <2>1. links[r] \in Seq(LinkStatus) /\ sides[r] \in Seq(BOOLEAN)
    BY <1>2
  <2> QED BY <1>1, <1>3, <2>1, ExtendedOf
<1> QED BY <1>2, <1>3 DEF Witness

LEMMA LinkWitnessed ==
  ASSUME IInv, NEW f \in Frames, Witness(f), ingest(f), NEW r \in Robot
  PROVE  /\ prevLink'[r] = IF links'[r] = <<>> THEN None ELSE Last(links'[r])
         /\ LinkChanges(f, r) => OneMore(Changes("link", r), Changes("link", r)',
                                         Calls(f, "link", r))
         /\ ~LinkChanges(f, r) => Changes("link", r)' = Changes("link", r)
<1>1. /\ links[r] \in Seq(LinkStatus) /\ prevLink \in [Robot -> LinkStatus \cup {None}]
      /\ prevLink[r] = IF links[r] = <<>> THEN None ELSE Last(links[r])
      /\ links \in [Robot -> Seq(LinkStatus)]
  BY DEF IInv, Types, Remembers
<1>2. /\ links'[r] = IF r \in Seen(f) THEN Extended(links[r], RowOf(f, r).link) ELSE links[r]
      /\ prevLink'[r] = IF r \in Seen(f) THEN RowOf(f, r).link ELSE prevLink[r]
  BY DEF Witness, ingest
<1>3. r \in Seen(f) => RowOf(f, r).link \in LinkStatus
  BY Rows DEF RobotState
<1>4. links[r] # <<>> => Len(links[r]) \in 1 .. Len(links[r]) /\ Last(links[r]) \in LinkStatus
  BY <1>1 DEF Last
<1>5. CASE r \notin Seen(f)
  BY <1>1, <1>2, <1>5 DEF LinkChanges, Changes
<1>6. CASE r \in Seen(f)
  <2> DEFINE x == RowOf(f, r).link
             s == links[r]
             t == links'[r]
  <2>1. /\ x \in LinkStatus /\ s \in Seq(LinkStatus) /\ t = Extended(s, x)
        /\ prevLink'[r] = x
    BY <1>1, <1>2, <1>3, <1>6
  <2>2. LinkChanges(f, r) <=> s # <<>> /\ Last(s) # x
    BY <1>1, <1>4, <1>6, NoneAssumption DEF LinkChanges
  <2>3. /\ Changes("link", r) = [k \in 1 .. Len(s) - 1 |-> LinkSeverity[s[k + 1]]]
        /\ Changes("link", r)' = [k \in 1 .. Len(t) - 1 |-> LinkSeverity[t[k + 1]]]
    BY DEF Changes
  <2>4. Calls(f, "link", r) = LinkSeverity[x]
    BY DEF Calls
  <2> HIDE DEF x, s, t
  <2>5. t \in Seq(LinkStatus) /\ t # <<>> /\ Last(t) = x
    BY <2>1, ExtendedOf
  <2>6. prevLink'[r] = IF t = <<>> THEN None ELSE Last(t)
    BY <2>1, <2>5
  <2>7. CASE s # <<>> /\ Last(s) = x
    <3>1. t = s
      BY <2>1, <2>7, ExtendedOf
    <3> QED BY <2>2, <2>3, <2>6, <2>7, <3>1 DEF t
  <2>8. CASE s # <<>> /\ Last(s) # x
    <3>1. OneMore(s, t, x)
      BY <2>1, <2>8, ExtendedOf
    <3>4. /\ Len(s) - 1 \in Nat /\ Len(t) - 1 \in Nat /\ Len(t) = Len(s) + 1
          /\ Len(s) \in Nat /\ Len(t) \in Nat
      BY <2>1, <2>5, <2>8, <3>1 DEF OneMore
    <3> DEFINE c == Changes("link", r)
               d == Changes("link", r)'
    <3>2. /\ Len(c) = Len(s) - 1 /\ \A k \in 1 .. Len(s) - 1 : c[k] = LinkSeverity[s[k + 1]]
          /\ Len(d) = Len(t) - 1 /\ \A k \in 1 .. Len(t) - 1 : d[k] = LinkSeverity[t[k + 1]]
      BY <2>3, <3>4
    <3> HIDE DEF c, d
    <3>3. OneMore(c, d, LinkSeverity[x])
      BY <3>1, <3>2, <3>4 DEF OneMore
    <3> QED BY <2>2, <2>4, <2>6, <2>8, <3>3 DEF c, d, t
  <2>9. CASE s = <<>>
    <3>1. OneMore(s, t, x) /\ Len(s) = 0
      BY <2>1, <2>9, ExtendedOf
    <3>2. Len(t) = 1
      BY <3>1 DEF OneMore
    <3>3. Changes("link", r)' = Changes("link", r)
      BY <2>3, <3>1, <3>2
    <3> QED BY <2>2, <2>6, <2>9, <3>3 DEF t
  <2> QED BY <2>7, <2>8, <2>9
<1> QED BY <1>5, <1>6

LEMMA SideWitnessed ==
  ASSUME IInv, NEW f \in Frames, Witness(f), ingest(f), NEW r \in Robot
  PROVE  /\ sides'[r] # <<>>
         /\ (IF prevInside'[r] = None THEN TRUE ELSE prevInside'[r]) = Last(sides'[r])
         /\ Crosses(f, r) => OneMore(Changes("geofence", r), Changes("geofence", r)',
                                     Calls(f, "geofence", r))
         /\ ~Crosses(f, r) => Changes("geofence", r)' = Changes("geofence", r)
<1>1. /\ sides[r] \in Seq(BOOLEAN) /\ sides[r] # <<>>
      /\ (IF prevInside[r] = None THEN TRUE ELSE prevInside[r]) = Last(sides[r])
  BY DEF IInv, Types, Remembers
<1>2. /\ r \in Looked(f) <=> r \in Seen(f) /\ RowOf(f, r).link # "LINK_LOST"
      /\ sides'[r] = IF r \in Looked(f) THEN Extended(sides[r], RowOf(f, r).inside) ELSE sides[r]
      /\ prevInside'[r] = IF r \in Looked(f) THEN RowOf(f, r).inside ELSE prevInside[r]
  BY DEF Witness, ingest, Looked
<1>3. r \in Looked(f) => RowOf(f, r).inside \in BOOLEAN
  BY <1>2, Rows DEF RobotState
<1>4. CASE r \notin Looked(f)
  BY <1>1, <1>2, <1>4 DEF Crosses, Changes
<1>5. CASE r \in Looked(f)
  <2> DEFINE x == RowOf(f, r).inside
             s == sides[r]
             t == sides'[r]
  <2>1. /\ x \in BOOLEAN /\ s \in Seq(BOOLEAN) /\ s # <<>> /\ t = Extended(s, x)
        /\ prevInside'[r] = x
    BY <1>1, <1>2, <1>3, <1>5
  <2>2. Crosses(f, r) <=> Last(s) # x
    BY <1>1, <1>5 DEF Crosses
  <2>3. /\ Changes("geofence", r) = [k \in 1 .. Len(s) - 1 |-> IF s[k + 1] THEN "info" ELSE "critical"]
        /\ Changes("geofence", r)' = [k \in 1 .. Len(t) - 1 |-> IF t[k + 1] THEN "info" ELSE "critical"]
    BY DEF Changes
  <2>4. Calls(f, "geofence", r) = IF x THEN "info" ELSE "critical"
    BY DEF Calls
  <2>5. x # None
    BY <2>1, NoneAssumption
  <2> HIDE DEF x, s, t
  <2>6. t \in Seq(BOOLEAN) /\ t # <<>> /\ Last(t) = x
    BY <2>1, ExtendedOf
  <2>7. (IF prevInside'[r] = None THEN TRUE ELSE prevInside'[r]) = Last(t)
    BY <2>1, <2>5, <2>6
  <2>8. CASE Last(s) = x
    <3>1. t = s
      BY <2>1, <2>8, ExtendedOf
    <3> QED BY <2>2, <2>3, <2>6, <2>7, <2>8, <3>1 DEF t
  <2>9. CASE Last(s) # x
    <3>1. OneMore(s, t, x)
      BY <2>1, <2>9, ExtendedOf
    <3>4. /\ Len(s) - 1 \in Nat /\ Len(t) - 1 \in Nat /\ Len(t) = Len(s) + 1
          /\ Len(s) \in Nat /\ Len(t) \in Nat
      BY <2>1, <2>6, <3>1 DEF OneMore
    <3> DEFINE c == Changes("geofence", r)
               d == Changes("geofence", r)'
    <3>2. /\ Len(c) = Len(s) - 1
          /\ \A k \in 1 .. Len(s) - 1 : c[k] = IF s[k + 1] THEN "info" ELSE "critical"
          /\ Len(d) = Len(t) - 1
          /\ \A k \in 1 .. Len(t) - 1 : d[k] = IF t[k + 1] THEN "info" ELSE "critical"
      BY <2>3, <3>4
    <3> HIDE DEF c, d
    <3>3. OneMore(c, d, IF x THEN "info" ELSE "critical")
      BY <3>1, <3>2, <3>4 DEF OneMore
    <3> QED BY <2>2, <2>4, <2>6, <2>7, <2>9, <3>3 DEF c, d, t
  <2> QED BY <2>8, <2>9
<1> QED BY <1>4, <1>5

-----------------------------------------------------------------------------
(* The list that is kept.                                                  *)

LEMMA Members ==
  ASSUME NEW list \in Seq(Alert)
  PROVE  /\ DOMAIN list = 1 .. Len(list) /\ Len(list) \in Nat
         /\ \A i \in 1 .. Len(list) : list[i].id \in Nat
<1>1. \A i \in 1 .. Len(list) : list[i] \in Alert
  OBVIOUS
<1> QED BY <1>1 DEF Alert

\* The numbers of a list that tell of a kind and a robot are finitely many.
LEMMA ToldFinite ==
  ASSUME NEW list \in Seq(Alert), NEW b \in Nat, \A i \in 1 .. Len(list) : list[i].id < b,
         NEW kind, NEW r
  PROVE  /\ Told(list, kind, r) \subseteq Nat
         /\ \A m \in Told(list, kind, r) : m < b
         /\ \A T : T \subseteq Told(list, kind, r) => IsFiniteSet(T)
<1>1. DOMAIN list = 1 .. Len(list) /\ \A i \in 1 .. Len(list) : list[i].id \in Nat
  BY Members
<1>2. Told(list, kind, r) \subseteq Nat /\ \A m \in Told(list, kind, r) : m < b
  BY <1>1 DEF Told
<1>3. IsFiniteSet(0 .. b)
  <2>1. 0 \in Int /\ b \in Int
    OBVIOUS
  <2> QED BY <2>1, FS_Interval
<1>4. Told(list, kind, r) \subseteq 0 .. b
  BY <1>2
<1>5. \A T : T \subseteq 0 .. b => IsFiniteSet(T)
  BY <1>3, FS_Subset
<1> QED BY <1>2, <1>4, <1>5

\* The last members of a list tell what they told.
LEMMA TellsSuffix ==
  ASSUME NEW w \in Seq(Alert), Increasing(w), NEW kind, NEW r, NEW c, TellsAs(w, kind, r, c)
  PROVE  TellsAs(Kept(w), kind, r, c)
<1> DEFINE v == Kept(w)
<1>1. v \in Seq(Alert) /\ Len(v) \in Nat /\ Len(w) \in Nat
  BY KeptOf
<1>2. PICK d \in Nat : /\ Len(w) = Len(v) + d
                       /\ \A i \in 1 .. Len(v) : i + d \in 1 .. Len(w) /\ v[i] = w[i + d]
  <2> HIDE DEF v
  <2>1. v = Kept(w)
    BY DEF v
  <2> QED BY <2>1, KeptOf
<1> HIDE DEF v
<1>3. DOMAIN w = 1 .. Len(w) /\ \A i \in 1 .. Len(w) : w[i].id \in Nat
  BY Members
<1>4. ASSUME NEW i \in 1 .. Len(v)
      PROVE  {m \in Told(v, kind, r) : m > v[i].id} = {m \in Told(w, kind, r) : m > w[i + d].id}
  <2>1. ASSUME NEW m \in Told(v, kind, r) PROVE m \in Told(w, kind, r)
    <3>1. PICK k \in 1 .. Len(v) : v[k].kind = kind /\ v[k].robot = r /\ m = v[k].id
      BY <1>1 DEF Told
    <3>2. k + d \in 1 .. Len(w) /\ v[k] = w[k + d]
      BY <1>2
    <3> QED BY <3>1, <3>2 DEF Told
  <2>2. ASSUME NEW m \in Told(w, kind, r), m > w[i + d].id PROVE m \in Told(v, kind, r)
    <3>1. PICK k \in 1 .. Len(w) : w[k].kind = kind /\ w[k].robot = r /\ m = w[k].id
      BY DEF Told
    <3>2. i + d \in 1 .. Len(w) /\ v[i] = w[i + d]
      BY <1>2
    <3>3. ~(k < i + d) /\ k # i + d
      BY <1>3, <2>2, <3>1, <3>2 DEF Increasing
    <3>4. k - d \in 1 .. Len(v) /\ (k - d) + d = k
      BY <1>1, <1>2, <3>3
    <3>5. v[k - d] = w[k]
      BY <1>2, <3>4
    <3> QED BY <1>1, <3>1, <3>4, <3>5 DEF Told
  <2>3. v[i].id = w[i + d].id
    BY <1>2
  <2> QED BY <2>1, <2>2, <2>3
<1>5. TellsAs(v, kind, r, c)
  <2> SUFFICES ASSUME NEW i \in 1 .. Len(v), v[i].kind = kind, v[i].robot = r
               PROVE  LET n == Cardinality({m \in Told(v, kind, r) : m > v[i].id})
                      IN n < Len(c) /\ v[i].severity = c[Len(c) - n]
    BY DEF TellsAs
  <2>1. i + d \in 1 .. Len(w) /\ v[i] = w[i + d]
    BY <1>2
  <2>2. LET n == Cardinality({m \in Told(w, kind, r) : m > w[i + d].id})
        IN n < Len(c) /\ w[i + d].severity = c[Len(c) - n]
    BY <2>1 DEF TellsAs
  <2> QED BY <1>4, <2>1, <2>2
<1> QED BY <1>5 DEF v

\* A list to which one alert of a kind and a robot is added tells one change
\* more.
AddsOne(v, w, kind, r, a, x) ==
  /\ a \in Nat /\ \A i \in 1 .. Len(v) : v[i].id < a
  /\ Told(w, kind, r) = Told(v, kind, r) \cup {a}
  /\ \A i \in 1 .. Len(w) : w[i].kind = kind /\ w[i].robot = r =>
       \/ w[i].id = a /\ w[i].severity = x
       \/ i \in 1 .. Len(v) /\ w[i] = v[i]

LEMMA TellsOneMore ==
  ASSUME NEW v \in Seq(Alert), NEW w, NEW kind, NEW r, NEW a, NEW x, AddsOne(v, w, kind, r, a, x),
         NEW c, NEW d, Len(c) \in Nat, OneMore(c, d, x), TellsAs(v, kind, r, c)
  PROVE  /\ TellsAs(w, kind, r, d)
         /\ Cardinality(Told(v, kind, r)) = Len(c) => Cardinality(Told(w, kind, r)) = Len(d)
<1> DEFINE T == Told(v, kind, r)
           U == Told(w, kind, r)
<1>0. a \in Nat /\ \A i \in 1 .. Len(v) : v[i].id < a
  BY DEF AddsOne
<1>1. /\ T \subseteq Nat /\ \A m \in T : m < a
      /\ \A S : S \subseteq T => IsFiniteSet(S)
  BY <1>0, ToldFinite
<1>2. U = T \cup {a}
  BY DEF AddsOne
<1> HIDE DEF T, U
<1>8. IsFiniteSet(T)
  BY <1>1
<1>3. a \notin T
  BY <1>0, <1>1
<1>4. Cardinality(U) = Cardinality(T) + 1
  BY <1>2, <1>3, <1>8, FS_AddElement
<1>5. Len(d) = Len(c) + 1
  BY DEF OneMore
<1>6. ASSUME NEW i \in 1 .. Len(w), w[i].kind = kind, w[i].robot = r
      PROVE  LET n == Cardinality({m \in U : m > w[i].id})
             IN n < Len(d) /\ w[i].severity = d[Len(d) - n]
  <2>1. CASE w[i].id = a /\ w[i].severity = x
    <3>1. {m \in U : m > a} = {}
      <4>1. \A m \in U : ~(m > a)
        BY <1>0, <1>1, <1>2
      <4> QED BY <4>1
    <3>2. Cardinality({}) = 0
      BY FS_EmptySet
    <3>3. Len(d) - 0 = Len(d) /\ 0 < Len(d) /\ d[Len(d)] = x
      BY <1>5 DEF OneMore
    <3> QED BY <2>1, <3>1, <3>2, <3>3
  <2>2. CASE i \in 1 .. Len(v) /\ w[i] = v[i]
    <3> DEFINE late == {m \in T : m > v[i].id}
               n == Cardinality(late)
    <3>1. v[i].id \in Nat /\ v[i].id < a
      BY <1>0, <2>2, Members
    <3>2. {m \in U : m > v[i].id} = late \cup {a}
      BY <1>0, <1>2, <3>1
    <3>3. IsFiniteSet(late) /\ a \notin late
      <4>1. late \subseteq T
        OBVIOUS
      <4> QED BY <1>1, <1>3, <4>1
    <3>4. n < Len(c) /\ v[i].severity = c[Len(c) - n]
      BY <1>6, <2>2 DEF TellsAs, T
    <3>5. n \in Nat
      BY <3>3, FS_CardinalityType
    <3>6. Cardinality(late \cup {a}) = n + 1
      BY <3>3, FS_AddElement
    <3> HIDE DEF n, late
    <3>7. n + 1 < Len(d) /\ Len(d) - (n + 1) = Len(c) - n /\ Len(c) - n \in 1 .. Len(c)
      BY <1>5, <3>4, <3>5
    <3>8. d[Len(d) - (n + 1)] = c[Len(c) - n]
      BY <3>7 DEF OneMore
    <3> QED BY <2>2, <3>2, <3>4, <3>6, <3>7, <3>8
  <2> QED BY <1>6, <2>1, <2>2 DEF AddsOne
<1>7. TellsAs(w, kind, r, d)
  BY <1>6 DEF TellsAs, U
<1> QED BY <1>4, <1>5, <1>7 DEF T, U

\* A list to which none is added tells what it told.
LEMMA TellsSame ==
  ASSUME NEW v \in Seq(Alert), NEW w \in Seq(Alert), NEW kind, NEW r, NEW c,
         TellsAs(v, kind, r, c), Told(w, kind, r) = Told(v, kind, r),
         \A i \in 1 .. Len(w) : w[i].kind = kind /\ w[i].robot = r =>
           i \in 1 .. Len(v) /\ w[i] = v[i]
  PROVE  TellsAs(w, kind, r, c)
BY DEF TellsAs

\* What a list tells of the failures, its last members tell.
LEMMA SoundSuffix ==
  ASSUME NEW w \in Seq(Alert), NEW seen, Sound(w, seen)
  PROVE  Sound(Kept(w), seen)
<1> DEFINE v == Kept(w)
<1>1. PICK d \in Nat : /\ Len(w) = Len(v) + d
                       /\ \A i \in 1 .. Len(v) : i + d \in 1 .. Len(w) /\ v[i] = w[i + d]
  <2> HIDE DEF v
  <2>1. v = Kept(w)
    BY DEF v
  <2> QED BY <2>1, KeptOf
<1>2. Len(v) \in Nat
  BY KeptOf
<1> HIDE DEF v
<1>3. \A i, j \in 1 .. Len(v) : i + d = j + d => i = j
  BY <1>2
<1>4. Sound(v, seen)
  BY <1>1, <1>3 DEF Sound
<1> QED BY <1>4 DEF v

\* A list with those of a frame behind it.
Appended(w, new) ==
  /\ new \in Seq(Alert) /\ w \in Seq(Alert) /\ Len(w) = Len(alerts) + Len(new)
  /\ \A x \in 1 .. Len(alerts) : x \in 1 .. Len(w) /\ w[x] = alerts[x]
  /\ \A y \in 1 .. Len(new) : /\ y + Len(alerts) \in 1 .. Len(w)
                              /\ w[y + Len(alerts)] = new[y]
                              /\ new[y].id = seq + y - 1
  /\ \A x \in 1 .. Len(w) :
       \/ x \in 1 .. Len(alerts) /\ w[x] = alerts[x]
       \/ \E y \in 1 .. Len(new) : x = y + Len(alerts) /\ w[x] = new[y]

LEMMA Whole ==
  ASSUME Types, NEW f \in Frames
  PROVE  LET new == Numbered(Created(f))
         IN /\ Appended(alerts \o new, new) /\ Right(new, f) /\ Len(new) = Len(Created(f))
            /\ Len(new) \in Nat
<1> DEFINE new == Numbered(Created(f))
           w   == alerts \o new
<1>1. /\ new \in Seq(Alert) /\ Len(new) = Len(Created(f)) /\ Right(new, f)
      /\ \A y \in 1 .. Len(new) : new[y].id = seq + y - 1
  BY NumberedCorrect, Zenon
<1> HIDE DEF new
<1>2. alerts \in Seq(Alert)
  BY DEF Types
<1>3. Appended(w, new)
  <2>1. /\ w \in Seq(Alert) /\ Len(w) = Len(alerts) + Len(new)
        /\ \A x \in 1 .. Len(alerts) : w[x] = alerts[x]
        /\ \A y \in 1 .. Len(new) : w[y + Len(alerts)] = new[y]
        /\ Len(alerts) \in Nat /\ Len(new) \in Nat
    <3>1. new \in Seq(Alert)
      BY <1>1
    <3> QED BY <1>2, <3>1
  <2> HIDE DEF w
  <2>2. ASSUME NEW x \in 1 .. Len(w), x \notin 1 .. Len(alerts)
        PROVE  \E y \in 1 .. Len(new) : x = y + Len(alerts) /\ w[x] = new[y]
    <3>1. x - Len(alerts) \in 1 .. Len(new) /\ x = (x - Len(alerts)) + Len(alerts)
      BY <2>1, <2>2
    <3>2. w[(x - Len(alerts)) + Len(alerts)] = new[x - Len(alerts)]
      BY <2>1, <3>1
    <3> QED BY <3>1, <3>2
  <2>3. /\ \A x \in 1 .. Len(alerts) : x \in 1 .. Len(w)
        /\ \A y \in 1 .. Len(new) : y + Len(alerts) \in 1 .. Len(w)
    BY <2>1
  <2> QED BY <1>1, <2>1, <2>2, <2>3 DEF Appended
<1>4. Len(new) \in Nat
  BY <1>1
<1> QED BY <1>1, <1>3, <1>4 DEF new

\* The numbers go on.
LEMMA WholeIds ==
  ASSUME IInv, NEW new, NEW w, Appended(w, new)
  PROVE  /\ \A i \in 1 .. Len(w) :
              \/ i \in 1 .. Len(alerts) /\ w[i] = alerts[i]
              \/ i > Len(alerts) /\ seq <= w[i].id /\ w[i].id < seq + Len(new)
         /\ Increasing(w)
<1> DEFINE n == Len(alerts)
<1>1. /\ new \in Seq(Alert) /\ w \in Seq(Alert)
      /\ \A y \in 1 .. Len(new) : new[y].id = seq + y - 1
      /\ \A x \in 1 .. Len(w) :
           \/ x \in 1 .. n /\ w[x] = alerts[x]
           \/ \E y \in 1 .. Len(new) : x = y + n /\ w[x] = new[y]
  BY DEF Appended
<1>5. Len(new) \in Nat /\ Len(w) \in Nat
  BY <1>1
<1>2. /\ n \in Nat /\ seq \in Nat /\ Increasing(alerts)
      /\ \A i \in 1 .. n : alerts[i].id < seq /\ alerts[i].id \in Nat
  <2>1. alerts \in Seq(Alert)
    BY DEF IInv, Types
  <2>2. n \in Nat /\ \A i \in 1 .. n : alerts[i].id \in Nat
    BY <2>1, Members
  <2> QED BY <2>2 DEF IInv, Types, Counted
<1>3. ASSUME NEW i \in 1 .. Len(w)
      PROVE  \/ i \in 1 .. n /\ w[i] = alerts[i]
             \/ /\ i > n /\ w[i].id = seq + (i - n) - 1 /\ i - n \in 1 .. Len(new)
                /\ seq <= w[i].id /\ w[i].id < seq + Len(new)
  <2>1. CASE \E y \in 1 .. Len(new) : i = y + n /\ w[i] = new[y]
    <3>1. PICK y \in 1 .. Len(new) : i = y + n /\ w[i] = new[y]
      BY <2>1
    <3>2. w[i].id = seq + y - 1
      BY <1>1, <3>1
    <3> QED BY <1>2, <1>5, <3>1, <3>2
  <2> QED BY <1>1, <2>1
<1>4. Increasing(w)
  <2> SUFFICES ASSUME NEW i \in 1 .. Len(w), NEW j \in 1 .. Len(w), i < j
               PROVE  w[i].id < w[j].id
    BY DEF Increasing
  <2>1. CASE j \in 1 .. n /\ w[j] = alerts[j]
    <3>1. i \in 1 .. n /\ w[i] = alerts[i]
      BY <1>2, <1>3, <2>1
    <3> QED BY <1>2, <2>1, <3>1 DEF Increasing
  <2>2. CASE j > n /\ w[j].id = seq + (j - n) - 1 /\ j - n \in 1 .. Len(new)
    <3>1. CASE i \in 1 .. n /\ w[i] = alerts[i]
      BY <1>2, <2>2, <3>1
    <3>2. CASE i > n /\ w[i].id = seq + (i - n) - 1
      BY <1>2, <2>2, <3>2
    <3> QED BY <1>3, <3>1, <3>2
  <2> QED BY <1>3, <2>1, <2>2
<1> QED BY <1>3, <1>4

\* It tells the changes up to the ones that the frame shows.
LEMMA TellsWhole ==
  ASSUME IInv, NEW f \in Frames, Witness(f), ingest(f),
         NEW new, NEW w, Appended(w, new), Right(new, f),
         NEW kind \in Kinds, NEW r \in Robot
  PROVE  /\ TellsAs(w, kind, r, Changes(kind, r)')
         /\ seq <= MaxAlerts => Cardinality(Told(w, kind, r)) = Len(Changes(kind, r)')
<1> DEFINE n == Len(alerts)
           c == Changes(kind, r)
           d == Changes(kind, r)'
           x == Calls(f, kind, r)
<1>1. /\ new \in Seq(Alert) /\ w \in Seq(Alert)
      /\ \A y \in 1 .. Len(new) : new[y].id = seq + y - 1
      /\ \A i \in 1 .. n : i \in 1 .. Len(w) /\ w[i] = alerts[i]
      /\ \A y \in 1 .. Len(new) : y + n \in 1 .. Len(w) /\ w[y + n] = new[y]
      /\ \A i \in 1 .. Len(w) :
           \/ i \in 1 .. n /\ w[i] = alerts[i]
           \/ \E y \in 1 .. Len(new) : i = y + n /\ w[i] = new[y]
  BY DEF Appended
<1>2. /\ alerts \in Seq(Alert) /\ n \in Nat /\ seq \in Nat
      /\ \A i \in 1 .. n : alerts[i].id < seq
      /\ TellsAs(alerts, kind, r, c)
      /\ seq <= MaxAlerts => Cardinality(Told(alerts, kind, r)) = Len(c)
  BY DEF IInv, Types, Counted, Telling
<1>3. Len(c) \in Nat
  <2>1. links[r] \in Seq(LinkStatus) /\ sides[r] \in Seq(BOOLEAN)
    BY DEF IInv, Types
  <2>2. c = IF kind = "link"
            THEN [k \in 1 .. Len(links[r]) - 1 |-> LinkSeverity[links[r][k + 1]]]
            ELSE [k \in 1 .. Len(sides[r]) - 1 |-> IF sides[r][k + 1] THEN "info" ELSE "critical"]
    BY DEF Changes
  <2>4. sides[r] # <<>>
    BY DEF IInv, Remembers
  <2>5. CASE kind = "link" /\ Len(links[r]) = 0
    <3>1. 1 .. Len(links[r]) - 1 = 1 .. 0
      BY <2>5
    <3>2. c = [k \in 1 .. 0 |-> LinkSeverity[links[r][k + 1]]]
      BY <2>2, <2>5, <3>1
    <3> QED BY <3>2
  <2>6. CASE kind = "link" /\ Len(links[r]) # 0
    <3>1. Len(links[r]) - 1 \in Nat
      BY <2>1, <2>6
    <3> QED BY <2>2, <2>6, <3>1
  <2>7. CASE kind # "link"
    <3>1. Len(sides[r]) - 1 \in Nat
      BY <2>1, <2>4
    <3> QED BY <2>2, <2>7, <3>1
  <2> QED BY <2>5, <2>6, <2>7
<1>4. /\ Changed(f, kind, r) => OneMore(c, d, x)
      /\ ~Changed(f, kind, r) => d = c
  BY LinkWitnessed, SideWitnessed DEF Changed, Kinds
<1> HIDE DEF c, d
<1>5. ASSUME NEW y \in 1 .. Len(new), new[y].kind = kind, new[y].robot = r
      PROVE  Changed(f, kind, r) /\ new[y].severity = x
  <2>1. CASE kind = "link"
    <3>1. LinkChanges(f, r) /\ new[y].severity = linkAlert(r, RowOf(f, r).link).severity
      BY <1>5, <2>1 DEF Right
    <3>2. RowOf(f, r).link \in LinkStatus
      BY <3>1, Rows DEF LinkChanges, RobotState
    <3>3. linkAlert(r, RowOf(f, r).link).severity = LinkSeverity[RowOf(f, r).link]
      BY <3>2, LinkSeverities
    <3> QED BY <2>1, <3>1, <3>3 DEF Changed, Calls
  <2>2. CASE kind = "geofence"
    <3>1. Crosses(f, r) /\ new[y].severity = IF RowOf(f, r).inside THEN "info" ELSE "critical"
      BY <1>5, <2>2 DEF Right
    <3> QED BY <2>2, <3>1 DEF Changed, Calls
  <2> QED BY <2>1, <2>2 DEF Kinds
<1>6. CASE Changed(f, kind, r)
  <2>1. PICK y \in 1 .. Len(new) : new[y].kind = kind /\ new[y].robot = r
    <3>1. CASE kind = "link"
      BY <1>6, <3>1 DEF Right, Changed
    <3>2. CASE kind = "geofence"
      BY <1>6, <3>2 DEF Right, Changed
    <3> QED BY <3>1, <3>2 DEF Kinds
  <2>2. \A z \in 1 .. Len(new) : new[z].kind = kind /\ new[z].robot = r => z = y
    <3> SUFFICES ASSUME NEW z \in 1 .. Len(new), new[z].kind = kind, new[z].robot = r
                 PROVE  z = y
      OBVIOUS
    <3>1. Same(new[z], new[y]) /\ new[z].kind # "command"
      BY <2>1 DEF Same, Kinds
    <3> QED BY <3>1 DEF Right
  <2> DEFINE a == new[y].id
  <2>3. a \in Nat /\ seq <= a
    BY <1>1, <1>2
  <2>4. Told(w, kind, r) = Told(alerts, kind, r) \cup {a}
    <3>1. DOMAIN w = 1 .. Len(w) /\ DOMAIN alerts = 1 .. n
      BY <1>1, <1>2
    <3>2. ASSUME NEW m \in Told(w, kind, r) PROVE m \in Told(alerts, kind, r) \cup {a}
      <4>1. PICK i \in 1 .. Len(w) : w[i].kind = kind /\ w[i].robot = r /\ m = w[i].id
        BY <3>1 DEF Told
      <4>2. CASE i \in 1 .. n /\ w[i] = alerts[i]
        BY <3>1, <4>1, <4>2 DEF Told
      <4>3. CASE \E z \in 1 .. Len(new) : w[i] = new[z]
        BY <2>2, <4>1, <4>3
      <4> QED BY <1>1, <4>2, <4>3
    <3>3. ASSUME NEW m \in Told(alerts, kind, r) PROVE m \in Told(w, kind, r)
      BY <1>1, <3>1 DEF Told
    <3>4. a \in Told(w, kind, r)
      <4>1. y + n \in 1 .. Len(w) /\ w[y + n] = new[y]
        BY <1>1
      <4> QED BY <2>1, <3>1, <4>1 DEF Told
    <3> QED BY <3>2, <3>3, <3>4
  <2>5. \A i \in 1 .. Len(w) : w[i].kind = kind /\ w[i].robot = r =>
          \/ w[i].id = a /\ w[i].severity = x
          \/ i \in 1 .. n /\ w[i] = alerts[i]
    <3> SUFFICES ASSUME NEW i \in 1 .. Len(w), w[i].kind = kind, w[i].robot = r,
                        ~(i \in 1 .. n /\ w[i] = alerts[i])
                 PROVE  w[i].id = a /\ w[i].severity = x
      OBVIOUS
    <3>1. PICK z \in 1 .. Len(new) : w[i] = new[z]
      BY <1>1
    <3>2. z = y
      BY <2>2, <3>1
    <3> QED BY <1>5, <3>1, <3>2
  <2>6. OneMore(c, d, x)
    BY <1>4, <1>6
  <2> HIDE DEF a, x
  <2>7. /\ TellsAs(w, kind, r, d)
        /\ Cardinality(Told(alerts, kind, r)) = Len(c) => Cardinality(Told(w, kind, r)) = Len(d)
    <3>1. alerts \in Seq(Alert) /\ TellsAs(alerts, kind, r, c)
      BY <1>2
    <3>2. \A i \in 1 .. n : alerts[i].id < a
      <4>1. \A i \in 1 .. n : alerts[i].id \in Nat
        BY <3>1, Members
      <4> QED BY <1>2, <2>3, <4>1
    <3>3. AddsOne(alerts, w, kind, r, a, x)
      BY <2>3, <2>4, <2>5, <3>2 DEF AddsOne
    <3> QED BY <1>3, <2>6, <3>1, <3>3, TellsOneMore
  <2> QED BY <1>2, <2>7 DEF d
<1>7. CASE ~Changed(f, kind, r)
  <2>1. \A i \in 1 .. Len(w) : w[i].kind = kind /\ w[i].robot = r =>
          i \in 1 .. n /\ w[i] = alerts[i]
    BY <1>1, <1>5, <1>7
  <2>2. Told(w, kind, r) = Told(alerts, kind, r)
    <3>1. DOMAIN w = 1 .. Len(w) /\ DOMAIN alerts = 1 .. n
      BY <1>1, <1>2
    <3> QED BY <1>1, <2>1, <3>1 DEF Told
  <2>3. TellsAs(w, kind, r, c)
    BY <1>1, <1>2, <2>1, <2>2, TellsSame
  <2> QED BY <1>2, <1>4, <1>7, <2>2, <2>3 DEF d
<1> QED BY <1>6, <1>7

SeenAfter(f) == seenCmdTargets \cup FailedKeys(f)

\* It tells of the failures that were seen.
LEMMA SoundWhole ==
  ASSUME IInv, NEW f \in Frames, NEW new, NEW w, Appended(w, new), Right(new, f)
  PROVE  /\ Sound(w, SeenAfter(f))
         /\ seq <= MaxAlerts => Complete(w, SeenAfter(f))
<1> DEFINE n == Len(alerts)
<1>1. /\ \A i \in 1 .. n : i \in 1 .. Len(w) /\ w[i] = alerts[i]
      /\ \A y \in 1 .. Len(new) : y + n \in 1 .. Len(w) /\ w[y + n] = new[y]
      /\ \A i \in 1 .. Len(w) :
           \/ i \in 1 .. n /\ w[i] = alerts[i]
           \/ \E y \in 1 .. Len(new) : i = y + n /\ w[i] = new[y]
  BY DEF Appended
<1>2. Sound(alerts, seenCmdTargets) /\ (seq <= MaxAlerts => Complete(alerts, seenCmdTargets))
  BY DEF IInv
<1>3. \A k \in 1 .. n : alerts[k].kind = "command" => Key(alerts[k]) \in seenCmdTargets
  BY <1>2 DEF Sound
<1>4. \A y \in 1 .. Len(new) :
        new[y].kind = "command" => Key(new[y]) \in FailedKeys(f) \ seenCmdTargets
  BY DEF Right
<1>5. \A y, z \in 1 .. Len(new) :
        new[y].kind = "command" /\ new[z].kind = "command" /\ Key(new[y]) = Key(new[z]) => y = z
  <2> SUFFICES ASSUME NEW y \in 1 .. Len(new), NEW z \in 1 .. Len(new), new[y].kind = "command",
                      new[z].kind = "command", Key(new[y]) = Key(new[z])
               PROVE  y = z
    OBVIOUS
  <2>1. Same(new[y], new[z])
    BY DEF Same, Key
  <2> QED BY <2>1 DEF Right
<1>6. \A i \in 1 .. Len(w) : w[i].kind = "command" => Key(w[i]) \in SeenAfter(f)
  BY <1>1, <1>3, <1>4 DEF SeenAfter
<1>7. ASSUME NEW i \in 1 .. Len(w), NEW j \in 1 .. Len(w),
             w[i].kind = "command", w[j].kind = "command", Key(w[i]) = Key(w[j])
      PROVE  i = j
  <2>1. CASE i \in 1 .. n /\ w[i] = alerts[i] /\ j \in 1 .. n /\ w[j] = alerts[j]
    BY <1>2, <1>7, <2>1 DEF Sound
  <2>2. CASE i \in 1 .. n /\ w[i] = alerts[i] /\ \E z \in 1 .. Len(new) : w[j] = new[z]
    BY <1>3, <1>4, <1>7, <2>2
  <2>3. CASE j \in 1 .. n /\ w[j] = alerts[j] /\ \E z \in 1 .. Len(new) : w[i] = new[z]
    BY <1>3, <1>4, <1>7, <2>3
  <2>4. CASE /\ \E y \in 1 .. Len(new) : i = y + n /\ w[i] = new[y]
             /\ \E z \in 1 .. Len(new) : j = z + n /\ w[j] = new[z]
    BY <1>5, <1>7, <2>4
  <2> QED BY <1>1, <2>1, <2>2, <2>3, <2>4
<1>8. ASSUME seq <= MaxAlerts PROVE Complete(w, SeenAfter(f))
  <2> SUFFICES ASSUME NEW k \in SeenAfter(f)
               PROVE  \E i \in 1 .. Len(w) : w[i].kind = "command" /\ Key(w[i]) = k
    BY DEF Complete
  <2>1. CASE k \in seenCmdTargets
    <3>1. PICK i \in 1 .. n : alerts[i].kind = "command" /\ Key(alerts[i]) = k
      BY <1>2, <1>8, <2>1 DEF Complete
    <3> QED BY <1>1, <3>1
  <2>2. CASE k \in FailedKeys(f) \ seenCmdTargets
    <3>1. PICK y \in 1 .. Len(new) : new[y].kind = "command" /\ Key(new[y]) = k
      BY <2>2 DEF Right
    <3>2. y + n \in 1 .. Len(w) /\ w[y + n] = new[y]
      BY <1>1
    <3> QED BY <3>1, <3>2
  <2> QED BY <2>1, <2>2 DEF SeenAfter
<1> QED BY <1>6, <1>7, <1>8 DEF Sound

-----------------------------------------------------------------------------
(* The invariant.                                                          *)

LEMMA InvInit == Init => IInv
<1> SUFFICES ASSUME Init PROVE IInv
  OBVIOUS
<1>1. Types
  BY DEF Init, Types
<1>2. DOMAIN alerts = {} /\ Len(alerts) = 0 /\ Ids(shown) = {} /\ seq = 0 /\ acked = {}
  BY DEF Init, Ids
<1>3. Counted /\ Acks
  BY <1>2, BoundsAssumption DEF Counted, Acks, Increasing
<1>4. Remembers
  <2>1. \A r \in Robot : /\ links[r] = <<>> /\ sides[r] = <<TRUE>>
                         /\ prevLink[r] = None /\ prevInside[r] = None
    BY DEF Init
  <2>2. <<TRUE>> # <<>> /\ Last(<<TRUE>>) = TRUE
    BY DEF Last
  <2> SUFFICES ASSUME NEW r \in Robot
               PROVE  /\ prevLink[r] = IF links[r] = <<>> THEN None ELSE Last(links[r])
                      /\ sides[r] # <<>>
                      /\ (IF prevInside[r] = None THEN TRUE ELSE prevInside[r]) = Last(sides[r])
    BY DEF Remembers
  <2>3. prevLink[r] = IF links[r] = <<>> THEN None ELSE Last(links[r])
    BY <2>1
  <2>4. sides[r] # <<>> /\ Last(sides[r]) = TRUE
    BY <2>1, <2>2
  <2> QED BY <2>1, <2>3, <2>4
<1>5. Sound(alerts, seenCmdTargets) /\ Complete(alerts, seenCmdTargets)
  <2>1. 1 .. Len(alerts) = {} /\ seenCmdTargets = {}
    BY <1>2 DEF Init
  <2> QED BY <2>1 DEF Sound, Complete
<1>6. Telling
  <2> SUFFICES ASSUME NEW kind \in Kinds, NEW r \in Robot
               PROVE  /\ TellsAs(alerts, kind, r, Changes(kind, r))
                      /\ Cardinality(Told(alerts, kind, r)) = Len(Changes(kind, r))
    BY DEF Telling
  <2>1. Told(alerts, kind, r) = {} /\ 1 .. Len(alerts) = {}
    BY <1>2 DEF Told
  <2>2. Len(links[r]) - 1 = -1 /\ Len(sides[r]) - 1 = 0
    BY DEF Init
  <2>3. Len(Changes(kind, r)) = 0
    <3>1. CASE kind = "link"
      <4>1. 1 .. Len(links[r]) - 1 = 1 .. 0
        BY <2>2
      <4>2. Changes(kind, r) = [k \in 1 .. 0 |-> LinkSeverity[links[r][k + 1]]]
        BY <3>1, <4>1 DEF Changes
      <4> QED BY <4>2
    <3>2. CASE kind # "link"
      <4>1. Changes(kind, r) = [k \in 1 .. 0 |-> IF sides[r][k + 1] THEN "info" ELSE "critical"]
        BY <2>2, <3>2 DEF Changes
      <4> QED BY <4>1
    <3> QED BY <3>1, <3>2
  <2>4. TellsAs(alerts, kind, r, Changes(kind, r))
    BY <2>1 DEF TellsAs
  <2> QED BY <2>1, <2>3, <2>4, FS_EmptySet
<1> QED BY <1>1, <1>3, <1>4, <1>5, <1>6 DEF IInv

\* The numbers on the screen.
LEMMA IdsOf ==
  ASSUME NEW list \in Seq(Alert)
  PROVE  /\ Ids(list) = {list[i].id : i \in 1 .. Len(list)}
         /\ Ids(list) \subseteq Nat
<1>1. \A i \in 1 .. Len(list) : list[i] \in Alert
  OBVIOUS
<1> QED BY <1>1 DEF Ids, Alert

LEMMA InvRenderFrame ==
  ASSUME IInv, NEW f \in Frames, RenderFrame(f)
  PROVE  IInv'
<1> DEFINE out == Created(f)
           w == alerts \o Numbered(out)
<1>1. /\ w \in Seq(Alert) /\ Len(w) = Len(alerts) + Len(out)
      /\ \A i \in 1 .. Len(w) : \/ i \in 1 .. Len(alerts) /\ w[i] = alerts[i]
                                \/ i > Len(alerts) /\ seq <= w[i].id /\ w[i].id < seq + Len(out)
      /\ Increasing(w)
      /\ Sound(w, SeenAfter(f))
      /\ seq <= MaxAlerts => Complete(w, SeenAfter(f))
  <2> DEFINE new == Numbered(out)
  <2>1. Appended(w, new) /\ Right(new, f) /\ Len(new) = Len(out)
    <3>1. Types
      BY DEF IInv
    <3> QED BY <3>1, Whole, Zenon
  <2> HIDE DEF new, w
  <2>2. w \in Seq(Alert) /\ Len(w) = Len(alerts) + Len(out)
    BY <2>1 DEF Appended
  <2> QED BY <2>1, <2>2, WholeIds, SoundWhole
<1>2. /\ Types /\ Counted /\ Acks /\ seq \in Nat /\ alerts \in Seq(Alert) /\ Len(alerts) \in Nat
      /\ Len(out) \in Nat /\ MaxAlerts \in Nat
  BY CreatedCorrect, BoundsAssumption DEF IInv, Types
<1>3. /\ alerts' = Kept(w) /\ shown' = alerts /\ acked' = acked /\ seq' = seq + Len(out)
      /\ seenCmdTargets' = SeenAfter(f) /\ Witness(f) /\ ingest(f)
  BY DEF RenderFrame, ingest, SeenAfter, FailedKeys
\* Before the list is cut, it tells every change.
<1>12. ASSUME NEW kind \in Kinds, NEW r \in Robot
       PROVE  /\ TellsAs(w, kind, r, Changes(kind, r)')
              /\ seq <= MaxAlerts => Cardinality(Told(w, kind, r)) = Len(Changes(kind, r)')
  <2> DEFINE new == Numbered(out)
  <2>1. Appended(w, new) /\ Right(new, f)
    <3>1. Types
      BY DEF IInv
    <3> QED BY <3>1, Whole, Zenon
  <2> HIDE DEF new, w
  <2> QED BY <1>3, <1>12, <2>1, TellsWhole
<1> HIDE DEF w, out
<1>4. Types'
  <2>1. /\ \A r \in Seen(f) : RowOf(f, r).link \in LinkStatus /\ RowOf(f, r).inside \in BOOLEAN
        /\ Looked(f) \subseteq Seen(f)
    BY Rows DEF RobotState
  <2>2. FailedKeys(f) \subseteq Command \X Robot
    <3>1. f.commands \in Seq(TargetStatus)
      BY Rows
    <3>2. \A i \in DOMAIN f.commands : f.commands[i] \in TargetStatus
      BY <3>1
    <3> QED BY <3>2 DEF FailedKeys, Failures, Key, TargetStatus
  <2>3. /\ prevLink' \in [Robot -> LinkStatus \cup {None}]
        /\ prevInside' \in [Robot -> BOOLEAN \cup {None}]
        /\ links' \in [Robot -> Seq(LinkStatus)] /\ sides' \in [Robot -> Seq(BOOLEAN)]
    BY <1>2, <1>3, <2>1, WitnessTypes DEF Types, ingest
  <2>4. Kept(w) \in Seq(Alert)
    BY <1>1, KeptOf
  <2>5. breachPulseNonce' \in Nat
    BY <1>2 DEF RenderFrame, Types
  <2> QED BY <1>2, <1>3, <2>2, <2>3, <2>4, <2>5 DEF Types, SeenAfter
<1>5. PICK d \in Nat : /\ Len(w) = Len(Kept(w)) + d
                       /\ Len(w) <= MaxAlerts => d = 0 /\ Kept(w) = w
                       /\ Len(w) > MaxAlerts => Len(Kept(w)) = MaxAlerts
                       /\ \A i \in 1 .. Len(Kept(w)) : i + d \in 1 .. Len(w) /\ Kept(w)[i] = w[i + d]
  BY <1>1, KeptOf
<1>6. Kept(w) \in Seq(Alert) /\ Len(Kept(w)) <= MaxAlerts /\ Len(Kept(w)) \in Nat
  BY <1>1, KeptOf
<1>7. ASSUME NEW i \in 1 .. Len(Kept(w))
      PROVE  \/ \E j \in 1 .. Len(alerts) : Kept(w)[i].id = alerts[j].id /\ alerts[j].id < seq
             \/ seq <= Kept(w)[i].id /\ Kept(w)[i].id < seq + Len(out)
  BY <1>1, <1>2, <1>5 DEF Counted
<1>8. Counted'
  <2>1. Len(Kept(w)) <= seq + Len(out) /\ (seq + Len(out) <= MaxAlerts => Len(Kept(w)) = seq + Len(out))
    BY <1>1, <1>2, <1>5, <1>6 DEF Counted
  <2>2. \A i \in 1 .. Len(Kept(w)) : Kept(w)[i].id < seq + Len(out)
    <3> SUFFICES ASSUME NEW i \in 1 .. Len(Kept(w)) PROVE Kept(w)[i].id < seq + Len(out)
      OBVIOUS
    <3>1. CASE \E j \in 1 .. Len(alerts) : Kept(w)[i].id = alerts[j].id /\ alerts[j].id < seq
      <4>1. PICK j \in 1 .. Len(alerts) : Kept(w)[i].id = alerts[j].id /\ alerts[j].id < seq
        BY <3>1
      <4>2. alerts[j] \in Alert
        BY <1>2
      <4> QED BY <1>2, <4>1, <4>2 DEF Alert
    <3> QED BY <1>7, <3>1
  <2>3. Increasing(Kept(w))
    BY <1>1, <1>5, <1>6 DEF Increasing
  <2> QED BY <1>3, <1>6, <2>1, <2>2, <2>3 DEF Counted
<1>9. Acks'
  <2>1. Ids(alerts) = {alerts[i].id : i \in 1 .. Len(alerts)} /\ Ids(alerts) \subseteq Nat
    BY <1>2, IdsOf
  <2>2. ASSUME NEW id \in acked \cup Ids(alerts) PROVE id < seq + Len(out)
    <3>1. id < seq /\ id \in Nat
      BY <1>2, <2>1 DEF Acks, Counted, Types
    <3> QED BY <1>2, <3>1
  <2>3. ASSUME NEW i \in 1 .. Len(Kept(w)), Kept(w)[i].id \in acked
        PROVE  Kept(w)[i].id \in Ids(alerts)
    <3>1. CASE \E j \in 1 .. Len(alerts) : Kept(w)[i].id = alerts[j].id /\ alerts[j].id < seq
      BY <2>1, <3>1
    <3>2. CASE seq <= Kept(w)[i].id
      <4>1. Kept(w)[i].id < seq /\ Kept(w)[i].id \in Nat
        BY <1>2, <2>3 DEF Acks, Types
      <4> QED BY <1>2, <3>2, <4>1
    <3> QED BY <1>7, <3>1, <3>2
  <2> QED BY <1>3, <2>2, <2>3 DEF Acks
<1>10. Sound(Kept(w), SeenAfter(f))
  BY <1>1, SoundSuffix
<1>11. ASSUME seq + Len(out) <= MaxAlerts PROVE seq <= MaxAlerts /\ Kept(w) = w
  BY <1>1, <1>2, <1>5, <1>11 DEF Counted
<1>13. Telling'
  <2> SUFFICES ASSUME NEW kind \in Kinds, NEW r \in Robot
               PROVE  /\ TellsAs(Kept(w), kind, r, Changes(kind, r)')
                      /\ seq + Len(out) <= MaxAlerts =>
                           Cardinality(Told(Kept(w), kind, r)) = Len(Changes(kind, r)')
    <3>1. Kinds' = Kinds /\ Robot' = Robot
      BY DEF Kinds
    <3>2. \A kind \in Kinds, r \in Robot :
            /\ TellsAs(alerts, kind, r, Changes(kind, r))' = TellsAs(Kept(w), kind, r, Changes(kind, r)')
            /\ Told(alerts, kind, r)' = Told(Kept(w), kind, r)
      BY <1>3 DEF TellsAs, Told
    <3> QED BY <1>3, <3>1, <3>2 DEF Telling
  <2>1. TellsAs(Kept(w), kind, r, Changes(kind, r)')
    BY <1>1, <1>12, TellsSuffix
  <2> QED BY <1>11, <1>12, <2>1
<1>14. Remembers'
  BY <1>3, LinkWitnessed, SideWitnessed DEF Remembers
<1>15. seq + Len(out) <= MaxAlerts => Complete(Kept(w), SeenAfter(f))
  BY <1>1, <1>11
<1> QED BY <1>3, <1>4, <1>8, <1>9, <1>10, <1>13, <1>14, <1>15 DEF IInv

\* What the list tells stays as it is when nothing but the screen changes.
LEMMA Untouched ==
  ASSUME IInv, UNCHANGED <<prevLink, prevInside, seenCmdTargets, seq, alerts, links, sides>>
  PROVE  /\ Counted' /\ Remembers' /\ Telling'
         /\ Sound(alerts, seenCmdTargets)'
         /\ (seq <= MaxAlerts => Complete(alerts, seenCmdTargets))'
<1>1. Counted' /\ Remembers'
  BY DEF IInv, Counted, Remembers
<1>2. \A kind \in Kinds, r \in Robot : Changes(kind, r)' = Changes(kind, r)
  BY DEF Changes
<1>3. Telling'
  BY <1>2 DEF IInv, Telling, Kinds
<1> QED BY <1>1, <1>3 DEF IInv

LEMMA InvRenderAlerts ==
  ASSUME IInv, RenderAlerts
  PROVE  IInv'
<1>1. /\ shown' = alerts /\ UNCHANGED <<prevLink, prevInside, seenCmdTargets, seq>>
      /\ UNCHANGED <<alerts, acked, breachPulseNonce, links, sides>>
  BY DEF RenderAlerts, engine, history
<1>2. /\ Types' /\ Counted' /\ Remembers' /\ Telling'
      /\ Sound(alerts, seenCmdTargets)' /\ (seq <= MaxAlerts => Complete(alerts, seenCmdTargets))'
  BY <1>1, Untouched DEF IInv, Types
<1>3. Ids(alerts) = {alerts[i].id : i \in 1 .. Len(alerts)}
  BY IdsOf DEF IInv, Types
<1>4. Acks'
  <2>1. \A id \in acked \cup Ids(alerts) : id < seq
    BY <1>3 DEF IInv, Acks, Counted
  <2>2. \A i \in 1 .. Len(alerts) : alerts[i].id \in Ids(alerts)
    BY <1>3
  <2> QED BY <1>1, <2>1, <2>2 DEF Acks
<1> QED BY <1>2, <1>4 DEF IInv

LEMMA InvAck ==
  ASSUME IInv, (\E id \in Ids(shown) : ack(id)) \/ ackAll
  PROVE  IInv'
<1>1. /\ UNCHANGED <<prevLink, prevInside, seenCmdTargets, seq>>
      /\ UNCHANGED <<alerts, shown, breachPulseNonce, links, sides>>
  BY DEF ack, ackAll, engine, history
<1>2. acked' \subseteq acked \cup Ids(shown)
  BY DEF ack, ackAll
<1>3. Types'
  <2>1. Ids(shown) \subseteq Nat
    BY IdsOf DEF IInv, Types
  <2> QED BY <1>1, <1>2, <2>1 DEF IInv, Types
<1>4. Acks'
  <2>1. Ids(shown)' = Ids(shown)
    BY <1>1 DEF Ids
  <2> QED BY <1>1, <1>2, <2>1 DEF IInv, Acks
<1>5. /\ Counted' /\ Remembers' /\ Telling'
      /\ Sound(alerts, seenCmdTargets)' /\ (seq <= MaxAlerts => Complete(alerts, seenCmdTargets))'
  BY <1>1, Untouched
<1> QED BY <1>3, <1>4, <1>5 DEF IInv

LEMMA InvStutter == IInv /\ UNCHANGED vars => IInv'
<1> SUFFICES ASSUME IInv, UNCHANGED vars PROVE IInv'
  OBVIOUS
<1>1. /\ UNCHANGED <<prevLink, prevInside, seenCmdTargets, seq>>
      /\ UNCHANGED <<alerts, shown, acked, breachPulseNonce, links, sides>>
  BY DEF vars, engine, history
<1>2. Ids(shown)' = Ids(shown)
  BY <1>1 DEF Ids
<1>3. Types' /\ Acks'
  BY <1>1, <1>2 DEF IInv, Types, Acks
<1> QED BY <1>1, <1>3, Untouched DEF IInv

LEMMA Invariance == Spec => []IInv
<1>1. ASSUME IInv, [Next]_vars PROVE IInv'
  <2>1. CASE \E f \in Frames : RenderFrame(f)
    BY <1>1, <2>1, InvRenderFrame
  <2>2. CASE RenderAlerts
    BY <1>1, <2>2, InvRenderAlerts
  <2>3. CASE (\E id \in Ids(shown) : ack(id)) \/ ackAll
    BY <1>1, <2>3, InvAck
  <2>4. CASE UNCHANGED vars
    BY <1>1, <2>4, InvStutter
  <2> QED BY <1>1, <2>1, <2>2, <2>3, <2>4 DEF Next
<1> QED BY <1>1, InvInit, PTL DEF Spec

-----------------------------------------------------------------------------
(* What the invariant says of the properties.                              *)

\* The changes that call for alerts are told.
LEMMA FeedTells ==
  ASSUME IInv
  PROVE  FeedTellsRobots
<1>1. DOMAIN alerts = 1 .. Len(alerts) /\ Len(alerts) <= MaxAlerts
  BY DEF IInv, Types, Counted
<1>2. ASSUME NEW kind \in {"link", "geofence"}, NEW r \in Robot
      PROVE  /\ Tells(alerts, kind, r)
             /\ seq <= MaxAlerts => Cardinality(Told(alerts, kind, r)) = Len(Changes(kind, r))
  BY <1>1 DEF IInv, Telling, Kinds, TellsAs, Tells
<1> QED BY <1>1, <1>2 DEF FeedTellsRobots

LEMMA AlertedOnce ==
  ASSUME IInv
  PROVE  FailureAlertedOnce
<1>1. /\ DOMAIN alerts = 1 .. Len(alerts)
      /\ Sound(alerts, seenCmdTargets)
      /\ seq <= MaxAlerts => Complete(alerts, seenCmdTargets)
  BY DEF IInv, Types
<1> QED BY <1>1 DEF FailureAlertedOnce, Sound, Complete

\* The list, what was on the screen and what is acknowledged have the types
\* of the code, for every frame that may be rendered.
THEOREM TypeCorrect == Spec => []Types
<1>1. IInv => Types
  BY DEF IInv
<1> QED BY <1>1, Invariance, PTL

\* What the list tells of a robot's link and of the fence are the last changes
\* that the frames show, in order, and all of them while nothing was cut.
THEOREM FeedCorrect == Spec => []FeedTellsRobots
<1>1. IInv => FeedTellsRobots
  BY FeedTells
<1> QED BY <1>1, Invariance, PTL

\* A failure of a command at a target is alerted once.
THEOREM FailuresCorrect == Spec => []FailureAlertedOnce
<1>1. IInv => FailureAlertedOnce
  BY AlertedOnce
<1> QED BY <1>1, Invariance, PTL

\* Only what is on the screen is acknowledged, and for good.
THEOREM AcksCorrect == Spec => AckIsOfShownAndFinal
<1> DEFINE Final == /\ acked' \ acked \subseteq Ids(shown)
                    /\ \A i \in DOMAIN alerts' : alerts'[i].id \in acked => alerts'[i].id \in acked'
<1>1. ASSUME IInv, [Next]_vars PROVE Final \/ UNCHANGED vars
  <2>1. CASE acked' = acked
    BY <2>1
  <2>2. CASE \E id \in Ids(shown) : ack(id)
    BY <2>2 DEF ack
  <2>3. CASE ackAll
    <3>1. acked' = Ids(shown) /\ alerts' = alerts
      BY <2>3 DEF ackAll
    <3>2. DOMAIN alerts = 1 .. Len(alerts)
      BY <1>1 DEF IInv, Types
    <3>3. \A i \in 1 .. Len(alerts) : alerts[i].id \in acked => alerts[i].id \in Ids(shown)
      BY <1>1 DEF IInv, Acks
    <3> QED BY <3>1, <3>2, <3>3
  <2> QED BY <1>1, <2>1, <2>2, <2>3 DEF Next, RenderFrame, RenderAlerts, vars
<1>2. IInv /\ [Next]_vars => [Final]_vars
  BY <1>1
<1> HIDE DEF Final
<1>3. Spec => [][Final]_vars
  BY <1>2, Invariance, PTL DEF Spec
<1> QED BY <1>3 DEF AckIsOfShownAndFinal, Final

=============================================================================
