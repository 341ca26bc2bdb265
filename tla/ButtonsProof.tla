---------------------------- MODULE ButtonsProof ----------------------------
(***************************************************************************)
(* A push button tells its presses, for every length of a press and every  *)
(* delay of its inputs.                                                    *)
(*                                                                         *)
(* ButtonsTellPresses speaks of the moments when no timer runs.  ButtonInv *)
(* says what was told of each press meanwhile: all of it to the classic    *)
(* input, what the timer that runs will tell to the long one, the groups of *)
(* clicks before the one that is counted to the triple one.                *)
(***************************************************************************)
EXTENDS Buttons, Inductions

-----------------------------------------------------------------------------
(* The clicks of a button, group by group                                  *)

ButtonPress == [at : Nat, until : Nat \cup {Held}]
ClickGroup == [from : Nat, n : 1..3]
GroupsOf(presses) == FoldLeft(Group, <<>>, presses)

\* A press starts a group or adds to the last one.
LEMMA GroupTypes ==
  ASSUME NEW groups \in Seq(ClickGroup), NEW press \in ButtonPress
  PROVE  Group(groups, press) \in Seq(ClickGroup)
  <1>1. CASE groups # <<>> /\ press.at - Last(groups).from < Window
    <2> DEFINE m == Len(groups)
    <2>1. m \in 1..Len(groups) /\ DOMAIN groups = 1..m /\ groups[m] \in ClickGroup
      BY <1>1
    <2>2. PICK n \in 1..3 : n = IF groups[m].n < 3 THEN groups[m].n + 1 ELSE groups[m].n
      BY <2>1 DEF ClickGroup
    <2>3. [groups[m] EXCEPT !.n = n] \in ClickGroup
      BY <2>1 DEF ClickGroup
    <2>4. Group(groups, press) = [groups EXCEPT ![m] = [groups[m] EXCEPT !.n = n]]
      BY <1>1, <2>1, <2>2 DEF Group
    <2> QED BY <2>1, <2>3, <2>4
  <1>2. CASE ~(groups # <<>> /\ press.at - Last(groups).from < Window)
    <2>1. [from |-> press.at, n |-> 1] \in ClickGroup
      BY DEF ClickGroup, ButtonPress
    <2> QED BY <1>2, <2>1 DEF Group
  <1> QED BY <1>1, <1>2

\* The groups of each beginning of a sequence of presses
GroupsAlong(presses, p) ==
  /\ p \in [0..Len(presses) -> Seq(ClickGroup)] /\ p[0] = <<>>
  /\ \A i \in 1..Len(presses) : p[i] = Group(p[i - 1], presses[i])

\* The groups of presses are those of the presses before and the last one.
LEMMA GroupsPass ==
  ASSUME NEW presses \in Seq(ButtonPress)
  PROVE  \E p : GroupsAlong(presses, p) /\ GroupsOf(presses) = p[Len(presses)]
  <1> DEFINE N == Len(presses)
             V == Seq(ClickGroup)
             step == [q \in V \X (1..N) |-> Group(q[1], presses[q[2]])]
             Is(f) == f = [s \in SUBSET (1..N) |->
                             IF s = {} THEN <<>>
                             ELSE Group(f[s \ {Max(s)}], presses[Max(s)])]
             iter == CHOOSE f : Is(f)
  <1>1. N \in Nat /\ DOMAIN presses = 1..N /\ \A i \in 1..N : presses[i] \in ButtonPress
    OBVIOUS
  <1>2. <<>> \in V
    OBVIOUS
  <1>3. \A r \in V, i \in 1..N : step[<<r, i>>] = Group(r, presses[i])
    OBVIOUS
  <1>4. step \in StepsOf(V, N)
    <2>1. ASSUME NEW q \in V \X (1..N)
          PROVE  Group(q[1], presses[q[2]]) \in V
      BY <1>1, GroupTypes
    <2> QED BY <2>1 DEF StepsOf
  <1>5. GroupsOf(presses) = iter[1..N]
    BY <1>1 DEF GroupsOf, FoldLeft, MapThenFoldSet
  <1> HIDE DEF N, step, V
  <1>6. PICK g : Recurs(V, <<>>, N, step, g)
    <2> HIDE DEF Is, iter
    <2>1. N \in Nat
      BY <1>1
    <2> QED BY <2>1, <1>2, <1>4, FoldIsDefined
  <1>7. Is(g)
    <2>1. ASSUME NEW s \in SUBSET (1..N), s # {}
          PROVE  g[s] = Group(g[s \ {Max(s)}], presses[Max(s)])
      <3>1. Max(s) \in 1..N /\ s \ {Max(s)} \in SUBSET (1..N)
        BY <1>1, <2>1, MaxBelow
      <3>2. g[s \ {Max(s)}] \in V
        BY <1>6, <3>1 DEF Recurs
      <3>3. g[s] = step[<<g[s \ {Max(s)}], Max(s)>>]
        BY <1>6, <2>1 DEF Recurs
      <3> QED BY <1>3, <3>1, <3>2, <3>3
    <2>2. \A s \in SUBSET (1..N) : g[s] = IF s = {} THEN <<>>
                             ELSE Group(g[s \ {Max(s)}], presses[Max(s)])
      BY <1>6, <2>1 DEF Recurs
    <2>3. g = [s \in SUBSET (1..N) |-> g[s]]
      BY <1>6 DEF Recurs
    <2> QED BY <2>2, <2>3
  <1>8. Is(iter)
    <2> HIDE DEF Is
    <2> QED BY <1>7
  <1> HIDE DEF iter
  <1>9. \A s \in SUBSET (1..N) : iter[s] = IF s = {} THEN <<>>
                             ELSE Group(iter[s \ {Max(s)}], presses[Max(s)])
    BY <1>8
  <1>10. iter[{}] = <<>>
    BY <1>9
  <1>11. ASSUME NEW i \in 1..N, iter[1..(i - 1)] \in V
         PROVE  iter[1..i] = step[<<iter[1..(i - 1)], i>>]
    <2>1. /\ 1..i \in SUBSET (1..N) /\ 1..i # {} /\ Max(1..i) = i
          /\ (1..i) \ {i} = 1..(i - 1)
      BY <1>1, PrefixIs
    <2>2. iter[1..i] = Group(iter[1..(i - 1)], presses[i])
      BY <1>9, <2>1
    <2> QED BY <1>3, <1>11, <2>2
  <1>12. StepsAlong(V, <<>>, N, step, iter)
    BY <1>10, <1>11 DEF StepsAlong
  <1>13. PICK p : Passes(V, <<>>, N, step, p) /\ p[N] = iter[1..N]
    <2> HIDE DEF Is
    <2>1. N \in Nat
      BY <1>1
    <2> QED BY <2>1, <1>2, <1>4, <1>12, FoldPasses
  <1>14. GroupsAlong(presses, p)
    <2>1. \A i \in 1..N : p[i - 1] \in V
      BY <1>1, <1>13 DEF Passes
    <2>2. \A i \in 1..N : p[i] = Group(p[i - 1], presses[i])
      BY <1>3, <1>13, <2>1 DEF Passes
    <2> QED BY <1>13, <2>2 DEF GroupsAlong, Passes, N, V
  <1> QED BY <1>5, <1>13, <1>14 DEF N

\* The groups depend on when the presses began only.
LEMMA GroupsAgree ==
  ASSUME NEW ps \in Seq(ButtonPress), NEW qs \in Seq(ButtonPress), NEW N \in Nat,
         N <= Len(ps), N <= Len(qs), \A i \in 1..N : ps[i].at = qs[i].at,
         NEW p, GroupsAlong(ps, p), NEW q, GroupsAlong(qs, q)
  PROVE  p[N] = q[N]
  <1>1. Len(ps) \in Nat /\ Len(qs) \in Nat
    OBVIOUS
  <1> DEFINE T == {n \in 0..N : p[n] = q[n]}
  <1>2. 0 \in T
    BY DEF GroupsAlong
  <1>3. ASSUME NEW n \in 0..N, n \in T, n < N PROVE n + 1 \in T
    <2>1. n + 1 \in 1..N /\ n + 1 \in 1..Len(ps) /\ n + 1 \in 1..Len(qs) /\ (n + 1) - 1 = n
      BY <1>1, <1>3
    <2>2. p[n + 1] = Group(p[n], ps[n + 1]) /\ q[n + 1] = Group(q[n], qs[n + 1])
      BY <2>1 DEF GroupsAlong
    <2>3. p[n + 1] = q[n + 1]
      BY <1>3, <2>1, <2>2 DEF Group
    <2> QED BY <2>1, <2>3
  <1>4. \A n \in 0..N : n \in T
    <2> HIDE DEF T
    <2> QED BY <1>2, <1>3, Reaches
  <1> QED BY <1>4

\* The groups, one press after the other.
LEMMA GroupsAre ==
  ASSUME NEW ps \in Seq(ButtonPress)
  PROVE  /\ GroupsOf(ps) \in Seq(ClickGroup)
         /\ \A x \in ButtonPress : GroupsOf(Append(ps, x)) = Group(GroupsOf(ps), x)
         /\ \A qs \in Seq(ButtonPress) :
              Len(qs) = Len(ps) /\ (\A i \in 1..Len(ps) : ps[i].at = qs[i].at)
                => GroupsOf(qs) = GroupsOf(ps)
         /\ ps = <<>> => GroupsOf(ps) = <<>>
  <1>1. PICK p : GroupsAlong(ps, p) /\ GroupsOf(ps) = p[Len(ps)]
    BY GroupsPass
  <1>2. Len(ps) \in Nat
    OBVIOUS
  <1>3. GroupsOf(ps) \in Seq(ClickGroup)
    BY <1>1, <1>2 DEF GroupsAlong
  <1>4. ASSUME NEW x \in ButtonPress PROVE GroupsOf(Append(ps, x)) = Group(GroupsOf(ps), x)
    <2> DEFINE qs == Append(ps, x)
    <2>1. /\ qs \in Seq(ButtonPress) /\ Len(qs) = Len(ps) + 1 /\ qs[Len(ps) + 1] = x
          /\ \A i \in 1..Len(ps) : qs[i] = ps[i]
      OBVIOUS
    <2> HIDE DEF qs
    <2>2. PICK q : GroupsAlong(qs, q) /\ GroupsOf(qs) = q[Len(qs)]
      BY <2>1, GroupsPass
    <2>3. q[Len(ps)] = p[Len(ps)]
      <3>1. \A i \in 1..Len(ps) : ps[i].at = qs[i].at
        BY <2>1
      <3>2. Len(ps) <= Len(ps) /\ Len(ps) <= Len(qs)
        BY <1>2, <2>1
      <3> QED BY <1>1, <1>2, <2>1, <2>2, <3>1, <3>2, GroupsAgree
    <2>4. q[Len(ps) + 1] = Group(q[Len(ps)], x)
      <3>1. Len(ps) + 1 \in 1..Len(qs) /\ (Len(ps) + 1) - 1 = Len(ps)
        BY <1>2, <2>1
      <3> QED BY <2>1, <2>2, <3>1 DEF GroupsAlong
    <2> QED BY <1>1, <2>1, <2>2, <2>3, <2>4 DEF qs
  <1>5. ASSUME NEW qs \in Seq(ButtonPress), Len(qs) = Len(ps), \A i \in 1..Len(ps) : ps[i].at = qs[i].at
        PROVE  GroupsOf(qs) = GroupsOf(ps)
    <2>1. PICK q : GroupsAlong(qs, q) /\ GroupsOf(qs) = q[Len(qs)]
      BY GroupsPass
    <2>2. Len(ps) <= Len(ps) /\ Len(ps) <= Len(qs)
      BY <1>2, <1>5
    <2>3. p[Len(ps)] = q[Len(ps)]
      BY <1>1, <1>2, <1>5, <2>1, <2>2, GroupsAgree
    <2> QED BY <1>1, <1>5, <2>1, <2>3
  <1>6. ps = <<>> => GroupsOf(ps) = <<>>
    BY <1>1 DEF GroupsAlong
  <1> QED BY <1>3, <1>4, <1>5, <1>6

-----------------------------------------------------------------------------
(* What a button keeps between two events                                  *)

LongInput == [left : Nat \cup {NotTimed}, value : 0..2, resets : SUBSET Nat]
TripleInput ==
  [left : Nat \cup {NotTimed}, count : Nat, value : 0..3, resets : SUBSET Nat]

ButtonWell ==
  /\ bt \in [contact : BOOLEAN, sw : BOOLEAN, lp : LongInput, tri : TripleInput]
  /\ btLog \in [now : Nat, repeats : Nat, presses : Seq(ButtonPress),
                switched : Seq(BOOLEAN), long : Seq(1..2), clicks : Seq(1..3)]
  /\ bt.tri.left # NotTimed => bt.tri.count >= 1

LastPress == btLog.presses[Len(btLog.presses)]

\* Each press was told as it began and as it ended; only the last may be held
ChangesAreTold ==
  /\ bt.sw = bt.contact /\ (bt.contact => Len(btLog.presses) > 0)
  /\ Len(btLog.switched) = 2 * Len(btLog.presses) - (IF bt.contact THEN 1 ELSE 0)
  /\ \A i \in 1..Len(btLog.switched) : btLog.switched[i] = (i % 2 = 1)
  /\ \A i \in 1..Len(btLog.presses) :
       btLog.presses[i].until = Held <=> bt.contact /\ i = Len(btLog.presses)

\* A press that is held is timed, until it was told as a long one
LongsAreTold ==
  /\ ~bt.contact => bt.lp.left = NotTimed
  /\ Len(btLog.long) = Len(btLog.presses) - (IF bt.lp.left = NotTimed THEN 0 ELSE 1)
  /\ bt.contact =>
       IF bt.lp.left = NotTimed
       THEN btLog.now - LastPress.at >= Window /\ btLog.long[Len(btLog.presses)] = 2
       ELSE btLog.now - LastPress.at = Window - bt.lp.left
  /\ \A i \in 1..Len(btLog.long) : btLog.presses[i].until # Held =>
       btLog.long[i] =
         IF btLog.presses[i].until - btLog.presses[i].at >= Window THEN 2 ELSE 1

\* The clicks that are counted are the last group; the others were told
ClicksAreTold ==
  LET groups == GroupsOf(btLog.presses)
      m == Len(groups)
  IN /\ Len(btLog.clicks) = m - (IF bt.tri.left = NotTimed THEN 0 ELSE 1)
     /\ bt.tri.left # NotTimed =>
          /\ m > 0 /\ btLog.now - groups[m].from = Window - bt.tri.left
          /\ groups[m].n = IF bt.tri.count < 3 THEN bt.tri.count ELSE 3
     /\ \A i \in 1..Len(btLog.clicks) :
          btLog.clicks[i] = groups[i].n /\ btLog.now - groups[i].from >= Window

ButtonInv ==
  /\ ButtonWell /\ ChangesAreTold
  /\ btLog.repeats = 0 => LongsAreTold /\ ClicksAreTold

-----------------------------------------------------------------------------
(* The reports of the contact                                              *)
\* What an input that tells a value becomes
LEMMA EmitIs ==
  /\ \A input \in LongInput, v \in 0..2 :
       Emit(input, v) \in LongInput /\ Emit(input, v).left = NotTimed
  /\ \A input \in TripleInput, v \in 0..3 :
       /\ Emit(input, v) \in TripleInput /\ Emit(input, v).left = NotTimed
       /\ Emit(input, v).count = input.count
  <1>1. ResetDelay \in Nat
    BY ButtonAssumption
  <1>2. ASSUME NEW input \in LongInput, NEW v \in 0..2
        PROVE  Emit(input, v) \in LongInput /\ Emit(input, v).left = NotTimed
    <2>1. input.resets \cup {ResetDelay} \in SUBSET Nat
      BY <1>1 DEF LongInput
    <2> QED BY <2>1 DEF Emit, LongInput
  <1>3. ASSUME NEW input \in TripleInput, NEW v \in 0..3
        PROVE  /\ Emit(input, v) \in TripleInput /\ Emit(input, v).left = NotTimed
               /\ Emit(input, v).count = input.count
    <2>1. input.resets \cup {ResetDelay} \in SUBSET Nat
      BY <1>1 DEF TripleInput
    <2> QED BY <2>1 DEF Emit, TripleInput
  <1> QED BY <1>2, <1>3

\* The two inputs after a report
LEMMA InputsChange ==
  ASSUME ButtonWell, NEW pressed \in BOOLEAN
  PROVE  /\ LongPressChanged(pressed) \in LongInput
         /\ LongPressChanged(pressed).left =
              IF pressed /\ bt.lp.left = NotTimed THEN Window
              ELSE IF pressed THEN bt.lp.left ELSE NotTimed
         /\ TripleChanged(pressed) \in TripleInput
         /\ TripleChanged(pressed).left =
              IF pressed /\ bt.tri.left = NotTimed THEN Window ELSE bt.tri.left
         /\ TripleChanged(pressed).count =
              IF ~pressed THEN bt.tri.count
              ELSE IF bt.tri.left = NotTimed THEN 1 ELSE bt.tri.count + 1
  <1>0. bt.lp \in LongInput /\ bt.tri \in TripleInput /\ Window \in Nat
    BY ButtonAssumption DEF ButtonWell
  <1>1. /\ LongPressChanged(pressed) \in LongInput
        /\ LongPressChanged(pressed).left =
              IF pressed /\ bt.lp.left = NotTimed THEN Window
              ELSE IF pressed THEN bt.lp.left ELSE NotTimed
    <2>1. CASE pressed /\ bt.lp.left = NotTimed
      BY <1>0, <2>1 DEF LongPressChanged, LongInput
    <2>2. CASE ~pressed /\ bt.lp.left # NotTimed
      BY <1>0, <2>2, EmitIs DEF LongPressChanged
    <2>3. CASE (pressed /\ bt.lp.left # NotTimed) \/ (~pressed /\ bt.lp.left = NotTimed)
      BY <1>0, <2>3 DEF LongPressChanged
    <2> QED BY <2>1, <2>2, <2>3
  <1>2. /\ TripleChanged(pressed) \in TripleInput
        /\ TripleChanged(pressed).left =
              IF pressed /\ bt.tri.left = NotTimed THEN Window ELSE bt.tri.left
        /\ TripleChanged(pressed).count =
              IF ~pressed THEN bt.tri.count
              ELSE IF bt.tri.left = NotTimed THEN 1 ELSE bt.tri.count + 1
    <2>1. CASE ~pressed
      BY <1>0, <2>1 DEF TripleChanged
    <2>2. CASE pressed /\ bt.tri.left = NotTimed
      BY <1>0, <2>2 DEF TripleChanged, TripleInput
    <2>3. CASE pressed /\ bt.tri.left # NotTimed
      <3>1. bt.tri.count + 1 \in Nat
        BY <1>0 DEF TripleInput
      <3>2. TripleChanged(pressed) = [bt.tri EXCEPT !.count = bt.tri.count + 1]
        BY <2>3 DEF TripleChanged
      <3>3. /\ TripleChanged(pressed) \in TripleInput
            /\ TripleChanged(pressed).left = bt.tri.left
            /\ TripleChanged(pressed).count = bt.tri.count + 1
        BY <1>0, <3>1, <3>2 DEF TripleInput
      <3> QED BY <2>3, <3>3
    <2> QED BY <2>1, <2>2, <2>3
  <1> QED BY <1>1, <1>2

\* A report, with what it leaves of the presses and the repeats
LEMMA ReportIs ==
  ASSUME ButtonWell, NEW pressed \in BOOLEAN, NEW presses \in Seq(ButtonPress),
         NEW repeats \in Nat, Report(pressed, presses, repeats)
  PROVE  /\ ButtonWell'
         /\ bt'.contact = pressed /\ bt'.sw = pressed
         /\ bt'.lp = LongPressChanged(pressed) /\ bt'.tri = TripleChanged(pressed)
         /\ btLog'.now = btLog.now /\ btLog'.presses = presses /\ btLog'.repeats = repeats
         /\ btLog'.clicks = btLog.clicks
         /\ btLog'.switched =
              IF pressed = bt.sw THEN btLog.switched ELSE Append(btLog.switched, pressed)
         /\ btLog'.long =
              IF ~pressed /\ bt.lp.left # NotTimed THEN Append(btLog.long, 1) ELSE btLog.long
  <1>1. /\ LongPressChanged(pressed) \in LongInput /\ TripleChanged(pressed) \in TripleInput
        /\ TripleChanged(pressed).left # NotTimed => TripleChanged(pressed).count >= 1
    <2>1. bt.tri.count \in Nat /\ (bt.tri.left # NotTimed => bt.tri.count >= 1)
      BY DEF ButtonWell, TripleInput
    <2>2. TripleChanged(pressed).left # NotTimed => TripleChanged(pressed).count >= 1
      <3>1. CASE ~pressed
        BY <2>1, <3>1, InputsChange
      <3>2. CASE pressed /\ bt.tri.left = NotTimed
        <4>1. TripleChanged(pressed).count = 1
          BY <3>2, InputsChange
        <4> QED BY <4>1
      <3>3. CASE pressed /\ bt.tri.left # NotTimed
        <4>1. TripleChanged(pressed).count = bt.tri.count + 1
          BY <3>3, InputsChange
        <4> QED BY <2>1, <4>1
      <3> QED BY <3>1, <3>2, <3>3
    <2> QED BY <2>2, InputsChange
  <1>2. bt' = [contact |-> pressed, sw |-> pressed,
               lp |-> LongPressChanged(pressed), tri |-> TripleChanged(pressed)]
    BY DEF Report
  <1>3. PICK switched \in Seq(BOOLEAN) :
          switched = IF pressed = bt.sw THEN btLog.switched ELSE Append(btLog.switched, pressed)
    <2>1. btLog.switched \in Seq(BOOLEAN)
      BY DEF ButtonWell
    <2>2. Append(btLog.switched, pressed) \in Seq(BOOLEAN)
      BY <2>1
    <2> QED BY <2>1, <2>2
  <1>4. PICK long \in Seq(1..2) :
          long = IF ~pressed /\ bt.lp.left # NotTimed THEN Append(btLog.long, 1) ELSE btLog.long
    <2>1. btLog.long \in Seq(1..2)
      BY DEF ButtonWell
    <2>2. Append(btLog.long, 1) \in Seq(1..2)
      BY <2>1
    <2> QED BY <2>1, <2>2
  <1>5. btLog' = [btLog EXCEPT !.presses = presses, !.repeats = repeats,
                               !.switched = switched, !.long = long]
    BY <1>3, <1>4 DEF Report
  <1>6. /\ btLog' \in [now : Nat, repeats : Nat, presses : Seq(ButtonPress),
                       switched : Seq(BOOLEAN), long : Seq(1..2), clicks : Seq(1..3)]
        /\ btLog'.now = btLog.now /\ btLog'.presses = presses /\ btLog'.repeats = repeats
        /\ btLog'.clicks = btLog.clicks /\ btLog'.switched = switched /\ btLog'.long = long
    BY <1>5 DEF ButtonWell
  <1>7. ButtonWell'
    BY <1>1, <1>2, <1>6 DEF ButtonWell
  <1> QED BY <1>2, <1>3, <1>4, <1>6, <1>7

\* What is told is typed.
LEMMA LogIsTyped ==
  ASSUME ButtonWell
  PROVE  /\ btLog.now \in Nat /\ btLog.repeats \in Nat /\ btLog.presses \in Seq(ButtonPress)
         /\ btLog.switched \in Seq(BOOLEAN) /\ btLog.long \in Seq(1..2)
         /\ btLog.clicks \in Seq(1..3)
         /\ Len(btLog.presses) \in Nat /\ Len(btLog.switched) \in Nat
         /\ Len(btLog.long) \in Nat /\ Len(btLog.clicks) \in Nat
         /\ bt.contact \in BOOLEAN /\ bt.lp \in LongInput /\ bt.tri \in TripleInput
         /\ bt.lp.left \in Nat \cup {NotTimed} /\ bt.tri.left \in Nat \cup {NotTimed}
         /\ bt.tri.count \in Nat
         /\ Window \in Nat \ {0} /\ NotTimed \notin Nat /\ NotTimed = -1 /\ Held = -1
         /\ \A i \in 1..Len(btLog.presses) :
              /\ btLog.presses[i] \in ButtonPress /\ btLog.presses[i].at \in Nat
              /\ btLog.presses[i].until \in Nat \cup {Held}
         /\ \A i \in 1..Len(btLog.long) : btLog.long[i] \in 1..2
         /\ GroupsOf(btLog.presses) \in Seq(ClickGroup)
         /\ Len(GroupsOf(btLog.presses)) \in Nat
         /\ \A i \in 1..Len(GroupsOf(btLog.presses)) :
              /\ GroupsOf(btLog.presses)[i].from \in Nat
              /\ GroupsOf(btLog.presses)[i].n \in 1..3
  <1>1. /\ btLog.now \in Nat /\ btLog.repeats \in Nat /\ btLog.presses \in Seq(ButtonPress)
        /\ btLog.switched \in Seq(BOOLEAN) /\ btLog.long \in Seq(1..2)
        /\ btLog.clicks \in Seq(1..3)
        /\ bt.contact \in BOOLEAN /\ bt.lp \in LongInput /\ bt.tri \in TripleInput
    BY DEF ButtonWell
  <1>2. /\ bt.lp.left \in Nat \cup {NotTimed} /\ bt.tri.left \in Nat \cup {NotTimed}
        /\ bt.tri.count \in Nat
    BY <1>1 DEF LongInput, TripleInput
  <1>3. GroupsOf(btLog.presses) \in Seq(ClickGroup)
    BY <1>1, GroupsAre
  <1>4. \A i \in 1..Len(btLog.presses) :
          /\ btLog.presses[i] \in ButtonPress /\ btLog.presses[i].at \in Nat
          /\ btLog.presses[i].until \in Nat \cup {Held}
    <2>1. \A i \in 1..Len(btLog.presses) : btLog.presses[i] \in ButtonPress
      BY <1>1
    <2> QED BY <2>1 DEF ButtonPress
  <1>5. \A i \in 1..Len(GroupsOf(btLog.presses)) :
              /\ GroupsOf(btLog.presses)[i].from \in Nat
              /\ GroupsOf(btLog.presses)[i].n \in 1..3
    <2>1. \A i \in 1..Len(GroupsOf(btLog.presses)) : GroupsOf(btLog.presses)[i] \in ClickGroup
      BY <1>3
    <2> QED BY <2>1 DEF ClickGroup
  <1>6. /\ Len(btLog.presses) \in Nat /\ Len(btLog.switched) \in Nat
        /\ Len(btLog.long) \in Nat /\ Len(btLog.clicks) \in Nat
        /\ Len(GroupsOf(btLog.presses)) \in Nat
    BY <1>1, <1>3
  <1>7. \A i \in 1..Len(btLog.long) : btLog.long[i] \in 1..2
    BY <1>1
  <1> QED BY <1>1, <1>2, <1>3, <1>4, <1>5, <1>6, <1>7, ButtonAssumption DEF NotTimed, Held

-----------------------------------------------------------------------------
(* The contact closes                                                      *)
\* Presses and releases alternate.
LEMMA OddAndEven == \A n \in Nat : (2 * n + 1) % 2 = 1 /\ (2 * n) % 2 = 0
  OBVIOUS

\* A sequence of changes that goes on with the other value
LEMMA ChangeIsAppended ==
  ASSUME NEW s \in Seq(BOOLEAN), NEW v \in BOOLEAN, v = ((Len(s) + 1) % 2 = 1),
         \A i \in 1..Len(s) : s[i] = (i % 2 = 1)
  PROVE  /\ Len(Append(s, v)) = Len(s) + 1
         /\ \A i \in 1..(Len(s) + 1) : Append(s, v)[i] = (i % 2 = 1)
  <1>1. /\ Len(Append(s, v)) = Len(s) + 1 /\ Append(s, v)[Len(s) + 1] = v
        /\ \A i \in 1..Len(s) : Append(s, v)[i] = s[i]
    BY AppendProperties
  <1>2. Len(s) \in Nat
    OBVIOUS
  <1>3. ASSUME NEW i \in 1..(Len(s) + 1) PROVE Append(s, v)[i] = (i % 2 = 1)
    <2>1. CASE i = Len(s) + 1
      BY <1>1, <2>1
    <2>2. CASE i # Len(s) + 1
      <3>1. i \in 1..Len(s)
        BY <1>2, <2>2
      <3> QED BY <1>1, <3>1
    <2> QED BY <2>1, <2>2
  <1> QED BY <1>1, <1>3

\* The contact closes: the classic input tells a press,
LEMMA CloseKeepsChanges ==
  ASSUME ButtonWell, ChangesAreTold, ContactCloses
  PROVE  ButtonWell' /\ ChangesAreTold'
  <1> DEFINE n == Len(btLog.presses)
             press == [at |-> btLog.now, until |-> Held]
             presses == Append(btLog.presses, press)
  <1>1. press \in ButtonPress /\ press.until = Held
    BY LogIsTyped DEF ButtonPress
  <1>2. n \in Nat /\ btLog.presses \in Seq(ButtonPress) /\ btLog.repeats \in Nat
    BY LogIsTyped
  <1> HIDE DEF press
  <1>3. /\ presses \in Seq(ButtonPress) /\ Len(presses) = n + 1
        /\ presses[n + 1] = press /\ \A i \in 1..n : presses[i] = btLog.presses[i]
    BY <1>1, <1>2
  <1>4. Report(TRUE, presses, btLog.repeats) /\ bt.contact = FALSE /\ bt.sw = FALSE
    BY LogIsTyped DEF ContactCloses, press, ChangesAreTold
  <1> HIDE DEF presses
  <1>5. /\ ButtonWell' /\ bt'.contact = TRUE /\ bt'.sw = TRUE /\ btLog'.presses = presses
        /\ btLog'.switched = Append(btLog.switched, TRUE)
    BY <1>2, <1>3, <1>4, ReportIs
  <1>6. Len(btLog.switched) = 2 * n
    <2>1. Len(btLog.switched) = 2 * n - (IF bt.contact THEN 1 ELSE 0)
      BY DEF ChangesAreTold
    <2>2. (IF bt.contact THEN 1 ELSE 0) = 0
      BY <1>4
    <2> HIDE DEF n
    <2> QED BY <1>2, <2>1, <2>2
  <1> HIDE DEF n
  <1>7. Len(btLog'.switched) = 2 * n + 1
    <2>1. btLog.switched \in Seq(BOOLEAN)
      BY LogIsTyped
    <2>2. Len(Append(btLog.switched, TRUE)) = Len(btLog.switched) + 1
      BY <2>1
    <2> QED BY <1>5, <1>6, <2>2
  <1>8. \A i \in 1..(2 * n + 1) : btLog'.switched[i] = (i % 2 = 1)
    <2>1. PICK s \in Seq(BOOLEAN) : s = btLog.switched
      BY LogIsTyped
    <2>2. TRUE = ((Len(s) + 1) % 2 = 1) /\ TRUE \in BOOLEAN
      BY <1>2, <1>6, <2>1, OddAndEven
    <2>3. \A i \in 1..Len(s) : s[i] = (i % 2 = 1)
      BY <2>1 DEF ChangesAreTold
    <2>4. \A i \in 1..(Len(s) + 1) : Append(s, TRUE)[i] = (i % 2 = 1)
      BY <2>2, <2>3, ChangeIsAppended
    <2> QED BY <1>5, <1>6, <2>1, <2>4
  <1>9. ASSUME NEW i \in 1..(n + 1) PROVE presses[i].until = Held <=> i = n + 1
    <2>1. CASE i = n + 1
      BY <1>1, <1>3, <2>1
    <2>2. CASE i # n + 1
      <3>1. i \in 1..n
        BY <1>2, <2>2
      <3>2. btLog.presses[i].until # Held
        BY <1>4, <3>1 DEF ChangesAreTold, n
      <3> QED BY <1>3, <2>2, <3>1, <3>2
    <2> QED BY <2>1, <2>2
  <1>10. Len(btLog'.switched) = 2 * Len(btLog'.presses) - 1 /\ Len(btLog'.presses) > 0
    <2>1. 2 * n + 1 = 2 * (n + 1) - 1 /\ n + 1 > 0
      BY <1>2
    <2> QED BY <1>3, <1>5, <1>7, <2>1
  <1> QED BY <1>2, <1>3, <1>5, <1>7, <1>8, <1>9, <1>10 DEF ChangesAreTold

\* the long input starts its timer, and the triple input
LEMMA CloseKeepsLongs ==
  ASSUME ButtonWell, ChangesAreTold, LongsAreTold, ContactCloses
  PROVE  LongsAreTold'
  <1> DEFINE n == Len(btLog.presses)
             press == [at |-> btLog.now, until |-> Held]
             presses == Append(btLog.presses, press)
  <1>1. press \in ButtonPress /\ press.at = btLog.now
    BY LogIsTyped DEF ButtonPress
  <1>2. /\ n \in Nat /\ btLog.presses \in Seq(ButtonPress) /\ btLog.repeats \in Nat
        /\ btLog.now \in Nat /\ Window \in Nat \ {0} /\ NotTimed = -1
    BY LogIsTyped
  <1> HIDE DEF press
  <1>3. /\ presses \in Seq(ButtonPress) /\ Len(presses) = n + 1
        /\ presses[n + 1] = press /\ \A i \in 1..n : presses[i] = btLog.presses[i]
    BY <1>1, <1>2
  <1>4. Report(TRUE, presses, btLog.repeats) /\ bt.contact = FALSE /\ bt.lp.left = NotTimed
    BY LogIsTyped DEF ContactCloses, press, LongsAreTold
  <1>5. Len(btLog.long) = n
    BY <1>2, <1>4 DEF LongsAreTold
  <1> HIDE DEF presses
  <1>6. /\ bt'.contact = TRUE /\ btLog'.presses = presses /\ btLog'.now = btLog.now
        /\ bt'.lp = LongPressChanged(TRUE) /\ btLog'.long = btLog.long
    BY <1>2, <1>3, <1>4, ReportIs
  <1>7. bt'.lp.left = Window
    BY <1>4, <1>6, InputsChange
  <1>8. ASSUME NEW i \in 1..n, presses[i].until # Held
        PROVE  btLog.long[i] = IF presses[i].until - presses[i].at >= Window THEN 2 ELSE 1
    BY <1>3, <1>5, <1>8 DEF LongsAreTold
  <1> HIDE DEF n
  <1>9. LastPress'.at = btLog.now
    BY <1>1, <1>3, <1>6 DEF LastPress
  <1>10. bt'.lp.left # NotTimed /\ btLog'.now - LastPress'.at = Window - bt'.lp.left
    <2>1. btLog.now - btLog.now = Window - Window /\ Window # NotTimed
      BY <1>2
    <2> QED BY <1>6, <1>7, <1>9, <2>1
  <1>11. Len(btLog'.long) = Len(btLog'.presses) - 1
    BY <1>2, <1>3, <1>5, <1>6
  <1> QED BY <1>5, <1>6, <1>8, <1>10, <1>11 DEF LongsAreTold

\* The groups a press that begins now adds to
LEMMA CloseKeepsClicks ==
  ASSUME ButtonWell, ClicksAreTold, ContactCloses
  PROVE  ClicksAreTold'
  <1> DEFINE press == [at |-> btLog.now, until |-> Held]
             presses == Append(btLog.presses, press)
  <1>1. press \in ButtonPress /\ press.at = btLog.now
    BY LogIsTyped DEF ButtonPress
  <1>2. /\ btLog.presses \in Seq(ButtonPress) /\ btLog.repeats \in Nat
        /\ btLog.now \in Nat /\ Window \in Nat \ {0} /\ NotTimed = -1
        /\ bt.tri.left \in Nat \cup {NotTimed} /\ bt.tri.count \in Nat
    BY LogIsTyped
  <1>3. Report(TRUE, presses, btLog.repeats) /\ bt.tri.left # 0
    BY DEF ContactCloses, Report, ButtonDue
  <1> HIDE DEF press
  <1>4. presses \in Seq(ButtonPress)
    BY <1>1, <1>2
  <1>5. PICK groups \in Seq(ClickGroup) : groups = GroupsOf(btLog.presses)
    BY LogIsTyped
  <1>6. PICK m \in Nat : m = Len(groups)
    BY <1>5
  <1>7. GroupsOf(presses) = Group(groups, press)
    BY <1>1, <1>2, <1>5, GroupsAre
  <1> HIDE DEF presses
  <1>8. /\ btLog'.presses = presses /\ btLog'.now = btLog.now /\ btLog'.clicks = btLog.clicks
        /\ bt'.tri = TripleChanged(TRUE)
    BY <1>2, <1>3, <1>4, ReportIs
  <1>9. /\ Len(btLog.clicks) = m - (IF bt.tri.left = NotTimed THEN 0 ELSE 1)
        /\ bt.tri.left # NotTimed =>
             /\ m > 0 /\ btLog.now - groups[m].from = Window - bt.tri.left
             /\ groups[m].n = IF bt.tri.count < 3 THEN bt.tri.count ELSE 3
        /\ \A i \in 1..Len(btLog.clicks) :
             btLog.clicks[i] = groups[i].n /\ btLog.now - groups[i].from >= Window
    BY <1>5, <1>6 DEF ClicksAreTold
  <1>10. \A i \in 1..m : groups[i] \in ClickGroup /\ groups[i].from \in Nat /\ groups[i].n \in 1..3
    <2>1. \A i \in 1..m : groups[i] \in ClickGroup
      BY <1>5, <1>6
    <2> QED BY <2>1 DEF ClickGroup
  <1>11. Last(groups) = groups[m]
    BY <1>6 DEF Last
  <1>12. CASE bt.tri.left = NotTimed
    <2>1. bt'.tri.left = Window /\ bt'.tri.count = 1
      BY <1>8, <1>12, InputsChange
    <2>2. Len(btLog.clicks) = m
      BY <1>9, <1>12
    <2>3. groups # <<>> => ~(press.at - Last(groups).from < Window)
      <3>1. SUFFICES ASSUME groups # <<>> PROVE ~(btLog.now - groups[m].from < Window)
        BY <1>1, <1>11
      <3>2. m \in 1..m /\ m \in 1..Len(btLog.clicks)
        BY <1>5, <1>6, <2>2, <3>1
      <3>3. btLog.now - groups[m].from >= Window
        BY <1>9, <3>2
      <3> QED BY <1>2, <1>10, <3>2, <3>3
    <2> DEFINE new == [from |-> press.at, n |-> 1]
    <2>4. Group(groups, press) = Append(groups, new)
      BY <2>3 DEF Group
    <2>5. new \in ClickGroup /\ new.from = btLog.now /\ new.n = 1
      BY <1>1, <1>2 DEF ClickGroup
    <2> HIDE DEF new
    <2>6. PICK more : more = Append(groups, new)
      OBVIOUS
    <2>7. /\ Len(more) = m + 1 /\ more[m + 1] = new
          /\ \A i \in 1..m : more[i] = groups[i]
      BY <1>5, <1>6, <2>5, <2>6
    <2>8. GroupsOf(btLog'.presses) = more
      BY <1>7, <1>8, <2>4, <2>6
    <2>9. bt'.tri.left # NotTimed /\ Len(btLog'.clicks) = Len(more) - 1
      <3>1. Window # NotTimed /\ m = (m + 1) - 1
        BY <1>2
      <3> QED BY <1>8, <2>1, <2>2, <2>7, <3>1
    <2>10. /\ Len(more) > 0 /\ btLog'.now - more[Len(more)].from = Window - bt'.tri.left
           /\ more[Len(more)].n = IF bt'.tri.count < 3 THEN bt'.tri.count ELSE 3
      <3>1. btLog.now - btLog.now = Window - Window /\ m + 1 > 0 /\ 1 = IF 1 < 3 THEN 1 ELSE 3
        BY <1>2
      <3> QED BY <1>8, <2>1, <2>5, <2>7, <3>1
    <2>11. \A i \in 1..Len(btLog'.clicks) :
             btLog'.clicks[i] = more[i].n /\ btLog'.now - more[i].from >= Window
      BY <1>8, <1>9, <2>2, <2>7
    <2> QED BY <2>8, <2>9, <2>10, <2>11 DEF ClicksAreTold
  <1>13. CASE bt.tri.left # NotTimed
    <2>1. bt'.tri.left = bt.tri.left /\ bt'.tri.count = bt.tri.count + 1
      BY <1>8, <1>13, InputsChange
    <2>2. /\ m > 0 /\ m \in 1..m /\ btLog.now - groups[m].from = Window - bt.tri.left
          /\ groups[m].n = IF bt.tri.count < 3 THEN bt.tri.count ELSE 3
          /\ Len(btLog.clicks) = m - 1
      BY <1>9, <1>13
    <2>3. bt.tri.left \in Nat /\ bt.tri.left > 0
      BY <1>2, <1>3, <1>13
    <2>4. groups # <<>> /\ press.at - Last(groups).from < Window
      <3>1. btLog.now - groups[m].from < Window
        BY <1>2, <1>10, <2>2, <2>3
      <3>2. groups # <<>>
        BY <1>6, <2>2
      <3> QED BY <1>1, <1>11, <3>1, <3>2
    <2>5. PICK n \in 1..3 : n = IF groups[m].n < 3 THEN groups[m].n + 1 ELSE groups[m].n
      BY <1>10, <2>2
    <2>6. PICK last \in ClickGroup : last = [groups[m] EXCEPT !.n = n]
      BY <1>10, <2>2 DEF ClickGroup
    <2>7. last.n = n /\ last.from = groups[m].from
      BY <1>10, <2>2, <2>6 DEF ClickGroup
    <2>8. PICK more : more = [groups EXCEPT ![m] = last]
      OBVIOUS
    <2>9. Group(groups, press) = more
      BY <1>6, <2>4, <2>5, <2>6, <2>8 DEF Group
    <2>10. /\ Len(more) = m /\ more[m] = last
           /\ \A i \in 1..(m - 1) : more[i] = groups[i]
      BY <1>5, <1>6, <2>2, <2>8
    <2>11. GroupsOf(btLog'.presses) = more
      BY <1>7, <1>8, <2>9
    <2>12. n = IF bt'.tri.count < 3 THEN bt'.tri.count ELSE 3
      BY <1>2, <2>1, <2>2, <2>5
    <2>13. bt'.tri.left # NotTimed /\ Len(btLog'.clicks) = Len(more) - 1
      BY <1>8, <1>13, <2>1, <2>2, <2>10
    <2>14. /\ Len(more) > 0 /\ btLog'.now - more[Len(more)].from = Window - bt'.tri.left
           /\ more[Len(more)].n = IF bt'.tri.count < 3 THEN bt'.tri.count ELSE 3
      BY <1>8, <2>1, <2>2, <2>7, <2>10, <2>12
    <2>15. \A i \in 1..Len(btLog'.clicks) :
             btLog'.clicks[i] = more[i].n /\ btLog'.now - more[i].from >= Window
      BY <1>8, <1>9, <2>2, <2>10
    <2> QED BY <2>11, <2>13, <2>14, <2>15 DEF ClicksAreTold
  <1> QED BY <1>12, <1>13

-----------------------------------------------------------------------------
(* The contact opens                                                       *)
\* The presses when the contact opens: the last one ends, the others are as they were
LEMMA PressEnds ==
  ASSUME ButtonWell, ChangesAreTold, ContactOpens
  PROVE  LET n == Len(btLog.presses)
             ended == [btLog.presses EXCEPT ![n].until = btLog.now]
         IN /\ n \in 1..n /\ ended \in Seq(ButtonPress) /\ Len(ended) = n
            /\ Report(FALSE, ended, btLog.repeats)
            /\ bt.contact = TRUE /\ bt.sw = TRUE
            /\ ended[n].until = btLog.now /\ ended[n].at = LastPress.at
            /\ \A i \in 1..(n - 1) : ended[i] = btLog.presses[i]
            /\ \A i \in 1..n : ended[i].at = btLog.presses[i].at
            /\ GroupsOf(ended) = GroupsOf(btLog.presses)
  <1> DEFINE n == Len(btLog.presses)
             ended == [btLog.presses EXCEPT ![n].until = btLog.now]
  <1>1. bt.contact = TRUE /\ bt.sw = TRUE /\ Report(FALSE, ended, btLog.repeats)
    BY LogIsTyped DEF ContactOpens, ChangesAreTold
  <1>2. n \in Nat /\ n > 0 /\ btLog.presses \in Seq(ButtonPress) /\ btLog.now \in Nat
    BY <1>1, LogIsTyped DEF ChangesAreTold
  <1>3. n \in 1..n /\ btLog.presses[n] \in ButtonPress
    BY <1>2
  <1>4. PICK press \in ButtonPress : press = [btLog.presses[n] EXCEPT !.until = btLog.now]
    BY <1>2, <1>3 DEF ButtonPress
  <1>5. press.until = btLog.now /\ press.at = btLog.presses[n].at
    BY <1>2, <1>3, <1>4 DEF ButtonPress
  <1>6. PICK ps \in Seq(ButtonPress) : ps = btLog.presses
    BY <1>2
  <1>7. ended = [ps EXCEPT ![n] = press]
    BY <1>4, <1>6
  <1>8. /\ ended \in Seq(ButtonPress) /\ Len(ended) = n /\ ended[n] = press
        /\ \A i \in 1..(n - 1) : ended[i] = ps[i]
    <2>1. n = Len(ps)
      BY <1>6
    <2> HIDE DEF n, ended
    <2>2. [ps EXCEPT ![n] = press] \in Seq(ButtonPress)
      BY <1>2, <1>3, <2>1
    <2>3. Len([ps EXCEPT ![n] = press]) = n
      BY <1>2, <1>3, <2>1
    <2>4. [ps EXCEPT ![n] = press][n] = press
      BY <1>2, <1>3, <2>1
    <2>5. \A i \in 1..(n - 1) : [ps EXCEPT ![n] = press][i] = ps[i]
      BY <1>2, <1>3, <2>1
    <2>6. ended = [ps EXCEPT ![n] = press]
      BY <1>7 DEF n, ended
    <2> QED BY <2>2, <2>3, <2>4, <2>5, <2>6
  <1> HIDE DEF n, ended
  <1>9. \A i \in 1..n : ended[i].at = ps[i].at
    <2>1. ASSUME NEW i \in 1..n PROVE ended[i].at = ps[i].at
      <3>1. CASE i = n
        BY <1>5, <1>6, <1>8, <3>1
      <3>2. CASE i # n
        <4>1. i \in 1..(n - 1)
          BY <1>2, <3>2
        <4> QED BY <1>8, <4>1
      <3> QED BY <3>1, <3>2
    <2> QED BY <2>1
  <1>10. GroupsOf(ended) = GroupsOf(ps)
    <2>1. Len(ps) = n
      BY <1>6 DEF n
    <2> QED BY <1>8, <1>9, <2>1, GroupsAre
  <1>11. ended[n].at = LastPress.at
    BY <1>3, <1>9, <1>6 DEF LastPress, n
  <1>12. ended[n].until = btLog.now
    BY <1>5, <1>8
  <1>13. \A i \in 1..(n - 1) : ended[i] = btLog.presses[i]
    BY <1>6, <1>8
  <1>14. \A i \in 1..n : ended[i].at = btLog.presses[i].at
    BY <1>6, <1>9
  <1> QED BY <1>1, <1>3, <1>6, <1>8, <1>10, <1>11, <1>12, <1>13, <1>14 DEF n, ended

\* The contact opens: the classic input tells a release,
LEMMA OpenKeepsChanges ==
  ASSUME ButtonWell, ChangesAreTold, ContactOpens
  PROVE  ButtonWell' /\ ChangesAreTold'
  <1> DEFINE n == Len(btLog.presses)
             ended == [btLog.presses EXCEPT ![n].until = btLog.now]
  <1>1. /\ n \in 1..n /\ ended \in Seq(ButtonPress) /\ Len(ended) = n
        /\ Report(FALSE, ended, btLog.repeats)
        /\ bt.contact = TRUE /\ bt.sw = TRUE
        /\ ended[n].until = btLog.now
        /\ \A i \in 1..(n - 1) : ended[i] = btLog.presses[i]
    BY PressEnds
  <1>2. n \in Nat /\ btLog.repeats \in Nat /\ btLog.now \in Nat /\ Held = -1
    BY LogIsTyped
  <1> HIDE DEF ended
  <1>3. /\ ButtonWell' /\ bt'.contact = FALSE /\ bt'.sw = FALSE /\ btLog'.presses = ended
        /\ btLog'.switched = Append(btLog.switched, FALSE)
    BY <1>1, <1>2, ReportIs
  <1>4. Len(btLog.switched) = 2 * n - 1
    <2>1. Len(btLog.switched) = 2 * n - (IF bt.contact THEN 1 ELSE 0)
      BY DEF ChangesAreTold
    <2>2. (IF bt.contact THEN 1 ELSE 0) = 1
      BY <1>1
    <2> HIDE DEF n
    <2> QED BY <1>2, <2>1, <2>2
  <1>5. \A i \in 1..n : btLog.presses[i].until = Held <=> i = n
    BY <1>1 DEF ChangesAreTold
  <1>6. \A i \in 1..Len(btLog.switched) : btLog.switched[i] = (i % 2 = 1)
    BY DEF ChangesAreTold
  <1> HIDE DEF n
  <1>7. Len(btLog.switched) + 1 = 2 * n /\ (2 * n) % 2 = 0
    BY <1>2, <1>4, OddAndEven
  <1>8. PICK s \in Seq(BOOLEAN) : s = btLog.switched
    BY LogIsTyped
  <1>9. FALSE = ((Len(s) + 1) % 2 = 1) /\ FALSE \in BOOLEAN
    <2>1. Len(s) + 1 = 2 * n
      BY <1>7, <1>8
    <2>2. (Len(s) + 1) % 2 = 0
      BY <1>7, <2>1
    <2>3. ((Len(s) + 1) % 2 = 1) = FALSE
      BY <2>2
    <2> QED BY <2>3
  <1>10. /\ Len(Append(s, FALSE)) = Len(s) + 1
         /\ \A i \in 1..(Len(s) + 1) : Append(s, FALSE)[i] = (i % 2 = 1)
    BY <1>6, <1>8, <1>9, ChangeIsAppended
  <1>11. Len(btLog'.switched) = 2 * n /\ \A i \in 1..(2 * n) : btLog'.switched[i] = (i % 2 = 1)
    BY <1>3, <1>7, <1>8, <1>10
  <1>12. ASSUME NEW i \in 1..n PROVE ended[i].until # Held
    <2>1. CASE i = n
      BY <1>1, <1>2, <2>1
    <2>2. CASE i # n
      <3>1. i \in 1..(n - 1)
        BY <1>2, <2>2
      <3> QED BY <1>1, <1>5, <2>2, <3>1
    <2> QED BY <2>1, <2>2
  <1>13. Len(btLog'.switched) = 2 * Len(btLog'.presses) - 0
    BY <1>1, <1>2, <1>3, <1>11
  <1> QED BY <1>1, <1>3, <1>11, <1>12, <1>13 DEF ChangesAreTold

\* the long input a short press, if it was not told,
LEMMA OpenKeepsLongs ==
  ASSUME ButtonWell, ChangesAreTold, LongsAreTold, ContactOpens
  PROVE  LongsAreTold'
  <1> DEFINE n == Len(btLog.presses)
             ended == [btLog.presses EXCEPT ![n].until = btLog.now]
  <1>1. /\ n \in 1..n /\ ended \in Seq(ButtonPress) /\ Len(ended) = n
        /\ Report(FALSE, ended, btLog.repeats)
        /\ bt.contact = TRUE
        /\ ended[n].until = btLog.now /\ ended[n].at = LastPress.at
        /\ \A i \in 1..(n - 1) : ended[i] = btLog.presses[i]
    BY PressEnds
  <1>2. /\ n \in Nat /\ btLog.repeats \in Nat /\ btLog.now \in Nat /\ Held = -1 /\ NotTimed = -1
        /\ Window \in Nat \ {0} /\ bt.lp.left \in Nat \cup {NotTimed}
        /\ btLog.long \in Seq(1..2) /\ Len(btLog.long) \in Nat
        /\ LastPress.at \in Nat
    BY <1>1, LogIsTyped DEF LastPress
  <1> HIDE DEF ended
  <1>3. /\ bt'.contact = FALSE /\ btLog'.presses = ended
        /\ bt'.lp = LongPressChanged(FALSE)
        /\ btLog'.long = IF bt.lp.left # NotTimed THEN Append(btLog.long, 1) ELSE btLog.long
    BY <1>1, <1>2, ReportIs
  <1>4. bt'.lp.left = NotTimed
    BY <1>3, InputsChange
  <1>5. bt.lp.left # 0
    BY <1>1 DEF Report, ButtonDue
  <1>6. \A i \in 1..(n - 1) : i \in 1..Len(btLog.long) /\ btLog.presses[i].until # Held =>
          btLog.long[i] = IF btLog.presses[i].until - btLog.presses[i].at >= Window THEN 2 ELSE 1
    BY DEF LongsAreTold
  <1>7. /\ Len(btLog.long) = n - (IF bt.lp.left = NotTimed THEN 0 ELSE 1)
        /\ IF bt.lp.left = NotTimed
           THEN btLog.now - LastPress.at >= Window /\ btLog.long[n] = 2
           ELSE btLog.now - LastPress.at = Window - bt.lp.left
    BY <1>1 DEF LongsAreTold
  <1> HIDE DEF n
  <1>8. /\ Len(btLog'.long) = n
        /\ \A i \in 1..(n - 1) : i \in 1..Len(btLog.long) /\ btLog'.long[i] = btLog.long[i]
        /\ btLog'.long[n] = IF btLog.now - LastPress.at >= Window THEN 2 ELSE 1
    <2>1. CASE bt.lp.left = NotTimed
      BY <1>2, <1>3, <1>7, <2>1
    <2>2. CASE bt.lp.left # NotTimed
      <3>1. Len(btLog.long) = n - 1 /\ ~(btLog.now - LastPress.at >= Window)
        BY <1>2, <1>5, <1>7, <2>2
      <3>2. PICK s \in Seq(1..2) : s = btLog.long
        BY <1>2
      <3>3. 1 \in 1..2
        OBVIOUS
      <3>4. /\ Len(Append(s, 1)) = Len(s) + 1 /\ Append(s, 1)[Len(s) + 1] = 1
            /\ \A i \in 1..Len(s) : Append(s, 1)[i] = s[i]
        BY <3>3, AppendProperties
      <3>5. Len(s) + 1 = n
        BY <1>2, <3>1, <3>2
      <3> QED BY <1>2, <1>3, <2>2, <3>1, <3>2, <3>4, <3>5
    <2> QED BY <2>1, <2>2
  <1>9. ASSUME NEW i \in 1..n, ended[i].until # Held
        PROVE  btLog'.long[i] = IF ended[i].until - ended[i].at >= Window THEN 2 ELSE 1
    <2>1. CASE i = n
      BY <1>1, <1>8, <2>1
    <2>2. CASE i # n
      <3>1. i \in 1..(n - 1)
        BY <1>2, <2>2
      <3> QED BY <1>1, <1>6, <1>8, <1>9, <3>1
    <2> QED BY <2>1, <2>2
  <1>10. Len(btLog'.long) = Len(btLog'.presses) - 0
    BY <1>1, <1>2, <1>3, <1>8
  <1> QED BY <1>1, <1>3, <1>4, <1>8, <1>9, <1>10 DEF LongsAreTold

\* the triple input nothing.
LEMMA OpenKeepsClicks ==
  ASSUME ButtonWell, ChangesAreTold, ClicksAreTold, ContactOpens
  PROVE  ClicksAreTold'
  <1> DEFINE n == Len(btLog.presses)
             ended == [btLog.presses EXCEPT ![n].until = btLog.now]
  <1>1. /\ ended \in Seq(ButtonPress) /\ Report(FALSE, ended, btLog.repeats)
        /\ GroupsOf(ended) = GroupsOf(btLog.presses)
    BY PressEnds
  <1>2. btLog.repeats \in Nat
    BY LogIsTyped
  <1> HIDE DEF ended
  <1>3. /\ btLog'.presses = ended /\ btLog'.now = btLog.now /\ btLog'.clicks = btLog.clicks
        /\ bt'.tri = TripleChanged(FALSE)
    BY <1>1, <1>2, ReportIs
  <1>4. bt'.tri.left = bt.tri.left /\ bt'.tri.count = bt.tri.count
    BY <1>3, InputsChange
  <1> QED BY <1>1, <1>3, <1>4 DEF ClicksAreTold

\* A pressed contact that is reported again is counted; an open one changes nothing
LEMMA AgainKeepsInv ==
  ASSUME ButtonInv, ReportAgain
  PROVE  ButtonInv'
  <1>0. ButtonWell /\ ChangesAreTold
    BY DEF ButtonInv
  <1>1. PICK repeats \in Nat : repeats = btLog.repeats + (IF bt.contact THEN 1 ELSE 0)
    <2>1. btLog.repeats + (IF bt.contact THEN 1 ELSE 0) \in Nat
      <3>1. btLog.repeats \in Nat
        BY <1>0, LogIsTyped
      <3>2. (IF bt.contact THEN 1 ELSE 0) \in 0..1
        OBVIOUS
      <3> QED BY <3>1, <3>2
    <2> QED BY <2>1
  <1>2. /\ bt.contact \in BOOLEAN /\ btLog.presses \in Seq(ButtonPress) /\ bt.sw = bt.contact
        /\ Report(bt.contact, btLog.presses, repeats) /\ btLog.repeats \in Nat
    BY <1>0, <1>1, LogIsTyped DEF ReportAgain, ChangesAreTold
  <1>3. /\ ButtonWell'
        /\ bt'.contact = bt.contact /\ bt'.sw = bt.sw
        /\ bt'.lp = LongPressChanged(bt.contact) /\ bt'.tri = TripleChanged(bt.contact)
        /\ btLog'.now = btLog.now /\ btLog'.presses = btLog.presses
        /\ btLog'.repeats = repeats
        /\ btLog'.clicks = btLog.clicks /\ btLog'.switched = btLog.switched
        /\ btLog'.long =
             IF ~bt.contact /\ bt.lp.left # NotTimed THEN Append(btLog.long, 1) ELSE btLog.long
    BY <1>0, <1>2, ReportIs
  <1>4. ChangesAreTold'
    BY <1>0, <1>3 DEF ChangesAreTold
  <1>5. ASSUME btLog'.repeats = 0 PROVE LongsAreTold' /\ ClicksAreTold'
    <2>1. bt.contact = FALSE /\ btLog.repeats = 0
      BY <1>1, <1>2, <1>3, <1>5
    <2>2. LongsAreTold /\ ClicksAreTold /\ bt.lp.left = NotTimed
      BY <2>1 DEF ButtonInv, LongsAreTold
    <2>3. /\ bt'.lp.left = bt.lp.left /\ bt'.tri.left = bt.tri.left
          /\ bt'.tri.count = bt.tri.count /\ btLog'.long = btLog.long
      BY <1>0, <1>3, <2>1, <2>2, InputsChange
    <2>4. LastPress' = LastPress
      BY <1>3 DEF LastPress
    <2>5. LongsAreTold'
      BY <1>3, <2>2, <2>3, <2>4 DEF LongsAreTold
    <2>6. ClicksAreTold'
      BY <1>3, <2>2, <2>3 DEF ClicksAreTold
    <2> QED BY <2>5, <2>6
  <1> QED BY <1>3, <1>4, <1>5 DEF ButtonInv

-----------------------------------------------------------------------------
(* The timers                                                              *)
\* What the timers leave of the log and of the inputs
LEMMA LongTimerIs ==
  ASSUME ButtonWell, LongPressTimer
  PROVE  /\ ButtonWell' /\ bt'.lp.left = NotTimed
         /\ bt'.contact = bt.contact /\ bt'.sw = bt.sw /\ bt'.tri = bt.tri
         /\ btLog'.now = btLog.now /\ btLog'.presses = btLog.presses
         /\ btLog'.repeats = btLog.repeats /\ btLog'.clicks = btLog.clicks
         /\ btLog'.switched = btLog.switched /\ btLog'.long = Append(btLog.long, 2)
  <1>1. bt.lp \in LongInput /\ btLog.long \in Seq(1..2)
    BY LogIsTyped
  <1>2. PICK lp \in LongInput : lp = Emit(bt.lp, 2) /\ lp.left = NotTimed
    BY <1>1, EmitIs
  <1>3. PICK long \in Seq(1..2) : long = Append(btLog.long, 2)
    <2>1. 2 \in 1..2
      OBVIOUS
    <2> QED BY <1>1, <2>1, AppendProperties
  <1>4. bt' = [bt EXCEPT !.lp = lp] /\ btLog' = [btLog EXCEPT !.long = long]
    BY <1>2, <1>3 DEF LongPressTimer
  <1>5. /\ bt'.lp = lp /\ bt'.contact = bt.contact /\ bt'.sw = bt.sw /\ bt'.tri = bt.tri
        /\ bt' \in [contact : BOOLEAN, sw : BOOLEAN, lp : LongInput, tri : TripleInput]
    BY <1>4 DEF ButtonWell
  <1>6. /\ btLog'.now = btLog.now /\ btLog'.presses = btLog.presses
        /\ btLog'.repeats = btLog.repeats /\ btLog'.clicks = btLog.clicks
        /\ btLog'.switched = btLog.switched /\ btLog'.long = long
        /\ btLog' \in [now : Nat, repeats : Nat, presses : Seq(ButtonPress),
                       switched : Seq(BOOLEAN), long : Seq(1..2), clicks : Seq(1..3)]
    BY <1>4 DEF ButtonWell
  <1>7. ButtonWell'
    BY <1>5, <1>6 DEF ButtonWell
  <1> QED BY <1>2, <1>3, <1>5, <1>6, <1>7

\* The timer of the long input tells a long press.
LEMMA LongTimerKeepsInv ==
  ASSUME ButtonInv, LongPressTimer
  PROVE  ButtonInv'
  <1>0. ButtonWell /\ ChangesAreTold
    BY DEF ButtonInv
  <1>1. /\ ButtonWell' /\ bt'.lp.left = NotTimed
        /\ bt'.contact = bt.contact /\ bt'.sw = bt.sw /\ bt'.tri = bt.tri
        /\ btLog'.now = btLog.now /\ btLog'.presses = btLog.presses
        /\ btLog'.repeats = btLog.repeats /\ btLog'.clicks = btLog.clicks
        /\ btLog'.switched = btLog.switched /\ btLog'.long = Append(btLog.long, 2)
    BY <1>0, LongTimerIs
  <1>2. ChangesAreTold'
    BY <1>0, <1>1 DEF ChangesAreTold
  <1>3. ASSUME btLog'.repeats = 0 PROVE LongsAreTold' /\ ClicksAreTold'
    <2>1. LongsAreTold /\ ClicksAreTold
      BY <1>1, <1>3 DEF ButtonInv
    <2>2. ClicksAreTold'
      BY <1>1, <2>1 DEF ClicksAreTold
    <2>3. bt.lp.left = 0 /\ NotTimed = -1
      BY <1>0, LogIsTyped DEF LongPressTimer
    <2>4. bt.contact = TRUE
      BY <1>0, <2>1, <2>3, LogIsTyped DEF LongsAreTold
    <2> DEFINE n == Len(btLog.presses)
    <2>5. /\ n \in Nat /\ Window \in Nat \ {0} /\ btLog.long \in Seq(1..2)
          /\ Len(btLog.long) \in Nat /\ btLog.now \in Nat
      BY <1>0, LogIsTyped
    <2>6. Len(btLog.long) = n - 1 /\ btLog.now - LastPress.at = Window - 0
      BY <2>1, <2>3, <2>4 DEF LongsAreTold
    <2>7. n \in 1..n /\ btLog.presses[n].until = Held
      <3>1. n \in 1..n
        BY <1>0, <2>4, <2>5 DEF ChangesAreTold
      <3> QED BY <1>0, <2>4, <3>1 DEF ChangesAreTold
    <2>8. /\ \A i \in 1..(n - 1) : Append(btLog.long, 2)[i] = btLog.long[i]
          /\ Append(btLog.long, 2)[n] = 2 /\ Len(Append(btLog.long, 2)) = n
      <3>1. 2 \in 1..2
        OBVIOUS
      <3>2. PICK s \in Seq(1..2) : s = btLog.long
        BY <2>5
      <3>3. /\ Len(Append(s, 2)) = Len(s) + 1 /\ Append(s, 2)[Len(s) + 1] = 2
            /\ \A i \in 1..Len(s) : Append(s, 2)[i] = s[i]
        BY <3>1, AppendProperties
      <3>4. Len(s) + 1 = n
        BY <2>5, <2>6, <3>2
      <3> HIDE DEF n
      <3> QED BY <2>5, <2>6, <3>2, <3>3, <3>4
    <2>9. \A i \in 1..Len(btLog.long) : btLog.presses[i].until # Held =>
       btLog.long[i] =
         IF btLog.presses[i].until - btLog.presses[i].at >= Window THEN 2 ELSE 1
      BY <2>1 DEF LongsAreTold
    <2>10. LastPress' = LastPress /\ LastPress.at \in Nat
      BY <1>0, <1>1, <2>7, LogIsTyped DEF LastPress
    <2>11. ASSUME NEW i \in 1..n, btLog.presses[i].until # Held
           PROVE  Append(btLog.long, 2)[i] =
                    IF btLog.presses[i].until - btLog.presses[i].at >= Window THEN 2 ELSE 1
      <3>1. i # n
        BY <2>7, <2>11
      <3> HIDE DEF n
      <3>2. i \in 1..(n - 1)
        BY <2>5, <3>1
      <3> QED BY <2>6, <2>8, <2>9, <2>11, <3>2
    <2>12. btLog.now - LastPress.at >= Window
      BY <2>5, <2>6, <2>10
    <2>13. Len(btLog'.long) = Len(btLog'.presses) - 0
      BY <1>1, <2>5, <2>8
    <2>14. LongsAreTold'
      <3>1. ~bt'.contact => bt'.lp.left = NotTimed
        BY <1>1
      <3>2. btLog'.now - LastPress'.at >= Window /\ btLog'.long[Len(btLog'.presses)] = 2
        BY <1>1, <2>8, <2>10, <2>12
      <3>3. \A i \in 1..Len(btLog'.long) : btLog'.presses[i].until # Held =>
              btLog'.long[i] =
                IF btLog'.presses[i].until - btLog'.presses[i].at >= Window THEN 2 ELSE 1
        BY <1>1, <2>8, <2>11
      <3> QED BY <1>1, <2>13, <3>1, <3>2, <3>3 DEF LongsAreTold
    <2> QED BY <2>2, <2>14
  <1> QED BY <1>1, <1>2, <1>3 DEF ButtonInv

\* The timer of the triple input tells the clicks that are counted,
LEMMA TripleTimerIs ==
  ASSUME ButtonWell, TripleTimerDone
  PROVE  LET told == IF bt.tri.count < 3 THEN bt.tri.count ELSE 3
         IN /\ ButtonWell' /\ bt'.tri.left = NotTimed
            /\ bt'.contact = bt.contact /\ bt'.sw = bt.sw /\ bt'.lp = bt.lp
            /\ btLog'.now = btLog.now /\ btLog'.presses = btLog.presses
            /\ btLog'.repeats = btLog.repeats /\ btLog'.long = btLog.long
            /\ btLog'.switched = btLog.switched /\ btLog'.clicks = Append(btLog.clicks, told)
            /\ told \in 1..3
  <1> DEFINE told == IF bt.tri.count < 3 THEN bt.tri.count ELSE 3
  <1>1. bt.tri \in TripleInput /\ btLog.clicks \in Seq(1..3) /\ bt.tri.count \in Nat /\ NotTimed = -1
    BY LogIsTyped
  <1>2. bt.tri.count >= 1
    BY <1>1 DEF TripleTimerDone, ButtonWell
  <1>3. told \in 1..3
    BY <1>1, <1>2
  <1>4. /\ bt' = [bt EXCEPT !.tri = [Emit(@, told) EXCEPT !.count = 0]]
        /\ btLog' = [btLog EXCEPT !.clicks = Append(@, told)]
    BY DEF TripleTimerDone
  <1> HIDE DEF told
  <1>5. PICK tri \in TripleInput : tri = [Emit(bt.tri, told) EXCEPT !.count = 0] /\ tri.left = NotTimed
    <2>1. PICK e \in TripleInput : e = Emit(bt.tri, told) /\ e.left = NotTimed
      <3>1. told \in 0..3
        BY <1>3
      <3> QED BY <1>1, <3>1, EmitIs
    <2>2. [e EXCEPT !.count = 0] \in TripleInput /\ [e EXCEPT !.count = 0].left = NotTimed
      BY <2>1 DEF TripleInput
    <2> QED BY <2>1, <2>2
  <1>6. PICK clicks \in Seq(1..3) : clicks = Append(btLog.clicks, told)
    BY <1>1, <1>3, AppendProperties
  <1>7. bt' = [bt EXCEPT !.tri = tri] /\ btLog' = [btLog EXCEPT !.clicks = clicks]
    BY <1>4, <1>5, <1>6
  <1>8. /\ bt'.tri = tri /\ bt'.contact = bt.contact /\ bt'.sw = bt.sw /\ bt'.lp = bt.lp
        /\ bt' \in [contact : BOOLEAN, sw : BOOLEAN, lp : LongInput, tri : TripleInput]
    BY <1>7 DEF ButtonWell
  <1>9. /\ btLog'.now = btLog.now /\ btLog'.presses = btLog.presses
        /\ btLog'.repeats = btLog.repeats /\ btLog'.clicks = clicks
        /\ btLog'.switched = btLog.switched /\ btLog'.long = btLog.long
        /\ btLog' \in [now : Nat, repeats : Nat, presses : Seq(ButtonPress),
                       switched : Seq(BOOLEAN), long : Seq(1..2), clicks : Seq(1..3)]
    BY <1>7 DEF ButtonWell
  <1>10. ButtonWell'
    BY <1>5, <1>8, <1>9 DEF ButtonWell
  <1> QED BY <1>3, <1>5, <1>6, <1>8, <1>9, <1>10 DEF told

\* and no click is counted any more.
LEMMA TripleTimerKeepsInv ==
  ASSUME ButtonInv, TripleTimerDone
  PROVE  ButtonInv'
  <1> DEFINE told == IF bt.tri.count < 3 THEN bt.tri.count ELSE 3
  <1>0. ButtonWell /\ ChangesAreTold
    BY DEF ButtonInv
  <1>1. /\ ButtonWell' /\ bt'.tri.left = NotTimed
        /\ bt'.contact = bt.contact /\ bt'.sw = bt.sw /\ bt'.lp = bt.lp
        /\ btLog'.now = btLog.now /\ btLog'.presses = btLog.presses
        /\ btLog'.repeats = btLog.repeats /\ btLog'.long = btLog.long
        /\ btLog'.switched = btLog.switched /\ btLog'.clicks = Append(btLog.clicks, told)
        /\ told \in 1..3
    BY <1>0, TripleTimerIs
  <1>2. ChangesAreTold'
    BY <1>0, <1>1 DEF ChangesAreTold
  <1>3. ASSUME btLog'.repeats = 0 PROVE LongsAreTold' /\ ClicksAreTold'
    <2>1. LongsAreTold /\ ClicksAreTold
      BY <1>1, <1>3 DEF ButtonInv
    <2>2. LastPress' = LastPress
      BY <1>1 DEF LastPress
    <2>3. LongsAreTold'
      BY <1>1, <2>1, <2>2 DEF LongsAreTold
    <2>4. PICK groups \in Seq(ClickGroup) : groups = GroupsOf(btLog.presses)
      BY <1>0, LogIsTyped
    <2>5. PICK m \in Nat : m = Len(groups)
      BY <2>4
    <2>6. bt.tri.left = 0 /\ bt.tri.left # NotTimed
      BY <1>0, LogIsTyped DEF TripleTimerDone
    <2>7. /\ Len(btLog.clicks) = m - 1
          /\ m > 0 /\ btLog.now - groups[m].from = Window - 0
          /\ groups[m].n = told
          /\ \A i \in 1..Len(btLog.clicks) :
               btLog.clicks[i] = groups[i].n /\ btLog.now - groups[i].from >= Window
      BY <2>1, <2>4, <2>5, <2>6 DEF ClicksAreTold
    <2>8. groups[m].from \in Nat /\ btLog.now \in Nat /\ Window \in Nat \ {0} /\ m \in 1..m
          /\ btLog.clicks \in Seq(1..3)
      <3>1. m \in 1..m
        BY <2>7
      <3>2. groups[m].from \in Nat
        BY <1>0, <2>4, <2>5, <3>1, LogIsTyped
      <3> QED BY <1>0, <3>1, <3>2, LogIsTyped
    <2> HIDE DEF told
    <2>9. PICK s \in Seq(1..3) : s = btLog.clicks
      BY <2>8
    <2>10. /\ Len(Append(s, told)) = m /\ Append(s, told)[m] = told
           /\ \A i \in 1..(m - 1) : Append(s, told)[i] = s[i]
      <3>1. Len(s) = m - 1 /\ Len(s) + 1 = m
        BY <2>7, <2>8, <2>9
      <3>2. told \in 1..3
        BY <1>1
      <3>3. /\ Len(Append(s, told)) = Len(s) + 1 /\ Append(s, told)[Len(s) + 1] = told
            /\ \A i \in 1..Len(s) : Append(s, told)[i] = s[i]
        BY <3>2, AppendProperties
      <3> QED BY <3>1, <3>3
    <2>11. ASSUME NEW i \in 1..m
           PROVE  Append(s, told)[i] = groups[i].n /\ btLog.now - groups[i].from >= Window
      <3>1. CASE i = m
        BY <2>7, <2>8, <2>10, <3>1
      <3>2. CASE i # m
        <4>1. i \in 1..(m - 1)
          BY <3>2
        <4> QED BY <2>7, <2>9, <2>10, <4>1
      <3> QED BY <3>1, <3>2
    <2>12. Len(btLog'.clicks) = m - 0
      BY <1>1, <2>9, <2>10
    <2>13. GroupsOf(btLog'.presses) = groups
      BY <1>1, <2>4
    <2>14. \A i \in 1..Len(btLog'.clicks) :
             btLog'.clicks[i] = groups[i].n /\ btLog'.now - groups[i].from >= Window
      BY <1>1, <2>9, <2>10, <2>11
    <2>15. ClicksAreTold'
      BY <1>1, <2>5, <2>12, <2>13, <2>14 DEF ClicksAreTold
    <2> QED BY <2>3, <2>15
  <1> QED BY <1>1, <1>2, <1>3 DEF ButtonInv

\* An input goes back to 0.
LEMMA ResetKeepsInv ==
  ASSUME ButtonInv, ResetInput
  PROVE  ButtonInv'
  <1> DEFINE Over(input) ==
           IF 0 \in input.resets
           THEN [input EXCEPT !.value = 0, !.resets = @ \ {0}] ELSE input
  <1>0. ButtonWell /\ ChangesAreTold /\ bt.lp \in LongInput /\ bt.tri \in TripleInput
    BY LogIsTyped DEF ButtonInv
  <1>1. PICK lp \in LongInput : lp = Over(bt.lp) /\ lp.left = bt.lp.left
    <2>1. CASE 0 \in bt.lp.resets
      <3>1. PICK resets \in SUBSET Nat : resets = bt.lp.resets \ {0}
        BY <1>0 DEF LongInput
      <3>2. /\ [bt.lp EXCEPT !.value = 0, !.resets = resets] \in LongInput
            /\ [bt.lp EXCEPT !.value = 0, !.resets = resets].left = bt.lp.left
        <4>1. 0 \in 0..2
          OBVIOUS
        <4> HIDE DEF Over
        <4> QED BY <1>0, <4>1 DEF LongInput
      <3>3. Over(bt.lp) = [bt.lp EXCEPT !.value = 0, !.resets = resets]
        BY <2>1, <3>1
      <3> QED BY <3>2, <3>3
    <2>2. CASE 0 \notin bt.lp.resets
      BY <1>0, <2>2
    <2> QED BY <2>1, <2>2
  <1>2. PICK tri \in TripleInput :
          tri = Over(bt.tri) /\ tri.left = bt.tri.left /\ tri.count = bt.tri.count
    <2>1. CASE 0 \in bt.tri.resets
      <3>1. PICK resets \in SUBSET Nat : resets = bt.tri.resets \ {0}
        BY <1>0 DEF TripleInput
      <3>2. /\ [bt.tri EXCEPT !.value = 0, !.resets = resets] \in TripleInput
            /\ [bt.tri EXCEPT !.value = 0, !.resets = resets].left = bt.tri.left
            /\ [bt.tri EXCEPT !.value = 0, !.resets = resets].count = bt.tri.count
        <4>1. 0 \in 0..3
          OBVIOUS
        <4> HIDE DEF Over
        <4> QED BY <1>0, <4>1 DEF TripleInput
      <3>3. Over(bt.tri) = [bt.tri EXCEPT !.value = 0, !.resets = resets]
        BY <2>1, <3>1
      <3> QED BY <3>2, <3>3
    <2>2. CASE 0 \notin bt.tri.resets
      BY <1>0, <2>2
    <2> QED BY <2>1, <2>2
  <1>3. bt' = [bt EXCEPT !.lp = Over(@), !.tri = Over(@)] /\ btLog' = btLog
    BY DEF ResetInput
  <1>4. bt' = [bt EXCEPT !.lp = lp, !.tri = tri]
    BY <1>1, <1>2, <1>3
  <1>5. /\ bt' \in [contact : BOOLEAN, sw : BOOLEAN, lp : LongInput, tri : TripleInput]
        /\ bt'.contact = bt.contact /\ bt'.sw = bt.sw /\ bt'.lp = lp /\ bt'.tri = tri
    BY <1>0, <1>4 DEF ButtonWell
  <1>6. ButtonWell'
    BY <1>0, <1>2, <1>3, <1>5 DEF ButtonWell
  <1>7. ChangesAreTold'
    BY <1>0, <1>3, <1>5 DEF ChangesAreTold
  <1>8. ASSUME btLog'.repeats = 0 PROVE LongsAreTold' /\ ClicksAreTold'
    <2>1. LongsAreTold /\ ClicksAreTold
      BY <1>3, <1>8 DEF ButtonInv
    <2>2. LastPress' = LastPress
      BY <1>3 DEF LastPress
    <2>3. LongsAreTold'
      <3>1. /\ bt'.contact = bt.contact /\ bt'.lp.left = bt.lp.left
            /\ btLog' = btLog /\ LastPress' = LastPress
        BY <1>1, <1>3, <1>5, <2>2
      <3> HIDE DEF Over, LastPress
      <3> QED BY <2>1, <3>1 DEF LongsAreTold
    <2>4. ClicksAreTold'
      BY <1>2, <1>3, <1>5, <2>1 DEF ClicksAreTold
    <2> QED BY <2>3, <2>4
  <1> QED BY <1>6, <1>7, <1>8 DEF ButtonInv

\* What a tick leaves of the inputs: their timers go on, and none was due
LEMMA TickIs ==
  ASSUME ButtonWell, ButtonTick
  PROVE  /\ ButtonWell'
         /\ bt'.contact = bt.contact /\ bt'.sw = bt.sw /\ bt'.tri.count = bt.tri.count
         /\ bt'.lp.left = (IF bt.lp.left = NotTimed THEN NotTimed ELSE bt.lp.left - 1)
         /\ bt'.tri.left = (IF bt.tri.left = NotTimed THEN NotTimed ELSE bt.tri.left - 1)
         /\ bt.lp.left # 0 /\ bt.tri.left # 0
         /\ btLog'.now = btLog.now + 1 /\ btLog'.presses = btLog.presses
         /\ btLog'.repeats = btLog.repeats /\ btLog'.long = btLog.long
         /\ btLog'.switched = btLog.switched /\ btLog'.clicks = btLog.clicks
  <1> DEFINE Less(n) == IF n = NotTimed THEN n ELSE n - 1
             Older(input) == [input EXCEPT !.left = Less(@), !.resets = {n - 1 : n \in @}]
  <1>0. /\ bt.lp \in LongInput /\ bt.tri \in TripleInput /\ btLog.now \in Nat /\ NotTimed = -1
        /\ bt.lp.left \in Nat \cup {NotTimed} /\ bt.tri.left \in Nat \cup {NotTimed}
    BY LogIsTyped
  <1>1. /\ bt.lp.left # 0 /\ bt.tri.left # 0
        /\ 0 \notin bt.lp.resets /\ 0 \notin bt.tri.resets
    BY DEF ButtonTick, ButtonDue
  <1>2. /\ Less(bt.lp.left) \in Nat \cup {NotTimed}
        /\ Less(bt.tri.left) \in Nat \cup {NotTimed}
        /\ bt.tri.left = NotTimed => Less(bt.tri.left) = NotTimed
    BY <1>0, <1>1
  <1>3. /\ {n - 1 : n \in bt.lp.resets} \in SUBSET Nat
        /\ {n - 1 : n \in bt.tri.resets} \in SUBSET Nat
    <2>1. bt.lp.resets \in SUBSET Nat /\ bt.tri.resets \in SUBSET Nat
      BY <1>0 DEF LongInput, TripleInput
    <2> QED BY <1>1, <2>1
  <1>4. bt' = [bt EXCEPT !.lp = Older(@), !.tri = Older(@)]
        /\ btLog' = [btLog EXCEPT !.now = @ + 1]
    BY DEF ButtonTick
  <1>5. PICK lp \in LongInput : lp = Older(bt.lp) /\ lp.left = Less(bt.lp.left)
    <2>1. Older(bt.lp) = [bt.lp EXCEPT !.left = Less(bt.lp.left), !.resets = {n - 1 : n \in bt.lp.resets}]
      OBVIOUS
    <2>2. PICK left \in Nat \cup {NotTimed}, resets \in SUBSET Nat :
            left = Less(bt.lp.left) /\ resets = {n - 1 : n \in bt.lp.resets}
      BY <1>2, <1>3
    <2> HIDE DEF Less
    <2>3. /\ [bt.lp EXCEPT !.left = left, !.resets = resets] \in LongInput
          /\ [bt.lp EXCEPT !.left = left, !.resets = resets].left = left
      BY <1>0 DEF LongInput
    <2> QED BY <2>1, <2>2, <2>3
  <1>6. PICK tri \in TripleInput :
          tri = Older(bt.tri) /\ tri.left = Less(bt.tri.left) /\ tri.count = bt.tri.count
    <2>1. Older(bt.tri) = [bt.tri EXCEPT !.left = Less(bt.tri.left), !.resets = {n - 1 : n \in bt.tri.resets}]
      OBVIOUS
    <2>2. PICK left \in Nat \cup {NotTimed}, resets \in SUBSET Nat :
            left = Less(bt.tri.left) /\ resets = {n - 1 : n \in bt.tri.resets}
      BY <1>2, <1>3
    <2> HIDE DEF Less
    <2>3. /\ [bt.tri EXCEPT !.left = left, !.resets = resets] \in TripleInput
          /\ [bt.tri EXCEPT !.left = left, !.resets = resets].left = left
          /\ [bt.tri EXCEPT !.left = left, !.resets = resets].count = bt.tri.count
      BY <1>0 DEF TripleInput
    <2> QED BY <2>1, <2>2, <2>3
  <1>7. bt' = [bt EXCEPT !.lp = lp, !.tri = tri]
    <2> HIDE DEF Older
    <2> QED BY <1>4, <1>5, <1>6
  <1>8. /\ bt' \in [contact : BOOLEAN, sw : BOOLEAN, lp : LongInput, tri : TripleInput]
        /\ bt'.contact = bt.contact /\ bt'.sw = bt.sw /\ bt'.lp = lp /\ bt'.tri = tri
    BY <1>7 DEF ButtonWell
  <1>9. /\ btLog'.now = btLog.now + 1 /\ btLog'.presses = btLog.presses
        /\ btLog'.repeats = btLog.repeats /\ btLog'.clicks = btLog.clicks
        /\ btLog'.switched = btLog.switched /\ btLog'.long = btLog.long
        /\ btLog' \in [now : Nat, repeats : Nat, presses : Seq(ButtonPress),
                       switched : Seq(BOOLEAN), long : Seq(1..2), clicks : Seq(1..3)]
    <2>1. PICK now \in Nat : now = btLog.now + 1
      BY <1>0
    <2>2. btLog' = [btLog EXCEPT !.now = now]
      BY <1>4, <2>1
    <2> QED BY <2>1, <2>2 DEF ButtonWell
  <1>10. tri.left # NotTimed => tri.count >= 1
    <2>1. tri.left # NotTimed => bt.tri.left # NotTimed
      BY <1>2, <1>6
    <2> QED BY <1>6, <2>1 DEF ButtonWell
  <1>11. ButtonWell'
    BY <1>8, <1>9, <1>10 DEF ButtonWell
  <1> QED BY <1>1, <1>5, <1>6, <1>8, <1>9, <1>11

\* Time passes: no timer that is due is passed.
LEMMA TickKeepsInv ==
  ASSUME ButtonInv, ButtonTick
  PROVE  ButtonInv'
  <1>0. ButtonWell /\ ChangesAreTold
    BY DEF ButtonInv
  <1>1. /\ ButtonWell'
        /\ bt'.contact = bt.contact /\ bt'.sw = bt.sw /\ bt'.tri.count = bt.tri.count
        /\ bt'.lp.left = (IF bt.lp.left = NotTimed THEN NotTimed ELSE bt.lp.left - 1)
        /\ bt'.tri.left = (IF bt.tri.left = NotTimed THEN NotTimed ELSE bt.tri.left - 1)
        /\ bt.lp.left # 0 /\ bt.tri.left # 0
        /\ btLog'.now = btLog.now + 1 /\ btLog'.presses = btLog.presses
        /\ btLog'.repeats = btLog.repeats /\ btLog'.long = btLog.long
        /\ btLog'.switched = btLog.switched /\ btLog'.clicks = btLog.clicks
    BY <1>0, TickIs
  <1>2. ChangesAreTold'
    BY <1>0, <1>1 DEF ChangesAreTold
  <1>4. btLog'.now = btLog.now + 1 /\ btLog'.clicks = btLog.clicks
    BY <1>1
  <1>3. ASSUME btLog'.repeats = 0 PROVE LongsAreTold' /\ ClicksAreTold'
    <2>1. LongsAreTold /\ ClicksAreTold
      BY <1>1, <1>3 DEF ButtonInv
    <2>2. LastPress' = LastPress
      BY <1>1 DEF LastPress
    <2>3. /\ btLog.now \in Nat /\ NotTimed = -1 /\ Window \in Nat \ {0}
          /\ bt.lp.left \in Nat \cup {NotTimed} /\ bt.tri.left \in Nat \cup {NotTimed}
      BY <1>0, LogIsTyped
    <2>4. bt.contact => LastPress.at \in Nat
      <3>1. bt.contact => Len(btLog.presses) \in 1..Len(btLog.presses)
        BY <1>0, LogIsTyped DEF ChangesAreTold
      <3> QED BY <1>0, <3>1, LogIsTyped DEF LastPress
    <2>5. bt'.lp.left = NotTimed <=> bt.lp.left = NotTimed
      BY <1>1, <2>3
    <2>6. bt'.tri.left = NotTimed <=> bt.tri.left = NotTimed
      BY <1>1, <2>3
    <2>7. bt.contact =>
            IF bt.lp.left = NotTimed
            THEN (btLog.now + 1) - LastPress.at >= Window
            ELSE (btLog.now + 1) - LastPress.at = Window - (bt.lp.left - 1)
      <3>1. bt.contact => IF bt.lp.left = NotTimed
                          THEN btLog.now - LastPress.at >= Window
                          ELSE btLog.now - LastPress.at = Window - bt.lp.left
        BY <2>1 DEF LongsAreTold
      <3> QED BY <2>3, <2>4, <3>1
    <2>8. LongsAreTold'
      <3>1. ~bt'.contact => bt'.lp.left = NotTimed
        BY <1>1, <2>1, <2>5 DEF LongsAreTold
      <3>2. Len(btLog'.long) = Len(btLog'.presses) - (IF bt'.lp.left = NotTimed THEN 0 ELSE 1)
        BY <1>1, <2>1, <2>5 DEF LongsAreTold
      <3>3. bt'.contact =>
              IF bt'.lp.left = NotTimed
              THEN /\ btLog'.now - LastPress'.at >= Window
                   /\ btLog'.long[Len(btLog'.presses)] = 2
              ELSE btLog'.now - LastPress'.at = Window - bt'.lp.left
        <4>1. CASE bt.lp.left = NotTimed
          <5>1. bt.contact => btLog.long[Len(btLog.presses)] = 2
            BY <2>1, <4>1 DEF LongsAreTold
          <5>2. /\ bt'.contact = bt.contact /\ btLog'.long = btLog.long
                /\ btLog'.presses = btLog.presses
            BY <1>1
          <5>3. bt.contact => (btLog.now + 1) - LastPress.at >= Window
            BY <2>7, <4>1
          <5>4. bt.contact => btLog'.now - LastPress'.at >= Window
            BY <1>4, <2>2, <5>3
          <5> QED BY <2>5, <4>1, <5>1, <5>2, <5>4
        <4>2. CASE bt.lp.left # NotTimed
          <5>1. bt'.lp.left = bt.lp.left - 1 /\ bt'.lp.left # NotTimed
            BY <1>1, <2>5, <4>2
          <5>2. bt'.contact = bt.contact
            BY <1>1
          <5>3. bt.contact => (btLog.now + 1) - LastPress.at = Window - (bt.lp.left - 1)
            BY <2>7, <4>2
          <5>4. bt.contact => btLog'.now - LastPress'.at = Window - bt'.lp.left
            BY <1>4, <2>2, <5>1, <5>3
          <5> QED BY <5>1, <5>2, <5>4
        <4> QED BY <4>1, <4>2
      <3>4. \A i \in 1..Len(btLog'.long) : btLog'.presses[i].until # Held =>
              btLog'.long[i] =
                IF btLog'.presses[i].until - btLog'.presses[i].at >= Window THEN 2 ELSE 1
        BY <1>1, <2>1 DEF LongsAreTold
      <3> QED BY <3>1, <3>2, <3>3, <3>4 DEF LongsAreTold
    <2>9. PICK groups \in Seq(ClickGroup) : groups = GroupsOf(btLog.presses)
      BY <1>0, LogIsTyped
    <2>10. PICK m \in Nat : m = Len(groups)
      BY <2>9
    <2>11. /\ Len(btLog.clicks) = m - (IF bt.tri.left = NotTimed THEN 0 ELSE 1)
           /\ bt.tri.left # NotTimed =>
                /\ m > 0 /\ btLog.now - groups[m].from = Window - bt.tri.left
                /\ groups[m].n = IF bt.tri.count < 3 THEN bt.tri.count ELSE 3
           /\ \A i \in 1..Len(btLog.clicks) :
                btLog.clicks[i] = groups[i].n /\ btLog.now - groups[i].from >= Window
      BY <2>1, <2>9, <2>10 DEF ClicksAreTold
    <2>12. \A i \in 1..m : groups[i].from \in Nat
      BY <1>0, <2>9, <2>10, LogIsTyped
    <2>13. bt.tri.left # NotTimed => (btLog.now + 1) - groups[m].from = Window - (bt.tri.left - 1)
      <3>1. SUFFICES ASSUME bt.tri.left # NotTimed
                     PROVE  (btLog.now + 1) - groups[m].from = Window - (bt.tri.left - 1)
        OBVIOUS
      <3>2. m \in 1..m /\ btLog.now - groups[m].from = Window - bt.tri.left
        BY <2>10, <2>11, <3>1
      <3>3. groups[m].from \in Nat /\ bt.tri.left \in Nat
        BY <2>3, <2>12, <3>1, <3>2
      <3>4. PICK f \in Nat, l \in Nat : f = groups[m].from /\ l = bt.tri.left
        BY <3>3
      <3>5. PICK n \in Nat, w \in Nat : n = btLog.now /\ w = Window
        BY <2>3
      <3>6. n - f = w - l
        BY <3>2, <3>4, <3>5
      <3>7. (n + 1) - f = w - (l - 1)
        BY <3>6
      <3> QED BY <3>4, <3>5, <3>7
    <2>14. \A i \in 1..Len(btLog.clicks) :
             btLog.clicks[i] = groups[i].n /\ (btLog.now + 1) - groups[i].from >= Window
      <3>1. ASSUME NEW i \in 1..Len(btLog.clicks)
            PROVE  btLog.clicks[i] = groups[i].n /\ (btLog.now + 1) - groups[i].from >= Window
        <4>1. i \in 1..m
          BY <2>11
        <4>2. btLog.now - groups[i].from >= Window
          BY <2>11
        <4> QED BY <2>3, <2>11, <2>12, <4>1, <4>2
      <3> QED BY <3>1
    <2>15. GroupsOf(btLog'.presses) = groups
      BY <1>1, <2>9
    <2>16. ClicksAreTold'
      <3>1. Len(btLog'.clicks) = m - (IF bt'.tri.left = NotTimed THEN 0 ELSE 1)
        BY <1>1, <2>6, <2>11
      <3>2. bt'.tri.left # NotTimed =>
              /\ m > 0 /\ btLog'.now - groups[m].from = Window - bt'.tri.left
              /\ groups[m].n = IF bt'.tri.count < 3 THEN bt'.tri.count ELSE 3
        <4>1. SUFFICES ASSUME bt'.tri.left # NotTimed
                       PROVE  /\ m > 0 /\ btLog'.now - groups[m].from = Window - bt'.tri.left
                              /\ groups[m].n = IF bt'.tri.count < 3 THEN bt'.tri.count ELSE 3
          OBVIOUS
        <4>2. bt.tri.left # NotTimed /\ bt'.tri.left = bt.tri.left - 1
          BY <1>1, <2>6, <4>1
        <4>3. btLog'.now - groups[m].from = Window - bt'.tri.left
          BY <1>4, <2>13, <4>2
        <4>4. bt'.tri.count = bt.tri.count
          BY <1>1
        <4> QED BY <2>11, <4>2, <4>3, <4>4
      <3>3. \A i \in 1..Len(btLog'.clicks) :
              btLog'.clicks[i] = groups[i].n /\ btLog'.now - groups[i].from >= Window
        BY <1>4, <2>14
      <3> QED BY <2>10, <2>15, <3>1, <3>2, <3>3 DEF ClicksAreTold
    <2> QED BY <2>8, <2>16
  <1> QED BY <1>1, <1>2, <1>3 DEF ButtonInv

\* A button starts with nothing told.
LEMMA ButtonStarts == ButtonInit => ButtonInv
  <1> SUFFICES ASSUME ButtonInit PROVE ButtonInv
    OBVIOUS
  <1>1. /\ bt \in [contact : BOOLEAN, sw : BOOLEAN, lp : LongInput, tri : TripleInput]
        /\ bt.contact = FALSE /\ bt.sw = FALSE /\ bt.lp.left = NotTimed /\ bt.tri.left = NotTimed
    BY DEF ButtonInit, LongInput, TripleInput
  <1>2. /\ btLog.now = 0 /\ btLog.repeats = 0 /\ btLog.presses = <<>> /\ btLog.switched = <<>>
        /\ btLog.long = <<>> /\ btLog.clicks = <<>>
        /\ btLog \in [now : Nat, repeats : Nat, presses : Seq(ButtonPress),
                      switched : Seq(BOOLEAN), long : Seq(1..2), clicks : Seq(1..3)]
    BY DEF ButtonInit
  <1>3. GroupsOf(btLog.presses) = <<>>
    <2>1. btLog.presses \in Seq(ButtonPress)
      BY <1>2
    <2> QED BY <1>2, <2>1, GroupsAre
  <1>4. ButtonWell
    BY <1>1, <1>2 DEF ButtonWell
  <1>5. ChangesAreTold
    BY <1>1, <1>2 DEF ChangesAreTold
  <1>6. LongsAreTold
    BY <1>1, <1>2 DEF LongsAreTold
  <1>7. ClicksAreTold
    BY <1>1, <1>2, <1>3 DEF ClicksAreTold
  <1> QED BY <1>4, <1>5, <1>6, <1>7 DEF ButtonInv

\* A step of a button.
LEMMA ButtonKeeps ==
  ButtonInv /\ [ButtonNext]_btVars => ButtonInv'
  <1> SUFFICES ASSUME ButtonInv, [ButtonNext]_btVars PROVE ButtonInv'
    OBVIOUS
  <1>0. ButtonWell /\ ChangesAreTold
    BY DEF ButtonInv
  <1>1. CASE ContactCloses
    <2>1. btLog'.repeats = btLog.repeats
      BY <1>0, <1>1 DEF ContactCloses, Report, ButtonWell
    <2> QED BY <1>0, <1>1, <2>1, CloseKeepsChanges, CloseKeepsLongs, CloseKeepsClicks DEF ButtonInv
  <1>2. CASE ContactOpens
    <2>1. btLog'.repeats = btLog.repeats
      BY <1>0, <1>2 DEF ContactOpens, Report, ButtonWell
    <2> QED BY <1>0, <1>2, <2>1, OpenKeepsChanges, OpenKeepsLongs, OpenKeepsClicks DEF ButtonInv
  <1>3. CASE UNCHANGED btVars
    <2>1. bt' = bt /\ btLog' = btLog
      BY <1>3 DEF btVars
    <2>2. ButtonWell' /\ ChangesAreTold'
      BY <1>0, <2>1 DEF ButtonWell, ChangesAreTold
    <2>3. btLog'.repeats = 0 => LongsAreTold' /\ ClicksAreTold'
      BY <2>1 DEF ButtonInv, LongsAreTold, ClicksAreTold, LastPress
    <2> QED BY <2>2, <2>3 DEF ButtonInv
  <1> QED BY <1>1, <1>2, <1>3, AgainKeepsInv, LongTimerKeepsInv, TripleTimerKeepsInv,
             ResetKeepsInv, TickKeepsInv DEF ButtonNext, ButtonCallback

\* What a button keeps is typed.
LEMMA ButtonTypes == ButtonInv => ButtonTypeOK
  <1> SUFFICES ASSUME ButtonInv PROVE ButtonTypeOK
    OBVIOUS
  <1>1. /\ bt.contact \in BOOLEAN /\ bt.sw \in BOOLEAN /\ bt.lp \in LongInput
        /\ bt.tri \in TripleInput
    BY DEF ButtonInv, ButtonWell
  <1>2. /\ btLog.now \in Nat /\ btLog.repeats \in Nat
        /\ btLog.switched \in Seq(BOOLEAN)
        /\ btLog.long \in Seq(1..2) /\ btLog.clicks \in Seq(1..3)
        /\ btLog.presses \in Seq(ButtonPress)
    BY DEF ButtonInv, ButtonWell
  <1>3. \A i \in DOMAIN btLog.presses :
          btLog.presses[i] \in [at : Nat, until : Nat \cup {Held}]
    <2>1. \A i \in DOMAIN btLog.presses : btLog.presses[i] \in ButtonPress
      BY <1>2
    <2> QED BY <2>1 DEF ButtonPress
  <1> QED BY <1>1, <1>2, <1>3 DEF ButtonTypeOK, LongInput, TripleInput

-----------------------------------------------------------------------------
(* What is told                                                            *)
\* Every press and release was told by the classic input.
LEMMA ChangesAreAll ==
  ASSUME ButtonInv
  PROVE  /\ btLog.switched = [i \in DOMAIN btLog.switched |-> i % 2 = 1]
         /\ Len(btLog.switched) = 2 * Len(btLog.presses) - (IF bt.contact THEN 1 ELSE 0)
  <1>1. ButtonWell /\ ChangesAreTold
    BY DEF ButtonInv
  <1>2. PICK s \in Seq(BOOLEAN) : s = btLog.switched
    BY <1>1, LogIsTyped
  <1>3. DOMAIN s = 1..Len(s) /\ \A i \in 1..Len(s) : s[i] = (i % 2 = 1)
    <2>1. DOMAIN s = 1..Len(s)
      OBVIOUS
    <2>2. \A i \in 1..Len(s) : s[i] = (i % 2 = 1)
      BY <1>1, <1>2 DEF ChangesAreTold
    <2> QED BY <2>1, <2>2
  <1>4. s = [i \in DOMAIN s |-> s[i]]
    OBVIOUS
  <1>5. s = [i \in DOMAIN s |-> i % 2 = 1]
    BY <1>3, <1>4
  <1> QED BY <1>1, <1>2, <1>5 DEF ChangesAreTold

\* Every group of clicks whose window is over was told.
LEMMA ClicksAreAll ==
  ASSUME ButtonInv, ~ButtonDue, btLog.repeats = 0
  PROVE  btLog.clicks = Clicks
  <1>1. ButtonWell /\ ClicksAreTold
    BY DEF ButtonInv
  <1>2. PICK groups \in Seq(ClickGroup) : groups = GroupsOf(btLog.presses)
    BY <1>1, LogIsTyped
  <1>3. PICK m \in Nat : m = Len(groups) /\ DOMAIN groups = 1..m
    BY <1>2
  <1>4. PICK out \in Seq(1..3) : out = btLog.clicks
    BY <1>1, LogIsTyped
  <1>5. /\ Len(out) = m - (IF bt.tri.left = NotTimed THEN 0 ELSE 1)
        /\ bt.tri.left # NotTimed => m > 0 /\ btLog.now - groups[m].from = Window - bt.tri.left
        /\ \A i \in 1..Len(out) : out[i] = groups[i].n /\ btLog.now - groups[i].from >= Window
    BY <1>1, <1>2, <1>3, <1>4 DEF ClicksAreTold
  <1>6. /\ \A i \in 1..m : groups[i].from \in Nat
        /\ btLog.now \in Nat /\ Window \in Nat \ {0} /\ NotTimed = -1
        /\ bt.tri.left \in Nat \cup {NotTimed}
    BY <1>1, <1>2, <1>3, LogIsTyped
  <1>7. bt.tri.left # 0
    BY DEF ButtonDue
  <1>8. Len(out) <= m /\ Len(out) \in Nat
    BY <1>3, <1>5
  <1> DEFINE seqs == [i \in DOMAIN groups |->
                   IF btLog.now - groups[i].from >= Window THEN <<groups[i].n>> ELSE <<>>]
  <1>9. ASSUME NEW i \in 1..m
        PROVE  (IF btLog.now - groups[i].from >= Window THEN <<groups[i].n>> ELSE <<>>)
               = (IF i <= Len(out) THEN <<out[i]>> ELSE <<>>)
    <2>1. CASE i <= Len(out)
      <3>1. i \in 1..Len(out)
        BY <1>8, <2>1
      <3> QED BY <1>5, <2>1, <3>1
    <2>2. CASE ~(i <= Len(out))
      <3>1. bt.tri.left # NotTimed /\ i = m
        BY <1>3, <1>5, <2>2
      <3>2. btLog.now - groups[m].from = Window - bt.tri.left /\ bt.tri.left > 0
        BY <1>5, <1>6, <1>7, <3>1
      <3>3. ~(btLog.now - groups[i].from >= Window)
        BY <1>6, <3>1, <3>2
      <3> QED BY <2>2, <3>3
    <2> QED BY <2>1, <2>2
  <1>10. DOMAIN seqs = 1..m
    BY <1>3
  <1>11. seqs = [i \in 1..m |-> IF i <= Len(out) THEN <<out[i]>> ELSE <<>>]
    BY <1>3, <1>9
  <1>12. Clicks = FlattenSeq(seqs)
    BY <1>2 DEF Clicks, GroupsOf
  <1> HIDE DEF seqs
  <1>13. Len(seqs) = m
    BY <1>3, <1>10
  <1>14. FlattenSeq(seqs) = out
    BY <1>3, <1>8, <1>10, <1>11, <1>13, FlattenOnes
  <1> QED BY <1>4, <1>12, <1>14

\* Every press was told as a short or a long one.
LEMMA LongsAreAll ==
  ASSUME ButtonInv, ~ButtonDue, btLog.repeats = 0
  PROVE  btLog.long = Longs
  <1>1. ButtonWell /\ ChangesAreTold /\ LongsAreTold
    BY DEF ButtonInv
  <1>2. PICK ps \in Seq(ButtonPress) : ps = btLog.presses
    BY <1>1, LogIsTyped
  <1>3. PICK n \in Nat : n = Len(ps) /\ DOMAIN ps = 1..n
    BY <1>2
  <1>4. PICK out \in Seq(1..2) : out = btLog.long
    BY <1>1, LogIsTyped
  <1>5. /\ btLog.now \in Nat /\ Window \in Nat \ {0} /\ NotTimed = -1 /\ Held = -1
        /\ bt.lp.left \in Nat \cup {NotTimed}
        /\ \A i \in 1..n : ps[i].at \in Nat /\ ps[i].until \in Nat \cup {Held}
    BY <1>1, <1>2, <1>3, LogIsTyped
  <1>6. bt.lp.left # 0
    BY DEF ButtonDue
  <1>7. /\ bt.lp.left # NotTimed => bt.contact
        /\ Len(out) = n - (IF bt.lp.left = NotTimed THEN 0 ELSE 1)
        /\ bt.contact =>
             IF bt.lp.left = NotTimed
             THEN btLog.now - ps[n].at >= Window /\ out[n] = 2
             ELSE btLog.now - ps[n].at = Window - bt.lp.left
        /\ \A i \in 1..Len(out) : ps[i].until # Held =>
             out[i] = IF ps[i].until - ps[i].at >= Window THEN 2 ELSE 1
    BY <1>1, <1>2, <1>3, <1>4 DEF LongsAreTold, LastPress
  <1>8. \A i \in 1..n : ps[i].until = Held <=> bt.contact /\ i = n
    BY <1>1, <1>2, <1>3 DEF ChangesAreTold
  <1>9. bt.contact => n > 0
    BY <1>1, <1>2, <1>3 DEF ChangesAreTold
  <1>10. Len(out) \in Nat /\ Len(out) <= n
    <2>1. bt.lp.left # NotTimed => n > 0
      BY <1>7, <1>9
    <2> QED BY <1>3, <1>7, <2>1
  <1> DEFINE seqs == [i \in DOMAIN ps |-> LongOf(ps[i])]
  <1>11. ASSUME NEW i \in 1..n
         PROVE  LongOf(ps[i]) = IF i <= Len(out) THEN <<out[i]>> ELSE <<>>
    <2>1. CASE i <= Len(out) /\ ps[i].until # Held
      <3>1. i \in 1..Len(out)
        BY <1>10, <2>1
      <3>2. out[i] = IF ps[i].until - ps[i].at >= Window THEN 2 ELSE 1
        BY <1>7, <2>1, <3>1
      <3>3. LongOf(ps[i]) = IF ps[i].until - ps[i].at >= Window THEN <<2>> ELSE <<1>>
        BY <2>1 DEF LongOf
      <3> QED BY <2>1, <3>2, <3>3
    <2>2. CASE i <= Len(out) /\ ps[i].until = Held
      <3>1. bt.contact /\ i = n
        BY <1>8, <2>2
      <3>2. bt.lp.left = NotTimed
        BY <1>3, <1>7, <2>2, <3>1
      <3>3. btLog.now - ps[i].at >= Window /\ out[i] = 2
        BY <1>7, <3>1, <3>2
      <3>4. LongOf(ps[i]) = IF btLog.now - ps[i].at >= Window THEN <<2>> ELSE <<>>
        BY <2>2 DEF LongOf
      <3> QED BY <2>2, <3>3, <3>4
    <2>3. CASE ~(i <= Len(out))
      <3>1. bt.lp.left # NotTimed /\ i = n
        BY <1>3, <1>7, <2>3
      <3>2. bt.contact /\ ps[i].until = Held
        BY <1>7, <1>8, <3>1
      <3>3. btLog.now - ps[i].at = Window - bt.lp.left /\ bt.lp.left > 0
        BY <1>5, <1>6, <1>7, <3>1, <3>2
      <3>4. ~(btLog.now - ps[i].at >= Window)
        BY <1>5, <3>3
      <3>5. LongOf(ps[i]) = IF btLog.now - ps[i].at >= Window THEN <<2>> ELSE <<>>
        BY <3>2 DEF LongOf
      <3> QED BY <2>3, <3>4, <3>5
    <2> QED BY <2>1, <2>2, <2>3
  <1>12. DOMAIN seqs = 1..n
    BY <1>3
  <1>13. seqs = [i \in 1..n |-> IF i <= Len(out) THEN <<out[i]>> ELSE <<>>]
    BY <1>3, <1>11
  <1>14. Longs = FlattenSeq(seqs)
    BY <1>2 DEF Longs
  <1> HIDE DEF seqs
  <1>15. Len(seqs) = n
    BY <1>3, <1>12
  <1>16. FlattenSeq(seqs) = out
    BY <1>3, <1>10, <1>12, <1>13, <1>15, FlattenOnes
  <1> QED BY <1>4, <1>14, <1>16

\* What the button keeps says what it tells
LEMMA ButtonTells == ButtonInv => ButtonsTellPresses
  BY ChangesAreAll, ClicksAreAll, LongsAreAll DEF ButtonsTellPresses

\* Whatever the lengths of the presses and the delays of the three inputs, and
\* however the reports of the contact repeat, every press is told as it was made.
THEOREM ButtonTellsItsPresses == ButtonSpec => [](ButtonTypeOK /\ ButtonsTellPresses)
  <1>1. ButtonInit => ButtonInv
    BY ButtonStarts
  <1>2. ButtonInv /\ [ButtonNext]_btVars => ButtonInv'
    BY ButtonKeeps
  <1>3. ButtonInv => ButtonTypeOK /\ ButtonsTellPresses
    BY ButtonTypes, ButtonTells
  <1> QED BY <1>1, <1>2, <1>3, PTL DEF ButtonSpec
=============================================================================
