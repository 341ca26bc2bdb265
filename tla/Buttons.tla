------------------------------ MODULE Buttons -------------------------------
(***************************************************************************)
(* A push button wired to one contact, as the three kinds of switches see  *)
(* it: InputSwitch tells its changes, InputSwitchLongPress a short or a    *)
(* long press, InputSwitchTriple the clicks of half a second.              *)
(*                                                                         *)
(* A driver may report the same value again.  Timers that are due run      *)
(* before what the driver reports, as in a turn of the event loop.         *)
(*                                                                         *)
(* Left out: a switch that is disabled, the values that a rule or a user   *)
(* sets, which are told as they are.                                       *)
(* LongIsShort, WindowSlides are faults, used by no action.                *)
(***************************************************************************)
EXTENDS Integers, Sequences, SequencesExt

CONSTANTS
  Window,       \* 0.5 s: of a long press, of several clicks
  ResetDelay,   \* 0.25 s
  MaxPresses, MaxRepeats,  \* bounds on what the contact does
  MaxWait       \* bound on the time of a first press

NotTimed == -1
Held == -1

ASSUME ButtonAssumption ==
  /\ Window \in Nat \ {0} /\ ResetDelay \in Nat \ {0}
  /\ MaxPresses \in Nat /\ MaxRepeats \in Nat /\ MaxWait \in Nat

VARIABLES
  bt,       \* the values of the three inputs, their timers, the count of clicks
  btLog     \* history: the time, the presses, the repeats, what each input told

btVars == <<bt, btLog>>

ButtonTypeOK ==
  /\ bt.contact \in BOOLEAN /\ bt.sw \in BOOLEAN
  /\ bt.lp \in [left : Nat \cup {NotTimed}, value : 0..2, resets : SUBSET Nat]
  /\ bt.tri \in [left : Nat \cup {NotTimed}, count : Nat, value : 0..3,
                 resets : SUBSET Nat]
  /\ btLog.now \in Nat /\ btLog.repeats \in Nat
  /\ \A i \in DOMAIN btLog.presses :
       btLog.presses[i] \in [at : Nat, until : Nat \cup {Held}]
  /\ btLog.switched \in Seq(BOOLEAN)
  /\ btLog.long \in Seq(1..2) /\ btLog.clicks \in Seq(1..3)

ButtonInit ==
  /\ bt = [contact |-> FALSE, sw |-> FALSE,
           lp |-> [left |-> NotTimed, value |-> 0, resets |-> {}],
           tri |-> [left |-> NotTimed, count |-> 0, value |-> 0, resets |-> {}]]
  /\ btLog = [now |-> 0, repeats |-> 0, presses |-> <<>>, switched |-> <<>>,
              long |-> <<>>, clicks |-> <<>>]

ButtonDue == 0 \in {bt.lp.left, bt.tri.left} \cup bt.lp.resets \cup bt.tri.resets

\* emitChange(): the value is told, and reset later
Emit(input, value) ==
  [input EXCEPT !.value = value, !.resets = @ \cup {ResetDelay}, !.left = NotTimed]

-----------------------------------------------------------------------------
(* hasChanged() of each input                                              *)

\* A release tells a short press, unless the long one was told
LongPressChanged(pressed) ==
  IF pressed /\ bt.lp.left = NotTimed THEN [bt.lp EXCEPT !.left = Window]
  ELSE IF ~pressed /\ bt.lp.left # NotTimed THEN Emit(bt.lp, 1)
  ELSE bt.lp

WindowSlides(pressed) ==
  IF ~pressed THEN bt.tri
  ELSE [bt.tri EXCEPT !.left = Window, !.count = IF bt.tri.left = NotTimed THEN 1 ELSE @ + 1]

TripleChanged(pressed) ==
  IF ~pressed THEN bt.tri
  ELSE IF bt.tri.left = NotTimed THEN [bt.tri EXCEPT !.left = Window, !.count = 1]
  ELSE [bt.tri EXCEPT !.count = @ + 1]

Report(pressed, presses, repeats) ==
  /\ ~ButtonDue
  /\ bt' = [contact |-> pressed, sw |-> pressed,
            lp |-> LongPressChanged(pressed), tri |-> TripleChanged(pressed)]
  /\ btLog' = [btLog EXCEPT !.presses = presses, !.repeats = repeats,
       !.switched = IF pressed = bt.sw THEN @ ELSE Append(@, pressed),
       !.long = IF ~pressed /\ bt.lp.left # NotTimed THEN Append(@, 1) ELSE @]

ContactCloses ==
  /\ ~bt.contact /\ Len(btLog.presses) < MaxPresses
  /\ Report(TRUE, Append(btLog.presses, [at |-> btLog.now, until |-> Held]),
            btLog.repeats)

ContactOpens ==
  /\ bt.contact
  /\ Report(FALSE, [btLog.presses EXCEPT ![Len(btLog.presses)].until = btLog.now], btLog.repeats)

ReportAgain ==
  /\ btLog.repeats < MaxRepeats
  /\ Report(bt.contact, btLog.presses, btLog.repeats + (IF bt.contact THEN 1 ELSE 0))

-----------------------------------------------------------------------------
(* Timers                                                                  *)

LongIsShort ==
  /\ bt.lp.left = 0
  /\ bt' = [bt EXCEPT !.lp.left = NotTimed]
  /\ UNCHANGED btLog

LongPressTimer ==
  /\ bt.lp.left = 0
  /\ bt' = [bt EXCEPT !.lp = Emit(@, 2)]
  /\ btLog' = [btLog EXCEPT !.long = Append(@, 2)]

TripleTimerDone ==
  /\ bt.tri.left = 0
  /\ LET told == IF bt.tri.count < 3 THEN bt.tri.count ELSE 3
     IN /\ bt' = [bt EXCEPT !.tri = [Emit(@, told) EXCEPT !.count = 0]]
        /\ btLog' = [btLog EXCEPT !.clicks = Append(@, told)]

ResetInput ==
  /\ 0 \in bt.lp.resets \cup bt.tri.resets
  /\ LET Over(input) ==
           IF 0 \in input.resets
           THEN [input EXCEPT !.value = 0, !.resets = @ \ {0}] ELSE input
     IN bt' = [bt EXCEPT !.lp = Over(@), !.tri = Over(@)]
  /\ UNCHANGED btLog

\* Time stands still when nothing is timed and the presses are over
ButtonTick ==
  /\ ~ButtonDue
  /\ \/ Len(btLog.presses) < MaxPresses /\ btLog.now < MaxWait
     \/ bt.lp.left # NotTimed \/ bt.tri.left # NotTimed
     \/ bt.lp.resets \cup bt.tri.resets # {}
  /\ LET Less(n) == IF n = NotTimed THEN n ELSE n - 1
         Older(input) == [input EXCEPT !.left = Less(@), !.resets = {n - 1 : n \in @}]
     IN bt' = [bt EXCEPT !.lp = Older(@), !.tri = Older(@)]
  /\ btLog' = [btLog EXCEPT !.now = @ + 1]

-----------------------------------------------------------------------------

ButtonCallback == LongPressTimer \/ TripleTimerDone \/ ResetInput
ButtonNext == ButtonCallback \/ ContactCloses \/ ContactOpens \/ ReportAgain \/ ButtonTick

ButtonSpec == ButtonInit /\ [][ButtonNext]_btVars
ButtonFairSpec == ButtonSpec /\ WF_btVars(ButtonCallback) /\ WF_btVars(ButtonTick)

-----------------------------------------------------------------------------
(* Properties                                                              *)

\* What the presses amount to: a long one is told when it has lasted, a short one
\* when it ends
LongOf(press) ==
  LET lasted == (IF press.until = Held THEN btLog.now ELSE press.until) - press.at
  IN IF lasted >= Window THEN <<2>> ELSE IF press.until = Held THEN <<>> ELSE <<1>>
Longs == FlattenSeq([i \in DOMAIN btLog.presses |-> LongOf(btLog.presses[i])])

\* The clicks of a window count from its first one, and are told at its end
Group(groups, press) ==
  IF groups # <<>> /\ press.at - Last(groups).from < Window
  THEN [groups EXCEPT ![Len(groups)].n = IF @ < 3 THEN @ + 1 ELSE @]
  ELSE Append(groups, [from |-> press.at, n |-> 1])
Clicks ==
  LET groups == FoldLeft(Group, <<>>, btLog.presses)
  IN FlattenSeq([i \in DOMAIN groups |->
                   IF btLog.now - groups[i].from >= Window THEN <<groups[i].n>> ELSE <<>>])

\* However the contact is pressed and reported, each change is told once; and as long
\* as the driver does not report a pressed contact again, each press is told as long
\* or as short, never as both, and the clicks of half a second as one.
ButtonsTellPresses ==
  ~ButtonDue =>
    /\ btLog.switched = [i \in DOMAIN btLog.switched |-> i % 2 = 1]
    /\ Len(btLog.switched) = 2 * Len(btLog.presses) - (IF bt.contact THEN 1 ELSE 0)
    /\ btLog.repeats = 0 => btLog.clicks = Clicks
    /\ btLog.repeats = 0 => btLog.long = Longs

\* An input that was told goes back to nothing.
ButtonsRest == []<>(bt.lp.value = 0 /\ bt.tri.value = 0)
=============================================================================
