------------------------------ MODULE Dimmer -------------------------------
(***************************************************************************)
(* OutputLightDimmer: a light with an intensity, its impulses and blinking *)
(* patterns, and dimming by a button that is held.                         *)
(*                                                                         *)
(* "hold press" arms a timer; if "hold stop" comes before it fires, the    *)
(* press was short and toggles the light, otherwise every firing dims by   *)
(* one step, up to the top, then down, until "hold stop".  Every command   *)
(* stops the impulse under way, which a write made by the hold timer does  *)
(* too.                                                                    *)
(* Left out: cmd_state, the events, rules that react to the light (they    *)
(* are in module Light), and drivers that wait for the hardware.           *)
(***************************************************************************)
EXTENDS Blinking

CONSTANTS
  Top,          \* 100 percent, in steps of the hold timer
  HoldDelay,    \* 500 ms, in ticks
  HoldPeriod,   \* 1 s, in ticks
  DimImpulses,  \* what "impulse" is asked
  DimSteps      \* what "up" and "down" are asked

ASSUME DimmerAssumption ==
  /\ Top \in Nat \ {0}
  /\ HoldDelay \in Nat \ {0} /\ HoldPeriod \in Nat \ {0}
  /\ DimImpulses \subseteq Seq(PatternToken) /\ DimSteps \subseteq Nat

VARIABLES
  dim,      \* the members of the object
  dmHold,   \* history: "up", or how far the press under way is
  dmOld     \* history: what the pattern under way must end with, as a set

dmVars == <<dim, dmHold, dmOld>>

NoTimer == [left |-> -1, period |-> 0]
DimTimer == [left : Nat \cup {-1}, period : Nat]
Runs(timer) == timer.left >= 0

DimTypeOK ==
  /\ dim.value \in 0..Top /\ dim.old \in 0..Top
  /\ dim.blinks \in Seq(BlinkInfo) /\ dim.current \in Nat
  /\ dim.impulse \in DimTimer /\ dim.kind \in {"impulse", "blink"}
  /\ dim.hold \in DimTimer
  /\ dim.detected \in BOOLEAN /\ dim.down \in BOOLEAN
  /\ dim.stopAfter \in BOOLEAN
  /\ dmHold \in {"up", "pressed", "dimming"}
  /\ dmOld \subseteq 0..Top

DimInit ==
  /\ dim = [value |-> 0, old |-> Top, blinks |-> <<>>, current |-> 1,
            impulse |-> NoTimer, kind |-> "impulse", hold |-> NoTimer,
            detected |-> FALSE, down |-> FALSE, stopAfter |-> FALSE]
  /\ dmHold = "up" /\ dmOld = {}

-----------------------------------------------------------------------------
(* set_value(), as functions of the state D.  OffForgets, NoLimit and      *)
(* ToggleLate are faults, used by no action.                               *)

Armed(ticks) == [left |-> ticks, period |-> ticks]
Clip(v) == IF v < 0 THEN 0 ELSE IF v > Top THEN Top ELSE v

StopImpulse(D) == [D EXCEPT !.impulse = NoTimer]

NoLimit(D, v) == [StopImpulse(D) EXCEPT !.value = v]
DimSet(D, v) == [StopImpulse(D) EXCEPT !.value = Clip(v)]

\* "set off": the next intensity, or the current one if the light is on
SetNextOn(D, v) ==
  IF D.value > 0 THEN DimSet(D, v) ELSE [StopImpulse(D) EXCEPT !.old = v]

DimOn(D) == IF D.value = 0 THEN DimSet(D, D.old) ELSE StopImpulse(D)
OffForgets(D) == DimSet(D, 0)
DimOff(D) == IF D.value > 0 THEN [DimSet(D, 0) EXCEPT !.old = D.value] ELSE StopImpulse(D)
DimSwitch(D, on) == IF on THEN DimOn(D) ELSE DimOff(D)
DimToggle(D) == DimSwitch(D, D.value = 0)

\* "set_state"
StateOn(D) == [StopImpulse(D) EXCEPT !.value = D.old]
StateOff(D) == [StopImpulse(D) EXCEPT !.old = D.value, !.value = 0]

DimImpulse(D, tokens) ==
  LET blinks == ParsePattern(tokens, D.value > 0)
      read == [StopImpulse(D) EXCEPT !.blinks = blinks, !.current = 1]
  IN CASE IsClassic(tokens) ->
            [DimOn(D) EXCEPT !.kind = "impulse", !.impulse = Armed(tokens[1])]
       [] ~IsClassic(tokens) /\ blinks = <<>> -> read
       [] OTHER -> [DimSwitch(read, blinks[1].state)
                      EXCEPT !.kind = "blink", !.impulse = Armed(blinks[1].duration)]

-----------------------------------------------------------------------------
(* The hold timer                                                          *)

HoldPress(D) ==
  [StopImpulse(D) EXCEPT !.hold = Armed(HoldDelay), !.detected = FALSE,
                         !.stopAfter = TRUE]

ToggleLate(D) ==
  [(IF D.stopAfter THEN DimToggle(D) ELSE StopImpulse(D))
     EXCEPT !.stopAfter = FALSE, !.hold = NoTimer,
            !.detected = IF Runs(D.hold) THEN FALSE ELSE @]
HoldStop(D) ==
  [(IF ~D.detected /\ D.stopAfter THEN DimToggle(D) ELSE StopImpulse(D))
     EXCEPT !.stopAfter = FALSE, !.hold = NoTimer,
            !.detected = IF Runs(D.hold) THEN FALSE ELSE @]

\* One step; past an end the light stays there and the direction turns
OneStep(D) ==
  LET v == IF D.down THEN D.value - 1 ELSE D.value + 1
  IN [DimSet(D, v) EXCEPT !.down = IF v \in 0..Top THEN @ ELSE ~@]

HoldFires(D) ==
  OneStep([D EXCEPT !.detected = TRUE, !.hold = Armed(HoldPeriod)])

-----------------------------------------------------------------------------
(* Commands                                                                *)

Command(result) ==
  /\ dim' = result
  /\ dmOld' = {}
  /\ UNCHANGED dmHold

DimClient ==
  \/ Command(DimOn(dim)) \/ Command(DimOff(dim)) \/ Command(DimToggle(dim))
  \/ Command(StateOn(dim)) \/ Command(StateOff(dim))
  \/ \E v \in 0..Top : Command(DimSet(dim, v)) \/ Command(SetNextOn(dim, v))
  \/ \E v \in DimSteps : Command(DimSet(dim, dim.value + v)) \/ Command(DimSet(dim, dim.value - v))

AskImpulse(tokens) ==
  /\ dim' = DimImpulse(dim, tokens)
  /\ dmOld' = IF Restores(tokens) THEN {dim.value} ELSE {}
  /\ UNCHANGED dmHold

Press ==
  /\ dim' = HoldPress(dim)
  /\ dmHold' = "pressed" /\ dmOld' = {}

Release ==
  /\ dim' = HoldStop(dim)
  /\ dmHold' = "up" /\ dmOld' = {}

-----------------------------------------------------------------------------
(* Timers and time                                                         *)

HoldIsDue ==
  /\ dim.hold.left = 0
  /\ dim' = HoldFires(dim)
  /\ dmHold' = IF dmHold = "up" THEN "up" ELSE "dimming"
  /\ dmOld' = {}

\* TimerImpulse()
ImpulseIsDue ==
  /\ dim.impulse.left = 0 /\ dim.kind = "impulse"
  /\ dim' = DimOff(dim)
  /\ UNCHANGED <<dmHold, dmOld>>

\* TimerImpulseExtended()
BlinkIsDue ==
  /\ dim.impulse.left = 0 /\ dim.kind = "blink"
  /\ LET next == dim.blinks[dim.current].next
         moved == [StopImpulse(dim) EXCEPT !.current = next]
     IN dim' = IF next \notin DOMAIN dim.blinks THEN moved
               ELSE [DimSwitch(moved, dim.blinks[next].state)
                       EXCEPT !.impulse = Armed(dim.blinks[next].duration)]
  /\ UNCHANGED <<dmHold, dmOld>>

Later(timer) == IF Runs(timer) THEN [timer EXCEPT !.left = @ - 1] ELSE timer
DimTick ==
  /\ dim.hold.left # 0 /\ dim.impulse.left # 0
  /\ dim' = [dim EXCEPT !.hold = Later(@), !.impulse = Later(@)]
  /\ UNCHANGED <<dmHold, dmOld>>

DimUser == DimClient \/ Press \/ Release \/ \E tokens \in DimImpulses : AskImpulse(tokens)
DimCallback == HoldIsDue \/ ImpulseIsDue \/ BlinkIsDue

DimNext == DimUser \/ DimCallback \/ DimTick

DimSpec == DimInit /\ [][DimNext]_dmVars

\* The event loop runs the timers that are due, and time passes.
DimFairSpec == DimSpec /\ WF_dmVars(DimCallback) /\ WF_dmVars(DimTick)

-----------------------------------------------------------------------------
(* Properties                                                              *)

\* A pattern that ends with "old" and that nothing interrupted gives back the
\* very intensity the light had, although it only remembers on and off.
DimIsRestored == ~Runs(dim.impulse) => \A old \in dmOld : dim.value = old

\* A release toggles the light exactly when its press was short, whatever was
\* commanded in between, and whatever press or release was lost.
ShortPressToggles ==
  [][Release =>
       dim'.value = IF dmHold = "pressed" THEN DimToggle(dim).value ELSE dim.value]_dmVars
=============================================================================
