------------------------------- MODULE Light -------------------------------
(***************************************************************************)
(* OutputLight: a lamp or a socket that is on or off, with impulses and    *)
(* blinking patterns.                                                      *)
(*                                                                         *)
(* Every write ends in EmitSignalIO(), which runs the rules before it      *)
(* returns.  One rule may react to this light by writing it again: its     *)
(* action then runs in the middle of the write that triggered it.  Its own *)
(* write makes the rule's condition false, so one level is enough.         *)
(*                                                                         *)
(* A Timer repeats until it is deleted, but one of zero delay fires once.  *)
(* Deleting goes through the member "timer": a timer that another one has  *)
(* replaced there can no longer be deleted.                                *)
(* Left out: cmd_state, and drivers that wait for the hardware to confirm. *)
(***************************************************************************)
EXTENDS Blinking

CONSTANTS
  Impulses,   \* what "impulse" is asked
  Reactions   \* the rules there may be: once the light is "on", it does "do"

Deeds == {"nothing", "true", "false", "impulse"}

ASSUME LightAssumption ==
  /\ Impulses \subseteq Seq(PatternToken)
  /\ \A r \in Reactions : r \in [on : BOOLEAN, do : Deeds, tokens : Impulses]

VARIABLES
  light,      \* the members of the object, and the last command it obeyed
  reaction,   \* the rule
  lgAsked     \* history: the last pattern asked, and the values it may end with

lgVars == <<light, reaction, lgAsked>>

\* blinks is the pattern as parsed
LightTimer == [kind : {"impulse", "blink"}, left : Nat, period : Nat, named : BOOLEAN]

LightTypeOK ==
  /\ light.value \in BOOLEAN
  /\ light.timers \subseteq LightTimer
  /\ light.blinks \in Seq(BlinkInfo) /\ light.current \in Nat
  /\ light.last \in {"set", "impulse", "pattern"}
  /\ reaction \in Reactions
  /\ lgAsked \in [tokens : Impulses \cup {<<>>}, old : SUBSET BOOLEAN]

LightInit ==
  /\ light = [value |-> FALSE, timers |-> {}, blinks |-> <<>>, current |-> 1,
              last |-> "set"]
  /\ reaction \in Reactions
  /\ lgAsked = [tokens |-> <<>>, old |-> {}]

-----------------------------------------------------------------------------
(* Members of the light L, as functions of its state                       *)

DeleteTimer(L) == [L EXCEPT !.timers = {t \in @ : ~t.named}]
NewTimer(L, kind, ticks) ==
  [L EXCEPT !.timers =
     {[t EXCEPT !.named = FALSE] : t \in @} \cup
     {[kind |-> kind, left |-> ticks, period |-> ticks, named |-> TRUE]}]
Stopped(L) == [DeleteTimer(L) EXCEPT !.last = "set"]

(* impulse() and impulse_extended(): what they do before their write, what *)
(* they write, and the timer they make when the write has returned.  A     *)
(* pattern without a step only stops the one before.                       *)

ReadImpulse(L, tokens) ==
  IF IsClassic(tokens) THEN Stopped(L)
  ELSE [DeleteTimer(L) EXCEPT !.blinks = ParsePattern(tokens, L.value),
                              !.current = 1, !.last = "pattern"]
Plays(L, tokens) == IsClassic(tokens) \/ L.blinks # <<>>
FirstState(L, tokens) == IsClassic(tokens) \/ L.blinks[1].state

TimeStep(L) == NewTimer(L, "blink", L.blinks[L.current].duration)
TimeImpulse(L, tokens) ==
  IF IsClassic(tokens)
  THEN [NewTimer(DeleteTimer(L), "impulse", tokens[1]) EXCEPT !.last = "impulse"]
  ELSE TimeStep(L)

-----------------------------------------------------------------------------
(* _set_value() with what the rule does, whose own writes trigger nothing. *)
(* StayOn and OffAgain are faults, used by no action.                      *)

JustSet(L, on) == [L EXCEPT !.value = on]

RulePlays(L, tokens) ==
  LET read == ReadImpulse(L, tokens)
  IN IF Plays(read, tokens)
     THEN TimeImpulse(JustSet(read, FirstState(read, tokens)), tokens) ELSE read

SetAndSignal(L, on) ==
  LET signalled == JustSet(L, on)
      idle == on # reaction.on \/ reaction.do = "nothing"
  IN CASE idle -> signalled
       [] ~idle /\ reaction.do = "impulse" -> RulePlays(signalled, reaction.tokens)
       [] OTHER -> JustSet(Stopped(signalled), reaction.do = "true")

LightImpulse(L, tokens) ==
  LET read == ReadImpulse(L, tokens)
  IN IF Plays(read, tokens)
     THEN TimeImpulse(SetAndSignal(read, FirstState(read, tokens)), tokens) ELSE read

StayOn(L) == DeleteTimer(L)
OffAgain(L) == SetAndSignal(L, FALSE)
ImpulseIsOver(L) == DeleteTimer(SetAndSignal(L, FALSE))

BlinkIsOver(L) ==
  LET off == DeleteTimer(L)
      moved == [off EXCEPT !.current = L.blinks[L.current].next]
  IN IF L.current \notin DOMAIN L.blinks THEN off
     ELSE IF moved.current \notin DOMAIN L.blinks THEN moved
     ELSE TimeStep(SetAndSignal(moved, L.blinks[moved.current].state))

-----------------------------------------------------------------------------
(* Commands                                                                *)

SetValue(on) ==
  /\ light' = SetAndSignal(Stopped(light), on)
  /\ lgAsked' = [tokens |-> <<>>, old |-> {}]
  /\ UNCHANGED reaction

ToggleLight == SetValue(~light.value)

PlayImpulse(tokens) ==
  /\ light' = LightImpulse(light, tokens)
  /\ lgAsked' = [tokens |-> tokens,
                  old |-> IF Restores(tokens) THEN {light.value} ELSE {}]
  /\ UNCHANGED reaction

\* "set_state" changes the value only: what plays goes on
SetLightState(on) ==
  /\ light' = SetAndSignal([light EXCEPT !.last = IF light.timers = {} THEN "set" ELSE @], on)
  /\ lgAsked' = [lgAsked EXCEPT !.old = {}]
  /\ UNCHANGED reaction

-----------------------------------------------------------------------------
(* Timers and time                                                         *)

\* The timer is armed again before its callback runs
Rearmed(t) ==
  [light EXCEPT !.timers =
     (@ \ {t}) \cup (IF t.period = 0 THEN {} ELSE {[t EXCEPT !.left = t.period]})]

LightTimerFires(t) ==
  /\ t.left = 0
  /\ light' = IF t.kind = "impulse"
              THEN ImpulseIsOver(Rearmed(t))
              ELSE BlinkIsOver(Rearmed(t))
  /\ UNCHANGED <<reaction, lgAsked>>

LightTick ==
  /\ \A t \in light.timers : t.left > 0
  /\ light' = [light EXCEPT !.timers = {[t EXCEPT !.left = @ - 1] : t \in @}]
  /\ UNCHANGED <<reaction, lgAsked>>

LightClient ==
  \/ ToggleLight
  \/ \E on \in BOOLEAN : SetValue(on) \/ SetLightState(on)
  \/ \E tokens \in Impulses : PlayImpulse(tokens)

LightCallback == \E t \in light.timers : LightTimerFires(t)

LightNext == LightClient \/ LightCallback \/ LightTick

LightSpec == LightInit /\ [][LightNext]_lgVars

\* The event loop runs the timers that are due, and time passes.
LightFairSpec == LightSpec /\ WF_lgVars(LightCallback) /\ WF_lgVars(LightTick)

-----------------------------------------------------------------------------
(* Properties                                                              *)

\* "Set to true for X ms then reset to false": if the last command obeyed is a
\* classic impulse, a light without a timer is off, whatever came before.
\* "blinks and then set to the old start state": a pattern that ends with "old"
\* and that nobody interrupted leaves the light as it was.
LightEndsAsAsked ==
  light.timers = {} =>
    /\ light.last = "impulse" => ~light.value
    /\ light.last = "pattern" /\ reaction.do = "nothing"
         => \A old \in lgAsked.old : light.value = old

\* Left alone, a light comes to rest, unless a pattern with "loop" plays.
PatternsEnd ==
  <>[][~LightClient]_lgVars =>
    <>[](\/ light.timers = {}
         \/ \E i \in DOMAIN lgAsked.tokens : lgAsked.tokens[i] = LoopToken)
=============================================================================
