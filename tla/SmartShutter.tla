--------------------------- MODULE SmartShutter ----------------------------
(***************************************************************************)
(* OutputShutterSmart with held relays: a shutter whose position is        *)
(* computed from the time its relays have been on.                         *)
(*                                                                         *)
(* Opening takes TimeUp ticks and closing TimeDown.  Positions are counted *)
(* in steps that make both conversions exact: the whole travel is          *)
(* TimeUp * TimeDown steps, one tick opens by TimeDown steps and closes by *)
(* TimeUp.  0 is open.  smActual is where the shutter is, which no code    *)
(* sees; smPosition is where the code believes it to be.                   *)
(*                                                                         *)
(* A Timer repeats until it is deleted.  impulse_time is absent or 0, both *)
(* of which mean held relays, but not to a calibration.  A travel time of  *)
(* 0, by which Down() divides, is excluded.  Left out: cmd_state, the      *)
(* signals, the copy in the state cache, the old parameter "time", and     *)
(* shutters with relay impulses (those of OutputShutter are in module      *)
(* Shutter).                                                               *)
(***************************************************************************)
EXTENDS Integers, FiniteSets

CONSTANTS
  TimeUp, TimeDown,  \* the parameters time_up and time_down, in ticks
  SmartPause,        \* the 200 ms of UpWait() and DownWait()
  Targets,           \* positions "set" is asked for, which may be past the ends
  Percents,          \* distances "up" and "down" are asked for, negative ones too
  SmartNudges,       \* durations of "impulse up" and "impulse down"
  MaxPauses          \* bound on the pause timers that run together

Full == TimeUp * TimeDown
LongTravel == IF TimeUp < TimeDown THEN TimeDown ELSE TimeUp

ASSUME SmartShutterAssumption ==
  /\ TimeUp \in Nat \ {0} /\ TimeDown \in Nat \ {0}
  /\ SmartPause \in Nat \ {0}
  /\ Targets \subseteq Int /\ Percents \subseteq Int /\ SmartNudges \subseteq Nat
  /\ MaxPauses \in Nat

Sides == {"up", "down"}
Other(d) == IF d = "up" THEN "down" ELSE "up"
Speed(d) == IF d = "up" THEN TimeDown ELSE TimeUp

NotArmed == -1
Never == -2          \* a timer that is armed and never fires
NoNudge == -1
ToEnd == -1          \* Up() and Down() without a position

VARIABLES
  smSens, smOldSens,   \* sens, old_sens
  smPosition,          \* position
  smStart,             \* start_position
  smRan,               \* ticks since start_time, no more than a whole travel
  smRelay,             \* the physical outputs
  smActual,            \* the physical shutter
  smEnd,               \* timer_end
  smEvery,             \* its period, 0 while it is not armed
  smCalib,             \* timer_calib, armed exactly while calibrate is set
  smPauses,            \* timer_up and timer_down, and those they named before
  smNudge,             \* is_impulse_action with its duration, or NoNudge
  smPulse,             \* timer_impulse, which is of no length
  smStops,             \* the one-shots that end an impulse
  smSpoilt,            \* history: the position was moved under a running motor
  smLost               \* history: the last calibration did not move the shutter

smDrive == <<smSens, smStart, smRan, smRelay, smEnd, smEvery>>
smVars == <<smSens, smOldSens, smPosition, smStart, smRan, smRelay, smActual,
            smEnd, smEvery, smCalib, smPauses, smNudge, smStops, smPulse, smSpoilt,
            smLost>>
smHistory == <<smSpoilt, smLost>>

PauseTimer == [dir : Sides, left : 0..SmartPause, named : BOOLEAN]

SmartTypeOK ==
  /\ smSens \in Sides \cup {"stop"} /\ smOldSens \in Sides
  /\ smPosition \in 0..Full /\ smActual \in 0..Full /\ smStart \in 0..Full
  /\ smRan \in 0..LongTravel
  /\ smRelay \in [Sides -> BOOLEAN]
  /\ smEnd \in Nat \cup {NotArmed, Never} /\ smEvery \in Nat \cup {Never}
  /\ smCalib \in 0..TimeUp \cup {NotArmed}
  /\ smPauses \subseteq PauseTimer
  /\ smNudge \in SmartNudges \cup {NoNudge} /\ smStops \subseteq Nat
  /\ smPulse \in BOOLEAN /\ smSpoilt \in BOOLEAN /\ smLost \in BOOLEAN

SmartInit ==
  /\ smSens = "stop" /\ smOldSens = "up"
  /\ smPosition = 0 /\ smActual = 0 /\ smStart = 0 /\ smRan = 0
  /\ smRelay = [d \in Sides |-> FALSE]
  /\ smEnd = NotArmed /\ smEvery = 0 /\ smCalib = NotArmed
  /\ smPauses = {} /\ smNudge = NoNudge /\ smStops = {}
  /\ smPulse = FALSE /\ smSpoilt = FALSE /\ smLost = FALSE

-----------------------------------------------------------------------------
(* Up(), Down() and Stop()                                                 *)

Unclamped(low, x, high) == x      \* a fault, used by no action
Between(low, x, high) == IF x < low THEN low ELSE IF x > high THEN high ELSE x

\* TimerUpdate() and writePosition()
Estimate ==
  Between(0, IF smSens = "up" THEN smStart - smRan * Speed("up")
             ELSE smStart + smRan * Speed("down"), Full)

\* Stop() of a moving shutter, outside of a calibration.  HaltBlind
\* and HaltRelaysOnly are faults, used by no action.
HaltBlind ==
  /\ smRelay' = [d \in Sides |-> FALSE]
  /\ smEnd' = NotArmed /\ smEvery' = 0
  /\ smSens' = "stop"
  /\ UNCHANGED <<smPosition, smStart, smRan>>
HaltRelaysOnly ==
  /\ smRelay' = [d \in Sides |-> FALSE]
  /\ smPosition' = Estimate
  /\ smSens' = "stop"
  /\ smRan' = 0
  /\ UNCHANGED <<smStart, smEnd, smEvery>>
SmartHalt ==
  /\ smRelay' = [d \in Sides |-> FALSE]
  /\ smEnd' = NotArmed /\ smEvery' = 0
  /\ smPosition' = Estimate
  /\ smSens' = "stop"
  /\ smRan' = 0
  /\ UNCHANGED smStart

Calibrating == smCalib # NotArmed
CanStop == smSens # "stop" /\ ~Calibrating
SmartStop ==
  \/ CanStop /\ SmartHalt
  \/ ~CanStop /\ UNCHANGED <<smDrive, smPosition>>

ToGo(d) == IF d = "up" THEN smPosition ELSE Full - smPosition
Ticks(d, steps) == (steps + Speed(d) - 1) \div Speed(d)

\* The steps to a position, or to the end of the travel if it is negative
Steps(d, target) ==
  IF target < 0 THEN ToGo(d)
  ELSE IF d = "up" THEN smPosition - target ELSE target - smPosition

\* A negative delay is converted to an unsigned one: the timer never fires
\* where the conversion wraps, and at once where it saturates
Delays(d, steps) == IF steps >= 0 THEN {Ticks(d, steps)} ELSE {Never, 0}

SmartStart(d, target, nudge, pauses) ==
  /\ smRelay' = [r \in Sides |-> r = d]
  /\ smSens' = d
  /\ smStart' = smPosition /\ smRan' = 0
  /\ smEnd' \in Delays(d, Steps(d, target)) /\ smEvery' = smEnd'
  /\ smStops' = IF nudge # NoNudge /\ nudge < Ticks(d, ToGo(d))
                THEN smStops \cup {nudge} ELSE smStops
  /\ smPauses' = {p \in pauses : ~(p.dir = d /\ p.named)}
  /\ UNCHANGED smPosition

\* Up() and Down(), given the pause timers that run; during a calibration
\* they return at once
DriveFrom(d, target, nudge, pauses) ==
  \/ /\ Calibrating \/ (smSens = "stop" /\ ToGo(d) = 0)
     /\ smPauses' = pauses
     /\ UNCHANGED <<smDrive, smPosition, smStops>>
  \/ /\ CanStop
     /\ SmartHalt
     /\ smPauses' = pauses /\ UNCHANGED smStops
  \/ /\ ~Calibrating /\ smSens = "stop" /\ ToGo(d) > 0
     /\ SmartStart(d, target, nudge, pauses)
Drive(d, target, nudge) == DriveFrom(d, target, nudge, smPauses)

\* UpWait() and DownWait(): the timer that was named before is not deleted
ArmPauseTimer(d) ==
  /\ Cardinality(smPauses) < MaxPauses
  /\ smPauses' = {[p EXCEPT !.named = @ /\ p.dir # d] : p \in smPauses}
                   \cup {[dir |-> d, left |-> SmartPause, named |-> TRUE]}
SmartWait(d, nudge) ==
  \/ smSens = "stop" /\ Drive(d, ToEnd, nudge)
  \/ smSens = d /\ SmartHalt /\ UNCHANGED <<smPauses, smStops>>
  \/ smSens = Other(d) /\ SmartHalt /\ ArmPauseTimer(d) /\ UNCHANGED smStops

-----------------------------------------------------------------------------
(* set_value(), refused during a calibration                               *)

Accepted(nudge) ==
  /\ ~Calibrating
  /\ smNudge' = nudge
  /\ UNCHANGED <<smCalib, smPulse>>

SmartMove(d) ==
  /\ Accepted(NoNudge) /\ SmartWait(d, NoNudge)
  /\ UNCHANGED <<smOldSens, smActual, smHistory>>

SmartImpulse(d, ms) ==
  /\ Accepted(ms) /\ SmartWait(d, ms)
  /\ UNCHANGED <<smOldSens, smActual, smHistory>>

\* "toggle": the Up() or Down() it calls stops a moving shutter
SmartToggle ==
  /\ Accepted(NoNudge)
  /\ smOldSens' = IF smSens = "stop" THEN smOldSens ELSE smSens
  /\ LET d == Other(smOldSens') IN Drive(d, ToEnd, NoNudge)
  /\ UNCHANGED <<smActual, smHistory>>

SmartStopCommand ==
  /\ Accepted(NoNudge) /\ SmartStop
  /\ UNCHANGED <<smOldSens, smActual, smPauses, smStops, smHistory>>

\* "set <position>": nothing when the shutter is believed to be there
SetTarget(t) ==
  /\ Accepted(NoNudge)
  /\ \/ t < smPosition /\ Drive("up", t, NoNudge)
     \/ t > smPosition /\ Drive("down", t, NoNudge)
     \/ t = smPosition /\ UNCHANGED <<smDrive, smPosition, smStops, smPauses>>
  /\ UNCHANGED <<smOldSens, smActual, smHistory>>

\* "up <distance>" opens no further than the end, "down <distance>" is timed
\* past it.  A negative distance is not refused.
MoveBy(d, steps) ==
  /\ Accepted(NoNudge)
  /\ Drive(d, IF d = "up" THEN smPosition - steps ELSE smPosition + steps, NoNudge)
  /\ UNCHANGED <<smOldSens, smActual, smHistory>>

\* "set_state <position>": something else has moved the shutter there.  The
\* relays and the timers of a running motor are left as they are.
SmartSetState(t) ==
  /\ Accepted(NoNudge)
  /\ smPosition' = Between(0, t, Full)
  /\ smActual' = Between(0, t, Full)
  /\ smSens' = "stop"
  /\ smSpoilt' = (smSpoilt \/ smSens # "stop") /\ smLost' = FALSE
  /\ UNCHANGED <<smOldSens, smStart, smRan, smRelay, smEnd, smEvery, smPauses,
                 smStops>>

\* "calibrate" does not stop a running motor either.  The parameters are read
\* again: where impulse_time is 0, rather than absent, a pulse of no length is
\* armed as for a shutter with impulses.
Calibrate(zero) ==
  /\ ~Calibrating
  /\ smCalib' = TimeUp
  /\ smNudge' = NoNudge
  /\ smRelay' = [d \in Sides |-> d = "up"]
  /\ smPulse' = (zero \/ smPulse) /\ smLost' = zero
  /\ smSpoilt' = (smSpoilt \/ smSens # "stop")
  /\ UNCHANGED <<smSens, smOldSens, smPosition, smStart, smRan, smActual,
                 smEnd, smEvery, smPauses, smStops>>

-----------------------------------------------------------------------------
(* Callbacks                                                               *)

PositionUpdate ==
  /\ smSens # "stop" /\ smPosition # Estimate
  /\ smPosition' = Estimate
  /\ UNCHANGED <<smDrive, smOldSens, smActual, smCalib, smPauses, smNudge,
                 smStops, smPulse, smHistory>>

\* TimerEnd(): Stop() does nothing during a calibration or when set_state has
\* stopped the shutter before; the timer then fires again after its period,
\* and not at all if it was of no length
TimerEnd ==
  /\ smEnd = 0
  /\ smOldSens' = IF smSens = "stop" THEN smOldSens ELSE smSens
  /\ \/ CanStop /\ SmartHalt
     \/ /\ ~CanStop
        /\ smEnd' = IF smEvery = 0 THEN Never ELSE smEvery
        /\ UNCHANGED <<smSens, smStart, smRan, smRelay, smPosition, smEvery>>
  /\ UNCHANGED <<smActual, smCalib, smPauses, smNudge, smStops, smPulse, smHistory>>

\* TimerCalibrate()
TimerCalibrate ==
  /\ smCalib = 0
  /\ smCalib' = NotArmed
  /\ smRelay' = [d \in Sides |-> FALSE]
  /\ smPosition' = 0
  /\ UNCHANGED <<smSens, smOldSens, smStart, smRan, smActual, smEnd, smEvery,
                 smPauses, smNudge, smStops, smPulse, smHistory>>

\* TimerImpulse(), which a calibration armed
SmartPulseOver ==
  /\ smPulse /\ smPulse' = FALSE
  /\ smRelay' = [d \in Sides |-> FALSE]
  /\ UNCHANGED <<smSens, smOldSens, smPosition, smStart, smRan, smActual, smEnd, smEvery,
                 smCalib, smPauses, smNudge, smStops, smHistory>>

\* timer_up and timer_down: they repeat unless the shutter starts, which
\* deletes the one that is still named
SmartPauseOver(p) ==
  /\ p.left = 0
  /\ DriveFrom(p.dir, ToEnd, smNudge,
               (smPauses \ {p}) \cup {[p EXCEPT !.left = SmartPause]})
  /\ UNCHANGED <<smOldSens, smActual, smCalib, smNudge, smPulse, smHistory>>

\* The one-shot of an impulse calls Stop()
SmartNudgeOver ==
  /\ 0 \in smStops
  /\ smStops' = smStops \ {0}
  /\ SmartStop
  /\ UNCHANGED <<smOldSens, smActual, smCalib, smPauses, smNudge, smPulse, smHistory>>

-----------------------------------------------------------------------------
(* Time passes when no timer is due; the relays move the shutter           *)

SmartDue ==
  smEnd = 0 \/ smCalib = 0 \/ smPulse \/ 0 \in smStops \/ \E p \in smPauses : p.left = 0

Older(left) == IF left \in Nat THEN left - 1 ELSE left

SmartTick ==
  /\ ~SmartDue
  /\ smEnd' = Older(smEnd) /\ smCalib' = Older(smCalib)
  /\ smPauses' = {[p EXCEPT !.left = @ - 1] : p \in smPauses}
  /\ smStops' = {left - 1 : left \in smStops}
  /\ smRan' = IF smSens # "stop" /\ smRan < LongTravel THEN smRan + 1 ELSE smRan
  /\ smActual' = Between(0,
       smActual - (IF smRelay["up"] THEN Speed("up") ELSE 0)
                + (IF smRelay["down"] THEN Speed("down") ELSE 0), Full)
  /\ UNCHANGED <<smSens, smOldSens, smPosition, smStart, smRelay, smEvery, smNudge,
                 smPulse, smHistory>>

SmartClient ==
  \/ \E d \in Sides : SmartMove(d)
  \/ \E d \in Sides, ms \in SmartNudges : SmartImpulse(d, ms)
  \/ \E t \in Targets : SetTarget(t) \/ SmartSetState(t)
  \/ \E d \in Sides, steps \in Percents : MoveBy(d, steps)
  \/ \E zero \in BOOLEAN : Calibrate(zero)
  \/ SmartToggle \/ SmartStopCommand

SmartCallback ==
  \/ TimerEnd \/ TimerCalibrate \/ SmartPulseOver \/ SmartNudgeOver
  \/ \E p \in smPauses : SmartPauseOver(p)

SmartNext == SmartClient \/ SmartCallback \/ PositionUpdate \/ SmartTick

SmartSpec == SmartInit /\ [][SmartNext]_smVars

\* The event loop runs the timers that are due, and time passes.
SmartFairSpec == SmartSpec /\ WF_smVars(SmartCallback) /\ WF_smVars(SmartTick)

-----------------------------------------------------------------------------
(* Properties                                                              *)

\* A shutter that stands still is where the server says it is, after any mix
\* of moves, reversals, nudges, targets past the ends, distances of either sign
\* and calibrations, as long as its position was not set, nor a calibration
\* begun, under a running motor.  A calibration with an impulse_time of 0 moves
\* nothing and says it did: the position is wrong until the next calibration
\* without one or the next set_state.
PositionIsTrue ==
  ~smSpoilt /\ ~smLost /\ smSens = "stop" /\ ~Calibrating => smPosition = smActual

\* As long as its position was not set, nor a calibration begun, under a
\* running motor, the relays are those of the direction, or of the calibration
\* until a pulse of no length drops it, never both, and the timer that ends the
\* movement is armed exactly while one is on for it.  (That it fires is not
\* promised: after a negative distance it may not.)
SmartRelaysAreTimed ==
  ~smSpoilt =>
    /\ \A d \in Sides :
         smRelay[d] <=> \/ smSens = d
                        \/ d = "up" /\ Calibrating /\ (smLost => smPulse)
    /\ smSens = "stop" <=> smEnd = NotArmed

\* ioDoc: "stop" is "Stop the shutter": once it is accepted no relay is on.
StopStops == [][SmartStopCommand => \A d \in Sides : ~smRelay'[d]]_smVars
=============================================================================
