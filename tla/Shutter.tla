------------------------------ MODULE Shutter ------------------------------
(***************************************************************************)
(* OutputShutter: a shutter driven by two relays.  Commands arrive through *)
(* set_value(), everything else happens in callbacks of the event loop:    *)
(* the end of the travel, the end of a relay impulse, the pause before a   *)
(* reversal and the end of an "impulse up/down" nudge.                     *)
(*                                                                         *)
(* Time is counted in ticks.  A timer holds the ticks left before it       *)
(* fires, Off when it is not armed; time does not pass over a timer that   *)
(* is due.  The Timer class of the code repeats until it is deleted: the   *)
(* callbacks of timer_end and timer_impulse delete their timer, those of   *)
(* timer_up and timer_down delete it only when the shutter really starts.  *)
(*                                                                         *)
(* Left out: cmd_state (the last command, as text), the signals sent once  *)
(* the state has changed, and the variant whose state is reported by the   *)
(* device (useExternalState, MQTT shutters).                               *)
(***************************************************************************)
EXTENDS Integers

CONSTANTS
  Travel,       \* the time parameter: ticks until TimerEnd()
  ImpulseTime,  \* the impulse_time parameter, 0 when the relays are held
  ReversePause, \* the 200 ms of UpWait() and DownWait()
  StopBoth,     \* stop_both: stop with an impulse on both relays
  Nudges,       \* durations that "impulse up/down" is asked with
  MaxOrphans,   \* bound on pause timers whose pointer was overwritten
  MaxRestarts   \* bound on the restarts of the server

ASSUME ShutterAssumption ==
  /\ Travel \in Nat \ {0}
  /\ ImpulseTime \in Nat
  /\ ReversePause \in Nat \ {0}
  /\ StopBoth \in BOOLEAN
  /\ Nudges \subseteq Nat
  /\ MaxOrphans \in Nat
  /\ MaxRestarts \in Nat

Up == "up"
Down == "down"
Halted == "stop"
Directions == {Up, Down}
Senses == Directions \cup {Halted}
Positions == {"true", "false"}
Commands == Senses \cup {"toggle", "impulse", "set_state", "none"}

Opposite(d) == IF d = Up THEN Down ELSE Up
Position(d) == IF d = Up THEN "true" ELSE "false"

Off == -1
Pause == ReversePause + ImpulseTime
OrphanIds == 1..MaxOrphans
Orphan(d, left) == [dir |-> d, left |-> left]

VARIABLES
  sens, oldSens,  \* direction of the motor, and the last completed one
  stateVolet,     \* state_volet, what the server answers for the shutter
  isImpulse,      \* is_impulse_action
  nudge,          \* impulse_action_time
  relay,          \* the two physical outputs
  timerEnd, timerImpulse,
  timerPause,     \* timer_up and timer_down
  nudgeStops,     \* the one-shots that end an impulse: nothing cancels them
  orphans,        \* pause timers still running whose pointer was overwritten
  cache, disk,    \* cached values in memory, and those last saved
  restarts,
  asked,          \* history: the last command accepted from a client
  ran,            \* history: ticks the motor has run in its direction
  clash           \* history: both relays were on at once

motion == <<sens, oldSens, stateVolet, isImpulse, nudge>>
timers == <<timerEnd, timerImpulse, timerPause, nudgeStops, orphans>>
vars == <<sens, oldSens, stateVolet, isImpulse, nudge, relay,
          timerEnd, timerImpulse, timerPause, nudgeStops, orphans,
          cache, disk, restarts, asked, ran, clash>>

Relays == [Directions -> BOOLEAN]
PauseTimers == [Directions -> Off..Pause]
OrphanTimers == [OrphanIds -> [dir : Directions, left : Off..Pause]]
Cached == [sens : Senses, oldSens : Directions, stateVolet : Positions]

TypeOK ==
  /\ sens \in Senses
  /\ oldSens \in Directions
  /\ stateVolet \in Positions
  /\ isImpulse \in BOOLEAN
  /\ nudge \in Nudges \cup {0}
  /\ relay \in Relays
  /\ timerEnd \in Off..Travel
  /\ timerImpulse \in Off..ImpulseTime
  /\ timerPause \in PauseTimers
  /\ nudgeStops \subseteq Nat
  /\ orphans \in OrphanTimers
  /\ cache \in Cached
  /\ disk \in Cached
  /\ restarts \in 0..MaxRestarts
  /\ asked \in Commands
  /\ ran \in 0..Travel
  /\ clash \in BOOLEAN

Init ==
  /\ sens = Halted /\ oldSens = Up /\ stateVolet = "true"
  /\ isImpulse = FALSE /\ nudge = 0
  /\ relay = [d \in Directions |-> FALSE]
  /\ timerEnd = Off /\ timerImpulse = Off
  /\ timerPause = [d \in Directions |-> Off]
  /\ nudgeStops = {}
  /\ orphans = [o \in OrphanIds |-> Orphan(Up, Off)]
  /\ cache = [sens |-> Halted, oldSens |-> Up, stateVolet |-> "true"]
  /\ disk = cache
  /\ restarts = 0
  /\ asked = "none" /\ ran = 0 /\ clash = FALSE

-----------------------------------------------------------------------------
(* The bodies of Up()/Down() and Stop().  SwitchOneRelay, SwitchUpOff,      *)
(* ArmNoPulse, ArmNoTravel, HaltKeepingTimer, ToggleSettles and             *)
(* ElapseUnarmed are faults: no action uses them, the mutants do.           *)

\* updateCache()
UpdateCache ==
  cache' = [sens |-> sens', oldSens |-> oldSens', stateVolet |-> stateVolet']

\* setOutputUp() and setOutputDown() in Up() and Down(): Up() switches its
\* relay on before it switches the other one off, Down() the other way round.
SwitchOneRelay(d) == relay' = [relay EXCEPT ![d] = TRUE] /\ UNCHANGED clash
SwitchRelays(d) ==
  /\ relay' = [r \in Directions |-> r = d]
  /\ clash' = (clash \/ (d = Up /\ relay[Down]))

\* setOutputUp() and setOutputDown() in Stop()
SwitchUpOff == relay' = [relay EXCEPT ![Up] = FALSE] /\ UNCHANGED clash
SwitchToStop ==
  /\ relay' = IF ImpulseTime > 0
              THEN [r \in Directions |-> relay[r] \/ StopBoth \/ r = sens]
              ELSE [r \in Directions |-> FALSE]
  /\ clash' = (clash \/ (relay'[Up] /\ relay'[Down]))

\* timer_impulse = new Timer(...), when the relays are pulsed
ArmNoPulse == UNCHANGED timerImpulse
ArmPulse == timerImpulse' = IF ImpulseTime > 0 THEN ImpulseTime ELSE timerImpulse

\* timer_end = new Timer(...)
ArmNoTravel == timerEnd' = Off
ArmTravel == timerEnd' = Travel

\* Up() or Down() of a stopped shutter
Start(d, impulse, ms) ==
  /\ SwitchRelays(d)
  /\ sens' = d
  /\ ArmPulse
  /\ nudgeStops' = IF impulse /\ ms + ImpulseTime < Travel
                   THEN nudgeStops \cup {ms + ImpulseTime} ELSE nudgeStops
  /\ timerPause' = [timerPause EXCEPT ![d] = Off]
  /\ ArmTravel
  /\ ran' = 0

\* Stop() of a moving shutter
HaltKeepingTimer ==
  /\ SwitchToStop /\ ArmPulse
  /\ sens' = Halted
  /\ ran' = 0
  /\ UNCHANGED timerEnd
HaltMotor ==
  /\ SwitchToStop /\ ArmPulse
  /\ sens' = Halted
  /\ timerEnd' = Off
  /\ ran' = 0

Halt == HaltMotor /\ UNCHANGED nudgeStops

\* timer_up = new Timer(...), timer_down = new Timer(...): a timer still
\* running there is neither deleted nor reachable any more.
ArmPause(d) ==
  /\ timerPause' = [timerPause EXCEPT ![d] = Pause]
  /\ \/ /\ timerPause[d] = Off
        /\ UNCHANGED orphans
     \/ \E o \in OrphanIds :
          /\ timerPause[d] # Off
          /\ orphans[o].left = Off
          /\ orphans' = [orphans EXCEPT ![o] = Orphan(d, timerPause[d])]

KeepPauses == UNCHANGED <<timerPause, orphans>>

-----------------------------------------------------------------------------
(* set_value()                                                             *)

\* UpWait() and DownWait()
Wait(d, impulse, ms) ==
  \/ /\ sens = Halted
     /\ Start(d, impulse, ms)
     /\ UNCHANGED orphans
  \/ /\ sens = d
     /\ Halt
     /\ KeepPauses
  \/ /\ sens = Opposite(d)
     /\ Halt
     /\ ArmPause(d)

\* "up" and "down"
Move(d) ==
  /\ asked' = d
  /\ isImpulse' = FALSE
  /\ Wait(d, FALSE, 0)
  /\ UNCHANGED <<oldSens, stateVolet, nudge, disk, restarts>>
  /\ UpdateCache

\* "impulse up <ms>" and "impulse down <ms>"
Impulse(d, ms) ==
  /\ asked' = "impulse"
  /\ isImpulse' = TRUE
  /\ nudge' = ms
  /\ Wait(d, TRUE, ms)
  /\ UNCHANGED <<oldSens, stateVolet, disk, restarts>>
  /\ UpdateCache

\* "toggle" that answers the position of a motor it has only stopped
ToggleSettles ==
  /\ asked' = "toggle"
  /\ sens # Halted
  /\ oldSens' = sens /\ stateVolet' = Position(sens)
  /\ Halt /\ KeepPauses
  /\ UNCHANGED <<isImpulse, nudge, disk, restarts>>
  /\ UpdateCache

\* "toggle": the Up() or Down() it calls stops a moving shutter
Toggle ==
  /\ asked' = "toggle"
  /\ isImpulse' = FALSE
  /\ \/ /\ sens # Halted
        /\ oldSens' = sens
        /\ Halt
        /\ KeepPauses
     \/ /\ sens = Halted
        /\ Start(Opposite(oldSens), FALSE, 0)
        /\ UNCHANGED <<oldSens, orphans>>
  /\ UNCHANGED <<stateVolet, nudge, disk, restarts>>
  /\ UpdateCache

\* "stop": a shutter at rest keeps its timers, and the cache is not updated
StopCommand ==
  /\ asked' = "stop"
  /\ isImpulse' = FALSE
  /\ UNCHANGED <<oldSens, stateVolet, nudge, disk, restarts>>
  /\ \/ /\ sens # Halted
        /\ Halt
        /\ KeepPauses
        /\ UpdateCache
     \/ /\ sens = Halted
        /\ UNCHANGED <<sens, relay, timers, cache, ran, clash>>

\* "set_state <text>": only "up" and "down" change something
SetState(text) ==
  /\ asked' = "set_state"
  /\ isImpulse' = FALSE
  /\ stateVolet' = IF text \in Directions THEN Position(text) ELSE stateVolet
  /\ UNCHANGED <<sens, oldSens, nudge, relay, timers, disk, restarts, ran,
                 clash>>
  /\ UpdateCache

\* a value that is refused has already cleared is_impulse_action
Refused ==
  /\ isImpulse' = FALSE
  /\ UNCHANGED <<sens, oldSens, stateVolet, nudge, relay, timers,
                 cache, disk, restarts, asked, ran, clash>>

-----------------------------------------------------------------------------
(* Callbacks of the event loop                                             *)

\* TimerEnd()
EndOfTravel ==
  /\ timerEnd = 0
  /\ oldSens' = sens
  /\ stateVolet' = Position(sens)
  /\ Halt
  /\ KeepPauses
  /\ UNCHANGED <<isImpulse, nudge, disk, restarts, asked>>
  /\ UpdateCache

\* TimerImpulse()
EndOfImpulse ==
  /\ timerImpulse = 0
  /\ timerImpulse' = Off
  /\ relay' = [r \in Directions |-> FALSE]
  /\ UNCHANGED <<motion, timerEnd, timerPause, nudgeStops, orphans,
                 cache, disk, restarts, asked, ran, clash>>

\* timer_up or timer_down: it repeats unless the shutter started
PauseOver(d) ==
  /\ timerPause[d] = 0
  /\ \/ /\ sens = Halted
        /\ Start(d, isImpulse, nudge)
     \/ /\ sens # Halted
        /\ Halt
        /\ timerPause' = [timerPause EXCEPT ![d] = Pause]
  /\ UNCHANGED <<oldSens, stateVolet, isImpulse, nudge, orphans, disk,
                 restarts, asked>>
  /\ UpdateCache

\* The same callback, from a timer that nothing can delete any more
OrphanOver(o) ==
  /\ orphans[o].left = 0
  /\ orphans' = [orphans EXCEPT ![o] = Orphan(orphans[o].dir, Pause)]
  /\ \/ /\ sens = Halted
        /\ Start(orphans[o].dir, isImpulse, nudge)
     \/ /\ sens # Halted
        /\ Halt
        /\ UNCHANGED timerPause
  /\ UNCHANGED <<oldSens, stateVolet, isImpulse, nudge, disk, restarts, asked>>
  /\ UpdateCache

\* The one-shot armed by an impulse calls Stop()
NudgeOver ==
  /\ 0 \in nudgeStops
  /\ nudgeStops' = nudgeStops \ {0}
  /\ KeepPauses
  /\ UNCHANGED <<oldSens, stateVolet, isImpulse, nudge, disk, restarts, asked>>
  /\ \/ /\ sens # Halted
        /\ HaltMotor
        /\ UpdateCache
     \/ /\ sens = Halted
        /\ UNCHANGED <<sens, relay, timerEnd, timerImpulse, cache, ran, clash>>

-----------------------------------------------------------------------------
(* Time, the state cache and restarts                                      *)

Due ==
  \/ timerEnd = 0 \/ timerImpulse = 0 \/ 0 \in nudgeStops
  \/ \E d \in Directions : timerPause[d] = 0
  \/ \E o \in OrphanIds : orphans[o].left = 0

ElapseUnarmed(left) == left - 1
Elapse(left) == IF left = Off THEN Off ELSE left - 1

Tick ==
  /\ ~Due
  /\ timerEnd' = Elapse(timerEnd)
  /\ timerImpulse' = Elapse(timerImpulse)
  /\ timerPause' = [d \in Directions |-> Elapse(timerPause[d])]
  /\ orphans' = [o \in OrphanIds |->
                   Orphan(orphans[o].dir, Elapse(orphans[o].left))]
  /\ nudgeStops' = {left - 1 : left \in nudgeStops}
  /\ ran' = IF sens # Halted /\ ran < Travel THEN ran + 1 ELSE ran
  /\ UNCHANGED <<motion, relay, cache, disk, restarts, asked, clash>>

\* saveStateCache(), by its timer or for another IO; after the last restart
\* of a bounded run nothing reads what it writes
SaveStateCache ==
  /\ restarts < MaxRestarts
  /\ disk # cache
  /\ disk' = cache
  /\ UNCHANGED <<motion, relay, timers, cache, restarts, asked, ran, clash>>

\* The process ends, saving its cache or not, and the constructor of the next
\* one reads the saved values.  The outputs belong to the hardware.
Restart ==
  /\ restarts < MaxRestarts
  /\ restarts' = restarts + 1
  /\ disk' \in {disk, cache}
  /\ cache' = disk'
  /\ sens' = disk'.sens /\ oldSens' = disk'.oldSens
  /\ stateVolet' = disk'.stateVolet
  /\ isImpulse' = FALSE /\ nudge' = 0
  /\ timerEnd' = Off /\ timerImpulse' = Off
  /\ timerPause' = [d \in Directions |-> Off]
  /\ nudgeStops' = {}
  /\ orphans' = [o \in OrphanIds |-> Orphan(orphans[o].dir, Off)]
  /\ asked' = "none" /\ ran' = 0
  /\ UNCHANGED <<relay, clash>>

Client ==
  \/ \E d \in Directions : Move(d)
  \/ \E d \in Directions, ms \in Nudges : Impulse(d, ms)
  \/ \E text \in Directions \cup Positions : SetState(text)
  \/ Toggle \/ StopCommand \/ Refused

Callback ==
  \/ EndOfTravel \/ EndOfImpulse \/ NudgeOver
  \/ \E d \in Directions : PauseOver(d)
  \/ \E o \in OrphanIds : OrphanOver(o)

Next == Client \/ Callback \/ Tick \/ SaveStateCache \/ Restart

Spec == Init /\ [][Next]_vars

\* The event loop runs the timers that are due, and time passes.
FairSpec == Spec /\ WF_vars(Callback) /\ WF_vars(Tick)

-----------------------------------------------------------------------------
(* Properties                                                              *)

\* With held relays and before any restart, the relays follow the direction
\* the server believes in and were never on together, whatever the order of
\* commands, pauses, forgotten pause timers and nudges.
RelaysFollowSens ==
  restarts = 0 => /\ \A d \in Directions : relay[d] <=> sens = d
                  /\ ~clash

\* A moving motor always has the timer that will stop it, and it is not late:
\* the ticks run and the ticks left add up to the travel time.
RunIsTimed ==
  restarts = 0 => /\ sens = Halted <=> timerEnd = Off
                  /\ sens # Halted => ran + timerEnd = Travel

\* With impulses, no relay is on without the timer that switches it off, until a
\* restart, which forgets the timer and not the relay.
RelayIsPulsed ==
  restarts = 0 /\ (\E d \in Directions : relay[d]) => timerImpulse # Off

\* The position that is answered changes when a client sets it, when a restart
\* restores a saved one, or when the motor has run its whole travel towards
\* that position without a break.
PositionIsEarned ==
  [][stateVolet' # stateVolet =>
       \/ asked' = "set_state" /\ UNCHANGED <<sens, relay>>
       \/ restarts' # restarts /\ stateVolet' \in {disk.stateVolet, cache.stateVolet}
       \/ /\ sens # Halted /\ ran = Travel
          /\ stateVolet' = Position(sens) /\ sens' = Halted]_vars

\* Whatever was saved before a restart, the two held relays are never left on
\* together once a command is over.
NeverBothLeftOn == ~(relay[Up] /\ relay[Down])

\* The motor does not run for ever: it halts again and again until a restart.
MotorHalts == []<>(sens = Halted \/ restarts > 0)

\* ioDoc: "stop" is "Stop the shutter".  Once asked to stop, the shutter does
\* not move again before another command.
StopHolds == asked = "stop" => sens = Halted

\* ioDoc: "impulse up 200" is "Open shutter for X ms".  A nudge shorter than
\* the travel does not run longer than it was asked to.
NudgeIsBrief ==
  asked = "impulse" /\ nudge + ImpulseTime < Travel
    => ran <= nudge + ImpulseTime
=============================================================================
