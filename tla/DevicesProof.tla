---------------------------- MODULE DevicesProof ----------------------------
(***************************************************************************)
(* What shutters, lights and dimmers keep for every time, pattern and      *)
(* command, and what a house keeps because its devices do.                 *)
(*                                                                         *)
(* TypeOK of a shutter is not inductive: TimerEnd() records the direction of *)
(* the motor, which is a direction only because a running timer_end means a *)
(* moving motor.  Timed says so, together with the time already run.       *)
(*                                                                         *)
(* PositionIsTrue is not inductive: it only speaks of a shutter that       *)
(* stands still.  EstimateIsTrue says that while the motor runs the        *)
(* estimate is where the shutter is, and that a calibration has time       *)
(* enough to open it; SmartRelaysAreTimed ties the relays to both.         *)
(*                                                                         *)
(* A release of a dimmer reads what the press and its timer have left in   *)
(* two members, which PressIsKnown says.  An impulse of a light ends       *)
(* because its timer is the only one, and is the one that is named.  A     *)
(* pattern that ends with "old" gives back what it found because it is read *)
(* step by step, each of them going on with the next: GivesBack.           *)
(***************************************************************************)
EXTENDS MCDevices, ThermostatProof, ButtonsProof, ScenarioProof, TLAPS

-----------------------------------------------------------------------------
(* A shutter                                                               *)

Timed == timerEnd # Off => sens # Halted /\ ran + timerEnd = Travel

IInv == TypeOK /\ Timed

\* Up() and Down() of a stopped shutter leave typed timers and a full travel
LEMMA StartKeepsTypes ==
  ASSUME TypeOK, NEW d \in Directions, NEW impulse, NEW ms \in Nudges \cup {0},
         Start(d, impulse, ms)
  PROVE  /\ sens' = d /\ timerEnd' = Travel /\ ran' = 0
         /\ sens' \in Senses /\ timerEnd' \in Off..Travel /\ ran' \in 0..Travel
         /\ sens' # Halted /\ ran' + timerEnd' = Travel
         /\ relay' \in Relays /\ clash' \in BOOLEAN
         /\ timerImpulse' \in Off..ImpulseTime
         /\ timerPause' \in PauseTimers
         /\ nudgeStops' \subseteq Nat
  <1>1. /\ relay' \in Relays /\ clash' \in BOOLEAN
        /\ timerImpulse' \in Off..ImpulseTime
        /\ timerPause' \in PauseTimers
        /\ nudgeStops' \subseteq Nat
    BY ShutterAssumption
    DEF TypeOK, Start, SwitchRelays, ArmPulse, Directions, Relays,
        PauseTimers, Off, Pause
  <1>2. sens' = d /\ timerEnd' = Travel /\ ran' = 0
    BY DEF Start, ArmTravel
  <1> QED
    BY <1>1, <1>2, ShutterAssumption DEF Senses, Directions, Halted, Up, Down, Off

\* Stop() of a moving shutter leaves it at rest with no travel timer
LEMMA HaltKeepsTypes ==
  ASSUME TypeOK, HaltMotor
  PROVE  /\ sens' = Halted /\ timerEnd' = Off /\ ran' = 0
         /\ relay' \in Relays /\ clash' \in BOOLEAN
         /\ timerImpulse' \in Off..ImpulseTime
  <1>1. relay' \in Relays
    BY DEF TypeOK, HaltMotor, SwitchToStop, Directions, Relays
  <1>2. clash' \in BOOLEAN
    BY Zenon DEF TypeOK, HaltMotor, SwitchToStop
  <1> QED
    BY <1>1, <1>2, ShutterAssumption DEF TypeOK, HaltMotor, ArmPulse, Off

\* A pause timer that replaces another one leaves the old one to the orphans
LEMMA ArmPauseKeepsTypes ==
  ASSUME TypeOK, NEW d \in Directions, ArmPause(d)
  PROVE  /\ timerPause' \in PauseTimers
         /\ orphans' \in OrphanTimers
  <1>1. timerPause' \in PauseTimers
    BY ShutterAssumption DEF TypeOK, ArmPause, PauseTimers, Off, Pause
  <1>2. ASSUME UNCHANGED orphans PROVE orphans' \in OrphanTimers
    BY <1>2 DEF TypeOK
  <1>3. ASSUME NEW o \in OrphanIds,
               orphans' = [orphans EXCEPT ![o] = Orphan(d, timerPause[d])]
        PROVE  orphans' \in OrphanTimers
    <2>1. Orphan(d, timerPause[d]) \in [dir : Directions, left : Off..Pause]
      BY DEF TypeOK, PauseTimers, Orphan
    <2> QED BY <1>3, <2>1 DEF TypeOK, OrphanTimers
  <1> QED BY <1>1, <1>2, <1>3 DEF ArmPause

\* Stop() that leaves the pause timers alone
LEMMA HaltKeepsAllTypes ==
  ASSUME TypeOK, Halt, KeepPauses
  PROVE  /\ sens' \in Senses /\ timerEnd' \in Off..Travel
         /\ timerEnd' = Off /\ ran' \in 0..Travel
         /\ relay' \in Relays /\ clash' \in BOOLEAN
         /\ timerImpulse' \in Off..ImpulseTime
         /\ timerPause' \in PauseTimers /\ orphans' \in OrphanTimers
         /\ nudgeStops' \subseteq Nat
  <1>1. /\ sens' = Halted /\ timerEnd' = Off /\ ran' = 0
        /\ relay' \in Relays /\ clash' \in BOOLEAN
        /\ timerImpulse' \in Off..ImpulseTime
    BY HaltKeepsTypes DEF Halt
  <1>2. /\ timerPause' \in PauseTimers /\ orphans' \in OrphanTimers
        /\ nudgeStops' \subseteq Nat
    BY DEF Halt, KeepPauses, TypeOK
  <1> QED BY <1>1, <1>2, ShutterAssumption DEF Senses, Off

\* updateCache() copies typed values
LEMMA UpdateCacheKeepsTypes ==
  ASSUME sens' \in Senses, oldSens' \in Directions, stateVolet' \in Positions,
         UpdateCache
  PROVE  cache' \in Cached
  BY DEF UpdateCache, Cached

\* UpWait() and DownWait() keep the types, whichever of their branches runs
LEMMA WaitKeepsTypes ==
  ASSUME TypeOK, NEW d \in Directions, NEW impulse, NEW ms \in Nudges \cup {0},
         Wait(d, impulse, ms)
  PROVE  /\ sens' \in Senses
         /\ timerEnd' \in Off..Travel
         /\ timerEnd' # Off => sens' # Halted /\ ran' + timerEnd' = Travel
         /\ ran' \in 0..Travel
         /\ relay' \in Relays /\ clash' \in BOOLEAN
         /\ timerImpulse' \in Off..ImpulseTime
         /\ timerPause' \in PauseTimers
         /\ orphans' \in OrphanTimers
         /\ nudgeStops' \subseteq Nat
  <1>1. CASE Start(d, impulse, ms) /\ UNCHANGED orphans
    BY <1>1, StartKeepsTypes DEF TypeOK
  <1>2. CASE Halt /\ KeepPauses
    BY <1>2, HaltKeepsAllTypes
  <1>3. CASE Halt /\ ArmPause(d)
    BY <1>3, HaltKeepsTypes, ArmPauseKeepsTypes, ShutterAssumption
    DEF TypeOK, Senses, Halt, Off
  <1> QED BY <1>1, <1>2, <1>3 DEF Wait

\* The constructor of the shutter establishes the typing invariant
THEOREM InitInv == Init => IInv
  <1> SUFFICES ASSUME Init PROVE IInv
    OBVIOUS
  <1>1. relay \in Relays /\ timerPause \in PauseTimers
    BY ShutterAssumption DEF Init, Relays, PauseTimers, Off, Pause
  <1>2. orphans \in OrphanTimers
    BY ShutterAssumption DEF Init, OrphanTimers, Orphan, Directions, Off, Pause
  <1>3. cache \in Cached /\ disk \in Cached
    BY DEF Init, Cached, Senses, Directions, Positions
  <1>4. /\ sens \in Senses /\ oldSens \in Directions /\ stateVolet \in Positions
        /\ asked \in Commands
    BY DEF Init, Senses, Directions, Positions, Commands
  <1>5. /\ timerEnd = Off /\ timerEnd \in Off..Travel
        /\ timerImpulse \in Off..ImpulseTime
        /\ restarts \in 0..MaxRestarts /\ ran \in 0..Travel
    BY ShutterAssumption DEF Init, Off
  <1>6. /\ isImpulse \in BOOLEAN /\ nudge \in Nudges \cup {0}
        /\ nudgeStops \subseteq Nat /\ clash \in BOOLEAN
    BY DEF Init
  <1> QED
    BY <1>1, <1>2, <1>3, <1>4, <1>5, <1>6 DEF IInv, TypeOK, Timed

\* Every command, callback, tick, save and restart keeps the typing invariant
THEOREM StepInv == IInv /\ [Next]_vars => IInv'
  <1> SUFFICES ASSUME IInv, [Next]_vars PROVE IInv'
    OBVIOUS
  <1> USE DEF IInv, Timed
  <1>1. ASSUME NEW d \in Directions, Move(d) PROVE IInv'
    <2>1. Wait(d, FALSE, 0) /\ UpdateCache
      BY <1>1 DEF Move
    <2>2. cache' \in Cached
      BY <1>1, <2>1, WaitKeepsTypes, UpdateCacheKeepsTypes DEF Move, TypeOK
    <2> QED
      BY <1>1, <2>1, <2>2, WaitKeepsTypes
      DEF Move, TypeOK, Commands, Senses
  <1>2. ASSUME NEW d \in Directions, NEW ms \in Nudges, Impulse(d, ms)
        PROVE  IInv'
    <2>1. Wait(d, TRUE, ms) /\ UpdateCache
      BY <1>2 DEF Impulse
    <2>2. cache' \in Cached
      BY <1>2, <2>1, WaitKeepsTypes, UpdateCacheKeepsTypes DEF Impulse, TypeOK
    <2> QED
      BY <1>2, <2>1, <2>2, WaitKeepsTypes DEF Impulse, TypeOK, Commands
  <1>3. CASE Toggle
    <2>1. CASE sens # Halted
      <3>1. Halt /\ KeepPauses /\ oldSens' = sens
        BY <1>3, <2>1 DEF Toggle
      <3>2. cache' \in Cached
        BY <1>3, <2>1, <3>1, HaltKeepsTypes, UpdateCacheKeepsTypes
        DEF Toggle, TypeOK, Halt, Senses
      <3> QED
        BY <1>3, <2>1, <3>1, <3>2, HaltKeepsAllTypes
        DEF Toggle, TypeOK, Senses, Commands
    <2>2. CASE sens = Halted
      <3>1. /\ Start(Opposite(oldSens), FALSE, 0)
            /\ Opposite(oldSens) \in Directions
            /\ UNCHANGED <<oldSens, orphans>>
        BY <1>3, <2>2 DEF Toggle, TypeOK, Opposite, Directions
      <3>2. cache' \in Cached
        BY <1>3, <3>1, StartKeepsTypes, UpdateCacheKeepsTypes
        DEF Toggle, TypeOK, Senses
      <3> QED
        BY <1>3, <3>1, <3>2, StartKeepsTypes DEF Toggle, TypeOK, Commands
    <2> QED BY <2>1, <2>2
  <1>4. CASE StopCommand
    <2>1. CASE sens # Halted
      <3>1. Halt /\ KeepPauses /\ UpdateCache
        BY <1>4, <2>1 DEF StopCommand
      <3>2. cache' \in Cached
        BY <1>4, <3>1, HaltKeepsTypes, UpdateCacheKeepsTypes
        DEF StopCommand, TypeOK, Senses, Halt
      <3> QED
        BY <1>4, <3>1, <3>2, HaltKeepsAllTypes
        DEF StopCommand, TypeOK, Senses, Commands, Halted
    <2>2. CASE sens = Halted
      BY <1>4, <2>2 DEF StopCommand, TypeOK, timers, Commands, Senses, Halted
    <2> QED BY <2>1, <2>2
  <1>5. ASSUME NEW text \in Directions \cup Positions, SetState(text)
        PROVE  IInv'
    <2>1. stateVolet' \in Positions
      BY <1>5 DEF SetState, TypeOK, Position, Positions
    <2>2. cache' \in Cached
      BY <1>5, <2>1, UpdateCacheKeepsTypes DEF SetState, TypeOK
    <2> QED BY <1>5, <2>1, <2>2 DEF SetState, TypeOK, timers, Commands
  <1>6. CASE Refused
    BY <1>6 DEF Refused, TypeOK, timers
  <1>7. CASE EndOfTravel
    <2>1. sens \in Directions
      BY <1>7 DEF EndOfTravel, TypeOK, Senses, Off
    <2>2. /\ stateVolet' \in Positions /\ oldSens' \in Directions
          /\ Halt /\ KeepPauses /\ UpdateCache
      BY <1>7, <2>1 DEF EndOfTravel, Position, Positions
    <2>3. cache' \in Cached
      BY <2>2, HaltKeepsTypes, UpdateCacheKeepsTypes DEF Halt, Senses
    <2> QED
      BY <1>7, <2>2, <2>3, HaltKeepsTypes, ShutterAssumption
      DEF EndOfTravel, TypeOK, Halt, KeepPauses, Senses, Off
  <1>8. CASE EndOfImpulse
    BY <1>8, ShutterAssumption DEF EndOfImpulse, TypeOK, Relays, motion, Off
  <1>9. CASE NudgeOver
    <2>1. CASE sens # Halted
      <3>1. HaltMotor /\ KeepPauses /\ UpdateCache
        BY <1>9, <2>1 DEF NudgeOver
      <3>2. cache' \in Cached
        BY <1>9, <3>1, HaltKeepsTypes, UpdateCacheKeepsTypes
        DEF NudgeOver, TypeOK, Senses
      <3> QED
        BY <1>9, <3>1, <3>2, HaltKeepsTypes, ShutterAssumption
        DEF NudgeOver, TypeOK, KeepPauses, Senses, Off
    <2>2. CASE sens = Halted
      BY <1>9, <2>2 DEF NudgeOver, TypeOK, KeepPauses
    <2> QED BY <2>1, <2>2
  <1>10. ASSUME NEW d \in Directions, PauseOver(d) PROVE IInv'
    <2>1. CASE sens = Halted
      <3>1. Start(d, isImpulse, nudge) /\ nudge \in Nudges \cup {0}
        BY <1>10, <2>1 DEF PauseOver, TypeOK
      <3>2. cache' \in Cached
        BY <1>10, <3>1, StartKeepsTypes, UpdateCacheKeepsTypes
        DEF PauseOver, TypeOK, Senses
      <3> QED
        BY <1>10, <3>1, <3>2, StartKeepsTypes
        DEF PauseOver, TypeOK
    <2>2. CASE sens # Halted
      <3>1. Halt /\ timerPause' \in PauseTimers
        BY <1>10, <2>2, ShutterAssumption DEF PauseOver, TypeOK, PauseTimers, Off, Pause
      <3>2. cache' \in Cached
        BY <1>10, <3>1, HaltKeepsTypes, UpdateCacheKeepsTypes
        DEF PauseOver, TypeOK, Senses, Halt
      <3> QED
        BY <1>10, <3>1, <3>2, HaltKeepsTypes, ShutterAssumption
        DEF PauseOver, TypeOK, Halt, Senses, Off
    <2> QED BY <2>1, <2>2
  <1>11. ASSUME NEW o \in OrphanIds, OrphanOver(o) PROVE IInv'
    <2>1. /\ orphans' \in OrphanTimers
          /\ orphans[o].dir \in Directions
      <3>1. Orphan(orphans[o].dir, Pause) \in [dir : Directions, left : Off..Pause]
        BY ShutterAssumption DEF TypeOK, OrphanTimers, Orphan, Off, Pause
      <3> QED BY <1>11, <3>1 DEF OrphanOver, TypeOK, OrphanTimers
    <2>2. CASE sens = Halted
      <3>1. Start(orphans[o].dir, isImpulse, nudge) /\ nudge \in Nudges \cup {0}
        BY <1>11, <2>2 DEF OrphanOver, TypeOK
      <3>2. cache' \in Cached
        BY <1>11, <2>1, <3>1, StartKeepsTypes, UpdateCacheKeepsTypes
        DEF OrphanOver, TypeOK, Senses
      <3> QED
        BY <1>11, <2>1, <3>1, <3>2, StartKeepsTypes
        DEF OrphanOver, TypeOK
    <2>3. CASE sens # Halted
      <3>1. Halt /\ UNCHANGED timerPause
        BY <1>11, <2>3 DEF OrphanOver
      <3>2. cache' \in Cached
        BY <1>11, <3>1, HaltKeepsTypes, UpdateCacheKeepsTypes
        DEF OrphanOver, TypeOK, Senses, Halt
      <3> QED
        BY <1>11, <2>1, <3>1, <3>2, HaltKeepsTypes, ShutterAssumption
        DEF OrphanOver, TypeOK, Halt, Senses, Off
    <2> QED BY <2>2, <2>3
  <1>12. CASE Tick
    <2>1. /\ timerEnd' \in Off..Travel /\ timerImpulse' \in Off..ImpulseTime
          /\ timerEnd # 0 /\ timerImpulse # 0
      BY <1>12, ShutterAssumption DEF Tick, Due, Elapse, TypeOK, Off
    <2>2. timerPause' \in PauseTimers
      <3>1. ASSUME NEW d \in Directions
            PROVE  Elapse(timerPause[d]) \in Off..Pause
        BY <1>12, ShutterAssumption
        DEF Tick, Due, Elapse, TypeOK, PauseTimers, Off, Pause
      <3> QED BY <1>12, <3>1 DEF Tick, PauseTimers
    <2>3. orphans' \in OrphanTimers
      <3>1. ASSUME NEW o \in OrphanIds
            PROVE  Orphan(orphans[o].dir, Elapse(orphans[o].left))
                      \in [dir : Directions, left : Off..Pause]
        <4>1. /\ orphans[o].dir \in Directions /\ orphans[o].left \in Off..Pause
              /\ orphans[o].left # 0
          BY <1>12 DEF Tick, Due, TypeOK, OrphanTimers
        <4>2. Elapse(orphans[o].left) \in Off..Pause
          BY <4>1, ShutterAssumption DEF Elapse, Off, Pause
        <4> QED BY <4>1, <4>2 DEF Orphan
      <3> QED BY <1>12, <3>1 DEF Tick, OrphanTimers
    <2>4. nudgeStops' \subseteq Nat
      <3>1. \A left \in nudgeStops : left \in Nat /\ left # 0
        BY <1>12 DEF Tick, Due, TypeOK
      <3>2. nudgeStops' = {left - 1 : left \in nudgeStops}
        BY <1>12 DEF Tick
      <3> QED BY <3>1, <3>2
    <2>5. /\ ran' \in 0..Travel
          /\ timerEnd' # Off => sens # Halted /\ ran' + timerEnd' = Travel
      BY <1>12, <2>1, ShutterAssumption DEF Tick, Elapse, TypeOK, Off
    <2> QED
      BY <1>12, <2>1, <2>2, <2>3, <2>4, <2>5 DEF Tick, TypeOK, motion
  <1>13. CASE SaveStateCache
    BY <1>13 DEF SaveStateCache, TypeOK, motion, timers
  <1>14. CASE Restart
    <2>1. disk' \in Cached
      BY <1>14 DEF Restart, TypeOK
    <2>2. orphans' \in OrphanTimers
      <3>1. ASSUME NEW o \in OrphanIds
            PROVE  Orphan(orphans[o].dir, Off) \in [dir : Directions, left : Off..Pause]
        BY ShutterAssumption DEF TypeOK, OrphanTimers, Orphan, Off, Pause
      <3> QED BY <1>14, <3>1 DEF Restart, OrphanTimers
    <2>3. timerPause' \in PauseTimers
      BY <1>14, ShutterAssumption DEF Restart, PauseTimers, Off, Pause
    <2>4. /\ sens' \in Senses /\ oldSens' \in Directions
          /\ stateVolet' \in Positions
      BY <1>14, <2>1 DEF Restart, Cached
    <2>5. /\ timerEnd' = Off /\ timerEnd' \in Off..Travel
          /\ timerImpulse' \in Off..ImpulseTime
          /\ restarts' \in 0..MaxRestarts /\ ran' \in 0..Travel
      BY <1>14, ShutterAssumption DEF Restart, TypeOK, Off
    <2> QED
      BY <1>14, <2>1, <2>2, <2>3, <2>4, <2>5 DEF Restart, TypeOK, Commands
  <1>15. CASE UNCHANGED vars
    BY <1>15 DEF vars, TypeOK
  <1> QED
    BY <1>1, <1>2, <1>3, <1>4, <1>5, <1>6, <1>7, <1>8, <1>9, <1>10, <1>11,
       <1>12, <1>13, <1>14, <1>15
    DEF Next, Client, Callback

\* The types of every variable hold in every reachable state.
THEOREM TypeCorrect == Spec => []TypeOK
  <1>1. IInv => TypeOK
    BY DEF IInv
  <1> QED BY InitInv, StepInv, <1>1, PTL DEF Spec
-----------------------------------------------------------------------------
(* Held relays.  HeldInv adds to IInv what the server keeps until it        *)
(* restarts: a moving motor has its timer, and no impulse ever cuts a relay. *)

HeldInv == IInv /\ (restarts = 0 => RelaysFollowSens /\ RunIsTimed /\ timerImpulse = Off)

\* Up() and Down() of a stopped shutter: the relays follow, the run is timed
LEMMA StartFollows ==
  ASSUME ImpulseTime = 0, IInv, restarts = 0, RelaysFollowSens,
         timerImpulse = Off, sens = Halted,
         NEW d \in Directions, NEW impulse, NEW ms, Start(d, impulse, ms)
  PROVE  (\A r \in Directions : relay'[r] <=> sens' = r) /\ ~clash'
         /\ sens' # Halted /\ timerEnd' # Off /\ ran' + timerEnd' = Travel
         /\ timerImpulse' = Off
  <1>1. \A r \in Directions : relay'[r] <=> sens' = r
    BY DEF Start, SwitchRelays
  <1>2. ~clash'
    <2>1. ~clash /\ ~relay[Down]
      BY DEF RelaysFollowSens, Directions, Down, Halted
    <2> QED BY <2>1, Zenon DEF Start, SwitchRelays
  <1> QED
    BY <1>1, <1>2, ShutterAssumption
    DEF Start, ArmTravel, ArmPulse, Directions, Up, Down, Halted, Off

\* Stop() of a moving shutter: no relay is on, no travel timer is left
LEMMA HaltFollows ==
  ASSUME ImpulseTime = 0, restarts = 0, RelaysFollowSens,
         timerImpulse = Off, HaltMotor
  PROVE  (\A r \in Directions : relay'[r] <=> sens' = r) /\ ~clash'
         /\ sens' = Halted /\ timerEnd' = Off /\ timerImpulse' = Off
  <1>1. relay' = [r \in Directions |-> FALSE] /\ sens' = Halted
    BY DEF HaltMotor, SwitchToStop
  <1>2. \A r \in Directions : relay'[r] <=> sens' = r
    BY <1>1 DEF Directions, Up, Down, Halted
  <1>3. ~clash'
    <2>1. ~relay'[Up] /\ ~clash
      BY <1>1 DEF Directions, RelaysFollowSens
    <2> QED BY <2>1, Zenon DEF HaltMotor, SwitchToStop
  <1> QED BY <1>1, <1>2, <1>3 DEF HaltMotor, ArmPulse

\* A restart is counted and never forgotten
LEMMA RestartsAreCounted ==
  ASSUME TypeOK, [Next]_vars, restarts' = 0
  PROVE  restarts = 0 /\ ~Restart
  <1>1. ~Restart
    BY DEF Restart, TypeOK
  <1> QED
    BY <1>1
    DEF Next, Client, Callback, Move, Impulse, Toggle, StopCommand, SetState,
        Refused, EndOfTravel, EndOfImpulse, NudgeOver, PauseOver, OrphanOver,
        Tick, SaveStateCache, vars

\* Held relays, before a restart: every step keeps relays, direction and
\* travel timer together, also the callbacks of forgotten pause timers
THEOREM StepHeld ==
  ASSUME ImpulseTime = 0
  PROVE  HeldInv /\ [Next]_vars => HeldInv'
  <1> SUFFICES ASSUME HeldInv, [Next]_vars, restarts' = 0
               PROVE  (RelaysFollowSens /\ RunIsTimed /\ timerImpulse = Off)'
    BY StepInv DEF HeldInv
  <1>0. IInv /\ restarts = 0 /\ RelaysFollowSens /\ RunIsTimed
          /\ timerImpulse = Off /\ ~Restart
    BY RestartsAreCounted DEF HeldInv, IInv
  <1> USE <1>0
  <1> DEFINE Follows == (\A r \in Directions : relay'[r] <=> sens' = r) /\ ~clash'
             TimedStep == /\ sens' = Halted <=> timerEnd' = Off
                          /\ sens' # Halted => ran' + timerEnd' = Travel
                          /\ timerImpulse' = Off
  <1> SUFFICES Follows /\ TimedStep
    BY DEF RelaysFollowSens, RunIsTimed
  <1>1. ASSUME NEW d \in Directions, NEW impulse, NEW ms, Wait(d, impulse, ms)
        PROVE  Follows /\ TimedStep
    BY <1>1, StartFollows, HaltFollows DEF Wait, Halt
  <1>2. CASE Toggle
    <2>1. Opposite(oldSens) \in Directions
      BY DEF Opposite, Directions
    <2> QED BY <1>2, <2>1, StartFollows, HaltFollows DEF Toggle, Halt
  <1>3. CASE StopCommand \/ NudgeOver
    BY <1>3, HaltFollows
    DEF StopCommand, NudgeOver, Halt, timers, RelaysFollowSens, RunIsTimed
  <1>4. CASE EndOfTravel
    BY <1>4, HaltFollows DEF EndOfTravel, Halt
  <1>5. CASE EndOfImpulse
    BY <1>5 DEF EndOfImpulse, Off
  <1>6. ASSUME NEW d \in Directions, PauseOver(d) PROVE Follows /\ TimedStep
    BY <1>6, StartFollows, HaltFollows DEF PauseOver, Halt
  <1>7. ASSUME NEW o \in OrphanIds, OrphanOver(o) PROVE Follows /\ TimedStep
    <2>1. orphans[o].dir \in Directions
      BY DEF IInv, TypeOK, OrphanTimers
    <2> QED BY <1>7, <2>1, StartFollows, HaltFollows DEF OrphanOver, Halt
  <1>8. CASE Tick
    <2>1. Follows
      BY <1>8 DEF Tick, motion, RelaysFollowSens
    <2>2. TimedStep
      BY <1>8, ShutterAssumption
      DEF Tick, Due, Elapse, motion, RunIsTimed, IInv, TypeOK, Off
    <2> QED BY <2>1, <2>2
  <1>9. ASSUME UNCHANGED <<sens, relay, timerEnd, timerImpulse, ran, clash>>
        PROVE  Follows /\ TimedStep
    BY <1>9 DEF RelaysFollowSens, RunIsTimed
  <1>10. CASE SaveStateCache
    BY <1>9, <1>10 DEF SaveStateCache, motion, timers
  <1>11. CASE \E text \in Directions \cup Positions : SetState(text)
    BY <1>9, <1>11 DEF SetState, timers
  <1>12. CASE Refused \/ UNCHANGED vars
    BY <1>9, <1>12 DEF Refused, timers, vars
  <1> QED
    BY <1>1, <1>2, <1>3, <1>4, <1>5, <1>6, <1>7, <1>8, <1>10, <1>11, <1>12
    DEF Next, Client, Callback, Move, Impulse

\* Until a restart the two held relays are never on together, follow the
\* direction of the motor, and a moving motor has the timer that stops it.
THEOREM HeldRelaysSafe ==
  ASSUME ImpulseTime = 0
  PROVE  Spec => [](RelaysFollowSens /\ RunIsTimed)
  <1>1. Init => HeldInv
    BY InitInv, ShutterAssumption
    DEF Init, HeldInv, RelaysFollowSens, RunIsTimed, Directions, Halted, Up, Down
  <1>2. HeldInv => RelaysFollowSens /\ RunIsTimed
    BY DEF HeldInv, RelaysFollowSens, RunIsTimed
  <1> QED BY <1>1, <1>2, StepHeld, PTL DEF Spec

\* However many restarts, and whatever they restore, two held relays are not
\* left on together.
THEOREM NeverBothHeld ==
  ASSUME ImpulseTime = 0
  PROVE  Spec => []NeverBothLeftOn
  <1>1. Init => NeverBothLeftOn
    BY DEF Init, NeverBothLeftOn, Directions
  <1>2. ASSUME NeverBothLeftOn, [Next]_vars PROVE NeverBothLeftOn'
    <2>1. ASSUME NEW d \in Directions, NEW impulse, NEW ms, Start(d, impulse, ms)
          PROVE  NeverBothLeftOn'
      BY <2>1 DEF Start, SwitchRelays, NeverBothLeftOn, Directions, Up, Down
    <2>2. ASSUME HaltMotor PROVE NeverBothLeftOn'
      BY <2>2 DEF HaltMotor, SwitchToStop, NeverBothLeftOn, Directions
    <2>3. ASSUME UNCHANGED relay PROVE NeverBothLeftOn'
      BY <1>2, <2>3 DEF NeverBothLeftOn
    <2>4. CASE EndOfImpulse
      BY <2>4 DEF EndOfImpulse, NeverBothLeftOn, Directions
    <2>5. CASE Callback /\ ~EndOfImpulse
      <3>1. ASSUME NEW o \in OrphanIds, OrphanOver(o) PROVE NeverBothLeftOn'
        <4>1. CASE sens # Halted
          BY <2>2, <3>1, <4>1 DEF OrphanOver, Halt
        <4>2. CASE sens = Halted
          BY <3>1, <4>2
          DEF OrphanOver, Start, SwitchRelays, NeverBothLeftOn, Directions, Up, Down
        <4> QED BY <4>1, <4>2
      <3> QED
        BY <2>1, <2>2, <2>3, <2>5, <3>1
        DEF Callback, EndOfTravel, NudgeOver, PauseOver, Halt
    <2>6. CASE Client
      <3>1. CASE Toggle
        <4>1. Opposite(oldSens) \in Directions
          BY DEF Opposite, Directions
        <4> QED BY <2>1, <2>2, <3>1, <4>1 DEF Toggle, Halt
      <3> QED
        BY <2>1, <2>2, <2>3, <2>6, <3>1
        DEF Client, Move, Impulse, StopCommand, SetState, Refused, Wait, Halt
    <2> QED
      BY <1>2, <2>3, <2>4, <2>5, <2>6
      DEF Next, Tick, SaveStateCache, Restart, vars
  <1> QED BY <1>1, <1>2, PTL DEF Spec

\* Until a restart, pulsed relays: whatever the order of commands, pauses and
\* nudges, a relay that is on has the timer that switches it off.
THEOREM PulsesEnd ==
  ASSUME ImpulseTime # 0
  PROVE  Spec => []RelayIsPulsed
  <1>1. Init => RelayIsPulsed
    BY DEF Init, RelayIsPulsed
  <1>2. ASSUME IInv, RelayIsPulsed, [Next]_vars PROVE RelayIsPulsed'
    <2>0. CASE Restart
      <3>1. restarts \in Nat /\ restarts' = restarts + 1
        BY <1>2, <2>0, ShutterAssumption DEF IInv, TypeOK, Restart
      <3> QED BY <3>1 DEF RelayIsPulsed
    <2>a. ASSUME ArmPulse PROVE timerImpulse' # Off
      BY <1>2, <2>a, ShutterAssumption DEF ArmPulse, Off
    <2>1. ASSUME NEW d, NEW impulse, NEW ms, Start(d, impulse, ms) PROVE RelayIsPulsed'
      BY <2>a, <2>1 DEF Start, RelayIsPulsed
    <2>2. ASSUME HaltMotor PROVE RelayIsPulsed'
      BY <2>a, <2>2 DEF HaltMotor, RelayIsPulsed
    <2>3. ASSUME UNCHANGED <<relay, timerImpulse, restarts>> PROVE RelayIsPulsed'
      BY <1>2, <2>3 DEF RelayIsPulsed
    <2>4. CASE EndOfImpulse
      BY <2>4 DEF EndOfImpulse, RelayIsPulsed
    <2>5. ASSUME NEW d, NEW impulse, NEW ms, Wait(d, impulse, ms) PROVE RelayIsPulsed'
      BY <2>1, <2>2, <2>5 DEF Wait, Halt
    <2>6. CASE Toggle \/ StopCommand \/ NudgeOver \/ EndOfTravel
      BY <2>1, <2>2, <2>3, <2>6
      DEF Toggle, StopCommand, NudgeOver, EndOfTravel, Halt, timers
    <2>7. ASSUME NEW d \in Directions, PauseOver(d) PROVE RelayIsPulsed'
      BY <2>1, <2>2, <2>7 DEF PauseOver, Halt
    <2>8. ASSUME NEW o \in OrphanIds, OrphanOver(o) PROVE RelayIsPulsed'
      BY <2>1, <2>2, <2>8 DEF OrphanOver, Halt
    <2>9. CASE Tick
      <3>1. timerImpulse \in Off..ImpulseTime /\ timerImpulse # 0
        BY <1>2, <2>9 DEF IInv, TypeOK, Tick, Due
      <3>2. timerImpulse # Off => timerImpulse' # Off
        BY <2>9, <3>1, ShutterAssumption DEF Tick, Elapse, Off
      <3> QED BY <1>2, <2>9, <3>2 DEF Tick, RelayIsPulsed
    <2>b. CASE \/ SaveStateCache \/ Refused \/ UNCHANGED vars
               \/ \E text \in Directions \cup Positions : SetState(text)
      BY <2>3, <2>b DEF SaveStateCache, Refused, SetState, timers, vars
    <2> QED
      BY <1>2, <2>0, <2>4, <2>5, <2>6, <2>7, <2>8, <2>9, <2>b
      DEF Next, Client, Callback, Move, Impulse
  <1> QED BY <1>1, <1>2, InitInv, StepInv, PTL DEF Spec

\* The position that is answered changes only on request, by what a restart
\* restores, or at the end of a whole travel.
THEOREM PositionEarned == Spec => PositionIsEarned
  <1> DEFINE Earned == stateVolet' # stateVolet =>
               \/ asked' = "set_state" /\ UNCHANGED <<sens, relay>>
               \/ /\ restarts' # restarts
                  /\ stateVolet' \in {disk.stateVolet, cache.stateVolet}
               \/ /\ sens # Halted /\ ran = Travel
                  /\ stateVolet' = Position(sens) /\ sens' = Halted
  <1>1. ASSUME IInv, [Next]_vars PROVE Earned
    <2>1. CASE EndOfTravel
      <3>1. timerEnd = 0 /\ HaltMotor /\ stateVolet' = Position(sens)
        BY <2>1 DEF EndOfTravel, Halt
      <3>2. sens # Halted /\ ran + 0 = Travel
        BY <3>1, <1>1 DEF IInv, Timed, Off
      <3>3. ran = Travel
        BY <3>2, <1>1 DEF IInv, TypeOK
      <3> QED BY <3>1, <3>2, <3>3 DEF HaltMotor
    <2>2. ASSUME NEW text \in Directions \cup Positions, SetState(text)
          PROVE  Earned
      BY <2>2 DEF SetState
    <2>3. CASE Restart
      BY <1>1, <2>3 DEF Restart, IInv, TypeOK
    <2> QED
      BY <1>1, <2>1, <2>2, <2>3
      DEF Next, Client, Callback, Move, Impulse, Toggle, StopCommand, Refused,
          EndOfImpulse, NudgeOver, PauseOver, OrphanOver, Tick, SaveStateCache,
          motion, vars
  <1>2. IInv /\ [Next]_vars => [Earned]_vars
    BY <1>1
  <1> QED BY InitInv, StepInv, <1>2, PTL DEF Spec, PositionIsEarned

-----------------------------------------------------------------------------
(* A smart shutter                                                         *)

EstimateIsTrue ==
  /\ smSens # "stop" => ~Calibrating
  /\ ~smLost => /\ smSens # "stop" => smActual = Estimate
                /\ Calibrating => smActual <= smCalib * TimeDown
  /\ smPulse => smLost /\ smCalib = TimeUp

SmartInv == ~smSpoilt => SmartRelaysAreTimed /\ PositionIsTrue /\ EstimateIsTrue

-----------------------------------------------------------------------------
(* Positions                                                               *)

\* A position stays on the travel.
LEMMA BetweenBounds ==
  ASSUME NEW x \in Int, NEW high \in Nat
  PROVE  Between(0, x, high) \in 0..high
  BY DEF Between

\* The shutter meets the end of its travel once: going on from there is the
\* same as having gone past it.
LEMMA BetweenMeetsTheEnd ==
  ASSUME NEW x \in Int, NEW v \in Nat, NEW high \in Nat
  PROVE  /\ x <= high
              => Between(0, Between(0, x, high) - v + 0, high) = Between(0, x - v, high)
         /\ x >= 0
              => Between(0, Between(0, x, high) - 0 + v, high) = Between(0, x + v, high)
  BY DEF Between

LEMMA SpeedsAreNatural ==
  /\ Full \in Nat
  /\ \A d \in Sides : Speed(d) \in Nat \ {0}
  BY SmartShutterAssumption DEF Full, Speed, Sides

LEMMA LongTravelIsNatural == LongTravel \in Nat \ {0}
  BY SmartShutterAssumption DEF LongTravel

\* No travel takes longer than the longer of the two.
LEMMA TravelIsLongest ==
  \A d \in Sides : LongTravel * Speed(d) >= Full
  <1>1. TimeUp \in Nat /\ TimeDown \in Nat
    BY SmartShutterAssumption
  <1>2. TimeUp < TimeDown => TimeDown * TimeDown >= TimeUp * TimeDown
    BY <1>1
  <1>3. ~(TimeUp < TimeDown) => TimeUp * TimeUp >= TimeUp * TimeDown
    BY <1>1
  <1>4. TimeDown * TimeUp = TimeUp * TimeDown
    BY <1>1
  <1> QED BY <1>1, <1>2, <1>3, <1>4 DEF LongTravel, Full, Speed, Sides

\* The estimate is a position, whichever way the motor runs.
LEMMA EstimateIsAPosition == SmartTypeOK => Estimate \in 0..Full
  <1> SUFFICES ASSUME SmartTypeOK PROVE Estimate \in 0..Full
    OBVIOUS
  <1>1. /\ smStart - smRan * Speed("up") \in Int
        /\ smStart + smRan * Speed("down") \in Int
    BY SpeedsAreNatural DEF SmartTypeOK, Sides
  <1> QED BY <1>1, BetweenBounds, SpeedsAreNatural DEF Estimate

\* The time a movement is given is a number of ticks.
LEMMA TicksAreNatural ==
  ASSUME NEW d \in Sides, NEW steps \in Nat
  PROVE  Ticks(d, steps) \in Nat
  <1>1. PICK v \in Nat \ {0} : v = Speed(d)
    BY SpeedsAreNatural
  <1>2. PICK n \in Nat : n = steps + v - 1
    OBVIOUS
  <1>3. n \div v \in Nat
    OBVIOUS
  <1> QED BY <1>1, <1>2, <1>3 DEF Ticks

LEMMA ToGoIsNatural ==
  ASSUME SmartTypeOK, NEW d \in Sides
  PROVE  ToGo(d) \in 0..Full
  BY SpeedsAreNatural DEF SmartTypeOK, ToGo

LEMMA StepsAreIntegers ==
  ASSUME SmartTypeOK, NEW d \in Sides, NEW target \in Int
  PROVE  Steps(d, target) \in Int
  BY ToGoIsNatural, SpeedsAreNatural DEF SmartTypeOK, Steps

\* A movement is always given a timer, though one that may never fire.
LEMMA DelaysAreArmed ==
  ASSUME NEW d \in Sides, NEW steps \in Int
  PROVE  Delays(d, steps) \subseteq Nat \cup {Never}
  <1>1. CASE steps >= 0
    BY <1>1, TicksAreNatural DEF Delays
  <1>2. CASE ~(steps >= 0)
    BY <1>2 DEF Delays
  <1> QED BY <1>1, <1>2
-----------------------------------------------------------------------------
(* Types                                                                   *)

\* A moving motor that is switched off
LEMMA SmartHaltKeepsTypes ==
  ASSUME SmartTypeOK, SmartHalt
  PROVE  /\ smSens' = "stop" /\ smPosition' \in 0..Full /\ smStart' \in 0..Full
         /\ smRan' \in 0..LongTravel /\ smRelay' \in [Sides -> BOOLEAN]
         /\ smEnd' = NotArmed /\ smEvery' = 0
  BY EstimateIsAPosition, LongTravelIsNatural DEF SmartHalt, SmartTypeOK

DriveTypes ==
  /\ smSens \in Sides \cup {"stop"}
  /\ smPosition \in 0..Full /\ smStart \in 0..Full /\ smRan \in 0..LongTravel
  /\ smRelay \in [Sides -> BOOLEAN]
  /\ smEnd \in Nat \cup {NotArmed, Never} /\ smEvery \in Nat \cup {Never}
  /\ smPauses \subseteq PauseTimer /\ smStops \subseteq Nat

LEMMA DriveKeepsTypes ==
  ASSUME SmartTypeOK, NEW d \in Sides, NEW target \in Int,
         NEW length \in SmartNudges \cup {NoNudge},
         NEW pauses \in SUBSET PauseTimer, DriveFrom(d, target, length, pauses)
  PROVE  DriveTypes'
  <1>1. CASE smPauses' = pauses /\ UNCHANGED <<smDrive, smPosition, smStops>>
    BY <1>1 DEF DriveTypes, SmartTypeOK, smDrive
  <1>2. CASE SmartHalt /\ smPauses' = pauses /\ UNCHANGED smStops
    BY <1>2, SmartHaltKeepsTypes DEF DriveTypes, SmartTypeOK
  <1>3. CASE SmartStart(d, target, length, pauses)
    <2>1. smEnd' \in Nat \cup {Never}
      BY <1>3, StepsAreIntegers, DelaysAreArmed DEF SmartStart
    <2>2. smStops' \subseteq Nat
      BY <1>3, SmartShutterAssumption DEF SmartStart, SmartTypeOK
    <2>3. smRelay' \in [Sides -> BOOLEAN] /\ smPauses' \subseteq PauseTimer
      BY <1>3 DEF SmartStart
    <2> QED
      BY <1>3, <2>1, <2>2, <2>3, LongTravelIsNatural
      DEF SmartStart, DriveTypes, SmartTypeOK
  <1> QED BY <1>1, <1>2, <1>3 DEF DriveFrom

LEMMA WaitKeepsSmartTypes ==
  ASSUME SmartTypeOK, NEW d \in Sides, NEW length \in SmartNudges \cup {NoNudge},
         SmartWait(d, length)
  PROVE  DriveTypes'
  <1>1. CASE Drive(d, ToEnd, length)
    <2>1. ToEnd \in Int /\ smPauses \in SUBSET PauseTimer
      BY DEF ToEnd, SmartTypeOK
    <2> QED BY <1>1, <2>1, DriveKeepsTypes DEF Drive
  <1>2. CASE SmartHalt /\ UNCHANGED <<smPauses, smStops>>
    BY <1>2, SmartHaltKeepsTypes DEF DriveTypes, SmartTypeOK
  <1>3. CASE SmartHalt /\ ArmPauseTimer(d) /\ UNCHANGED smStops
    <2>1. [dir |-> d, left |-> SmartPause, named |-> TRUE] \in PauseTimer
      BY SmartShutterAssumption DEF PauseTimer
    <2>2. ASSUME NEW p \in PauseTimer
          PROVE  [p EXCEPT !.named = @ /\ p.dir # d] \in PauseTimer
      BY <2>2 DEF PauseTimer
    <2>3. smPauses' \subseteq PauseTimer
      BY <1>3, <2>1, <2>2 DEF ArmPauseTimer, SmartTypeOK
    <2> QED BY <1>3, <2>3, SmartHaltKeepsTypes DEF DriveTypes, SmartTypeOK
  <1> QED BY <1>1, <1>2, <1>3 DEF SmartWait
LEMMA SmartInitTypes == SmartInit => SmartTypeOK
  <1>1. 0 \in 0..Full /\ 0 \in 0..LongTravel
    BY SpeedsAreNatural, LongTravelIsNatural
  <1>2. [d \in Sides |-> FALSE] \in [Sides -> BOOLEAN]
    OBVIOUS
  <1>3. "up" \in Sides
    BY DEF Sides
  <1>4. {} \subseteq PauseTimer
    OBVIOUS
  <1> HIDE DEF Full, LongTravel, PauseTimer
  <1>5. /\ NotArmed \in Nat \cup {NotArmed, Never} /\ 0 \in Nat \cup {Never}
        /\ NotArmed \in 0..TimeUp \cup {NotArmed} /\ {} \subseteq Nat
    OBVIOUS
  <1> QED BY <1>1, <1>2, <1>3, <1>4, <1>5 DEF SmartInit, SmartTypeOK

LEMMA SmartStepTypes == SmartTypeOK /\ [SmartNext]_smVars => SmartTypeOK'
  <1> SUFFICES ASSUME SmartTypeOK, [SmartNext]_smVars PROVE SmartTypeOK'
    OBVIOUS
  <1>a. ASSUME DriveTypes', UNCHANGED <<smActual, smPulse, smHistory>>,
               smOldSens' \in Sides, smCalib' \in 0..TimeUp \cup {NotArmed},
               smNudge' \in SmartNudges \cup {NoNudge}
        PROVE  SmartTypeOK'
    BY <1>a DEF SmartTypeOK, DriveTypes, smHistory
  <1>b. ASSUME SmartHalt, UNCHANGED <<smPauses, smStops>> PROVE DriveTypes'
    BY <1>b, SmartHaltKeepsTypes DEF DriveTypes, SmartTypeOK
  <1>c. ASSUME UNCHANGED <<smDrive, smPosition, smPauses, smStops>> PROVE DriveTypes'
    BY <1>c DEF DriveTypes, SmartTypeOK, smDrive
  <1>d. ASSUME NEW length \in SmartNudges \cup {NoNudge}, Accepted(length)
        PROVE  /\ smCalib' \in 0..TimeUp \cup {NotArmed} /\ UNCHANGED smPulse
               /\ smNudge' \in SmartNudges \cup {NoNudge}
    BY <1>d DEF Accepted, SmartTypeOK
  <1>e. smPauses \in SUBSET PauseTimer /\ NoNudge \in SmartNudges \cup {NoNudge}
    BY DEF SmartTypeOK
  <1>f. ASSUME NEW t \in Int PROVE Between(0, t, Full) \in 0..Full
    BY BetweenBounds, SpeedsAreNatural
  <1>1. ASSUME NEW d \in Sides, NEW length \in SmartNudges \cup {NoNudge},
               Accepted(length), SmartWait(d, length),
               UNCHANGED <<smOldSens, smActual, smHistory>>
        PROVE  SmartTypeOK'
    BY <1>1, <1>a, <1>d, WaitKeepsSmartTypes DEF SmartTypeOK
  <1>2. ASSUME NEW d \in Sides, NEW target \in Int, Accepted(NoNudge),
               Drive(d, target, NoNudge),
               smOldSens' \in Sides, UNCHANGED <<smActual, smHistory>>
        PROVE  SmartTypeOK'
    BY <1>2, <1>a, <1>d, <1>e, DriveKeepsTypes DEF Drive, SmartTypeOK
  <1>3. CASE SmartToggle
    <2>1. smOldSens' \in Sides
      BY <1>3 DEF SmartToggle, SmartTypeOK
    <2>2. PICK d \in Sides : d = Other(smOldSens')
      BY <2>1 DEF Other, Sides
    <2> QED BY <1>2, <1>3, <2>1, <2>2 DEF SmartToggle, ToEnd
  <1>4. CASE SmartStopCommand
    BY <1>4, <1>a, <1>b, <1>c, <1>d, <1>e DEF SmartStopCommand, SmartStop, SmartTypeOK
  <1>5. ASSUME NEW t \in Targets, SetTarget(t) PROVE SmartTypeOK'
    <2>1. /\ t \in Int
          /\ UNCHANGED <<smOldSens, smActual, smHistory>>
          /\ smOldSens' \in Sides /\ Accepted(NoNudge)
      BY <1>5, SmartShutterAssumption DEF SetTarget, SmartTypeOK
    <2>2. CASE t < smPosition /\ Drive("up", t, NoNudge)
      BY <1>2, <2>1, <2>2 DEF Sides
    <2>3. CASE t > smPosition /\ Drive("down", t, NoNudge)
      BY <1>2, <2>1, <2>3 DEF Sides
    <2>4. CASE UNCHANGED <<smDrive, smPosition, smStops, smPauses>>
      BY <1>a, <1>c, <1>d, <1>e, <2>1, <2>4
    <2> QED BY <1>5, <2>2, <2>3, <2>4 DEF SetTarget
  <1>6. ASSUME NEW d \in Sides, NEW steps \in Percents, MoveBy(d, steps)
        PROVE  SmartTypeOK'
    <2>0. smPosition \in Int /\ steps \in Int
      BY SpeedsAreNatural, SmartShutterAssumption DEF SmartTypeOK
    <2>1. /\ smPosition - steps \in Int /\ smPosition + steps \in Int
          /\ Drive(d, IF d = "up" THEN smPosition - steps ELSE smPosition + steps, NoNudge)
      BY <2>0, <1>6 DEF MoveBy
    <2>2. CASE d = "up"
      BY <1>2, <1>6, <2>1, <2>2 DEF MoveBy, SmartTypeOK
    <2>3. CASE d # "up"
      BY <1>2, <1>6, <2>1, <2>3 DEF MoveBy, SmartTypeOK
    <2> QED BY <2>2, <2>3
  <1>7. ASSUME NEW t \in Targets, SmartSetState(t) PROVE SmartTypeOK'
    <2>1. Between(0, t, Full) \in 0..Full
      BY <1>f, SmartShutterAssumption
    <2> QED
      BY <1>7, <1>d, <1>e, <2>1 DEF SmartSetState, SmartTypeOK
  <1>8. ASSUME NEW zero \in BOOLEAN, Calibrate(zero) PROVE SmartTypeOK'
    <2>1. smCalib' \in 0..TimeUp /\ smPulse' \in BOOLEAN /\ smLost' \in BOOLEAN
          /\ smSpoilt' \in BOOLEAN /\ smRelay' \in [Sides -> BOOLEAN]
      BY <1>8, SmartShutterAssumption DEF Calibrate, SmartTypeOK
    <2> QED BY <1>8, <2>1 DEF Calibrate, SmartTypeOK
  <1>9. CASE PositionUpdate
    BY <1>9, EstimateIsAPosition DEF PositionUpdate, SmartTypeOK, smDrive, smHistory
  <1>10. CASE TimerEnd
    <2>1. smOldSens' \in Sides
      BY <1>10 DEF TimerEnd, SmartTypeOK
    <2>2. CASE SmartHalt
      BY <1>10, <1>a, <1>b, <2>1, <2>2 DEF TimerEnd, SmartTypeOK
    <2>3. CASE ~CanStop
      <3>1. CASE SmartHalt
        BY <1>10, <1>a, <1>b, <2>1, <3>1 DEF TimerEnd, SmartTypeOK
      <3>2. CASE smEnd' = (IF smEvery = 0 THEN Never ELSE smEvery)
                 /\ UNCHANGED <<smSens, smStart, smRan, smRelay, smPosition, smEvery>>
        BY <1>10, <2>1, <3>2 DEF TimerEnd, SmartTypeOK, smHistory
      <3> QED BY <1>10, <3>1, <3>2 DEF TimerEnd
    <2> QED BY <1>10, <2>2, <2>3 DEF TimerEnd
  <1>11. CASE TimerCalibrate
    BY <1>11, SpeedsAreNatural DEF TimerCalibrate, SmartTypeOK, smHistory
  <1>12. ASSUME NEW p \in smPauses, SmartPauseOver(p) PROVE SmartTypeOK'
    <2>1. p \in PauseTimer /\ p.dir \in Sides
      BY <1>e DEF PauseTimer
    <2>2. [p EXCEPT !.left = SmartPause] \in PauseTimer
      BY <2>1, SmartShutterAssumption DEF PauseTimer
    <2>3. PICK pauses \in SUBSET PauseTimer :
            pauses = (smPauses \ {p}) \cup {[p EXCEPT !.left = SmartPause]}
      BY <1>e, <2>2
    <2>4. ToEnd \in Int /\ smNudge \in SmartNudges \cup {NoNudge}
      BY DEF ToEnd, SmartTypeOK
    <2>5. DriveTypes'
      BY <1>12, <2>1, <2>3, <2>4, DriveKeepsTypes DEF SmartPauseOver
    <2> QED BY <1>12, <1>a, <2>5 DEF SmartPauseOver, SmartTypeOK
  <1>13. CASE SmartNudgeOver
    <2>1. smStops' \subseteq Nat
      BY <1>13 DEF SmartNudgeOver, SmartTypeOK
    <2>2. CASE SmartHalt
      BY <1>13, <1>a, <2>1, <2>2, SmartHaltKeepsTypes
      DEF SmartNudgeOver, SmartTypeOK, DriveTypes
    <2>3. CASE UNCHANGED <<smDrive, smPosition>>
      BY <1>13, <2>1, <2>3 DEF SmartNudgeOver, SmartTypeOK, smDrive, smHistory
    <2> QED BY <1>13, <2>2, <2>3 DEF SmartNudgeOver, SmartStop
  <1>14. CASE SmartTick
    <2>1. ASSUME NEW p \in smPauses PROVE [p EXCEPT !.left = @ - 1] \in PauseTimer
      <3>1. p \in PauseTimer /\ p.left # 0
        BY <1>14, <2>1, <1>e DEF SmartTick, SmartDue
      <3> QED BY <3>1, SmartShutterAssumption DEF PauseTimer
    <2>2. smPauses' \subseteq PauseTimer
      BY <1>14, <2>1 DEF SmartTick
    <2>3. smStops' \subseteq Nat
      BY <1>14 DEF SmartTick, SmartDue, SmartTypeOK
    <2>4. /\ smEnd' \in Nat \cup {NotArmed, Never}
          /\ smCalib' \in 0..TimeUp \cup {NotArmed}
          /\ smRan' \in 0..LongTravel
      BY <1>14, SmartShutterAssumption, LongTravelIsNatural
      DEF SmartTick, SmartDue, Older, SmartTypeOK, NotArmed, Never
    <2>5. smActual' \in 0..Full
      BY <1>14, BetweenBounds, SpeedsAreNatural DEF SmartTick, SmartTypeOK, Sides
    <2> QED BY <1>14, <2>2, <2>3, <2>4, <2>5 DEF SmartTick, SmartTypeOK, smHistory
  <1>17. CASE SmartPulseOver
    BY <1>17 DEF SmartPulseOver, SmartTypeOK, smHistory
  <1>15. CASE UNCHANGED smVars
    BY <1>15 DEF smVars, SmartTypeOK
  <1>16. CASE SmartClient
    BY <1>1, <1>2, <1>3, <1>4, <1>5, <1>6, <1>7, <1>8, <1>16, <1>e
    DEF SmartClient, SmartMove, SmartImpulse
  <1> QED
    BY <1>9, <1>10, <1>11, <1>12, <1>13, <1>14, <1>15, <1>16, <1>17
    DEF SmartNext, SmartCallback

\* The state of a smart shutter is of its type, whatever it is asked.
THEOREM SmartTypes == SmartSpec => []SmartTypeOK
  BY SmartInitTypes, SmartStepTypes, PTL DEF SmartSpec
-----------------------------------------------------------------------------
(* The relays and the position                                             *)

\* A moving motor that is switched off stands where the server says it is.
LEMMA SmartHaltKeeps ==
  ASSUME SmartInv, SmartHalt, CanStop,
         UNCHANGED <<smActual, smCalib, smPulse, smHistory>>
  PROVE  SmartInv'
  <1> SUFFICES ASSUME ~smSpoilt
               PROVE  SmartRelaysAreTimed' /\ PositionIsTrue' /\ EstimateIsTrue'
    BY DEF SmartInv, smHistory
  <1>1. ~smLost => smPosition' = smActual'
    BY DEF SmartInv, EstimateIsTrue, SmartHalt, CanStop
  <1>2. ~Calibrating'
    BY DEF CanStop, Calibrating
  <1>3. SmartRelaysAreTimed'
    BY <1>2 DEF SmartHalt, SmartRelaysAreTimed, Sides
  <1>4. ~smPulse
    BY SmartShutterAssumption DEF SmartInv, EstimateIsTrue, CanStop, Calibrating, NotArmed
  <1> QED
    BY <1>1, <1>2, <1>3, <1>4 DEF PositionIsTrue, EstimateIsTrue, SmartHalt, smHistory

\* A motor that is switched on is where it was, and has its timer.
LEMMA SmartStartKeeps ==
  ASSUME SmartTypeOK, SmartInv, NEW d \in Sides, NEW target \in Int, NEW length, NEW pauses,
         smSens = "stop", ~Calibrating, SmartStart(d, target, length, pauses),
         UNCHANGED <<smActual, smCalib, smPulse, smHistory>>
  PROVE  SmartInv'
  <1> SUFFICES ASSUME ~smSpoilt
               PROVE  SmartRelaysAreTimed' /\ PositionIsTrue' /\ EstimateIsTrue'
    BY DEF SmartInv, smHistory
  <1>1. ~Calibrating' /\ smSens' = d /\ d # "stop"
    BY DEF Calibrating, SmartStart, Sides
  <1>2. smEnd' # NotArmed
    BY StepsAreIntegers, DelaysAreArmed DEF SmartStart, NotArmed, Never
  <1>3. SmartRelaysAreTimed'
    BY <1>1, <1>2 DEF SmartStart, SmartRelaysAreTimed
  <1>4. ~smLost => smPosition = smActual
    BY DEF SmartInv, PositionIsTrue
  <1>5. Estimate' = Between(0, smPosition, Full)
    BY SpeedsAreNatural DEF SmartStart, Estimate, SmartTypeOK, Sides
  <1>6. ~smLost => smActual' = Estimate'
    BY <1>4, <1>5, SpeedsAreNatural DEF Between, SmartTypeOK
  <1>7. ~smPulse
    BY SmartShutterAssumption DEF SmartInv, EstimateIsTrue, Calibrating, NotArmed
  <1> QED BY <1>1, <1>3, <1>6, <1>7 DEF PositionIsTrue, EstimateIsTrue, smHistory

LEMMA SmartStaysKeeps ==
  ASSUME SmartInv,
         UNCHANGED <<smDrive, smPosition, smActual, smCalib, smPulse, smHistory>>
  PROVE  SmartInv'
  BY DEF SmartInv, SmartRelaysAreTimed, PositionIsTrue, EstimateIsTrue,
         Estimate, Calibrating, smDrive, smHistory

LEMMA DriveKeeps ==
  ASSUME SmartTypeOK, SmartInv, NEW d \in Sides, NEW target \in Int, NEW length, NEW pauses,
         DriveFrom(d, target, length, pauses),
         UNCHANGED <<smActual, smCalib, smPulse, smHistory>>
  PROVE  SmartInv'
  BY SmartHaltKeeps, SmartStartKeeps, SmartStaysKeeps DEF DriveFrom

LEMMA WaitKeeps ==
  ASSUME SmartTypeOK, SmartInv, NEW d \in Sides, NEW length, ~Calibrating,
         SmartWait(d, length), UNCHANGED <<smActual, smCalib, smPulse, smHistory>>
  PROVE  SmartInv'
  <1>1. smSens # "stop" => CanStop
    BY DEF CanStop
  <1>2. Other(d) # "stop" /\ d # "stop"
    BY DEF Other, Sides
  <1>3. ToEnd \in Int
    BY DEF ToEnd
  <1> QED BY <1>1, <1>2, <1>3, SmartHaltKeeps, DriveKeeps DEF SmartWait, Drive

\* One tick moves the shutter and the estimate by the same steps.
LEMMA SmartTickKeeps ==
  ASSUME SmartTypeOK, SmartInv, SmartTick
  PROVE  SmartInv'
  <1> SUFFICES ASSUME ~smSpoilt
               PROVE  SmartRelaysAreTimed' /\ PositionIsTrue' /\ EstimateIsTrue'
    BY DEF SmartInv, SmartTick, smHistory
  <1>0. ~smPulse /\ UNCHANGED <<smPulse, smLost>>
    BY DEF SmartTick, SmartDue, smHistory
  <1>1. SmartRelaysAreTimed /\ PositionIsTrue /\ EstimateIsTrue
    BY DEF SmartInv
  <1>2. (smEnd' = NotArmed <=> smEnd = NotArmed) /\ (Calibrating' <=> Calibrating)
    BY SmartShutterAssumption
    DEF SmartTick, SmartDue, Older, Calibrating, NotArmed, Never, SmartTypeOK
  <1>3. SmartRelaysAreTimed'
    BY <1>0, <1>1, <1>2 DEF SmartRelaysAreTimed, SmartTick
  <1>9. CASE smLost
    BY <1>0, <1>1, <1>2, <1>3, <1>9 DEF PositionIsTrue, EstimateIsTrue, SmartTick
  <1>4. ASSUME ~smLost
        PROVE  /\ smRelay["up"] <=> smSens = "up" \/ Calibrating
               /\ smRelay["down"] <=> smSens = "down"
    BY <1>1, <1>4 DEF SmartRelaysAreTimed, Sides
  <1>5. CASE ~smLost /\ smSens = "stop" /\ ~Calibrating
    <2>1. smActual' = Between(0, smActual, Full)
      BY <1>4, <1>5, SpeedsAreNatural DEF SmartTick, SmartTypeOK
    <2>2. smActual' = smActual
      BY <2>1, SpeedsAreNatural DEF Between, SmartTypeOK
    <2> QED
      BY <1>0, <1>1, <1>2, <1>3, <1>5, <2>2 DEF PositionIsTrue, EstimateIsTrue, SmartTick
  <1>6. CASE ~smLost /\ Calibrating
    <2>1. smSens = "stop"
      BY <1>1, <1>6 DEF EstimateIsTrue
    <2>2. PICK v \in Nat : v = TimeDown
      BY SmartShutterAssumption
    <2>3. smActual' = Between(0, smActual - v, Full)
      BY <1>4, <1>6, <2>1, <2>2, SpeedsAreNatural DEF SmartTick, SmartTypeOK, Speed
    <2>4. smCalib' = smCalib - 1 /\ smCalib \in Nat /\ smCalib' \in Nat
      BY <1>6, SmartShutterAssumption
      DEF SmartTick, SmartDue, Older, Calibrating, SmartTypeOK, NotArmed, Never
    <2>5. smActual <= smCalib * v
      BY <1>1, <1>6, <2>2 DEF EstimateIsTrue
    <2>6. smCalib' * v = smCalib * v - v /\ smCalib' * v >= 0
      BY <2>2, <2>4
    <2>7. smActual' <= smCalib' * v
      BY <2>3, <2>5, <2>6, SpeedsAreNatural DEF Between, SmartTypeOK
    <2> QED
      BY <1>0, <1>2, <1>3, <1>6, <2>1, <2>2, <2>7 DEF PositionIsTrue, EstimateIsTrue, SmartTick
  <1>7. CASE ~smLost /\ smSens # "stop" /\ ~Calibrating
    <2>1. PICK d \in Sides : d = smSens
      BY <1>7 DEF SmartTypeOK
    <2>2. PICK v \in Nat : v = Speed(d)
      BY SpeedsAreNatural
    <2>3. smActual = Estimate /\ smStart \in 0..Full /\ smRan \in 0..LongTravel
      BY <1>1, <1>7 DEF EstimateIsTrue, SmartTypeOK
    <2>4. /\ UNCHANGED <<smSens, smStart>>
          /\ smRan' = IF smRan < LongTravel THEN smRan + 1 ELSE smRan
      BY <1>7 DEF SmartTick
    <2>5. PICK far \in Nat : far = smRan * v
      BY <2>3, LongTravelIsNatural
    <2>6. PICK next \in Nat : next = smRan' * v
      BY <2>3, <2>4, LongTravelIsNatural
    <2>7. smRan < LongTravel => next = far + v
      <3>1. smRan < LongTravel => smRan' * v = smRan * v + v
        BY <2>2, <2>3, <2>4, LongTravelIsNatural
      <3> QED BY <2>5, <2>6, <3>1
    <2>0. smRan = LongTravel => far >= Full /\ next = far
      <3>1. LongTravel * v >= Full
        BY <2>2, TravelIsLongest
      <3> QED BY <2>2, <2>3, <2>4, <2>5, <2>6, <3>1, LongTravelIsNatural
    <2>8. CASE d = "up"
      <3>1. Estimate = Between(0, smStart - far, Full)
        BY <2>1, <2>2, <2>5, <2>8 DEF Estimate
      <3>2. Estimate' = Between(0, smStart - next, Full)
        BY <2>1, <2>2, <2>4, <2>6, <2>8 DEF Estimate
      <3>3. smActual' = Between(0, smActual - v + 0, Full)
        BY <1>4, <1>7, <2>1, <2>2, <2>8 DEF SmartTick
      <3>4. ASSUME smRan < LongTravel PROVE smActual' = Estimate'
        <4>1. Between(0, Between(0, smStart - far, Full) - v + 0, Full)
                = Between(0, smStart - far - v, Full)
          BY <2>3, BetweenMeetsTheEnd, SpeedsAreNatural
        <4>2. smStart - next = smStart - far - v
          BY <2>2, <2>3, <2>5, <2>6, <2>7, <3>4, SpeedsAreNatural, LongTravelIsNatural
        <4> QED BY <2>3, <3>1, <3>2, <3>3, <4>1, <4>2
      <3>5. ASSUME smRan = LongTravel PROVE smActual' = Estimate'
        <4>1. Estimate = 0 /\ Estimate' = 0
          BY <2>0, <2>3, <2>5, <2>6, <3>1, <3>2, <3>5, SpeedsAreNatural,
             LongTravelIsNatural
          DEF Between
        <4> QED BY <2>2, <2>3, <3>3, <4>1, SpeedsAreNatural DEF Between
      <3>6. smActual' = Estimate'
        BY <2>3, <3>4, <3>5, LongTravelIsNatural
      <3> QED
        BY <1>0, <1>2, <1>3, <1>7, <2>4, <3>6 DEF PositionIsTrue, EstimateIsTrue
    <2>9. CASE d = "down"
      <3>1. Estimate = Between(0, smStart + far, Full)
        BY <2>1, <2>2, <2>5, <2>9 DEF Estimate
      <3>2. Estimate' = Between(0, smStart + next, Full)
        BY <2>1, <2>2, <2>4, <2>6, <2>9 DEF Estimate
      <3>3. smActual' = Between(0, smActual - 0 + v, Full)
        BY <1>4, <2>1, <2>2, <2>9, <1>7 DEF SmartTick
      <3>4. ASSUME smRan < LongTravel PROVE smActual' = Estimate'
        <4>1. Between(0, Between(0, smStart + far, Full) - 0 + v, Full)
                = Between(0, smStart + far + v, Full)
          BY <2>3, BetweenMeetsTheEnd, SpeedsAreNatural
        <4>2. smStart + next = smStart + far + v
          BY <2>2, <2>3, <2>5, <2>6, <2>7, <3>4, SpeedsAreNatural, LongTravelIsNatural
        <4> QED BY <2>3, <3>1, <3>2, <3>3, <4>1, <4>2
      <3>5. ASSUME smRan = LongTravel PROVE smActual' = Estimate'
        <4>1. Estimate = Full /\ Estimate' = Full
          BY <2>0, <2>3, <2>5, <2>6, <3>1, <3>2, <3>5, SpeedsAreNatural,
             LongTravelIsNatural
          DEF Between
        <4> QED BY <2>2, <2>3, <3>3, <4>1, SpeedsAreNatural DEF Between
      <3>6. smActual' = Estimate'
        BY <2>3, <3>4, <3>5, LongTravelIsNatural
      <3> QED
        BY <1>0, <1>2, <1>3, <1>7, <2>4, <3>6 DEF PositionIsTrue, EstimateIsTrue
    <2> QED BY <2>8, <2>9 DEF Sides
  <1> QED BY <1>5, <1>6, <1>7, <1>9
LEMMA SmartStepKeeps == SmartTypeOK /\ SmartInv /\ [SmartNext]_smVars => SmartInv'
  <1> SUFFICES ASSUME SmartTypeOK, SmartInv, [SmartNext]_smVars PROVE SmartInv'
    OBVIOUS
  <1>a. ASSUME ~smSpoilt PROVE SmartRelaysAreTimed /\ PositionIsTrue /\ EstimateIsTrue
    BY <1>a DEF SmartInv
  <1>b. ASSUME SmartStop, UNCHANGED <<smActual, smCalib, smPulse, smHistory>>
        PROVE  SmartInv'
    BY <1>b, SmartHaltKeeps, SmartStaysKeeps DEF SmartStop
  <1>1. ASSUME NEW d \in Sides, NEW length, Accepted(length), SmartWait(d, length),
               UNCHANGED <<smActual, smHistory>>
        PROVE  SmartInv'
    BY <1>1, WaitKeeps DEF Accepted
  <1>2. ASSUME NEW d \in Sides, NEW target \in Int, Accepted(NoNudge),
               Drive(d, target, NoNudge), UNCHANGED <<smActual, smHistory>>
        PROVE  SmartInv'
    BY <1>2, DriveKeeps DEF Accepted, Drive
  <1>3. CASE SmartToggle
    <2>1. PICK d \in Sides : d = Other(smOldSens')
      BY <1>3 DEF SmartToggle, SmartTypeOK, Other, Sides
    <2> QED BY <1>2, <1>3, <2>1 DEF SmartToggle, ToEnd
  <1>4. CASE SmartStopCommand
    BY <1>4, <1>b DEF SmartStopCommand, Accepted
  <1>5. ASSUME NEW t \in Targets, SetTarget(t) PROVE SmartInv'
    <2>1. /\ t \in Int
          /\ UNCHANGED <<smActual, smCalib, smPulse, smHistory>> /\ Accepted(NoNudge)
      BY <1>5, SmartShutterAssumption DEF SetTarget, Accepted
    <2>2. CASE t < smPosition /\ Drive("up", t, NoNudge)
      BY <1>2, <2>1, <2>2 DEF Sides
    <2>3. CASE t > smPosition /\ Drive("down", t, NoNudge)
      BY <1>2, <2>1, <2>3 DEF Sides
    <2>4. CASE UNCHANGED <<smDrive, smPosition, smStops, smPauses>>
      BY <2>1, <2>4, SmartStaysKeeps
    <2> QED BY <1>5, <2>2, <2>3, <2>4 DEF SetTarget
  <1>6. ASSUME NEW d \in Sides, NEW steps \in Percents, MoveBy(d, steps)
        PROVE  SmartInv'
    <2>0. smPosition \in Int /\ steps \in Int
      BY SpeedsAreNatural, SmartShutterAssumption DEF SmartTypeOK
    <2>1. /\ smPosition - steps \in Int /\ smPosition + steps \in Int
          /\ Drive(d, IF d = "up" THEN smPosition - steps ELSE smPosition + steps, NoNudge)
      BY <2>0, <1>6 DEF MoveBy
    <2>2. CASE d = "up"
      BY <1>2, <1>6, <2>1, <2>2 DEF MoveBy
    <2>3. CASE d # "up"
      BY <1>2, <1>6, <2>1, <2>3 DEF MoveBy
    <2> QED BY <2>2, <2>3
  <1>7. ASSUME NEW t \in Targets, SmartSetState(t) PROVE SmartInv'
    <2> SUFFICES ASSUME ~smSpoilt'
                 PROVE  SmartRelaysAreTimed' /\ PositionIsTrue' /\ EstimateIsTrue'
      BY DEF SmartInv
    <2>1. ~smSpoilt /\ smSens = "stop" /\ smSens' = "stop"
      BY <1>7 DEF SmartSetState, SmartTypeOK
    <2>2. ~Calibrating /\ ~Calibrating'
      BY <1>7 DEF SmartSetState, Accepted, Calibrating
    <2>4. ~smPulse'
      BY <1>7, <1>a, <2>1, <2>2, SmartShutterAssumption
      DEF SmartSetState, Accepted, EstimateIsTrue, Calibrating, NotArmed
    <2>3. SmartRelaysAreTimed'
      BY <1>7, <1>a, <2>1, <2>2
      DEF SmartSetState, Accepted, SmartRelaysAreTimed, Calibrating
    <2> QED
      BY <1>7, <2>1, <2>2, <2>3, <2>4 DEF SmartSetState, PositionIsTrue, EstimateIsTrue
  <1>8. ASSUME NEW zero \in BOOLEAN, Calibrate(zero) PROVE SmartInv'
    <2> SUFFICES ASSUME ~smSpoilt'
                 PROVE  SmartRelaysAreTimed' /\ PositionIsTrue' /\ EstimateIsTrue'
      BY DEF SmartInv
    <2>1. ~smSpoilt /\ smSens = "stop" /\ smSens' = "stop"
      BY <1>8 DEF Calibrate, SmartTypeOK
    <2>2. Calibrating'
      BY <1>8, SmartShutterAssumption DEF Calibrate, Calibrating, NotArmed
    <2>5. smPulse' = zero /\ smLost' = zero /\ smCalib' = TimeUp
      BY <1>8, <1>a, <2>1, SmartShutterAssumption
      DEF Calibrate, EstimateIsTrue, Calibrating, NotArmed
    <2>6. smEnd' = NotArmed /\ smRelay' = [d \in Sides |-> d = "up"]
      BY <1>8, <1>a, <2>1 DEF Calibrate, SmartRelaysAreTimed
    <2>3. SmartRelaysAreTimed'
      BY <2>1, <2>2, <2>5, <2>6 DEF SmartRelaysAreTimed, Sides
    <2>4. smActual' <= TimeUp * TimeDown
      BY <1>8, SpeedsAreNatural DEF Calibrate, SmartTypeOK, Full
    <2> QED
      BY <1>8, <2>1, <2>2, <2>3, <2>4, <2>5 DEF Calibrate, PositionIsTrue, EstimateIsTrue
  <1>9. CASE PositionUpdate
    BY <1>9
    DEF PositionUpdate, smDrive, smHistory, SmartInv, SmartRelaysAreTimed, PositionIsTrue,
        EstimateIsTrue, Estimate, Calibrating
  <1>10. CASE TimerEnd
    <2>1. CASE CanStop /\ SmartHalt
      BY <1>10, <2>1, SmartHaltKeeps DEF TimerEnd
    <2>2. CASE ~CanStop /\ UNCHANGED <<smSens, smStart, smRan, smRelay, smPosition>>
      <3>1. smSpoilt
        BY <1>10, <1>a, <2>2
        DEF TimerEnd, SmartRelaysAreTimed, EstimateIsTrue, CanStop, NotArmed
      <3> QED BY <1>10, <3>1 DEF TimerEnd, SmartInv, smHistory
    <2> QED BY <1>10, <2>1, <2>2 DEF TimerEnd
  <1>11. CASE TimerCalibrate
    <2> SUFFICES ASSUME ~smSpoilt
                 PROVE  SmartRelaysAreTimed' /\ PositionIsTrue' /\ EstimateIsTrue'
      BY <1>11 DEF SmartInv, TimerCalibrate, smHistory
    <2>5. ~smPulse /\ UNCHANGED <<smPulse, smLost>>
      BY <1>11, <1>a, SmartShutterAssumption DEF TimerCalibrate, EstimateIsTrue, smHistory
    <2>1. Calibrating /\ ~Calibrating' /\ smSens = "stop" /\ smSens' = "stop"
      BY <1>11, <1>a DEF TimerCalibrate, Calibrating, NotArmed, EstimateIsTrue
    <2>2. SmartRelaysAreTimed'
      BY <1>11, <1>a, <2>1 DEF TimerCalibrate, SmartRelaysAreTimed, Sides
    <2>3. ~smLost => smActual <= 0 * TimeDown
      BY <1>11, <1>a, <2>1 DEF TimerCalibrate, EstimateIsTrue
    <2>4. ~smLost => smActual = 0
      BY <2>3, SpeedsAreNatural, SmartShutterAssumption DEF SmartTypeOK
    <2> QED
      BY <1>11, <2>1, <2>2, <2>4, <2>5 DEF TimerCalibrate, PositionIsTrue, EstimateIsTrue
  <1>12. ASSUME NEW p \in smPauses, SmartPauseOver(p) PROVE SmartInv'
    <2>1. p.dir \in Sides
      BY DEF PauseTimer, SmartTypeOK
    <2>2. ToEnd \in Int
      BY DEF ToEnd
    <2> QED BY <1>12, <2>1, <2>2, DriveKeeps DEF SmartPauseOver
  <1>13. CASE SmartNudgeOver
    BY <1>13, <1>b DEF SmartNudgeOver
  <1>14. CASE SmartTick
    BY <1>14, SmartTickKeeps
  <1>17. CASE SmartPulseOver
    <2> SUFFICES ASSUME ~smSpoilt
                 PROVE  SmartRelaysAreTimed' /\ PositionIsTrue' /\ EstimateIsTrue'
      BY <1>17 DEF SmartInv, SmartPulseOver, smHistory
    <2>1. smLost /\ smSens = "stop" /\ Calibrating
      BY <1>17, <1>a, SmartShutterAssumption
      DEF SmartPulseOver, EstimateIsTrue, Calibrating, NotArmed
    <2>2. /\ UNCHANGED <<smLost, smSens, smCalib, smEnd>>
          /\ ~smPulse' /\ \A d \in Sides : ~smRelay'[d]
      BY <1>17 DEF SmartPulseOver, smHistory
    <2>3. SmartRelaysAreTimed'
      BY <1>a, <2>1, <2>2 DEF SmartRelaysAreTimed, Sides
    <2> QED BY <2>1, <2>2, <2>3 DEF PositionIsTrue, EstimateIsTrue, Calibrating
  <1>15. CASE UNCHANGED smVars
    BY <1>15, SmartStaysKeeps DEF smVars, smDrive, smHistory
  <1>16. CASE SmartClient
    BY <1>1, <1>3, <1>4, <1>5, <1>6, <1>7, <1>8, <1>16
    DEF SmartClient, SmartMove, SmartImpulse
  <1> QED
    BY <1>9, <1>10, <1>11, <1>12, <1>13, <1>14, <1>15, <1>16, <1>17
    DEF SmartNext, SmartCallback

LEMMA SmartInitKeeps == SmartInit => SmartInv
  <1>1. SmartInit => SmartRelaysAreTimed /\ ~Calibrating
    BY DEF SmartInit, SmartRelaysAreTimed, Calibrating, Sides
  <1> QED BY <1>1 DEF SmartInit, SmartInv, PositionIsTrue, EstimateIsTrue

\* Whatever mix of moves, reversals, nudges, targets, distances of either sign
\* and calibrations it was given, and whatever its two travel times, a relay
\* that is on has the timer that ends it, and a smart shutter that stands still
\* is where the server says it is unless its last calibration had an
\* impulse_time of 0.  Both end with a position set, or a calibration begun,
\* under a running motor.
THEOREM PositionIsKept == SmartSpec => [](PositionIsTrue /\ SmartRelaysAreTimed)
  <1>1. SmartTypeOK /\ SmartInv => PositionIsTrue /\ SmartRelaysAreTimed
    BY DEF SmartInv, PositionIsTrue, SmartRelaysAreTimed
  <1> QED
    BY <1>1, SmartInitTypes, SmartStepTypes, SmartInitKeeps, SmartStepKeeps, PTL
    DEF SmartSpec

-----------------------------------------------------------------------------
(* A dimmer                                                                *)

DimFields ==
  {"value", "old", "blinks", "current", "impulse", "kind", "hold", "detected",
   "down", "stopAfter"}

\* The members by which a release knows what its press was.  A member of the
\* object is there whatever was done to it.
PressIsKnown ==
  /\ dim = [f \in DimFields |-> dim[f]]
  /\ dim.detected \in BOOLEAN /\ dim.stopAfter \in BOOLEAN
  /\ dmHold = "pressed" => dim.stopAfter /\ ~dim.detected
  /\ dmHold # "pressed" => dim.detected \/ ~dim.stopAfter

\* D is an object of which E has the members that make a press
SameHold(D, E) ==
  /\ E = [f \in DimFields |-> E[f]]
  /\ E.detected = D.detected /\ E.stopAfter = D.stopAfter

\* No write of the value, no command and no impulse changes them.
LEMMA WritesKeepHold ==
  ASSUME NEW D, D = [f \in DimFields |-> D[f]]
  PROVE  /\ SameHold(D, StopImpulse(D))
         /\ \A v : SameHold(D, DimSet(D, v))
         /\ \A v : SameHold(D, SetNextOn(D, v))
         /\ SameHold(D, DimOn(D)) /\ SameHold(D, DimOff(D))
         /\ \A on : SameHold(D, DimSwitch(D, on))
         /\ SameHold(D, DimToggle(D))
         /\ SameHold(D, StateOn(D)) /\ SameHold(D, StateOff(D))
  <1>1. /\ SameHold(D, StopImpulse(D))
        /\ \A v : SameHold(D, DimSet(D, v))
    BY DEF StopImpulse, DimSet, DimFields, SameHold
  <1>2. \A v : SameHold(D, SetNextOn(D, v))
    BY <1>1 DEF SetNextOn, StopImpulse, DimFields, SameHold
  <1>3. SameHold(D, DimOn(D))
    BY <1>1 DEF DimOn
  <1>4. SameHold(D, DimOff(D))
    BY <1>1 DEF DimOff, DimFields, SameHold
  <1>5. SameHold(D, StateOn(D)) /\ SameHold(D, StateOff(D))
    BY DEF StateOn, StateOff, StopImpulse, DimFields, SameHold
  <1> QED BY <1>1, <1>2, <1>3, <1>4, <1>5 DEF DimSwitch, DimToggle
LEMMA PressIsKnownKept == PressIsKnown /\ [DimNext]_dmVars => PressIsKnown'
  <1> SUFFICES ASSUME PressIsKnown, [DimNext]_dmVars PROVE PressIsKnown'
    OBVIOUS
  <1>0. dim = [f \in DimFields |-> dim[f]]
    BY DEF PressIsKnown
  <1>a. ASSUME SameHold(dim, dim'), UNCHANGED dmHold PROVE PressIsKnown'
    BY <1>a DEF SameHold, PressIsKnown
  <1>1. CASE DimClient
    BY <1>1, <1>0, <1>a, WritesKeepHold DEF DimClient, Command
  <1>2. ASSUME NEW tokens, AskImpulse(tokens) PROVE PressIsKnown'
    <2>1. SameHold(dim, DimImpulse(dim, tokens))
      <3> DEFINE blinks == ParsePattern(tokens, dim.value > 0)
                 read == [StopImpulse(dim) EXCEPT !.blinks = blinks, !.current = 1]
      <3>1. SameHold(dim, [DimOn(dim) EXCEPT !.kind = "impulse",
                                             !.impulse = Armed(tokens[1])])
        BY <1>0, WritesKeepHold DEF SameHold, DimFields
      <3>2. SameHold(dim, read) /\ read = [f \in DimFields |-> read[f]]
        <4>1. PICK E : E = StopImpulse(dim) /\ SameHold(dim, E)
          BY <1>0, WritesKeepHold
        <4>2. PICK b : b = blinks
          OBVIOUS
        <4>3. read = [E EXCEPT !.blinks = b, !.current = 1]
          BY <4>1, <4>2
        <4> HIDE DEF blinks, read
        <4> QED BY <4>1, <4>3 DEF SameHold, DimFields
      <3>3. SameHold(read, DimSwitch(read, blinks[1].state))
        BY <3>2, WritesKeepHold
      <3> HIDE DEF blinks, read
      <3>4. SameHold(dim, [DimSwitch(read, blinks[1].state) EXCEPT
                             !.kind = "blink", !.impulse = Armed(blinks[1].duration)])
        BY <3>2, <3>3 DEF SameHold, DimFields
      <3>5. DimImpulse(dim, tokens) \in
              {[DimOn(dim) EXCEPT !.kind = "impulse", !.impulse = Armed(tokens[1])],
               read,
               [DimSwitch(read, blinks[1].state) EXCEPT
                  !.kind = "blink", !.impulse = Armed(blinks[1].duration)]}
        BY DEF DimImpulse, blinks, read
      <3> QED BY <3>1, <3>2, <3>4, <3>5
    <2> QED BY <1>2, <1>a, <2>1 DEF AskImpulse
  <1>3. CASE Press
    BY <1>3, <1>0
    DEF Press, HoldPress, StopImpulse, PressIsKnown, DimFields
  <1>4. CASE Release
    <2>1. PICK E : /\ SameHold(dim, E)
                   /\ dim' = [E EXCEPT !.stopAfter = FALSE, !.hold = NoTimer,
                                       !.detected = IF Runs(dim.hold) THEN FALSE ELSE @]
      BY <1>4, <1>0, WritesKeepHold DEF Release, HoldStop
    <2>2. dim' = [f \in DimFields |-> dim'[f]] /\ dim'.stopAfter = FALSE
      BY <2>1 DEF SameHold, DimFields
    <2>3. dim'.detected \in BOOLEAN
      BY <2>1 DEF SameHold, DimFields, PressIsKnown
    <2> QED BY <1>4, <2>2, <2>3 DEF Release, PressIsKnown
  <1>5. CASE HoldIsDue
    <2> DEFINE D == [dim EXCEPT !.detected = TRUE, !.hold = Armed(HoldPeriod)]
    <2>1. /\ D = [f \in DimFields |-> D[f]]
          /\ D.detected = TRUE /\ D.stopAfter = dim.stopAfter
      BY <1>0 DEF DimFields
    <2> HIDE DEF D
    <2>2. SameHold(D, OneStep(D))
      <3>1. PICK v : v = IF D.down THEN D.value - 1 ELSE D.value + 1
        OBVIOUS
      <3>2. PICK E : E = DimSet(D, v)
        OBVIOUS
      <3>3. SameHold(D, E)
        BY <2>1, <3>2, WritesKeepHold
      <3>4. PICK down : OneStep(D) = [E EXCEPT !.down = down]
        BY <3>1, <3>2 DEF OneStep
      <3> QED BY <3>3, <3>4 DEF SameHold, DimFields
    <2>3. dim' = OneStep(D)
      BY <1>5 DEF HoldIsDue, HoldFires, D
    <2> QED BY <1>5, <2>1, <2>2, <2>3 DEF HoldIsDue, SameHold, PressIsKnown
  <1>6. CASE ImpulseIsDue
    BY <1>6, <1>0, <1>a, WritesKeepHold DEF ImpulseIsDue
  <1>7. CASE BlinkIsDue
    <2>1. PICK next : next = dim.blinks[dim.current].next
      OBVIOUS
    <2> DEFINE moved == [StopImpulse(dim) EXCEPT !.current = next]
    <2>2. SameHold(dim, moved) /\ moved = [f \in DimFields |-> moved[f]]
      BY <1>0, WritesKeepHold DEF SameHold, DimFields
    <2> HIDE DEF moved
    <2>3. SameHold(moved, DimSwitch(moved, dim.blinks[next].state))
      BY <2>2, WritesKeepHold
    <2>4. SameHold(dim, [DimSwitch(moved, dim.blinks[next].state)
                           EXCEPT !.impulse = Armed(dim.blinks[next].duration)])
      BY <2>2, <2>3 DEF SameHold, DimFields
    <2>5. dim' \in {moved, [DimSwitch(moved, dim.blinks[next].state)
                              EXCEPT !.impulse = Armed(dim.blinks[next].duration)]}
      BY <1>7, <2>1 DEF BlinkIsDue, moved
    <2>6. UNCHANGED dmHold
      BY <1>7 DEF BlinkIsDue
    <2> QED BY <1>a, <2>2, <2>4, <2>5, <2>6
  <1>8. CASE DimTick
    BY <1>8, <1>0, <1>a DEF DimTick, SameHold, DimFields
  <1>9. CASE UNCHANGED dmVars
    BY <1>9 DEF dmVars, PressIsKnown
  <1> QED
    BY <1>1, <1>2, <1>3, <1>4, <1>5, <1>6, <1>7, <1>8, <1>9
    DEF DimNext, DimUser, DimCallback

\* A release toggles the light exactly when its press was short, whatever was
\* commanded in between.
THEOREM ShortPressesToggle == DimSpec => ShortPressToggles
  <1>1. DimInit => PressIsKnown
    BY DEF DimInit, PressIsKnown, DimFields
  <1>2. PressIsKnown /\ [DimNext]_dmVars
          => [Release =>
                dim'.value = IF dmHold = "pressed" THEN DimToggle(dim).value
                             ELSE dim.value]_dmVars
    <2> SUFFICES ASSUME PressIsKnown, Release
                 PROVE  dim'.value = IF dmHold = "pressed" THEN DimToggle(dim).value
                                     ELSE dim.value
      OBVIOUS
    <2>1. PICK E : E = IF ~dim.detected /\ dim.stopAfter THEN DimToggle(dim)
                       ELSE StopImpulse(dim)
      OBVIOUS
    <2>2. E = IF dmHold = "pressed" THEN DimToggle(dim) ELSE StopImpulse(dim)
      BY <2>1 DEF PressIsKnown
    <2>3. SameHold(dim, E) /\ StopImpulse(dim).value = dim.value
      BY <2>1, WritesKeepHold DEF PressIsKnown, StopImpulse, DimFields
    <2>4. dim' = [E EXCEPT !.stopAfter = FALSE, !.hold = NoTimer,
                           !.detected = IF Runs(dim.hold) THEN FALSE ELSE @]
      BY <2>1 DEF Release, HoldStop
    <2>5. dim'.value = E.value
      BY <2>3, <2>4 DEF SameHold, DimFields
    <2> QED BY <2>2, <2>3, <2>5
  <1> QED BY <1>1, <1>2, PressIsKnownKept, PTL DEF DimSpec, ShortPressToggles

-----------------------------------------------------------------------------
(* A light                                                                 *)

LightFields == {"value", "timers", "blinks", "current", "last"}
TimerFields == {"kind", "left", "period", "named"}

\* Its timers are those the member "timer" names
Named(kept) ==
  \A t \in kept : t = [f \in TimerFields |-> t[f]] /\ t.named = TRUE

\* An object of the class whose timers can all be deleted
NamedLight(L) == L = [f \in LightFields |-> L[f]] /\ Named(L.timers)

\* The impulse that was asked has its timer, or is over
Impulsed(L) ==
  L.last = "impulse" =>
    /\ \A t \in L.timers : t.kind = "impulse"
    /\ L.timers = {} => L.value = FALSE

LightInv == NamedLight(light) /\ Impulsed(light)

ImpulsesAreOver == light.timers = {} /\ light.last = "impulse" => ~light.value

LEMMA TimersAreDeleted ==
  ASSUME NEW L, NamedLight(L)
  PROVE  /\ DeleteTimer(L) = [L EXCEPT !.timers = {}]
         /\ NamedLight(DeleteTimer(L)) /\ DeleteTimer(L).timers = {}
         /\ DeleteTimer(L).value = L.value /\ DeleteTimer(L).last = L.last
         /\ NamedLight(Stopped(L)) /\ Stopped(L).timers = {} /\ Stopped(L).last = "set"
  <1>1. {t \in L.timers : ~t.named} = {}
    BY DEF NamedLight, Named
  <1>2. DeleteTimer(L) = [L EXCEPT !.timers = {}]
    BY <1>1 DEF DeleteTimer, NamedLight, LightFields
  <1>3. NamedLight([L EXCEPT !.timers = {}])
    BY DEF NamedLight, Named, LightFields
  <1>4. /\ [L EXCEPT !.timers = {}].value = L.value
        /\ [L EXCEPT !.timers = {}].last = L.last
        /\ [L EXCEPT !.timers = {}].timers = {}
    BY DEF NamedLight, LightFields
  <1>5. PICK off : off = DeleteTimer(L)
    OBVIOUS
  <1>6. NamedLight([off EXCEPT !.last = "set"]) /\ [off EXCEPT !.last = "set"].timers = {}
        /\ [off EXCEPT !.last = "set"].last = "set"
    BY <1>2, <1>3, <1>4, <1>5 DEF NamedLight, Named, LightFields
  <1> QED BY <1>2, <1>3, <1>4, <1>5, <1>6 DEF Stopped

\* A light without a timer gets one
LEMMA TimerIsMade ==
  ASSUME NEW L, NamedLight(L), L.timers = {}, NEW kind, NEW ticks
  PROVE  LET M == NewTimer(L, kind, ticks)
         IN /\ NamedLight(M) /\ M.last = L.last /\ M.value = L.value
            /\ M.timers # {} /\ \A t \in M.timers : t.kind = kind
  <1>1. PICK new : new = {[kind |-> kind, left |-> ticks, period |-> ticks, named |-> TRUE]}
    OBVIOUS
  <1>2. Named(new) /\ new # {} /\ \A t \in new : t.kind = kind
    BY <1>1 DEF Named, TimerFields
  <1>3. {[t EXCEPT !.named = FALSE] : t \in L.timers} \cup new = new
    BY <1>1
  <1>4. NewTimer(L, kind, ticks) = [L EXCEPT !.timers = new]
    BY <1>1, <1>3 DEF NewTimer, NamedLight, LightFields
  <1> QED BY <1>2, <1>4 DEF NamedLight, LightFields

\* A rule that answers with a value only changes the value, or stops what plays.
LEMMA SignalKeeps ==
  ASSUME NEW L, NamedLight(L), NEW on, reaction.do # "impulse"
  PROVE  LET M == SetAndSignal(L, on)
         IN /\ NamedLight(M)
            /\ \/ M.last = L.last /\ M.value = on /\ M.timers = L.timers
               \/ M.last = "set" /\ M.timers = {}
  <1>1. PICK set : set = JustSet(L, on)
    OBVIOUS
  <1>2. /\ NamedLight(set) /\ set.last = L.last /\ set.value = on
        /\ set.timers = L.timers
    BY <1>1 DEF JustSet, NamedLight, LightFields
  <1>3. PICK off : off = Stopped(set)
    OBVIOUS
  <1>4. NamedLight(off) /\ off.timers = {} /\ off.last = "set"
    BY <1>2, <1>3, TimersAreDeleted
  <1>5. LET M == JustSet(off, reaction.do = "true")
        IN NamedLight(M) /\ M.timers = {} /\ M.last = "set"
    BY <1>4 DEF JustSet, NamedLight, LightFields
  <1>6. SetAndSignal(L, on) \in {set, JustSet(off, reaction.do = "true")}
    BY <1>1, <1>3 DEF SetAndSignal
  <1> QED BY <1>2, <1>5, <1>6

LEMMA ImpulseKeeps ==
  ASSUME LightInv, reaction.do # "impulse", NEW tokens
  PROVE  NamedLight(LightImpulse(light, tokens)) /\ Impulsed(LightImpulse(light, tokens))
  <1> DEFINE classic == IsClassic(tokens)
  <1>1. PICK read : read = ReadImpulse(light, tokens)
    OBVIOUS
  <1>2. /\ NamedLight(read) /\ read.timers = {}
        /\ read.last = IF classic THEN "set" ELSE "pattern"
    <2>1. NamedLight(light)
      BY DEF LightInv
    <2>2. CASE classic
      BY <1>1, <2>1, <2>2, TimersAreDeleted DEF ReadImpulse
    <2>3. CASE ~classic
      <3>1. PICK off : off = DeleteTimer(light)
        OBVIOUS
      <3>2. NamedLight(off) /\ off.timers = {}
        BY <2>1, <3>1, TimersAreDeleted
      <3>3. PICK blinks : blinks = ParsePattern(tokens, light.value)
        OBVIOUS
      <3>4. read = [off EXCEPT !.blinks = blinks, !.current = 1, !.last = "pattern"]
        BY <1>1, <2>3, <3>1, <3>3 DEF ReadImpulse
      <3> QED BY <2>3, <3>2, <3>4 DEF NamedLight, LightFields
    <2> QED BY <2>2, <2>3
  <1>3. CASE ~Plays(read, tokens)
    <2>1. LightImpulse(light, tokens) = read /\ ~classic
      BY <1>1, <1>3 DEF LightImpulse, Plays
    <2> QED BY <1>2, <2>1 DEF Impulsed
  <1>4. CASE Plays(read, tokens)
    <2>1. PICK S : S = SetAndSignal(read, FirstState(read, tokens))
      OBVIOUS
    <2>2. NamedLight(S) /\ S.timers = {} /\ S.last \in {"set", read.last}
      BY <1>2, <2>1, SignalKeeps
    <2>3. LightImpulse(light, tokens) = TimeImpulse(S, tokens)
      BY <1>1, <1>4, <2>1 DEF LightImpulse
    <2>4. CASE classic
      <3>1. PICK off : off = DeleteTimer(S)
        OBVIOUS
      <3>2. NamedLight(off) /\ off.timers = {}
        BY <2>2, <3>1, TimersAreDeleted
      <3>3. PICK M : M = NewTimer(off, "impulse", tokens[1])
        OBVIOUS
      <3>4. NamedLight(M) /\ M.timers # {} /\ \A t \in M.timers : t.kind = "impulse"
        BY <3>2, <3>3, TimerIsMade
      <3>5. LightImpulse(light, tokens) = [M EXCEPT !.last = "impulse"]
        BY <2>3, <2>4, <3>1, <3>3 DEF TimeImpulse
      <3>6. /\ NamedLight([M EXCEPT !.last = "impulse"])
            /\ [M EXCEPT !.last = "impulse"].timers = M.timers
        BY <3>4 DEF NamedLight, LightFields
      <3> QED BY <3>4, <3>5, <3>6 DEF Impulsed
    <2>5. CASE ~classic
      <3>1. PICK ticks : ticks = S.blinks[S.current].duration
        OBVIOUS
      <3>2. LightImpulse(light, tokens) = NewTimer(S, "blink", ticks)
        BY <2>3, <2>5, <3>1 DEF TimeImpulse, TimeStep
      <3> QED BY <1>2, <2>2, <2>5, <3>2, TimerIsMade DEF Impulsed
    <2> QED BY <2>4, <2>5
  <1> QED BY <1>3, <1>4

\* A timer that fires has been armed again, and is still the one that is named.
LEMMA TimerFiresKeeps ==
  ASSUME LightInv, reaction.do # "impulse", NEW t \in light.timers, LightTimerFires(t)
  PROVE  LightInv'
  <1>1. PICK R : R = Rearmed(t)
    OBVIOUS
  <1>2. NamedLight(R) /\ R.last = light.last
    <2>1. t = [f \in TimerFields |-> t[f]] /\ t.named = TRUE
      BY DEF LightInv, NamedLight, Named
    <2>2. PICK again : again = [t EXCEPT !.left = t.period]
      OBVIOUS
    <2>3. again = [f \in TimerFields |-> again[f]] /\ again.named = TRUE
      BY <2>1, <2>2 DEF TimerFields
    <2>4. PICK kept : kept = (light.timers \ {t}) \cup
                                (IF t.period = 0 THEN {} ELSE {again})
      OBVIOUS
    <2>0. Named(kept)
      <3>1. \A u \in kept : u \in light.timers \/ u = again
        BY <2>4
      <3> QED BY <2>3, <3>1 DEF LightInv, NamedLight, Named
    <2>5. R = [light EXCEPT !.timers = kept]
      BY <1>1, <2>2, <2>4 DEF Rearmed, LightInv, NamedLight, LightFields
    <2> QED BY <2>0, <2>5 DEF LightInv, NamedLight, LightFields
  <1>3. CASE t.kind = "impulse"
    <2>1. PICK S : S = SetAndSignal(R, FALSE)
      OBVIOUS
    <2>2. /\ NamedLight(S)
          /\ S.last = "set" \/ S.value = FALSE
      BY <1>2, <2>1, SignalKeeps
    <2>3. light' = DeleteTimer(S)
      BY <1>1, <1>3, <2>1 DEF LightTimerFires, ImpulseIsOver
    <2> QED BY <2>2, <2>3, TimersAreDeleted DEF LightInv, Impulsed
  <1>4. CASE t.kind # "impulse"
    <2>1. light.last # "impulse"
      BY <1>4 DEF LightInv, Impulsed
    <2>2. PICK off : off = DeleteTimer(R)
      OBVIOUS
    <2>3. NamedLight(off) /\ off.last = light.last /\ off.timers = {}
      BY <1>2, <2>2, TimersAreDeleted
    <2>4. PICK next : next = R.blinks[R.current].next
      OBVIOUS
    <2>5. PICK moved : moved = [off EXCEPT !.current = next]
      OBVIOUS
    <2>6. NamedLight(moved) /\ moved.last = light.last /\ moved.timers = {}
      BY <2>3, <2>5 DEF NamedLight, LightFields
    <2>7. PICK S : S = SetAndSignal(moved, R.blinks[moved.current].state)
      OBVIOUS
    <2>8. NamedLight(S) /\ S.last \in {"set", light.last} /\ S.timers = {}
      BY <2>6, <2>7, SignalKeeps
    <2>9. NamedLight(TimeStep(S)) /\ TimeStep(S).last = S.last
      BY <2>8, TimerIsMade DEF TimeStep
    <2>10. light' \in {off, moved, TimeStep(S)}
      BY <1>1, <1>4, <2>2, <2>4, <2>5, <2>7 DEF LightTimerFires, BlinkIsOver
    <2> QED BY <2>1, <2>3, <2>6, <2>8, <2>9, <2>10 DEF LightInv, Impulsed
  <1> QED BY <1>3, <1>4

LEMMA LightStepKeeps ==
  ASSUME LightInv, reaction.do # "impulse", [LightNext]_lgVars
  PROVE  LightInv' /\ UNCHANGED reaction
  <1>0. NamedLight(light)
    BY DEF LightInv
  <1>1. ASSUME NEW on, SetValue(on) PROVE LightInv' /\ UNCHANGED reaction
    <2>1. PICK off : off = Stopped(light)
      OBVIOUS
    <2>2. NamedLight(off) /\ off.last = "set"
      BY <1>0, <2>1, TimersAreDeleted
    <2>3. light' = SetAndSignal(off, on) /\ UNCHANGED reaction
      BY <1>1, <2>1 DEF SetValue
    <2> QED BY <2>2, <2>3, SignalKeeps DEF LightInv, Impulsed
  <1>2. ASSUME NEW on, SetLightState(on) PROVE LightInv' /\ UNCHANGED reaction
    <2>1. PICK L : L = [light EXCEPT !.last = IF light.timers = {} THEN "set" ELSE @]
      OBVIOUS
    <2>2. /\ NamedLight(L) /\ L.timers = light.timers
          /\ L.last = IF light.timers = {} THEN "set" ELSE light.last
      BY <1>0, <2>1 DEF NamedLight, LightFields
    <2>3. light' = SetAndSignal(L, on) /\ UNCHANGED reaction
      BY <1>2, <2>1 DEF SetLightState
    <2> QED BY <2>2, <2>3, SignalKeeps DEF LightInv, Impulsed
  <1>3. ASSUME NEW tokens, PlayImpulse(tokens) PROVE LightInv' /\ UNCHANGED reaction
    BY <1>3, ImpulseKeeps DEF PlayImpulse, LightInv
  <1>4. CASE LightCallback
    BY <1>4, TimerFiresKeeps DEF LightCallback, LightTimerFires
  <1>5. CASE LightTick
    <2>1. PICK older : older = {[t EXCEPT !.left = @ - 1] : t \in light.timers}
      OBVIOUS
    <2>2. Named(older)
      <3>1. ASSUME NEW t \in light.timers, NEW u, u = [t EXCEPT !.left = @ - 1]
            PROVE  u = [f \in TimerFields |-> u[f]] /\ u.named = TRUE
        <4>1. t = [f \in TimerFields |-> t[f]] /\ t.named = TRUE
          BY <1>0 DEF NamedLight, Named
        <4> QED BY <3>1, <4>1 DEF TimerFields
      <3> QED BY <2>1, <3>1 DEF Named
    <2>0. ASSUME NEW t \in light.timers PROVE [t EXCEPT !.left = @ - 1].kind = t.kind
      BY <1>0 DEF NamedLight, Named, TimerFields
    <2>3. older = {} => light.timers = {}
      BY <2>1
    <2>6. ASSUME \A t \in light.timers : t.kind = "impulse"
          PROVE  \A t \in older : t.kind = "impulse"
      BY <2>0, <2>1, <2>6
    <2>4. light' = [light EXCEPT !.timers = older] /\ UNCHANGED reaction
      BY <1>5, <2>1 DEF LightTick
    <2>5. /\ NamedLight(light') /\ light'.timers = older
          /\ light'.last = light.last /\ light'.value = light.value
      BY <1>0, <2>2, <2>4 DEF NamedLight, LightFields
    <2> QED BY <2>3, <2>4, <2>5, <2>6 DEF LightInv, Impulsed
  <1>6. CASE UNCHANGED lgVars
    BY <1>6 DEF lgVars, LightInv
  <1> QED
    BY <1>1, <1>2, <1>3, <1>4, <1>5, <1>6 DEF LightNext, LightClient, ToggleLight

\* "Set to true for X ms then reset to false": as long as no rule answers the
\* light with an impulse of its own, a light whose last command was an impulse
\* and that has no timer is off, whatever was asked meanwhile.
THEOREM ImpulsesEnd ==
  ASSUME \A r \in Reactions : r.do # "impulse"
  PROVE  LightSpec => []ImpulsesAreOver
  <1>1. LightInit => LightInv /\ reaction.do # "impulse"
    BY DEF LightInit, LightInv, NamedLight, Named, Impulsed, LightFields
  <1>2. LightInv => ImpulsesAreOver
    BY DEF LightInv, Impulsed, ImpulsesAreOver
  <1>3. LightInv /\ reaction.do # "impulse" /\ [LightNext]_lgVars
          => LightInv' /\ (reaction.do # "impulse")'
    BY LightStepKeeps
  <1> QED BY <1>1, <1>2, <1>3, PTL DEF LightSpec

-----------------------------------------------------------------------------
(* Blinking patterns                                                       *)

Reading == [steps : Seq(BlinkInfo), state : BOOLEAN, loop : Nat]
Unread == [steps |-> <<>>, state |-> TRUE, loop |-> 0]

\* A token leaves a reading of the pattern.
LEMMA ReadTokenTypes ==
  ASSUME NEW value \in BOOLEAN, NEW read \in Reading, NEW token \in PatternToken
  PROVE  ReadToken(value, read, token) \in Reading
  <1>1. CASE token = OldToken
    <2>1. Blink(value, 0, read.steps) \in BlinkInfo
      BY DEF Reading, Blink, BlinkInfo
    <2>2. Append(read.steps, Blink(value, 0, read.steps)) \in Seq(BlinkInfo)
      BY <2>1 DEF Reading
    <2>3. [read EXCEPT !.steps = Append(@, Blink(value, 0, @))] \in Reading
      BY <2>2 DEF Reading
    <2>4. ReadToken(value, read, token) = [read EXCEPT !.steps = Append(@, Blink(value, 0, @))]
      BY <1>1 DEF ReadToken, OldToken, LoopToken
    <2> QED BY <2>3, <2>4
  <1>2. CASE token = LoopToken
    BY <1>2 DEF ReadToken, Reading, OldToken, LoopToken
  <1>3. CASE token # OldToken /\ token # LoopToken
    <2>1. token \in Nat
      BY <1>3 DEF PatternToken
    <2>2. Blink(read.state, token, read.steps) \in BlinkInfo
      BY <2>1 DEF Reading, Blink, BlinkInfo
    <2>3. Append(read.steps, Blink(read.state, token, read.steps)) \in Seq(BlinkInfo)
      BY <2>2 DEF Reading
    <2>4. [read EXCEPT !.steps = Append(@, Blink(read.state, token, @)), !.state = ~@] \in Reading
      BY <2>3 DEF Reading
    <2> QED BY <1>3, <2>4 DEF ReadToken
  <1> QED BY <1>1, <1>2, <1>3

ReadsIn(p, value, tokens) ==
  /\ p \in [0..Len(tokens) -> Reading]
  /\ p[0] = Unread
  /\ \A i \in 1..Len(tokens) : p[i] = ReadToken(value, p[i - 1], tokens[i])

Parsed(read) ==
  IF read.loop \in DOMAIN read.steps
  THEN [read.steps EXCEPT ![Len(read.steps)].next = read.loop]
  ELSE read.steps

\* A pattern is read token by token.
LEMMA ParseReads ==
  ASSUME NEW tokens \in Seq(PatternToken), NEW value \in BOOLEAN
  PROVE  \E p : ReadsIn(p, value, tokens) /\ ParsePattern(tokens, value) = Parsed(p[Len(tokens)])
  <1> DEFINE N == Len(tokens)
             step == [q \in Reading \X (1..N) |-> ReadToken(value, q[1], tokens[q[2]])]
             Is(f) == f = [s \in SUBSET (1..N) |->
                             IF s = {} THEN Unread
                             ELSE ReadToken(value, f[s \ {Max(s)}], tokens[Max(s)])]
             iter == CHOOSE f : Is(f)
  <1>1. N \in Nat /\ DOMAIN tokens = 1..N /\ \A i \in 1..N : tokens[i] \in PatternToken
    OBVIOUS
  <1>2. Unread \in Reading
    BY DEF Unread, Reading
  <1>3. \A r \in Reading, i \in 1..N : step[<<r, i>>] = ReadToken(value, r, tokens[i])
    OBVIOUS
  <1>4. step \in StepsOf(Reading, N)
    <2>1. ASSUME NEW q \in Reading \X (1..N)
          PROVE  ReadToken(value, q[1], tokens[q[2]]) \in Reading
      BY <1>1, ReadTokenTypes
    <2> QED BY <2>1 DEF StepsOf
  <1>5. FoldLeft(LAMBDA r, token : ReadToken(value, r, token), Unread, tokens) = iter[1..N]
    BY <1>1 DEF FoldLeft, MapThenFoldSet
  <1> HIDE DEF N, step
  <1>6. PICK g : Recurs(Reading, Unread, N, step, g)
    <2> HIDE DEF Is, iter
    <2>1. N \in Nat
      BY <1>1
    <2> QED BY <2>1, <1>2, <1>4, FoldIsDefined
  <1>7. Is(g)
    <2>1. ASSUME NEW s \in SUBSET (1..N), s # {}
          PROVE  g[s] = ReadToken(value, g[s \ {Max(s)}], tokens[Max(s)])
      <3>1. Max(s) \in 1..N /\ s \ {Max(s)} \in SUBSET (1..N)
        BY <1>1, <2>1, MaxBelow
      <3>2. g[s \ {Max(s)}] \in Reading
        BY <1>6, <3>1 DEF Recurs
      <3>3. g[s] = step[<<g[s \ {Max(s)}], Max(s)>>]
        BY <1>6, <2>1 DEF Recurs
      <3> QED BY <1>3, <3>1, <3>2, <3>3
    <2>2. \A s \in SUBSET (1..N) : g[s] = IF s = {} THEN Unread
                             ELSE ReadToken(value, g[s \ {Max(s)}], tokens[Max(s)])
      BY <1>6, <2>1 DEF Recurs
    <2>3. g = [s \in SUBSET (1..N) |-> g[s]]
      BY <1>6 DEF Recurs
    <2> QED BY <2>2, <2>3
  <1>8. Is(iter)
    <2> HIDE DEF Is
    <2> QED BY <1>7
  <1> HIDE DEF iter
  <1>9. \A s \in SUBSET (1..N) : iter[s] = IF s = {} THEN Unread
                             ELSE ReadToken(value, iter[s \ {Max(s)}], tokens[Max(s)])
    BY <1>8
  <1>10. iter[{}] = Unread
    BY <1>9
  <1>11. ASSUME NEW i \in 1..N, iter[1..(i - 1)] \in Reading
         PROVE  iter[1..i] = step[<<iter[1..(i - 1)], i>>]
    <2>1. /\ 1..i \in SUBSET (1..N) /\ 1..i # {} /\ Max(1..i) = i
          /\ (1..i) \ {i} = 1..(i - 1)
      BY <1>1, PrefixIs
    <2>2. iter[1..i] = ReadToken(value, iter[1..(i - 1)], tokens[i])
      BY <1>9, <2>1
    <2> QED BY <1>3, <1>11, <2>2
  <1>12. StepsAlong(Reading, Unread, N, step, iter)
    BY <1>10, <1>11 DEF StepsAlong
  <1>13. PICK p : Passes(Reading, Unread, N, step, p) /\ p[N] = iter[1..N]
    <2> HIDE DEF Is
    <2>1. N \in Nat
      BY <1>1
    <2> QED BY <2>1, <1>2, <1>4, <1>12, FoldPasses
  <1>14. ReadsIn(p, value, tokens)
    <2>1. \A i \in 1..N : p[i - 1] \in Reading
      BY <1>1, <1>13 DEF Passes
    <2>2. \A i \in 1..N : p[i] = ReadToken(value, p[i - 1], tokens[i])
      BY <1>3, <1>13, <2>1 DEF Passes
    <2> QED BY <1>13, <2>2 DEF ReadsIn, Passes, N
  <1>15. ParsePattern(tokens, value) = Parsed(iter[1..N])
    BY <1>5 DEF ParsePattern, Parsed, Unread
  <1> QED BY <1>13, <1>14, <1>15 DEF N

\* A pattern is a sequence of steps.
LEMMA PatternIsSteps ==
  ASSUME NEW tokens \in Seq(PatternToken), NEW value \in BOOLEAN
  PROVE  ParsePattern(tokens, value) \in Seq(BlinkInfo)
  <1>1. PICK p : /\ ReadsIn(p, value, tokens)
                 /\ ParsePattern(tokens, value) = Parsed(p[Len(tokens)])
    BY ParseReads
  <1>2. PICK read \in Reading : read = p[Len(tokens)]
    BY <1>1 DEF ReadsIn
  <1>3. CASE read.loop \in DOMAIN read.steps
    <2>1. read.steps \in Seq(BlinkInfo) /\ Len(read.steps) \in DOMAIN read.steps
          /\ read.loop \in Nat
      BY <1>3 DEF Reading
    <2>2. [read.steps[Len(read.steps)] EXCEPT !.next = read.loop] \in BlinkInfo
      <3>1. read.steps[Len(read.steps)] \in BlinkInfo
        BY <2>1
      <3> QED BY <2>1, <3>1 DEF BlinkInfo
    <2>3. Parsed(read) \in Seq(BlinkInfo)
      BY <1>3, <2>1, <2>2 DEF Parsed
    <2> QED BY <1>1, <1>2, <2>3
  <1>4. CASE read.loop \notin DOMAIN read.steps
    BY <1>1, <1>2, <1>4 DEF Parsed, Reading
  <1> QED BY <1>3, <1>4

\* A blinking pattern that goes from its first step to its last, which sets v
GivesBack(blinks, v) ==
  /\ \A i \in DOMAIN blinks : blinks[i].next = i + 1
  /\ blinks # <<>> => blinks[Len(blinks)].state = v

\* Reading a pattern without "loop", up to a token
Straight(read, value, last) ==
  /\ read.loop = 0
  /\ \A i \in DOMAIN read.steps : read.steps[i].next = i + 1
  /\ last = OldToken => GivesBack(read.steps, value)

\* The next token makes the next step, that goes on with the one after it.
LEMMA TokenKeepsStraight ==
  ASSUME NEW value \in BOOLEAN, NEW read \in Reading, NEW token \in PatternToken,
         token # LoopToken, NEW last, Straight(read, value, last)
  PROVE  Straight(ReadToken(value, read, token), value, token)
  <1>1. PICK blink \in BlinkInfo :
          /\ blink.next = Len(read.steps) + 2
          /\ token = OldToken => blink.state = value
          /\ ReadToken(value, read, token).steps = Append(read.steps, blink)
          /\ ReadToken(value, read, token).loop = read.loop
    <2>1. CASE token = OldToken
      <3>1. ReadToken(value, read, token)
              = [read EXCEPT !.steps = Append(@, Blink(value, 0, @))]
        BY <2>1 DEF ReadToken, OldToken, LoopToken
      <3>2. Blink(value, 0, read.steps) \in BlinkInfo
        BY DEF Blink, BlinkInfo, Reading
      <3>3. /\ Blink(value, 0, read.steps).next = Len(read.steps) + 2
            /\ Blink(value, 0, read.steps).state = value
        BY DEF Blink
      <3>4. /\ ReadToken(value, read, token).steps = Append(read.steps, Blink(value, 0, read.steps))
            /\ ReadToken(value, read, token).loop = read.loop
        BY <3>1 DEF Reading
      <3> QED BY <3>2, <3>3, <3>4
    <2>2. CASE token # OldToken
      <3>0. token \in Nat
        BY <2>2 DEF PatternToken
      <3>1. ReadToken(value, read, token)
              = [read EXCEPT !.steps = Append(@, Blink(read.state, token, @)), !.state = ~@]
        BY <2>2 DEF ReadToken
      <3>2. Blink(read.state, token, read.steps) \in BlinkInfo
        BY <3>0 DEF Blink, BlinkInfo, Reading
      <3>3. Blink(read.state, token, read.steps).next = Len(read.steps) + 2
        BY DEF Blink
      <3>4. /\ ReadToken(value, read, token).steps = Append(read.steps, Blink(read.state, token, read.steps))
            /\ ReadToken(value, read, token).loop = read.loop
        BY <3>1 DEF Reading
      <3> QED BY <2>2, <3>2, <3>3, <3>4
    <2> QED BY <2>1, <2>2
  <1> DEFINE steps == read.steps
             more == Append(steps, blink)
  <1>2. steps \in Seq(BlinkInfo)
    BY DEF Reading
  <1> HIDE DEF steps
  <1>3. /\ DOMAIN more = 1..(Len(steps) + 1) /\ Len(more) = Len(steps) + 1
        /\ more[Len(steps) + 1] = blink /\ more # <<>>
        /\ \A i \in 1..Len(steps) : more[i] = steps[i]
        /\ DOMAIN steps = 1..Len(steps) /\ Len(steps) \in Nat
    BY <1>2
  <1> HIDE DEF more
  <1>4. ASSUME NEW i \in DOMAIN more PROVE more[i].next = i + 1
    <2>1. CASE i = Len(steps) + 1
      BY <1>1, <1>3, <2>1 DEF steps
    <2>2. CASE i # Len(steps) + 1
      <3>1. i \in 1..Len(steps) /\ i \in DOMAIN steps
        BY <1>3, <2>2
      <3>2. steps[i].next = i + 1
        BY <3>1 DEF steps, Straight
      <3> QED BY <1>3, <3>1, <3>2
    <2> QED BY <2>1, <2>2
  <1>5. token = OldToken => more[Len(more)].state = value
    BY <1>1, <1>3
  <1>6. ReadToken(value, read, token).steps = more
        /\ ReadToken(value, read, token).loop = 0
    BY <1>1 DEF more, steps, Straight
  <1> QED BY <1>3, <1>4, <1>5, <1>6 DEF Straight, GivesBack

\* A pattern that ends with "old", and ends, sets the state the light had.
LEMMA PatternGivesBack ==
  ASSUME NEW tokens \in Seq(PatternToken), NEW value \in BOOLEAN, Restores(tokens)
  PROVE  GivesBack(ParsePattern(tokens, value), value)
  <1> DEFINE N == Len(tokens)
  <1>1. PICK p : ReadsIn(p, value, tokens) /\ ParsePattern(tokens, value) = Parsed(p[N])
    BY ParseReads
  <1>2. N \in Nat /\ DOMAIN tokens = 1..N /\ \A i \in 1..N : tokens[i] \in PatternToken
    OBVIOUS
  <1>3. \A i \in 1..N : tokens[i] # LoopToken
    BY <1>2 DEF Restores
  <1> DEFINE S == {i \in 0..N : Straight(p[i], value, IF i = 0 THEN LoopToken ELSE tokens[i])}
  <1> HIDE DEF N
  <1>4. 0 \in S
    BY <1>1, <1>2 DEF ReadsIn, Unread, Straight, LoopToken, OldToken, N
  <1>5. ASSUME NEW n \in 0..N, n \in S, n < N PROVE n + 1 \in S
    <2>1. n + 1 \in 1..N /\ (n + 1) - 1 = n /\ n + 1 \in 0..N /\ n + 1 # 0
      BY <1>2, <1>5
    <2>2. p[n] \in Reading /\ p[n + 1] = ReadToken(value, p[n], tokens[n + 1])
      BY <1>1, <2>1 DEF ReadsIn, N
    <2>3. tokens[n + 1] \in PatternToken /\ tokens[n + 1] # LoopToken
      BY <1>2, <1>3, <2>1
    <2>4. Straight(p[n], value, IF n = 0 THEN LoopToken ELSE tokens[n])
      BY <1>5
    <2>5. Straight(p[n + 1], value, tokens[n + 1])
      BY <2>2, <2>3, <2>4, TokenKeepsStraight
    <2> QED BY <2>1, <2>5
  <1>6. \A n \in 0..N : n \in S
    <2> HIDE DEF S
    <2> QED BY <1>2, <1>4, <1>5, Reaches
  <1>7. Straight(p[N], value, IF N = 0 THEN LoopToken ELSE tokens[N])
    BY <1>2, <1>6
  <1>8. p[N] \in Reading
    BY <1>1, <1>2 DEF ReadsIn, N
  <1>9. Parsed(p[N]) = p[N].steps
    <2>1. p[N].steps \in Seq(BlinkInfo) /\ p[N].loop = 0
      BY <1>7, <1>8 DEF Reading, Straight
    <2>2. 0 \notin DOMAIN p[N].steps
      BY <2>1
    <2> QED BY <2>1, <2>2 DEF Parsed
  <1>10. CASE N = 0
    <2>1. p[N].steps = <<>>
      BY <1>1, <1>10 DEF ReadsIn, Unread
    <2>2. DOMAIN <<>> = {}
      OBVIOUS
    <2> QED BY <1>1, <1>9, <2>1, <2>2 DEF GivesBack
  <1>11. CASE N # 0
    <2>1. tokens[N] = OldToken
      BY DEF Restores, N
    <2> QED BY <1>1, <1>7, <1>9, <1>11, <2>1 DEF Straight
  <1> QED BY <1>10, <1>11

-----------------------------------------------------------------------------
(* What the timers and patterns of a light are                             *)

\* An object of the class with all its members
LightWell(L) ==
  /\ NamedLight(L) /\ L.timers \subseteq LightTimer
  /\ L.value \in BOOLEAN /\ L.blinks \in Seq(BlinkInfo) /\ L.current \in Nat
  /\ L.last \in {"set", "impulse", "pattern"}

\* While the pattern that gives back "olds" plays, it is at one of its steps
Restoring(L, olds) ==
  L.last = "pattern" => \A old \in olds :
    \/ L.timers = {} /\ L.value = old
    \/ /\ L.timers # {} /\ \A t \in L.timers : t.kind = "blink"
       /\ L.current \in DOMAIN L.blinks /\ L.value = L.blinks[L.current].state
       /\ GivesBack(L.blinks, old)

LightKeeps ==
  /\ LightWell(light) /\ reaction \in Reactions /\ reaction.do # "impulse"
  /\ lgAsked \in [tokens : Impulses \cup {<<>>}, old : SUBSET BOOLEAN]
  /\ reaction.do = "nothing" => Restoring(light, lgAsked.old)

\* L with other members
Like(M, L, value, armed, current, last) ==
  /\ LightWell(M) /\ M.blinks = L.blinks
  /\ M.value = value /\ M.timers = armed /\ M.current = current /\ M.last = last

\* A light with other members is one,
LEMMA WellIsLike ==
  ASSUME NEW L, LightWell(L)
  PROVE  /\ \A value \in BOOLEAN :
              Like([L EXCEPT !.value = value], L, value, L.timers, L.current, L.last)
         /\ \A current \in Nat :
              Like([L EXCEPT !.current = current], L, L.value, L.timers, current, L.last)
         /\ \A last \in {"set", "impulse", "pattern"} :
              Like([L EXCEPT !.last = last], L, L.value, L.timers, L.current, last)
         /\ \A armed \in SUBSET LightTimer : Named(armed) =>
              Like([L EXCEPT !.timers = armed], L, L.value, armed, L.current, L.last)
  BY DEF LightWell, Like, NamedLight, LightFields

\* the one whose timers are deleted,
LEMMA DeletedIsLike ==
  ASSUME NEW L, LightWell(L)
  PROVE  /\ Like(DeleteTimer(L), L, L.value, {}, L.current, L.last)
         /\ Like(Stopped(L), L, L.value, {}, L.current, "set")
  <1>1. PICK off : off = DeleteTimer(L)
    OBVIOUS
  <1>2. off = [L EXCEPT !.timers = {}]
    BY <1>1, TimersAreDeleted DEF LightWell
  <1>3. Named({}) /\ {} \in SUBSET LightTimer
    BY DEF Named
  <1>4. Like(off, L, L.value, {}, L.current, L.last)
    BY <1>2, <1>3, WellIsLike
  <1>5. Stopped(L) = [off EXCEPT !.last = "set"]
    BY <1>1 DEF Stopped
  <1>6. Like(Stopped(L), off, off.value, off.timers, off.current, "set")
    <2>1. LightWell(off)
      BY <1>4 DEF Like
    <2> QED BY <1>5, <2>1, WellIsLike
  <1> QED BY <1>1, <1>4, <1>6 DEF Like

\* The timers of a light that gets one
OneTimer(kind, ticks) ==
  {[kind |-> kind, left |-> ticks, period |-> ticks, named |-> TRUE]}

\* the one that gets a timer.
LEMMA NewTimerIsLike ==
  ASSUME NEW L, LightWell(L), L.timers = {}, NEW kind \in {"impulse", "blink"},
         NEW ticks \in Nat
  PROVE  Like(NewTimer(L, kind, ticks), L, L.value, OneTimer(kind, ticks), L.current, L.last)
  <1>1. {[t EXCEPT !.named = FALSE] : t \in L.timers} = {}
    OBVIOUS
  <1>2. {[t EXCEPT !.named = FALSE] : t \in L.timers} \cup OneTimer(kind, ticks)
          = OneTimer(kind, ticks)
    BY <1>1
  <1>3. NewTimer(L, kind, ticks) = [L EXCEPT !.timers = OneTimer(kind, ticks)]
    BY <1>2 DEF NewTimer, OneTimer, LightWell, NamedLight, LightFields
  <1>4. OneTimer(kind, ticks) \in SUBSET LightTimer /\ Named(OneTimer(kind, ticks))
    BY DEF OneTimer, LightTimer, Named, TimerFields
  <1> QED BY <1>3, <1>4, WellIsLike

\* The next step of a pattern gets its timer.
LEMMA TimeStepIsLike ==
  ASSUME NEW L, LightWell(L), L.timers = {}, L.current \in DOMAIN L.blinks
  PROVE  \E ticks \in Nat :
           Like(TimeStep(L), L, L.value, OneTimer("blink", ticks), L.current, L.last)
  <1>1. PICK ticks : ticks = L.blinks[L.current].duration
    OBVIOUS
  <1>2. L.blinks[L.current] \in BlinkInfo
    BY DEF LightWell
  <1>3. ticks \in Nat
    BY <1>1, <1>2 DEF BlinkInfo
  <1>4. TimeStep(L) = NewTimer(L, "blink", ticks)
    BY <1>1 DEF TimeStep
  <1> QED BY <1>3, <1>4, NewTimerIsLike

\* A write, and what the rule answers, which may be nothing.
LEMMA SignalIsLike ==
  ASSUME NEW L, LightWell(L), NEW on \in BOOLEAN,
         reaction \in Reactions, reaction.do # "impulse"
  PROVE  \/ Like(SetAndSignal(L, on), L, on, L.timers, L.current, L.last)
         \/ /\ reaction.do # "nothing"
            /\ \E value \in BOOLEAN :
                 Like(SetAndSignal(L, on), L, value, {}, L.current, "set")
  <1>1. PICK set : set = JustSet(L, on)
    OBVIOUS
  <1>2. Like(set, L, on, L.timers, L.current, L.last)
    BY <1>1, WellIsLike DEF JustSet
  <1>3. PICK off : off = Stopped(set)
    OBVIOUS
  <1>4. Like(off, set, set.value, {}, set.current, "set")
    BY <1>2, <1>3, DeletedIsLike DEF Like
  <1>5. PICK value \in BOOLEAN : value = (reaction.do = "true")
    OBVIOUS
  <1>6. Like(JustSet(off, value), off, value, {}, off.current, "set")
    <2>1. LightWell(off) /\ off.timers = {} /\ off.last = "set"
      BY <1>4 DEF Like
    <2> QED BY <2>1, WellIsLike DEF JustSet
  <1>7. Like(JustSet(off, value), L, value, {}, L.current, "set")
    BY <1>2, <1>4, <1>6 DEF Like
  <1>8. \/ SetAndSignal(L, on) = set
        \/ reaction.do # "nothing" /\ SetAndSignal(L, on) = JustSet(off, value)
    BY <1>1, <1>3, <1>5 DEF SetAndSignal
  <1> QED BY <1>2, <1>7, <1>8

\* Asked a pattern, a light starts it from its first step.
LEMMA ReadIsLike ==
  ASSUME NEW L, LightWell(L), NEW tokens \in Seq(PatternToken)
  PROVE  /\ IsClassic(tokens)
              => Like(ReadImpulse(L, tokens), L, L.value, {}, L.current, "set")
         /\ ~IsClassic(tokens) =>
              LET read == ReadImpulse(L, tokens)
              IN /\ LightWell(read) /\ read.blinks = ParsePattern(tokens, L.value)
                 /\ read.value = L.value /\ read.timers = {} /\ read.current = 1
                 /\ read.last = "pattern"
  <1>1. ASSUME ~IsClassic(tokens)
        PROVE  LET read == ReadImpulse(L, tokens)
               IN /\ LightWell(read) /\ read.blinks = ParsePattern(tokens, L.value)
                  /\ read.value = L.value /\ read.timers = {} /\ read.current = 1
                  /\ read.last = "pattern"
    <2>1. PICK off : off = DeleteTimer(L)
      OBVIOUS
    <2>2. Like(off, L, L.value, {}, L.current, L.last)
      BY <2>1, DeletedIsLike
    <2>3. LightWell(off) /\ off.value = L.value /\ off.timers = {}
      BY <2>2 DEF Like
    <2>4. PICK blinks \in Seq(BlinkInfo) : blinks = ParsePattern(tokens, L.value)
      BY PatternIsSteps DEF LightWell
    <2>5. ReadImpulse(L, tokens) = [off EXCEPT !.blinks = blinks, !.current = 1, !.last = "pattern"]
      BY <1>1, <2>1, <2>4 DEF ReadImpulse
    <2>6. PICK read : read = [off EXCEPT !.blinks = blinks, !.current = 1, !.last = "pattern"]
      OBVIOUS
    <2>7. /\ NamedLight(read) /\ read.blinks = blinks /\ read.current = 1
          /\ read.last = "pattern" /\ read.value = off.value /\ read.timers = off.timers
      BY <2>3, <2>6 DEF LightWell, NamedLight, LightFields
    <2>8. LightWell(read)
      BY <2>3, <2>7 DEF LightWell
    <2> QED BY <2>3, <2>4, <2>5, <2>6, <2>7, <2>8
  <1>2. IsClassic(tokens) => ReadImpulse(L, tokens) = Stopped(L)
    BY DEF ReadImpulse
  <1> QED BY <1>1, <1>2, DeletedIsLike

\* A pattern or an impulse is asked.
LEMMA PlayKeeps ==
  ASSUME LightKeeps, NEW tokens \in Impulses, PlayImpulse(tokens)
  PROVE  LightKeeps'
  <1>0. tokens \in Seq(PatternToken) /\ LightWell(light) /\ light.value \in BOOLEAN
    BY LightAssumption DEF LightKeeps, LightWell
  <1>1. PICK read : read = ReadImpulse(light, tokens)
    OBVIOUS
  <1>2. /\ lgAsked' = [tokens |-> tokens, old |-> IF Restores(tokens) THEN {light.value} ELSE {}]
        /\ reaction' = reaction
    BY DEF PlayImpulse
  <1>3. lgAsked' \in [tokens : Impulses \cup {<<>>}, old : SUBSET BOOLEAN]
    BY <1>0, <1>2
  <1>4. CASE IsClassic(tokens)
    <2>1. Like(read, light, light.value, {}, light.current, "set")
      BY <1>0, <1>1, <1>4, ReadIsLike
    <2>2. LightWell(read) /\ read.timers = {}
      BY <2>1 DEF Like
    <2>3. PICK S : S = SetAndSignal(read, TRUE)
      OBVIOUS
    <2>4. \/ Like(S, read, TRUE, read.timers, read.current, read.last)
          \/ \E value \in BOOLEAN : Like(S, read, value, {}, read.current, "set")
      BY <2>2, <2>3, SignalIsLike DEF LightKeeps
    <2>5. LightWell(S)
      BY <2>4 DEF Like
    <2>6. PICK off : off = DeleteTimer(S)
      OBVIOUS
    <2>7. Like(off, S, S.value, {}, S.current, S.last)
      BY <2>5, <2>6, DeletedIsLike
    <2>8. LightWell(off) /\ off.timers = {}
      BY <2>7 DEF Like
    <2>9. PICK ticks \in Nat : ticks = tokens[1]
      BY <1>4 DEF IsClassic
    <2>10. PICK M : M = NewTimer(off, "impulse", ticks)
      OBVIOUS
    <2>11. Like(M, off, off.value, OneTimer("impulse", ticks), off.current, off.last)
      BY <2>8, <2>10, NewTimerIsLike
    <2>12. LightWell(M)
      BY <2>11 DEF Like
    <2>13. light' = [M EXCEPT !.last = "impulse"]
      <3>1. Plays(read, tokens) /\ FirstState(read, tokens) = TRUE
        BY <1>4 DEF Plays, FirstState
      <3>2. light' = TimeImpulse(S, tokens)
        BY <1>1, <2>3, <3>1 DEF PlayImpulse, LightImpulse
      <3> QED BY <1>4, <2>6, <2>9, <2>10, <3>2 DEF TimeImpulse
    <2>14. Like(light', M, M.value, M.timers, M.current, "impulse")
      BY <2>12, <2>13, WellIsLike
    <2>15. LightWell(light') /\ light'.last = "impulse"
      BY <2>14 DEF Like
    <2> QED BY <1>2, <1>3, <2>15 DEF LightKeeps, Restoring, LightWell
  <1>5. CASE ~IsClassic(tokens)
    <2>1. /\ LightWell(read) /\ read.blinks = ParsePattern(tokens, light.value)
          /\ read.value = light.value /\ read.timers = {} /\ read.current = 1
          /\ read.last = "pattern"
      BY <1>0, <1>1, <1>5, ReadIsLike
    <2>2. CASE ~Plays(read, tokens)
      <3>1. light' = read
        BY <1>1, <2>2 DEF PlayImpulse, LightImpulse
      <3>2. \A old \in lgAsked'.old : light'.timers = {} /\ light'.value = old
        BY <1>2, <2>1, <3>1
      <3> QED BY <1>2, <1>3, <2>1, <3>1, <3>2 DEF LightKeeps, Restoring, LightWell
    <2>3. CASE Plays(read, tokens)
      <3>1. read.blinks # <<>> /\ read.blinks \in Seq(BlinkInfo)
        BY <1>5, <2>1, <2>3 DEF Plays, LightWell
      <3>2. 1 \in DOMAIN read.blinks /\ read.blinks[1] \in BlinkInfo
        BY <3>1
      <3>3. PICK on \in BOOLEAN : on = read.blinks[1].state
        BY <3>2 DEF BlinkInfo
      <3>4. PICK S : S = SetAndSignal(read, on)
        OBVIOUS
      <3>5. \/ Like(S, read, on, {}, 1, "pattern")
            \/ reaction.do # "nothing" /\ \E value \in BOOLEAN : Like(S, read, value, {}, 1, "set")
        BY <2>1, <3>4, SignalIsLike DEF LightKeeps
      <3>6. LightWell(S) /\ S.timers = {} /\ S.current = 1 /\ S.blinks = read.blinks
        BY <3>5 DEF Like
      <3>7. light' = TimeStep(S)
        <4>1. FirstState(read, tokens) = on
          BY <1>5, <3>3 DEF FirstState
        <4> QED BY <1>1, <1>5, <2>3, <3>4, <4>1 DEF PlayImpulse, LightImpulse, TimeImpulse
      <3>8. PICK ticks \in Nat :
              Like(light', S, S.value, OneTimer("blink", ticks), S.current, S.last)
        BY <3>2, <3>6, <3>7, TimeStepIsLike
      <3>9. /\ LightWell(light') /\ light'.blinks = read.blinks /\ light'.value = S.value
            /\ light'.current = 1 /\ light'.timers = OneTimer("blink", ticks)
        BY <3>6, <3>8 DEF Like
      <3>10. ASSUME reaction.do = "nothing", NEW old \in lgAsked'.old
             PROVE  /\ light'.timers # {} /\ \A t \in light'.timers : t.kind = "blink"
                    /\ light'.current \in DOMAIN light'.blinks
                    /\ light'.value = light'.blinks[light'.current].state
                    /\ GivesBack(light'.blinks, old)
        <4>1. Restores(tokens) /\ old = light.value
          BY <1>2, <3>10
        <4>2. GivesBack(read.blinks, old)
          BY <1>0, <2>1, <4>1, PatternGivesBack
        <4>3. S.value = on
          BY <3>5, <3>10 DEF Like
        <4> QED BY <3>2, <3>3, <3>9, <4>2, <4>3 DEF OneTimer
      <3> QED BY <1>2, <1>3, <3>9, <3>10 DEF LightKeeps, Restoring
    <2> QED BY <2>2, <2>3
  <1> QED BY <1>4, <1>5

\* A timer that fires was the only one, and is armed again unless its delay is 0.
LEMMA RearmedIsLike ==
  ASSUME LightWell(light), NEW t \in light.timers
  PROVE  \E armed : Like(Rearmed(t), light, light.value, armed, light.current, light.last)
  <1>1. /\ t \in LightTimer /\ t = [f \in TimerFields |-> t[f]] /\ t.named = TRUE
        /\ t.period \in Nat
    BY DEF LightWell, NamedLight, Named, LightTimer
  <1>2. PICK again : again = [t EXCEPT !.left = t.period]
    OBVIOUS
  <1>3. again \in LightTimer
    BY <1>1, <1>2 DEF LightTimer
  <1>4. again = [f \in TimerFields |-> again[f]] /\ again.named = TRUE
    BY <1>1, <1>2 DEF TimerFields
  <1>5. PICK armed : armed = (light.timers \ {t}) \cup
                                 (IF t.period = 0 THEN {} ELSE {again})
    OBVIOUS
  <1>6. \A u \in armed : u \in light.timers \/ u = again
    BY <1>5
  <1>7. armed \in SUBSET LightTimer /\ Named(armed)
    BY <1>3, <1>4, <1>6 DEF LightWell, NamedLight, Named
  <1>8. Rearmed(t) = [light EXCEPT !.timers = armed]
    BY <1>2, <1>5 DEF Rearmed, LightWell, NamedLight, LightFields
  <1> QED BY <1>7, <1>8, WellIsLike

\* The timer of a light fires.
LEMMA FiresKeeps ==
  ASSUME LightKeeps, NEW t \in light.timers, LightTimerFires(t)
  PROVE  LightKeeps'
  <1>0. LightWell(light) /\ reaction \in Reactions /\ reaction.do # "impulse"
    BY DEF LightKeeps
  <1>1. PICK R : R = Rearmed(t)
    OBVIOUS
  <1>2. LightWell(R) /\ R.last = light.last /\ R.blinks = light.blinks
        /\ R.current = light.current /\ R.value = light.value
    BY <1>0, <1>1, RearmedIsLike DEF Like
  <1>3. UNCHANGED <<reaction, lgAsked>>
    BY DEF LightTimerFires
  <1>4. CASE t.kind = "impulse"
    <2>1. PICK S : S = SetAndSignal(R, FALSE)
      OBVIOUS
    <2>2. /\ LightWell(S) /\ S.last \in {"set", light.last}
      BY <1>0, <1>2, <2>1, SignalIsLike DEF Like
    <2>3. light' = DeleteTimer(S)
      BY <1>1, <1>4, <2>1 DEF LightTimerFires, ImpulseIsOver
    <2>4. LightWell(light') /\ light'.last \in {"set", light.last}
      BY <2>2, <2>3, DeletedIsLike DEF Like
    <2>5. reaction.do = "nothing" => Restoring(light', lgAsked.old)
      <3>1. SUFFICES ASSUME reaction.do = "nothing", light'.last = "pattern",
                            NEW old \in lgAsked.old
                     PROVE  FALSE
        BY DEF Restoring
      <3>2. light.last = "pattern" /\ Restoring(light, lgAsked.old)
        BY <2>4, <3>1 DEF LightKeeps
      <3> QED BY <1>4, <3>1, <3>2 DEF Restoring
    <2> QED BY <1>3, <2>4, <2>5 DEF LightKeeps
  <1>5. CASE t.kind # "impulse"
    <2>1. light' = BlinkIsOver(R)
      BY <1>1, <1>5 DEF LightTimerFires
    <2>2. PICK off : off = DeleteTimer(R)
      OBVIOUS
    <2>3. /\ LightWell(off) /\ off.timers = {} /\ off.last = light.last
          /\ off.value = light.value /\ off.blinks = light.blinks /\ off.current = light.current
      BY <1>2, <2>2, DeletedIsLike DEF Like
    <2>4. CASE light.current \notin DOMAIN light.blinks
      <3>1. light' = off
        BY <1>2, <2>1, <2>2, <2>4 DEF BlinkIsOver
      <3>2. reaction.do = "nothing" => Restoring(light', lgAsked.old)
        BY <2>3, <2>4, <3>1 DEF LightKeeps, Restoring
      <3> QED BY <1>3, <2>3, <3>1, <3>2 DEF LightKeeps
    <2>5. CASE light.current \in DOMAIN light.blinks
      <3>1. light.blinks[light.current] \in BlinkInfo
        BY <1>0, <2>5 DEF LightWell
      <3>2. PICK next \in Nat : next = light.blinks[light.current].next
        BY <3>1 DEF BlinkInfo
      <3>3. PICK moved : moved = [off EXCEPT !.current = next]
        OBVIOUS
      <3>4. Like(moved, off, off.value, off.timers, next, off.last)
        BY <2>3, <3>3, WellIsLike
      <3>5. /\ LightWell(moved) /\ moved.timers = {} /\ moved.last = light.last
            /\ moved.value = light.value /\ moved.blinks = light.blinks
            /\ moved.current = next
        BY <2>3, <3>4 DEF Like
      <3>6. CASE next \notin DOMAIN light.blinks
        <4>1. light' = moved
          BY <1>2, <2>1, <2>2, <2>5, <3>2, <3>3, <3>5, <3>6 DEF BlinkIsOver
        <4>2. ASSUME reaction.do = "nothing", light.last = "pattern",
                     NEW old \in lgAsked.old
              PROVE  light'.timers = {} /\ light'.value = old
          <5>1. /\ light.value = light.blinks[light.current].state
                /\ GivesBack(light.blinks, old)
            BY <4>2 DEF LightKeeps, Restoring
          <5>2. light.blinks \in Seq(BlinkInfo)
            BY <1>0 DEF LightWell
          <5>3. next = light.current + 1
            BY <2>5, <3>2, <5>1 DEF GivesBack
          <5>4. light.current = Len(light.blinks) /\ light.blinks # <<>>
            BY <2>5, <3>6, <5>2, <5>3
          <5> QED BY <3>5, <4>1, <5>1, <5>4 DEF GivesBack
        <4> QED BY <1>3, <3>5, <4>1, <4>2 DEF LightKeeps, Restoring
      <3>7. CASE next \in DOMAIN light.blinks
        <4>1. light.blinks[next] \in BlinkInfo
          BY <1>0, <3>7 DEF LightWell
        <4>2. PICK on \in BOOLEAN : on = light.blinks[next].state
          BY <4>1 DEF BlinkInfo
        <4>3. PICK S : S = SetAndSignal(moved, on)
          OBVIOUS
        <4>4. \/ Like(S, moved, on, {}, next, light.last)
              \/ /\ reaction.do # "nothing"
                 /\ \E value \in BOOLEAN : Like(S, moved, value, {}, next, "set")
          BY <1>0, <3>5, <4>3, SignalIsLike
        <4>5. LightWell(S) /\ S.timers = {} /\ S.current = next /\ S.blinks = light.blinks
          BY <3>5, <4>4 DEF Like
        <4>6. light' = TimeStep(S)
          BY <1>2, <2>1, <2>2, <2>5, <3>2, <3>3, <3>5, <3>7, <4>2, <4>3 DEF BlinkIsOver
        <4>7. PICK ticks \in Nat :
                Like(light', S, S.value, OneTimer("blink", ticks), S.current, S.last)
          BY <3>7, <4>5, <4>6, TimeStepIsLike
        <4>8. /\ LightWell(light') /\ light'.blinks = light.blinks /\ light'.value = S.value
              /\ light'.current = next /\ light'.timers = OneTimer("blink", ticks)
              /\ light'.last = S.last
          BY <4>5, <4>7 DEF Like
        <4>9. ASSUME reaction.do = "nothing", light'.last = "pattern", NEW old \in lgAsked.old
              PROVE  /\ light'.timers # {} /\ \A u \in light'.timers : u.kind = "blink"
                     /\ light'.current \in DOMAIN light'.blinks
                     /\ light'.value = light'.blinks[light'.current].state
                     /\ GivesBack(light'.blinks, old)
          <5>1. S.value = on /\ S.last = light.last
            BY <4>4, <4>9 DEF Like
          <5>2. GivesBack(light.blinks, old)
            BY <4>8, <4>9, <5>1 DEF LightKeeps, Restoring
          <5> QED BY <3>7, <4>2, <4>8, <5>1, <5>2 DEF OneTimer
        <4> QED BY <1>3, <4>8, <4>9 DEF LightKeeps, Restoring
      <3> QED BY <3>6, <3>7
    <2> QED BY <2>4, <2>5
  <1> QED BY <1>4, <1>5

\* Time passes.
LEMMA LightTickKeeps == LightKeeps /\ LightTick => LightKeeps'
  <1> SUFFICES ASSUME LightKeeps, LightTick PROVE LightKeeps'
    OBVIOUS
  <1>0. LightWell(light)
    BY DEF LightKeeps
  <1>1. PICK older : older = {[t EXCEPT !.left = @ - 1] : t \in light.timers}
    OBVIOUS
  <1>2. ASSUME NEW t \in light.timers
        PROVE  LET u == [t EXCEPT !.left = @ - 1]
               IN /\ u \in LightTimer /\ u = [f \in TimerFields |-> u[f]]
                  /\ u.named = TRUE /\ u.kind = t.kind
    <2>1. t \in LightTimer /\ t.named = TRUE /\ t.left > 0
      BY <1>0 DEF LightTick, LightWell, NamedLight, Named
    <2>2. t.left - 1 \in Nat
      BY <2>1 DEF LightTimer
    <2> QED BY <2>1, <2>2 DEF LightTimer, TimerFields
  <1>3. older \in SUBSET LightTimer /\ Named(older)
    BY <1>1, <1>2 DEF Named
  <1>4. light' = [light EXCEPT !.timers = older] /\ UNCHANGED <<reaction, lgAsked>>
    BY <1>1 DEF LightTick
  <1>5. Like(light', light, light.value, older, light.current, light.last)
    BY <1>0, <1>3, <1>4, WellIsLike
  <1>6. /\ LightWell(light') /\ light'.blinks = light.blinks /\ light'.value = light.value
        /\ light'.timers = older /\ light'.current = light.current
        /\ light'.last = light.last
    BY <1>5 DEF Like
  <1>7. (older = {}) <=> (light.timers = {})
    BY <1>1
  <1>8. (\A t \in light.timers : t.kind = "blink") => (\A t \in older : t.kind = "blink")
    BY <1>1, <1>2
  <1>9. ASSUME reaction.do = "nothing" PROVE Restoring(light', lgAsked.old)
    <2>1. Restoring(light, lgAsked.old)
      BY <1>9 DEF LightKeeps
    <2> QED BY <1>6, <1>7, <1>8, <2>1 DEF Restoring
  <1> QED BY <1>4, <1>6, <1>9 DEF LightKeeps

\* A step of a light.
LEMMA LightKept == LightKeeps /\ [LightNext]_lgVars => LightKeeps'
  <1> SUFFICES ASSUME LightKeeps, [LightNext]_lgVars PROVE LightKeeps'
    OBVIOUS
  <1>0. LightWell(light) /\ reaction \in Reactions /\ reaction.do # "impulse"
        /\ light.value \in BOOLEAN
    BY DEF LightKeeps, LightWell
  <1>1. ASSUME NEW on \in BOOLEAN, SetValue(on) PROVE LightKeeps'
    <2>1. PICK off : off = Stopped(light)
      OBVIOUS
    <2>2. LightWell(off) /\ off.last = "set"
      BY <1>0, <2>1, DeletedIsLike DEF Like
    <2>3. light' = SetAndSignal(off, on) /\ UNCHANGED reaction
      BY <1>1, <2>1 DEF SetValue
    <2>4. LightWell(light') /\ light'.last = "set"
      BY <1>0, <2>2, <2>3, SignalIsLike DEF Like
    <2>5. lgAsked' \in [tokens : Impulses \cup {<<>>}, old : SUBSET BOOLEAN]
      BY <1>1 DEF SetValue
    <2> QED BY <1>0, <2>3, <2>4, <2>5 DEF LightKeeps, Restoring
  <1>2. ASSUME NEW on \in BOOLEAN, SetLightState(on) PROVE LightKeeps'
    <2>1. PICK L : L = [light EXCEPT !.last = IF light.timers = {} THEN "set" ELSE @]
      OBVIOUS
    <2>2. PICK last \in {"set", "impulse", "pattern"} : L = [light EXCEPT !.last = last]
      BY <1>0, <2>1 DEF LightWell
    <2>3. LightWell(L)
      BY <1>0, <2>2, WellIsLike DEF Like
    <2>4. light' = SetAndSignal(L, on) /\ UNCHANGED reaction
      BY <1>2, <2>1 DEF SetLightState
    <2>5. LightWell(light')
      BY <1>0, <2>3, <2>4, SignalIsLike DEF Like
    <2>6. /\ lgAsked' \in [tokens : Impulses \cup {<<>>}, old : SUBSET BOOLEAN]
          /\ lgAsked'.old = {}
      BY <1>2 DEF SetLightState, LightKeeps
    <2> QED BY <1>0, <2>4, <2>5, <2>6 DEF LightKeeps, Restoring
  <1>3. CASE LightCallback
    BY <1>3, FiresKeeps DEF LightCallback
  <1>4. CASE UNCHANGED lgVars
    BY <1>4 DEF lgVars, LightKeeps
  <1>5. CASE ToggleLight
    BY <1>0, <1>1, <1>5 DEF ToggleLight
  <1> QED
    BY <1>1, <1>2, <1>3, <1>4, <1>5, PlayKeeps, LightTickKeeps DEF LightNext, LightClient

\* A light keeps its types, and ends as it was asked: off after an impulse, and as
\* it was after a pattern that ends with "old", whatever the patterns, as long as
\* no rule answers it with an impulse of its own.
THEOREM LightEnds ==
  ASSUME \A r \in Reactions : r.do # "impulse"
  PROVE  LightSpec => [](LightTypeOK /\ LightEndsAsAsked)
  <1>1. LightInit => LightKeeps
    <2>1. <<>> \in Seq(BlinkInfo)
      OBVIOUS
    <2> QED BY <2>1 DEF LightInit, LightKeeps, LightWell, NamedLight, Named, LightFields, Restoring
  <1>2. LightKeeps => LightTypeOK
    BY DEF LightKeeps, LightWell, LightTypeOK
  <1>3. LightKeeps /\ ImpulsesAreOver => LightEndsAsAsked
    BY DEF LightKeeps, Restoring, ImpulsesAreOver, LightEndsAsAsked
  <1>4. LightSpec => []LightKeeps
    BY <1>1, LightKept, PTL DEF LightSpec
  <1> QED BY <1>2, <1>3, <1>4, ImpulsesEnd, PTL

-----------------------------------------------------------------------------
(* Light: its types, whatever the rule answers                             *)

\* A rule that answers with a pattern answers with one that has a step.  The code reads
\* the first step of the pattern it has parsed after the write that may run the rule.
AnswersHaveSteps ==
  \A r \in Reactions : r.do = "impulse" =>
    IsClassic(r.tokens) \/ \A value \in BOOLEAN : ParsePattern(r.tokens, value) # <<>>

LightRow ==
  [value : BOOLEAN, timers : SUBSET LightTimer, blinks : Seq(BlinkInfo), current : Nat,
   last : {"set", "impulse", "pattern"}]
AtStep(L) == L.current \in DOMAIN L.blinks

\* What the members of a light become
LEMMA RowChanges ==
  ASSUME NEW L \in LightRow
  PROVE  /\ DeleteTimer(L) \in LightRow /\ DeleteTimer(L).blinks = L.blinks
         /\ DeleteTimer(L).current = L.current /\ DeleteTimer(L).value = L.value
         /\ Stopped(L) \in LightRow /\ Stopped(L).blinks = L.blinks
         /\ Stopped(L).current = L.current
         /\ \A on \in BOOLEAN : /\ JustSet(L, on) \in LightRow
                                /\ JustSet(L, on).blinks = L.blinks
                                /\ JustSet(L, on).current = L.current
  BY DEF LightRow, DeleteTimer, Stopped, JustSet

LEMMA RowGetsTimer ==
  ASSUME NEW L \in LightRow, NEW kind \in {"impulse", "blink"}, NEW ticks \in Nat
  PROVE  /\ NewTimer(L, kind, ticks) \in LightRow
         /\ NewTimer(L, kind, ticks).blinks = L.blinks
         /\ NewTimer(L, kind, ticks).current = L.current
  <1>1. PICK others : others = {[t EXCEPT !.named = FALSE] : t \in L.timers}
    OBVIOUS
  <1>2. PICK one : one = [kind |-> kind, left |-> ticks, period |-> ticks, named |-> TRUE]
    OBVIOUS
  <1>3. others \subseteq LightTimer /\ one \in LightTimer
    <2>1. ASSUME NEW t \in L.timers PROVE [t EXCEPT !.named = FALSE] \in LightTimer
      BY DEF LightRow, LightTimer
    <2>2. one \in LightTimer
      BY <1>2 DEF LightTimer
    <2> QED BY <1>1, <2>1, <2>2
  <1>4. PICK armed \in SUBSET LightTimer : armed = others \cup {one}
    BY <1>3
  <1>5. NewTimer(L, kind, ticks) = [L EXCEPT !.timers = armed]
    BY <1>1, <1>2, <1>4 DEF NewTimer, LightRow
  <1> QED BY <1>5 DEF LightRow

LEMMA StepGetsTimer ==
  ASSUME NEW L \in LightRow, AtStep(L)
  PROVE  /\ TimeStep(L) \in LightRow /\ TimeStep(L).blinks = L.blinks
         /\ TimeStep(L).current = L.current
  <1>1. L.blinks[L.current] \in BlinkInfo
    BY DEF LightRow, AtStep
  <1>2. PICK ticks \in Nat : ticks = L.blinks[L.current].duration
    BY <1>1 DEF BlinkInfo
  <1> QED BY <1>2, RowGetsTimer DEF TimeStep

\* An argument of "impulse" that is read, and what it makes once it has been written
LEMMA RowReads ==
  ASSUME NEW L \in LightRow, NEW tokens \in Impulses
  PROVE  /\ ReadImpulse(L, tokens) \in LightRow
         /\ IsClassic(tokens) => /\ ReadImpulse(L, tokens).blinks = L.blinks
                                 /\ ReadImpulse(L, tokens).current = L.current
         /\ ~IsClassic(tokens) =>
              /\ ReadImpulse(L, tokens).blinks = ParsePattern(tokens, L.value)
              /\ ReadImpulse(L, tokens).current = 1
         /\ Plays(ReadImpulse(L, tokens), tokens) =>
              /\ FirstState(ReadImpulse(L, tokens), tokens) \in BOOLEAN
              /\ ~IsClassic(tokens) => AtStep(ReadImpulse(L, tokens))
  <1>0. L.value \in BOOLEAN
    BY DEF LightRow
  <1>1. PICK blinks \in Seq(BlinkInfo) : blinks = ParsePattern(tokens, L.value)
    <2>1. tokens \in Seq(PatternToken)
      BY LightAssumption
    <2> QED BY <1>0, <2>1, PatternIsSteps
  <1>2. PICK off \in LightRow : off = DeleteTimer(L)
    BY RowChanges
  <1>3. PICK read : read = ReadImpulse(L, tokens)
    OBVIOUS
  <1>4. CASE IsClassic(tokens)
    <2>1. read = Stopped(L)
      BY <1>3, <1>4 DEF ReadImpulse
    <2> QED BY <1>3, <1>4, <2>1, RowChanges DEF FirstState
  <1>5. CASE ~IsClassic(tokens)
    <2>1. read = [off EXCEPT !.blinks = blinks, !.current = 1, !.last = "pattern"]
      BY <1>1, <1>2, <1>3, <1>5 DEF ReadImpulse
    <2>2. read \in LightRow /\ read.blinks = blinks /\ read.current = 1
      BY <2>1 DEF LightRow
    <2>3. ASSUME Plays(read, tokens)
          PROVE  FirstState(read, tokens) \in BOOLEAN /\ AtStep(read)
      <3>1. blinks # <<>>
        BY <1>5, <2>2, <2>3 DEF Plays
      <3>2. 1 \in DOMAIN blinks /\ blinks[1] \in BlinkInfo
        BY <3>1
      <3> QED BY <1>5, <2>2, <3>2 DEF FirstState, AtStep, BlinkInfo
    <2> QED BY <1>1, <1>3, <1>5, <2>2, <2>3
  <1> QED BY <1>4, <1>5

LEMMA RowIsTimed ==
  ASSUME NEW L \in LightRow, NEW tokens \in Impulses, IsClassic(tokens) \/ AtStep(L)
  PROVE  /\ TimeImpulse(L, tokens) \in LightRow /\ TimeImpulse(L, tokens).blinks = L.blinks
         /\ TimeImpulse(L, tokens).current = L.current
  <1>1. CASE IsClassic(tokens)
    <2>1. PICK ticks \in Nat : ticks = tokens[1]
      BY <1>1 DEF IsClassic
    <2>2. PICK off : off = DeleteTimer(L)
      OBVIOUS
    <2>3. off \in LightRow /\ off.blinks = L.blinks /\ off.current = L.current
      BY <2>2, RowChanges
    <2>4. PICK timed : timed = NewTimer(off, "impulse", ticks)
      OBVIOUS
    <2>5. timed \in LightRow /\ timed.blinks = off.blinks /\ timed.current = off.current
      BY <2>3, <2>4, RowGetsTimer
    <2>6. TimeImpulse(L, tokens) = [timed EXCEPT !.last = "impulse"]
      BY <1>1, <2>1, <2>2, <2>4 DEF TimeImpulse
    <2> QED BY <2>3, <2>5, <2>6 DEF LightRow
  <1>2. CASE ~IsClassic(tokens)
    BY <1>2, StepGetsTimer DEF TimeImpulse
  <1> QED BY <1>1, <1>2

\* The rule answers a write, and leaves the pattern at a step, its own or the one there was.
LEMMA RowIsAnswered ==
  ASSUME AnswersHaveSteps, NEW L \in LightRow, NEW on \in BOOLEAN, reaction \in Reactions
  PROVE  /\ SetAndSignal(L, on) \in LightRow
         /\ AtStep(L) => AtStep(SetAndSignal(L, on))
  <1>1. PICK set : set = JustSet(L, on)
    OBVIOUS
  <1>2. set \in LightRow /\ set.blinks = L.blinks /\ set.current = L.current
    BY <1>1, RowChanges
  <1>3. AtStep(L) => AtStep(set)
    BY <1>2 DEF AtStep
  <1>4. ASSUME reaction.do = "impulse"
        PROVE  /\ RulePlays(set, reaction.tokens) \in LightRow
               /\ AtStep(set) => AtStep(RulePlays(set, reaction.tokens))
    <2>1. PICK tokens \in Impulses : tokens = reaction.tokens
      BY LightAssumption
    <2>2. PICK read : read = ReadImpulse(set, tokens)
      OBVIOUS
    <2>3. read \in LightRow /\ (IsClassic(tokens) \/ AtStep(read))
          /\ (AtStep(set) => AtStep(read)) /\ Plays(read, tokens)
          /\ FirstState(read, tokens) \in BOOLEAN
      <3>1. set.value \in BOOLEAN
        BY <1>2 DEF LightRow
      <3>2. ~IsClassic(tokens) => ParsePattern(tokens, set.value) # <<>>
        BY <1>4, <2>1, <3>1 DEF AnswersHaveSteps
      <3>3. Plays(read, tokens)
        BY <1>2, <2>2, <3>2, RowReads DEF Plays
      <3> QED BY <1>2, <2>2, <3>3, RowReads DEF AtStep
    <2>4. PICK first \in BOOLEAN : first = FirstState(read, tokens)
      BY <2>3
    <2>5. PICK played : played = JustSet(read, first)
      OBVIOUS
    <2>6. played \in LightRow /\ played.blinks = read.blinks /\ played.current = read.current
      BY <2>3, <2>5, RowChanges
    <2>7. RulePlays(set, tokens) = TimeImpulse(played, tokens)
      BY <2>2, <2>3, <2>4, <2>5 DEF RulePlays
    <2>8. IsClassic(tokens) \/ AtStep(played)
      BY <2>3, <2>6 DEF AtStep
    <2>9. /\ TimeImpulse(played, tokens) \in LightRow
          /\ TimeImpulse(played, tokens).blinks = played.blinks
          /\ TimeImpulse(played, tokens).current = played.current
      BY <2>6, <2>8, RowIsTimed
    <2> QED BY <2>1, <2>3, <2>6, <2>7, <2>9 DEF AtStep
  <1>5. PICK off : off = Stopped(set)
    OBVIOUS
  <1>6. off \in LightRow /\ off.blinks = L.blinks /\ off.current = L.current
    BY <1>2, <1>5, RowChanges
  <1>7. PICK value \in BOOLEAN : value = (reaction.do = "true")
    OBVIOUS
  <1>8. PICK answered : answered = JustSet(off, value)
    OBVIOUS
  <1>9. answered \in LightRow /\ answered.blinks = L.blinks /\ answered.current = L.current
    BY <1>6, <1>8, RowChanges
  <1>10. \/ SetAndSignal(L, on) = set
         \/ reaction.do = "impulse" /\ SetAndSignal(L, on) = RulePlays(set, reaction.tokens)
         \/ SetAndSignal(L, on) = answered
    BY <1>1, <1>5, <1>7, <1>8 DEF SetAndSignal
  <1> QED BY <1>2, <1>3, <1>4, <1>9, <1>10 DEF AtStep

LightTyped ==
  /\ light \in LightRow /\ reaction \in Reactions
  /\ lgAsked \in [tokens : Impulses \cup {<<>>}, old : SUBSET BOOLEAN]

LEMMA PlayImpulseTypes ==
  ASSUME AnswersHaveSteps, LightTyped, NEW tokens \in Impulses
  PROVE  LightImpulse(light, tokens) \in LightRow
  <1>0. light \in LightRow /\ reaction \in Reactions
    BY DEF LightTyped
  <1>1. PICK read \in LightRow : read = ReadImpulse(light, tokens)
    BY <1>0, RowReads
  <1>2. CASE ~Plays(read, tokens)
    BY <1>1, <1>2 DEF LightImpulse
  <1>3. CASE Plays(read, tokens)
    <2>1. PICK first \in BOOLEAN : first = FirstState(read, tokens)
      BY <1>0, <1>1, <1>3, RowReads
    <2>2. IsClassic(tokens) \/ AtStep(read)
      BY <1>0, <1>1, <1>3, RowReads
    <2>3. PICK set : set = SetAndSignal(read, first)
      OBVIOUS
    <2>4. set \in LightRow /\ (IsClassic(tokens) \/ AtStep(set))
      BY <1>0, <2>2, <2>3, RowIsAnswered
    <2>5. LightImpulse(light, tokens) = TimeImpulse(set, tokens)
      BY <1>1, <1>3, <2>1, <2>3 DEF LightImpulse
    <2> QED BY <2>4, <2>5, RowIsTimed
  <1> QED BY <1>2, <1>3

LEMMA TimerFiresTypes ==
  ASSUME AnswersHaveSteps, LightTyped, NEW t \in light.timers, LightTimerFires(t)
  PROVE  light' \in LightRow
  <1>0. light \in LightRow /\ reaction \in Reactions /\ t \in LightTimer
    BY DEF LightTyped, LightRow
  <1>1. PICK R : R = Rearmed(t)
    OBVIOUS
  <1>2. R \in LightRow
    <2>1. PICK again \in LightTimer : again = [t EXCEPT !.left = t.period]
      BY <1>0 DEF LightTimer
    <2>2. PICK kept : kept = (light.timers \ {t}) \cup (IF t.period = 0 THEN {} ELSE {again})
      OBVIOUS
    <2>3. kept \in SUBSET LightTimer
      BY <1>0, <2>2 DEF LightRow
    <2>4. R = [light EXCEPT !.timers = kept]
      BY <1>0, <1>1, <2>1, <2>2 DEF Rearmed, LightRow
    <2> QED BY <1>0, <2>3, <2>4 DEF LightRow
  <1>3. CASE t.kind = "impulse"
    <2>1. PICK S \in LightRow : S = SetAndSignal(R, FALSE)
      BY <1>0, <1>2, RowIsAnswered
    <2>2. light' = DeleteTimer(S)
      BY <1>1, <1>3, <2>1 DEF LightTimerFires, ImpulseIsOver
    <2> QED BY <2>2, RowChanges
  <1>4. CASE t.kind # "impulse"
    <2>1. light' = BlinkIsOver(R)
      BY <1>1, <1>4 DEF LightTimerFires
    <2>2. PICK off : off = DeleteTimer(R)
      OBVIOUS
    <2>3. off \in LightRow /\ off.blinks = R.blinks
      BY <1>2, <2>2, RowChanges
    <2>4. CASE R.current \notin DOMAIN R.blinks
      BY <2>1, <2>2, <2>3, <2>4 DEF BlinkIsOver
    <2>5. CASE R.current \in DOMAIN R.blinks
      <3>1. R.blinks \in Seq(BlinkInfo)
        BY <1>2 DEF LightRow
      <3>2. R.blinks[R.current] \in BlinkInfo
        BY <2>5, <3>1
      <3>3. PICK next \in Nat : next = R.blinks[R.current].next
        BY <3>2 DEF BlinkInfo
      <3>4. PICK moved : moved = [off EXCEPT !.current = next]
        OBVIOUS
      <3>5. moved \in LightRow /\ moved.current = next /\ moved.blinks = R.blinks
        BY <2>3, <3>4 DEF LightRow
      <3>6. CASE next \notin DOMAIN R.blinks
        BY <2>1, <2>2, <2>5, <3>3, <3>4, <3>5, <3>6 DEF BlinkIsOver
      <3>7. CASE next \in DOMAIN R.blinks
        <4>1. R.blinks[next] \in BlinkInfo
          BY <3>1, <3>7
        <4>2. PICK state \in BOOLEAN : state = R.blinks[next].state
          BY <4>1 DEF BlinkInfo
        <4>3. PICK S : S = SetAndSignal(moved, state)
          OBVIOUS
        <4>4. S \in LightRow /\ AtStep(S)
          <5>1. AtStep(moved)
            BY <3>5, <3>7 DEF AtStep
          <5> QED BY <1>0, <3>5, <4>3, <5>1, RowIsAnswered
        <4>5. light' = TimeStep(S)
          BY <2>1, <2>2, <2>5, <3>3, <3>4, <3>5, <3>7, <4>2, <4>3 DEF BlinkIsOver
        <4> QED BY <4>4, <4>5, StepGetsTimer
      <3> QED BY <3>6, <3>7
    <2> QED BY <2>4, <2>5
  <1> QED BY <1>3, <1>4

LEMMA LightStepTypes ==
  ASSUME AnswersHaveSteps, LightTyped, [LightNext]_lgVars
  PROVE  LightTyped'
  <1>0. /\ light \in LightRow /\ reaction \in Reactions
        /\ lgAsked \in [tokens : Impulses \cup {<<>>}, old : SUBSET BOOLEAN]
        /\ light.value \in BOOLEAN
    BY DEF LightTyped, LightRow
  <1>1. ASSUME NEW on \in BOOLEAN, SetValue(on) PROVE LightTyped'
    <2>1. PICK off \in LightRow : off = Stopped(light)
      BY <1>0, RowChanges
    <2>2. light' \in LightRow
      BY <1>0, <1>1, <2>1, RowIsAnswered DEF SetValue
    <2>3. lgAsked' \in [tokens : Impulses \cup {<<>>}, old : SUBSET BOOLEAN]
      BY <1>1 DEF SetValue
    <2> QED BY <1>0, <1>1, <2>2, <2>3 DEF SetValue, LightTyped
  <1>2. ASSUME NEW on \in BOOLEAN, SetLightState(on) PROVE LightTyped'
    <2>1. PICK L : L = [light EXCEPT !.last = IF light.timers = {} THEN "set" ELSE @]
      OBVIOUS
    <2>2. L \in LightRow
      BY <1>0, <2>1 DEF LightRow
    <2>3. light' \in LightRow
      BY <1>0, <1>2, <2>1, <2>2, RowIsAnswered DEF SetLightState
    <2>4. lgAsked' \in [tokens : Impulses \cup {<<>>}, old : SUBSET BOOLEAN]
      BY <1>0, <1>2 DEF SetLightState
    <2> QED BY <1>0, <1>2, <2>3, <2>4 DEF SetLightState, LightTyped
  <1>3. ASSUME NEW tokens \in Impulses, PlayImpulse(tokens) PROVE LightTyped'
    <2>1. light' \in LightRow
      BY <1>3, PlayImpulseTypes DEF PlayImpulse
    <2>2. PICK old \in SUBSET BOOLEAN : old = IF Restores(tokens) THEN {light.value} ELSE {}
      BY <1>0
    <2>3. lgAsked' = [tokens |-> tokens, old |-> old]
      BY <1>3, <2>2 DEF PlayImpulse
    <2> QED BY <1>0, <1>3, <2>1, <2>3 DEF PlayImpulse, LightTyped
  <1>4. CASE LightCallback
    BY <1>0, <1>4, TimerFiresTypes DEF LightCallback, LightTimerFires, LightTyped
  <1>5. CASE LightTick
    <2>1. PICK older : older = {[t EXCEPT !.left = @ - 1] : t \in light.timers}
      OBVIOUS
    <2>2. ASSUME NEW t \in light.timers PROVE [t EXCEPT !.left = @ - 1] \in LightTimer
      <3>1. t \in LightTimer /\ t.left > 0
        BY <1>0, <1>5 DEF LightRow, LightTick
      <3>2. t.left - 1 \in Nat
        BY <3>1 DEF LightTimer
      <3> QED BY <3>1, <3>2 DEF LightTimer
    <2>3. older \in SUBSET LightTimer
      BY <2>1, <2>2
    <2>4. light' = [light EXCEPT !.timers = older]
      BY <1>5, <2>1 DEF LightTick
    <2>5. light' \in LightRow
      BY <1>0, <2>3, <2>4 DEF LightRow
    <2> QED BY <1>0, <1>5, <2>5 DEF LightTick, LightTyped
  <1>6. CASE UNCHANGED lgVars
    BY <1>6 DEF lgVars, LightTyped
  <1> QED
    BY <1>0, <1>1, <1>2, <1>3, <1>4, <1>5, <1>6 DEF LightNext, LightClient, ToggleLight

\* A light keeps its types whatever the rule answers it with, but a pattern without a step.
THEOREM LightTypes ==
  ASSUME AnswersHaveSteps
  PROVE  LightSpec => []LightTypeOK
  <1>1. LightInit => LightTyped
    BY DEF LightInit, LightTyped, LightRow
  <1>2. LightTyped => LightTypeOK
    BY DEF LightTyped, LightRow, LightTypeOK
  <1>3. LightTyped /\ [LightNext]_lgVars => LightTyped'
    BY LightStepTypes
  <1> QED BY <1>1, <1>2, <1>3, PTL DEF LightSpec

-----------------------------------------------------------------------------
(* What the impulses and patterns of a dimmer leave                        *)

DimWell ==
  [value : 0..Top, old : 0..Top, blinks : Seq(BlinkInfo), current : Nat,
   impulse : DimTimer, kind : {"impulse", "blink"}, hold : DimTimer,
   detected : BOOLEAN, down : BOOLEAN, stopAfter : BOOLEAN]

\* A pattern that plays is at one of its steps
AtAStep(D) ==
  Runs(D.impulse) /\ D.kind = "blink" => D.current \in DOMAIN D.blinks

\* The intensity the dimmer had is the one it has, or the one it remembers
Remembers(D, old) == old > 0 => IF D.value > 0 THEN D.value = old ELSE D.old = old

\* The intensity is as the state that was set last
Shows(D, on, old) == IF on THEN old > 0 => D.value > 0 ELSE D.value = 0

Giving(D, old) ==
  \/ ~Runs(D.impulse) /\ D.value = old
  \/ /\ Runs(D.impulse) /\ D.kind = "blink"
     /\ Shows(D, D.blinks[D.current].state, old)
     /\ Remembers(D, old) /\ GivesBack(D.blinks, old > 0)

DimKeeps ==
  /\ dim \in DimWell /\ dmHold \in {"up", "pressed", "dimming"} /\ dmOld \subseteq 0..Top
  /\ AtAStep(dim)
  /\ \A old \in dmOld : Giving(dim, old)

\* D with another intensity and memory, and no impulse
Lit(E, D, value, old) ==
  /\ E \in DimWell /\ E.impulse = NoTimer /\ E.value = value /\ E.old = old
  /\ E.blinks = D.blinks /\ E.current = D.current

\* No timer is a timer that does not run.
LEMMA NoTimerStands == NoTimer \in DimTimer /\ ~Runs(NoTimer)
  BY DEF NoTimer, DimTimer, Runs

\* An intensity is clipped to its range.
LEMMA ClipIsAnIntensity ==
  ASSUME NEW v \in Int
  PROVE  Clip(v) \in 0..Top /\ (v \in 0..Top => Clip(v) = v)
  BY DimmerAssumption DEF Clip

\* A dimmer that stops what it plays stays as it is.
LEMMA StopIsLit ==
  ASSUME NEW D \in DimWell
  PROVE  Lit(StopImpulse(D), D, D.value, D.old)
  BY NoTimerStands DEF StopImpulse, DimWell, Lit

\* What set_value() and the on and off of a dimmer leave.
LEMMA ValueIsLit ==
  ASSUME NEW D \in DimWell, NEW value \in 0..Top, NEW old \in 0..Top
  PROVE  /\ Lit([StopImpulse(D) EXCEPT !.value = value], D, value, D.old)
         /\ Lit([StopImpulse(D) EXCEPT !.old = old], D, D.value, old)
         /\ Lit([StopImpulse(D) EXCEPT !.old = old, !.value = value], D, value, old)
  <1>1. PICK E : E = StopImpulse(D)
    OBVIOUS
  <1>2. Lit(E, D, D.value, D.old)
    BY <1>1, StopIsLit
  <1>3. /\ Lit([E EXCEPT !.value = value], D, value, D.old)
        /\ Lit([E EXCEPT !.old = old], D, D.value, old)
        /\ Lit([E EXCEPT !.old = old, !.value = value], D, value, old)
    BY <1>2 DEF DimWell, Lit
  <1> QED BY <1>1, <1>3

\* A value that is asked,
LEMMA SetIsLit ==
  ASSUME NEW D \in DimWell, NEW v \in Int
  PROVE  Lit(DimSet(D, v), D, Clip(v), D.old)
  BY ValueIsLit, ClipIsAnIntensity DEF DimSet, DimWell

\* a step up or down,
LEMMA ValuesAre ==
  ASSUME NEW D \in DimWell
  PROVE  D.value \in 0..Top /\ D.old \in 0..Top /\ D.value \in Int /\ D.old \in Int
         /\ 0 \in 0..Top /\ 0 \in Int
  BY DimmerAssumption DEF DimWell

\* the state on,
LEMMA OnIsLit ==
  ASSUME NEW D \in DimWell
  PROVE  Lit(DimOn(D), D, IF D.value = 0 THEN D.old ELSE D.value, D.old)
  <1>1. CASE D.value = 0
    BY <1>1, SetIsLit, ClipIsAnIntensity, ValuesAre DEF DimOn
  <1>2. CASE D.value # 0
    BY <1>2, StopIsLit DEF DimOn
  <1> QED BY <1>1, <1>2

\* and the state off.
LEMMA OffIsLit ==
  ASSUME NEW D \in DimWell
  PROVE  Lit(DimOff(D), D, 0, IF D.value > 0 THEN D.value ELSE D.old)
  <1>1. CASE D.value > 0
    <2>1. PICK E : E = DimSet(D, 0)
      OBVIOUS
    <2>2. Lit(E, D, 0, D.old)
      BY <2>1, SetIsLit, ClipIsAnIntensity, ValuesAre
    <2>3. Lit([E EXCEPT !.old = D.value], D, 0, D.value)
      BY <2>2, ValuesAre DEF Lit, DimWell
    <2> QED BY <1>1, <2>1, <2>3 DEF DimOff
  <1>2. CASE ~(D.value > 0)
    <2>1. D.value = 0
      BY <1>2, ValuesAre
    <2> QED BY <1>2, <2>1, StopIsLit DEF DimOff
  <1> QED BY <1>1, <1>2

\* Any write, by a command, an impulse or a pattern
LEMMA SwitchIsLit ==
  ASSUME NEW D \in DimWell, NEW on \in BOOLEAN
  PROVE  \E value \in 0..Top, old \in 0..Top :
           /\ Lit(DimSwitch(D, on), D, value, old)
           /\ on => old = D.old /\ value = IF D.value = 0 THEN D.old ELSE D.value
           /\ ~on => value = 0 /\ old = IF D.value > 0 THEN D.value ELSE D.old
  <1>1. CASE on
    BY <1>1, OnIsLit, ValuesAre DEF DimSwitch
  <1>2. CASE ~on
    BY <1>2, OffIsLit, ValuesAre DEF DimSwitch
  <1> QED BY <1>1, <1>2

\* A pattern that switches the light keeps the intensity it had.
LEMMA SwitchRemembers ==
  ASSUME NEW D \in DimWell, NEW on \in BOOLEAN, NEW old \in 0..Top, Remembers(D, old)
  PROVE  Remembers(DimSwitch(D, on), old) /\ Shows(DimSwitch(D, on), on, old)
  <1>1. PICK E : E = DimSwitch(D, on)
    OBVIOUS
  <1>2. CASE on
    <2>1. E.old = D.old /\ E.value = IF D.value = 0 THEN D.old ELSE D.value
      BY <1>1, <1>2, SwitchIsLit DEF Lit
    <2>2. D.value \in Nat /\ old \in Nat
      BY ValuesAre, DimmerAssumption
    <2>3. old > 0 => E.value = old
      BY <2>1, <2>2 DEF Remembers
    <2>4. old > 0 => IF E.value > 0 THEN E.value = old ELSE E.old = old
      BY <2>3
    <2>5. old > 0 => E.value > 0
      BY <2>3
    <2> QED BY <1>1, <1>2, <2>4, <2>5 DEF Remembers, Shows
  <1>3. CASE ~on
    <2>1. E.value = 0 /\ E.old = IF D.value > 0 THEN D.value ELSE D.old
      BY <1>1, <1>3, SwitchIsLit DEF Lit
    <2> QED BY <1>1, <1>3, <2>1, ValuesAre DEF Remembers, Shows
  <1> QED BY <1>2, <1>3

\* What a command leaves, for which nothing is to give back
LEMMA StoppedKeeps ==
  ASSUME NEW D, NEW E, NEW value, NEW old, Lit(E, D, value, old)
  PROVE  E \in DimWell /\ AtAStep(E)
  BY NoTimerStands DEF Lit, AtAStep

\* A command stops what plays, and remembers an intensity to go back to.
LEMMA CommandKeeps ==
  ASSUME DimKeeps, DimClient
  PROVE  DimKeeps'
  <1>0. dim \in DimWell
    BY DEF DimKeeps
  <1>1. ASSUME NEW E, Command(E), NEW D, NEW value, NEW old, Lit(E, D, value, old)
        PROVE  DimKeeps'
    BY <1>1, StoppedKeeps DEF Command, DimKeeps
  <1>2. CASE Command(DimOn(dim)) \/ Command(DimOff(dim))
    BY <1>0, <1>1, <1>2, OnIsLit, OffIsLit
  <1>3. CASE Command(DimToggle(dim))
    BY <1>0, <1>1, <1>3, OnIsLit, OffIsLit DEF DimToggle, DimSwitch
  <1>4. CASE Command(StateOn(dim)) \/ Command(StateOff(dim))
    <2>1. /\ Lit(StateOn(dim), dim, dim.old, dim.old)
          /\ Lit(StateOff(dim), dim, 0, dim.value)
      BY <1>0, ValueIsLit, ValuesAre DEF StateOn, StateOff
    <2> QED BY <1>1, <1>4, <2>1
  <1>5. ASSUME NEW v \in 0..Top, Command(DimSet(dim, v)) \/ Command(SetNextOn(dim, v))
        PROVE  DimKeeps'
    <2>1. v \in Int
      BY DimmerAssumption
    <2>2. Lit(DimSet(dim, v), dim, Clip(v), dim.old)
      BY <1>0, <2>1, SetIsLit
    <2>3. Lit([StopImpulse(dim) EXCEPT !.old = v], dim, dim.value, v)
      BY <1>0, <1>5, ValueIsLit, ValuesAre
    <2> QED BY <1>1, <1>5, <2>2, <2>3 DEF SetNextOn
  <1>6. ASSUME NEW v \in DimSteps,
               Command(DimSet(dim, dim.value + v)) \/ Command(DimSet(dim, dim.value - v))
        PROVE  DimKeeps'
    <2>1. dim.value + v \in Int /\ dim.value - v \in Int
      BY <1>0, ValuesAre, DimmerAssumption
    <2>2. /\ Lit(DimSet(dim, dim.value + v), dim, Clip(dim.value + v), dim.old)
          /\ Lit(DimSet(dim, dim.value - v), dim, Clip(dim.value - v), dim.old)
      BY <1>0, <2>1, SetIsLit
    <2> QED BY <1>1, <1>6, <2>2
  <1> QED BY <1>2, <1>3, <1>4, <1>5, <1>6 DEF DimClient

\* A pattern that is asked starts with its first step.
LEMMA AskKeeps ==
  ASSUME DimKeeps, NEW tokens \in DimImpulses, AskImpulse(tokens)
  PROVE  DimKeeps'
  <1>0. dim \in DimWell /\ tokens \in Seq(PatternToken)
    BY DimmerAssumption DEF DimKeeps
  <1>1. (dim.value > 0) \in BOOLEAN
    OBVIOUS
  <1>2. PICK blinks \in Seq(BlinkInfo) : blinks = ParsePattern(tokens, dim.value > 0)
    BY <1>0, <1>1, PatternIsSteps
  <1>3. /\ dmHold' = dmHold /\ dmOld' = IF Restores(tokens) THEN {dim.value} ELSE {}
        /\ dmHold' \in {"up", "pressed", "dimming"} /\ dmOld' \subseteq 0..Top
    BY <1>0, ValuesAre DEF AskImpulse, DimKeeps
  <1>4. CASE IsClassic(tokens)
    <2>1. PICK E : E = DimOn(dim)
      OBVIOUS
    <2>2. E \in DimWell
      BY <1>0, <2>1, OnIsLit DEF Lit
    <2>3. dim' = [E EXCEPT !.kind = "impulse", !.impulse = Armed(tokens[1])]
      BY <1>4, <2>1 DEF AskImpulse, DimImpulse
    <2>4. tokens[1] \in Nat
      BY <1>4 DEF IsClassic
    <2>5. Armed(tokens[1]) \in DimTimer
      BY <2>4 DEF Armed, DimTimer
    <2>6. dim' \in DimWell /\ dim'.kind = "impulse"
      BY <2>2, <2>3, <2>5 DEF DimWell
    <2>7. ~Restores(tokens)
      BY <1>4, <2>4 DEF IsClassic, Restores, OldToken
    <2> QED BY <1>3, <2>6, <2>7 DEF DimKeeps, AtAStep
  <1>5. CASE ~IsClassic(tokens)
    <2>1. PICK stopped : stopped = StopImpulse(dim)
      OBVIOUS
    <2>2. Lit(stopped, dim, dim.value, dim.old)
      BY <1>0, <2>1, StopIsLit
    <2>3. PICK read : read = [stopped EXCEPT !.blinks = blinks, !.current = 1]
      OBVIOUS
    <2>4. /\ read \in DimWell /\ read.impulse = NoTimer /\ read.blinks = blinks
          /\ read.value = dim.value /\ read.old = dim.old /\ read.current = 1
      BY <2>2, <2>3 DEF Lit, DimWell
    <2>5. CASE blinks = <<>>
      <3>1. dim' = read
        BY <1>2, <1>5, <2>1, <2>3, <2>5 DEF AskImpulse, DimImpulse
      <3>2. ~Runs(dim'.impulse)
        BY <2>4, <3>1, NoTimerStands
      <3>3. \A old \in dmOld' : dim'.value = old
        BY <1>3, <2>4, <3>1
      <3> QED BY <1>3, <2>4, <3>1, <3>2, <3>3 DEF DimKeeps, AtAStep, Giving
    <2>6. CASE blinks # <<>>
      <3>1. 1 \in DOMAIN blinks /\ blinks[1] \in BlinkInfo
        BY <2>6
      <3>2. PICK on \in BOOLEAN : on = blinks[1].state
        BY <3>1 DEF BlinkInfo
      <3>3. PICK E : E = DimSwitch(read, on)
        OBVIOUS
      <3>4. E \in DimWell /\ E.blinks = blinks /\ E.current = 1
        BY <2>4, <3>3, SwitchIsLit DEF Lit
      <3>5. PICK timer : timer = Armed(blinks[1].duration)
        OBVIOUS
      <3>6. timer \in DimTimer /\ Runs(timer)
        BY <3>1, <3>5 DEF Armed, DimTimer, Runs, BlinkInfo
      <3>7. dim' = [E EXCEPT !.kind = "blink", !.impulse = timer]
        BY <1>2, <1>5, <2>1, <2>3, <2>6, <3>2, <3>3, <3>5 DEF AskImpulse, DimImpulse
      <3>8. /\ dim' \in DimWell /\ dim'.impulse = timer /\ dim'.kind = "blink"
            /\ dim'.value = E.value /\ dim'.old = E.old /\ dim'.blinks = blinks
            /\ dim'.current = 1
        BY <3>4, <3>6, <3>7 DEF DimWell
      <3>9. ASSUME NEW old \in dmOld' PROVE Giving(dim', old)
        <4>1. Restores(tokens) /\ old = dim.value /\ old \in 0..Top
          BY <1>3, <3>9
        <4>2. GivesBack(blinks, old > 0)
          <5>1. GivesBack(ParsePattern(tokens, dim.value > 0), dim.value > 0)
            BY <1>0, <1>1, <4>1, PatternGivesBack
          <5> QED BY <1>2, <4>1, <5>1
        <4>3. Remembers(read, old)
          BY <2>4, <4>1 DEF Remembers
        <4>4. Remembers(E, old) /\ Shows(E, on, old)
          BY <2>4, <3>3, <4>1, <4>3, SwitchRemembers
        <4> QED BY <3>2, <3>6, <3>8, <4>2, <4>4 DEF Giving, Remembers, Shows
      <3> QED BY <1>3, <3>1, <3>8, <3>9 DEF DimKeeps, AtAStep
    <2> QED BY <2>5, <2>6
  <1> QED BY <1>4, <1>5

\* A step of a pattern is over.
LEMMA BlinkKeeps ==
  ASSUME DimKeeps, BlinkIsDue
  PROVE  DimKeeps'
  <1>0. /\ dim \in DimWell /\ Runs(dim.impulse) /\ dim.kind = "blink"
        /\ dim.current \in DOMAIN dim.blinks /\ dim.blinks \in Seq(BlinkInfo)
    BY DEF DimKeeps, BlinkIsDue, Runs, AtAStep, DimWell
  <1>1. UNCHANGED <<dmHold, dmOld>>
    BY DEF BlinkIsDue
  <1>2. PICK next \in Nat : next = dim.blinks[dim.current].next
    <2>1. dim.blinks[dim.current] \in BlinkInfo
      BY <1>0
    <2> QED BY <2>1 DEF BlinkInfo
  <1>3. PICK stopped : stopped = StopImpulse(dim)
    OBVIOUS
  <1>4. Lit(stopped, dim, dim.value, dim.old)
    BY <1>0, <1>3, StopIsLit
  <1>5. PICK moved : moved = [stopped EXCEPT !.current = next]
    OBVIOUS
  <1>6. /\ moved \in DimWell /\ moved.impulse = NoTimer /\ moved.blinks = dim.blinks
        /\ moved.value = dim.value /\ moved.old = dim.old /\ moved.current = next
    BY <1>4, <1>5 DEF Lit, DimWell
  <1>7. ASSUME NEW old \in dmOld
        PROVE  /\ Shows(dim, dim.blinks[dim.current].state, old)
               /\ Remembers(dim, old) /\ GivesBack(dim.blinks, old > 0)
               /\ next = dim.current + 1 /\ old \in 0..Top
    <2>1. Giving(dim, old) /\ old \in 0..Top
      BY DEF DimKeeps
    <2> QED BY <1>0, <1>2, <2>1 DEF Giving, GivesBack
  <1>8. CASE next \notin DOMAIN dim.blinks
    <2>1. dim' = moved
      BY <1>2, <1>3, <1>5, <1>8 DEF BlinkIsDue
    <2>2. ~Runs(dim'.impulse)
      BY <1>6, <2>1, NoTimerStands
    <2>3. ASSUME NEW old \in dmOld PROVE dim'.value = old
      <3>1. dim.current = Len(dim.blinks) /\ dim.blinks # <<>>
        BY <1>0, <1>7, <1>8
      <3>2. dim.blinks[dim.current].state = (old > 0)
        BY <1>7, <3>1 DEF GivesBack
      <3>3. old \in Nat /\ dim.value \in Nat
        BY <1>0, <1>7, ValuesAre, DimmerAssumption
      <3>4. CASE old > 0
        <4>1. dim.blinks[dim.current].state = TRUE
          BY <3>2, <3>4
        <4>2. dim.value > 0
          BY <1>7, <3>4, <4>1 DEF Shows
        <4>3. dim.value = old
          BY <1>7, <3>4, <4>2 DEF Remembers
        <4> QED BY <1>6, <2>1, <4>3
      <3>5. CASE ~(old > 0)
        <4>0. (old > 0) = FALSE
          BY <3>5
        <4>1. dim.blinks[dim.current].state = FALSE
          BY <3>2, <4>0
        <4>2. dim.value = 0
          BY <1>7, <4>1 DEF Shows
        <4> QED BY <1>6, <2>1, <3>3, <3>5, <4>2
      <3> QED BY <3>4, <3>5
    <2> QED BY <1>1, <1>6, <2>1, <2>2, <2>3 DEF DimKeeps, AtAStep, Giving
  <1>9. CASE next \in DOMAIN dim.blinks
    <2>1. dim.blinks[next] \in BlinkInfo
      BY <1>0, <1>9
    <2>2. PICK on \in BOOLEAN : on = dim.blinks[next].state
      BY <2>1 DEF BlinkInfo
    <2>3. PICK E : E = DimSwitch(moved, on)
      OBVIOUS
    <2>4. E \in DimWell /\ E.blinks = dim.blinks /\ E.current = next
      BY <1>6, <2>3, SwitchIsLit DEF Lit
    <2>5. PICK timer : timer = Armed(dim.blinks[next].duration)
      OBVIOUS
    <2>6. timer \in DimTimer /\ Runs(timer)
      BY <2>1, <2>5 DEF Armed, DimTimer, Runs, BlinkInfo
    <2>7. dim' = [E EXCEPT !.impulse = timer]
      BY <1>2, <1>3, <1>5, <1>9, <2>2, <2>3, <2>5 DEF BlinkIsDue
    <2>8. E.kind = "blink"
      <3>1. stopped.kind = "blink" /\ moved.kind = "blink"
        BY <1>0, <1>3, <1>5 DEF StopImpulse, DimWell
      <3>2. \A F \in DimWell : /\ StopImpulse(F).kind = F.kind
                               /\ \A v : DimSet(F, v).kind = F.kind
        BY DEF StopImpulse, DimSet, DimWell
      <3>3. DimSet(moved, 0).kind = "blink" /\ StopImpulse(moved).kind = "blink"
            /\ DimSet(moved, moved.old).kind = "blink"
        BY <1>6, <3>1, <3>2
      <3>4. DimSet(moved, 0) \in DimWell
        BY <1>6, SetIsLit, ValuesAre DEF Lit
      <3>5. [DimSet(moved, 0) EXCEPT !.old = moved.value].kind = "blink"
        BY <3>3, <3>4 DEF DimWell
      <3> QED BY <2>3, <3>3, <3>5 DEF DimSwitch, DimOn, DimOff
    <2>9. /\ dim' \in DimWell /\ dim'.impulse = timer /\ dim'.kind = "blink"
          /\ dim'.value = E.value /\ dim'.old = E.old /\ dim'.blinks = dim.blinks
          /\ dim'.current = next
      BY <2>4, <2>6, <2>7, <2>8 DEF DimWell
    <2>10. ASSUME NEW old \in dmOld PROVE Giving(dim', old)
      <3>1. Remembers(moved, old) /\ old \in 0..Top
        BY <1>6, <1>7 DEF Remembers
      <3>2. Remembers(E, old) /\ Shows(E, on, old)
        BY <1>6, <2>3, <3>1, SwitchRemembers
      <3> QED BY <1>7, <2>2, <2>6, <2>9, <3>2 DEF Giving, Remembers, Shows
    <2> QED BY <1>1, <1>9, <2>9, <2>10 DEF DimKeeps, AtAStep
  <1> QED BY <1>8, <1>9

\* A timer that is one tick older.
LEMMA LaterIsATimer ==
  ASSUME NEW t \in DimTimer, t.left # 0
  PROVE  Later(t) \in DimTimer /\ (Runs(Later(t)) <=> Runs(t))
  <1>1. CASE Runs(t)
    <2>1. t.left \in Nat /\ t.left - 1 \in Nat
      BY <1>1 DEF Runs, DimTimer
    <2>2. Later(t) = [t EXCEPT !.left = t.left - 1]
      BY <1>1 DEF Later
    <2>3. Later(t) \in DimTimer /\ Later(t).left = t.left - 1
      BY <2>1, <2>2 DEF DimTimer
    <2> QED BY <1>1, <2>1, <2>3 DEF Runs
  <1>2. CASE ~Runs(t)
    BY <1>2 DEF Later
  <1> QED BY <1>1, <1>2

\* A step of a dimmer.
LEMMA DimKept == DimKeeps /\ [DimNext]_dmVars => DimKeeps'
  <1> SUFFICES ASSUME DimKeeps, [DimNext]_dmVars PROVE DimKeeps'
    OBVIOUS
  <1>0. dim \in DimWell /\ dmHold \in {"up", "pressed", "dimming"} /\ dmOld \subseteq 0..Top
    BY DEF DimKeeps
  <1>1. CASE Press
    <2>1. PICK E : E = StopImpulse(dim)
      OBVIOUS
    <2>2. E \in DimWell /\ E.impulse = NoTimer
      BY <1>0, <2>1, StopIsLit DEF Lit
    <2>3. PICK timer \in DimTimer : timer = Armed(HoldDelay)
      BY DimmerAssumption DEF Armed, DimTimer
    <2>4. dim' = [E EXCEPT !.hold = timer, !.detected = FALSE, !.stopAfter = TRUE]
      BY <1>1, <2>1, <2>3 DEF Press, HoldPress
    <2>5. dim' \in DimWell /\ dim'.impulse = NoTimer
      BY <2>2, <2>4 DEF DimWell
    <2> QED BY <1>1, <2>5, NoTimerStands DEF Press, DimKeeps, AtAStep
  <1>2. CASE Release
    <2>1. PICK E : E = IF ~dim.detected /\ dim.stopAfter THEN DimToggle(dim) ELSE StopImpulse(dim)
      OBVIOUS
    <2>2. E \in DimWell /\ E.impulse = NoTimer
      BY <1>0, <2>1, StopIsLit, OnIsLit, OffIsLit DEF Lit, DimToggle, DimSwitch
    <2>3. PICK detected \in BOOLEAN : detected = IF Runs(dim.hold) THEN FALSE ELSE E.detected
      BY <2>2 DEF DimWell
    <2>4. dim' = [E EXCEPT !.stopAfter = FALSE, !.hold = NoTimer, !.detected = detected]
      BY <1>2, <2>1, <2>3 DEF Release, HoldStop
    <2>5. dim' \in DimWell /\ dim'.impulse = NoTimer
      BY <2>2, <2>4, NoTimerStands DEF DimWell
    <2> QED BY <1>2, <2>5, NoTimerStands DEF Release, DimKeeps, AtAStep
  <1>3. CASE HoldIsDue
    <2>1. PICK timer \in DimTimer : timer = Armed(HoldPeriod)
      BY DimmerAssumption DEF Armed, DimTimer
    <2>2. PICK D : D = [dim EXCEPT !.detected = TRUE, !.hold = timer]
      OBVIOUS
    <2>3. D \in DimWell
      BY <1>0, <2>1, <2>2 DEF DimWell
    <2>4. PICK v \in Int : v = IF D.down THEN D.value - 1 ELSE D.value + 1
      BY <2>3, ValuesAre
    <2>5. PICK E : E = DimSet(D, v)
      OBVIOUS
    <2>6. E \in DimWell /\ E.impulse = NoTimer
      BY <2>3, <2>5, SetIsLit DEF Lit
    <2>7. PICK down \in BOOLEAN : down = IF v \in 0..Top THEN E.down ELSE ~E.down
      BY <2>6 DEF DimWell
    <2>8. dim' = [E EXCEPT !.down = down]
      BY <1>3, <2>1, <2>2, <2>4, <2>5, <2>7 DEF HoldIsDue, HoldFires, OneStep
    <2>9. dim' \in DimWell /\ dim'.impulse = NoTimer
      BY <2>6, <2>8 DEF DimWell
    <2> QED BY <1>3, <2>9, NoTimerStands DEF HoldIsDue, DimKeeps, AtAStep
  <1>4. CASE ImpulseIsDue
    <2>1. dim' \in DimWell /\ dim'.impulse = NoTimer
      BY <1>0, <1>4, OffIsLit DEF ImpulseIsDue, Lit
    <2>2. dmOld = {}
      BY <1>4 DEF ImpulseIsDue, DimKeeps, Giving, Runs
    <2> QED BY <1>0, <1>4, <2>1, <2>2, NoTimerStands DEF ImpulseIsDue, DimKeeps, AtAStep
  <1>5. CASE DimTick
    <2>1. dim.hold \in DimTimer /\ dim.impulse \in DimTimer
      BY <1>0 DEF DimWell
    <2>2. /\ Later(dim.hold) \in DimTimer /\ Later(dim.impulse) \in DimTimer
          /\ Runs(Later(dim.impulse)) <=> Runs(dim.impulse)
      BY <1>5, <2>1, LaterIsATimer DEF DimTick
    <2>3. dim' = [dim EXCEPT !.hold = Later(dim.hold), !.impulse = Later(dim.impulse)]
          /\ UNCHANGED <<dmHold, dmOld>>
      BY <1>5 DEF DimTick
    <2>4. /\ dim' \in DimWell /\ dim'.impulse = Later(dim.impulse)
          /\ dim'.value = dim.value /\ dim'.old = dim.old /\ dim'.blinks = dim.blinks
          /\ dim'.current = dim.current /\ dim'.kind = dim.kind
      BY <1>0, <2>2, <2>3 DEF DimWell
    <2>5. ASSUME NEW old \in dmOld PROVE Giving(dim', old)
      BY <2>2, <2>4 DEF DimKeeps, Giving, Shows, Remembers
    <2>6. AtAStep(dim')
      BY <2>2, <2>4 DEF DimKeeps, AtAStep
    <2> QED BY <1>0, <2>3, <2>4, <2>5, <2>6 DEF DimKeeps
  <1>6. CASE UNCHANGED dmVars
    BY <1>6 DEF dmVars, DimKeeps
  <1> QED
    BY <1>1, <1>2, <1>3, <1>4, <1>5, <1>6, CommandKeeps, AskKeeps, BlinkKeeps
    DEF DimNext, DimUser, DimCallback

\* A dimmer keeps its types, and a pattern that ends with "old" gives back the very
\* intensity it found, whatever the patterns and the times.
THEOREM DimmerGivesBack == DimSpec => [](DimTypeOK /\ DimIsRestored)
  <1>1. DimInit => DimKeeps
    <2>1. <<>> \in Seq(BlinkInfo) /\ 0 \in 0..Top /\ Top \in 0..Top
      BY DimmerAssumption
    <2> QED BY <2>1, NoTimerStands DEF DimInit, DimKeeps, DimWell, AtAStep
  <1>2. DimKeeps => DimTypeOK /\ DimIsRestored
    BY DEF DimKeeps, DimWell, DimTypeOK, DimIsRestored, Giving
  <1> QED BY <1>1, <1>2, DimKept, PTL DEF DimSpec

-----------------------------------------------------------------------------
(* A house: every device does what it does alone, as they share no state   *)

\* A step of the house is a step, or no step, of each of its devices.
LEMMA HouseSteps ==
  [DevicesNext]_deviceVars
    => /\ [Next]_vars /\ [SmartNext]_smVars
       /\ [LightNext]_lgVars /\ [DimNext]_dmVars
       /\ [ThermoNext]_thVars /\ [ScenarioNext]_scVars /\ [ButtonNext]_btVars
       /\ UNCHANGED part
  <1> SUFFICES ASSUME [DevicesNext]_deviceVars
               PROVE  /\ [Next]_vars /\ [SmartNext]_smVars
                      /\ [LightNext]_lgVars /\ [DimNext]_dmVars
                      /\ [ThermoNext]_thVars /\ [ScenarioNext]_scVars /\ [ButtonNext]_btVars
                      /\ UNCHANGED part
    OBVIOUS
  <1>1. CASE Alone("shutter") /\ Next
    BY <1>1 DEF Alone
  <1>2. CASE Alone("smart") /\ SmartNext
    BY <1>2 DEF Alone
  <1>3. CASE Alone("light") /\ LightNext
    BY <1>3 DEF Alone
  <1>4. CASE Alone("dimmer") /\ DimNext
    BY <1>4 DEF Alone
  <1>5. CASE Alone("thermostat") /\ ThermoNext
    BY <1>5 DEF Alone
  <1>6. CASE Alone("scenario") /\ ScenarioNext
    BY <1>6 DEF Alone
  <1>7. CASE Alone("button") /\ ButtonNext
    BY <1>7 DEF Alone
  <1>8. CASE UNCHANGED deviceVars
    BY <1>8 DEF deviceVars
  <1> QED BY <1>1, <1>2, <1>3, <1>4, <1>5, <1>6, <1>7, <1>8 DEF DevicesNext

\* The house implements the specification of each of its devices, and follows the
\* one it began with.
THEOREM HouseImplementsDevices ==
  DevicesSpec
    => /\ Spec /\ SmartSpec /\ LightSpec /\ DimSpec
       /\ ThermoSpec /\ ScenarioSpec /\ ButtonSpec
       /\ [](part \in Parts)
  <1>1. DevicesInit
          => /\ Init /\ SmartInit /\ LightInit /\ DimInit
             /\ ThermoInit /\ ScenarioInit /\ ButtonInit
             /\ part \in Parts
    BY DEF DevicesInit
  <1>2. part \in Parts /\ UNCHANGED part => (part \in Parts)'
    OBVIOUS
  <1> QED
    BY <1>1, <1>2, HouseSteps, PTL
    DEF DevicesSpec, Spec, SmartSpec, LightSpec, DimSpec, ThermoSpec, ScenarioSpec, ButtonSpec

\* DevicesTypeOK: every device of a house keeps its types, as long as no rule answers a
\* light with a pattern that has no step.
THEOREM HouseTypes ==
  ASSUME AnswersHaveSteps
  PROVE  DevicesSpec => []DevicesTypeOK
  <1>1. LightSpec => []LightTypeOK
    BY LightTypes
  <1>2. /\ part \in Parts /\ TypeOK /\ SmartTypeOK /\ LightTypeOK /\ DimTypeOK
        /\ ThermoTypeOK /\ ScenarioTypeOK /\ ButtonTypeOK
        => DevicesTypeOK
    BY DEF DevicesTypeOK
  <1> QED
    BY <1>1, <1>2, HouseImplementsDevices, TypeCorrect, SmartTypes, DimmerGivesBack,
       ThermoTypes, ScenarioTellsTime, ButtonTellsItsPresses, PTL

\* In a house with held relays, until a restart, every motor that is on has the
\* timer that stops it, and its relays are as its shutter believes.
THEOREM MotorsAreTimed ==
  ASSUME ImpulseTime = 0
  PROVE  DevicesSpec => []RelaysAreTimed
  <1>1. RunIsTimed /\ SmartRelaysAreTimed => RelaysAreTimed
    BY DEF RelaysAreTimed
  <1> QED BY <1>1, HouseImplementsDevices, HeldRelaysSafe, PositionIsKept, PTL

\* Lights and dimmers end as their last impulse or pattern leaves them, in a house
\* where no rule answers a light with an impulse of its own.
THEOREM LightsEnd ==
  ASSUME \A r \in Reactions : r.do # "impulse"
  PROVE  DevicesSpec => []LightsEndAsAsked
  <1>1. LightSpec => [](LightTypeOK /\ LightEndsAsAsked)
    BY LightEnds
  <1>2. LightEndsAsAsked /\ DimIsRestored => LightsEndAsAsked
    BY DEF LightsEndAsAsked
  <1> QED BY <1>1, <1>2, HouseImplementsDevices, DimmerGivesBack, PTL
=============================================================================
