----------------------------- MODULE Thermostat -----------------------------
(***************************************************************************)
(* InternalThermostat with the outputs output_heat and output_cool.        *)
(*                                                                         *)
(* An evaluation compares the temperature with the setpoints and goes      *)
(* through the outputs, first those that must be off.  A write may run     *)
(* rules before it returns: they may change an input, so that the pass     *)
(* starts over, or write an output.  An output reads what it was written   *)
(* at once or, if it is slow, later, in order and no more than Lag ticks   *)
(* later: nothing in the code bounds it, and what depends on Lag says so.  *)
(* An output that reads something else than what the thermostat holds was  *)
(* switched by something else: it is put back, at growing intervals if the *)
(* other one insists.                                                      *)
(*                                                                         *)
(* Left out: the single zone valve, outputs that have never reported a     *)
(* value, and what is published about the lock-outs and faults.            *)
(***************************************************************************)
EXTENDS Naturals, Sequences, FiniteSets, SequencesExt

CONSTANTS
  MinOn, MinOff,        \* min_on_time and min_off_time, in ticks
  PutBack, PutBackMax,  \* put_back_delay and put_back_delay_max
  Slow,                 \* outputs that do not read back at once
  Lag,                  \* ticks in which they do: 0 is before the next tick
  Climates,             \* inputs: the mode, and for each side the need for it
                        \* and whether safety allows it
  MaxMeddles,           \* bound on writes by something else
  MaxFailures           \* bound on writes that the output refuses or loses

Outputs == {"heat", "cool"}
OtherSide(s) == IF s = "heat" THEN "cool" ELSE "heat"
Modes == {"off", "heat", "cool", "auto"}
Needs == {"more", "hold", "less"}   \* past the hysteresis, within, past the setpoint

ASSUME ThermostatAssumption ==
  /\ {MinOn, MinOff, PutBack, PutBackMax, Lag, MaxMeddles, MaxFailures} \subseteq Nat
  /\ Slow \subseteq Outputs
  /\ 0 < PutBack /\ PutBack <= PutBackMax
  /\ Climates \subseteq [mode : Modes, need : [Outputs -> Needs],
                         safe : [Outputs -> BOOLEAN]]

\* An age is counted as far as a delay looks at it; the last value also stands
\* for never
BackOld == PutBackMax + 1
Longest(a, b) == IF a < b THEN b ELSE a
SinceOld == Longest(MinOn, MinOff)
Unarmed == SinceOld + BackOld   \* a lock-out timer that is not armed
Orders == [side : Outputs, on : BOOLEAN, forced : BOOLEAN]

VARIABLES
  climate,     \* what current_temp, humidity, the setpoints and the mode say
  thermo,      \* Output::State and lockout of each output
  reads,       \* what each output reads, and does
  bus,         \* writes on their way to the slow outputs: which, what, and
               \* for how many ticks
  pass,        \* what is left of regulate()
  thDue,       \* evaluate() has been called
  thOpen,      \* rules may run: regulate() is in a write
  thSoon,      \* outputsMoved is armed
  thMeddles, thFailures,
  thSince      \* history: ticks since each output last changed

thVars == <<climate, thermo, reads, bus, pass, thDue, thOpen, thSoon,
            thMeddles, thFailures, thSince>>

OutputState == [commanded : BOOLEAN, onAge : 0..MinOn, offAge : 0..MinOff,
                foreign : BOOLEAN, fighting : BOOLEAN, backAge : 0..BackOld,
                spacing : 0..PutBackMax, lockout : 0..Unarmed]

ThermoTypeOK ==
  /\ climate \in Climates
  /\ thermo \in [Outputs -> OutputState]
  /\ reads \in [Outputs -> BOOLEAN]
  /\ bus \in Seq(Outputs \X BOOLEAN \X (0..Lag)) /\ pass \in Seq(Orders)
  /\ thDue \in BOOLEAN /\ thOpen \in BOOLEAN /\ thSoon \in BOOLEAN
  /\ thMeddles \in 0..MaxMeddles /\ thFailures \in 0..MaxFailures
  /\ thSince \in [Outputs -> 0..SinceOld]

\* The first evaluation: it adopts what the outputs read, and the start counts
\* as a switch off
ThermoInit ==
  /\ climate \in Climates
  /\ reads \in [Outputs -> BOOLEAN] /\ ~(reads["heat"] /\ reads["cool"])
  /\ thermo = [s \in Outputs |->
       [commanded |-> reads[s], onAge |-> MinOn, offAge |-> 0, foreign |-> FALSE,
        fighting |-> FALSE, backAge |-> BackOld, spacing |-> 0, lockout |-> Unarmed]]
  /\ bus = <<>> /\ pass = <<>>
  /\ thDue = TRUE /\ thOpen = FALSE /\ thSoon = FALSE
  /\ thMeddles = 0 /\ thFailures = 0
  /\ thSince = [s \in Outputs |-> IF reads[s] THEN SinceOld ELSE 0]

-----------------------------------------------------------------------------
(* regulate()                                                              *)

Serves(mode, s) == mode = s \/ mode = "auto"

\* demand()
Demand(s) ==
  \/ climate.need[s] = "more"
  \/ climate.need[s] = "hold" /\ thermo[s].commanded

Wanted(s) == Serves(climate.mode, s) /\ Demand(s) /\ climate.safe[s]
Forced(s) == climate.mode = "off" \/ ~climate.safe[s]

\* Every OFF before any ON
OrderFor(s, on) ==
  IF Wanted(s) = on THEN <<[side |-> s, on |-> on, forced |-> Forced(s)]>> ELSE <<>>
OrdersOf(on) == OrderFor("heat", on) \o OrderFor("cool", on)

Regulate ==
  /\ thDue
  /\ thDue' = FALSE /\ thOpen' = FALSE
  /\ pass' = OrdersOf(FALSE) \o OrdersOf(TRUE)
  /\ UNCHANGED <<climate, thermo, reads, bus, thSoon, thMeddles, thFailures, thSince>>

-----------------------------------------------------------------------------
(* switchOutput()                                                          *)

IsOn(s) == reads[s] \/ thermo[s].commanded

Remaining(delay, age) == IF age < delay THEN delay - age ELSE 0

\* lockedFor() and the spacing of the put-backs.
\* NoChangeover and StopsWait are faults, used by no action.
NoChangeover(s, on, forced) ==
  IF on THEN Remaining(MinOff, thermo[s].offAge)
  ELSE IF forced \/ IsOn(OtherSide(s)) THEN 0 ELSE Remaining(MinOn, thermo[s].onAge)
StopsWait(s, on, forced) ==
  IF on
  THEN Longest(Remaining(MinOff, thermo[s].offAge),
               Remaining(MinOff, thermo[OtherSide(s)].offAge))
  ELSE Remaining(MinOn, thermo[s].onAge)
LockedFor(s, on, forced) ==
  IF on
  THEN Longest(Remaining(MinOff, thermo[s].offAge),
               Remaining(MinOff, thermo[OtherSide(s)].offAge))
  ELSE IF forced \/ IsOn(OtherSide(s)) THEN 0 ELSE Remaining(MinOn, thermo[s].onAge)

WaitFor(s, on, forced) ==
  Longest(LockedFor(s, on, forced),
          IF thermo[s].foreign THEN Remaining(thermo[s].spacing, thermo[s].backAge) ELSE 0)

\* A write that is still on its way is not repeated: it would come behind and
\* change nothing
LastWrite(s) ==
  LET mine == {i \in DOMAIN bus : bus[i][1] = s}
  IN IF mine = {} THEN reads[s] ELSE bus[Max(mine)][2]
Send(s, on) == bus' = IF LastWrite(s) = on THEN bus ELSE Append(bus, <<s, on, 0>>)

\* A write that is refused leaves the state as it was, one that is lost does not
Doubled(o) == IF 2 * o.spacing < PutBackMax THEN 2 * o.spacing ELSE PutBackMax
Switched(o, on) ==
  LET moved == IF o.commanded = on THEN o
               ELSE IF on THEN [o EXCEPT !.onAge = 0] ELSE [o EXCEPT !.offAge = 0]
      back == IF o.commanded # on /\ o.foreign
              THEN [moved EXCEPT !.backAge = 0,
                                 !.spacing = IF o.fighting THEN Doubled(o) ELSE @]
              ELSE moved
  IN [back EXCEPT !.commanded = on, !.foreign = FALSE, !.lockout = Unarmed]

\* noticeOutput(), when an output reads something else than what it holds
Noticed(o, v) ==
  IF v = o.commanded THEN o
  ELSE LET fighting == o.backAge <= o.spacing
           seen == [o EXCEPT !.commanded = v, !.foreign = TRUE, !.fighting = fighting,
                             !.spacing = IF fighting THEN @ ELSE PutBack]
       IN IF v THEN [seen EXCEPT !.onAge = 0] ELSE [seen EXCEPT !.offAge = 0]

\* An output reads v; o is what the thermostat holds about it
Reads(s, v, o) ==
  /\ reads' = [reads EXCEPT ![s] = v]
  /\ thSince' = IF reads[s] = v THEN thSince ELSE [thSince EXCEPT ![s] = 0]
  /\ thermo' = [thermo EXCEPT ![s] = Noticed(o, v)]
  /\ thSoon' = TRUE

\* Somebody writes an output
Written(s, v, o) ==
  IF s \in Slow
  THEN /\ Send(s, v)
       /\ thermo' = [thermo EXCEPT ![s] = o]
       /\ UNCHANGED <<reads, thSince, thSoon>>
  ELSE Reads(s, v, o) /\ UNCHANGED bus

WriteOutput(s, on) ==
  /\ thOpen' = TRUE
  /\ \/ Written(s, on, Switched(thermo[s], on)) /\ UNCHANGED thFailures
     \/ /\ thFailures < MaxFailures
        /\ thFailures' = thFailures + 1
        /\ \E kept \in {[thermo[s] EXCEPT !.lockout = Unarmed], Switched(thermo[s], on)} :
             thermo' = [thermo EXCEPT ![s] = kept]
        /\ UNCHANGED <<bus, reads, thSince, thSoon>>

Leave(s, lockout) ==
  /\ thermo' = [thermo EXCEPT ![s].lockout = lockout]
  /\ thOpen' = FALSE
  /\ UNCHANGED <<bus, reads, thSince, thSoon, thFailures>>

\* TrustWrite is a fault, used by no action.
TrustWrite(s, on, forced) ==
  LET wait == WaitFor(s, on, forced)
  IN \/ thermo[s].commanded = on /\ Leave(s, Unarmed)
     \/ thermo[s].commanded # on /\ wait > 0 /\ Leave(s, wait)
     \/ thermo[s].commanded # on /\ wait = 0 /\ WriteOutput(s, on)
TrySwitch(s, on, forced) ==
  LET wait == IF thermo[s].commanded = on THEN 0 ELSE WaitFor(s, on, forced)
      agreed == thermo[s].commanded = on /\ reads[s] = on
  IN \/ agreed /\ Leave(s, Unarmed)
     \/ ~agreed /\ wait > 0 /\ Leave(s, wait)
     \/ ~agreed /\ wait = 0 /\ WriteOutput(s, on)

\* Never both: an output whose opposite is on yields.
\* SwitchBlind is a fault, used by no action.
SwitchBlind(s, on, forced) == TrySwitch(s, on, forced)
SwitchOutput(s, on, forced) ==
  LET blocked == on /\ IsOn(OtherSide(s))
  IN \/ ~blocked /\ TrySwitch(s, on, forced)
     \/ blocked /\ thermo[s].commanded /\ TrySwitch(s, FALSE, TRUE)
     \/ blocked /\ ~thermo[s].commanded /\ Leave(s, Unarmed)

SwitchNext ==
  /\ pass # <<>> /\ ~thDue
  /\ SwitchOutput(pass[1].side, pass[1].on, pass[1].forced)
  /\ pass' = Tail(pass)
  /\ UNCHANGED <<climate, thDue, thMeddles>>

-----------------------------------------------------------------------------
(* What happens between evaluations, or in a write of regulate()           *)

Outside == (pass = <<>> /\ ~thDue) \/ thOpen
Idle == pass = <<>> /\ ~thDue

ClimateChanges ==
  /\ Outside
  /\ climate' \in Climates \ {climate}
  /\ thDue' = TRUE
  /\ UNCHANGED <<thermo, reads, bus, pass, thOpen, thSoon, thMeddles, thFailures, thSince>>

\* A rule, a script or a client writes an output
Meddle(s) ==
  /\ Outside /\ thMeddles < MaxMeddles
  /\ Written(s, ~LastWrite(s), thermo[s])
  /\ thMeddles' = thMeddles + 1
  /\ UNCHANGED <<climate, pass, thDue, thOpen, thFailures>>

BusDelivers ==
  /\ Idle /\ bus # <<>>
  /\ bus' = Tail(bus)
  /\ Reads(bus[1][1], bus[1][2], thermo[bus[1][1]])
  /\ UNCHANGED <<climate, pass, thDue, thOpen, thMeddles, thFailures>>

EvaluateSoon ==
  /\ Idle /\ thSoon
  /\ thSoon' = FALSE /\ thDue' = TRUE
  /\ UNCHANGED <<climate, thermo, reads, bus, pass, thOpen, thMeddles, thFailures, thSince>>

LockoutOver(s) ==
  /\ Idle /\ thermo[s].lockout = 0
  /\ thermo' = [thermo EXCEPT ![s].lockout = Unarmed]
  /\ thDue' = TRUE
  /\ UNCHANGED <<climate, reads, bus, pass, thOpen, thSoon, thMeddles, thFailures, thSince>>

\* A tick is the period of freshnessCheck, which evaluates again
Aged(age, old) == IF age < old THEN age + 1 ELSE old
ThermoTick ==
  /\ Idle /\ ~thSoon
  /\ \A i \in DOMAIN bus : bus[i][3] < Lag
  /\ \A s \in Outputs : thermo[s].lockout # 0
  /\ thermo' = [s \in Outputs |->
       [thermo[s] EXCEPT !.onAge = Aged(@, MinOn), !.offAge = Aged(@, MinOff),
                         !.backAge = Aged(@, BackOld),
                         !.lockout = IF @ = Unarmed THEN Unarmed ELSE @ - 1]]
  /\ thSince' = [s \in Outputs |-> Aged(thSince[s], SinceOld)]
  /\ bus' = [i \in DOMAIN bus |-> <<bus[i][1], bus[i][2], bus[i][3] + 1>>]
  /\ thDue' = TRUE
  /\ UNCHANGED <<climate, reads, pass, thOpen, thSoon, thMeddles, thFailures>>

ThermoLoop ==
  \/ Regulate \/ SwitchNext \/ BusDelivers \/ EvaluateSoon
  \/ \E s \in Outputs : LockoutOver(s)

ThermoNext ==
  \/ ThermoLoop \/ ThermoTick \/ ClimateChanges
  \/ \E s \in Outputs : Meddle(s)

ThermoSpec == ThermoInit /\ [][ThermoNext]_thVars

\* The event loop runs what is due, the bus delivers and time passes.
ThermoFairSpec ==
  /\ ThermoSpec
  /\ WF_thVars(ThermoLoop) /\ WF_thVars(ThermoTick)

-----------------------------------------------------------------------------
Undisturbed == thMeddles = 0 /\ thFailures = 0

\* Nothing but the thermostat writing its outputs, heating and cooling are
\* never on at once, whatever writes the outputs refuse or lose and whatever
\* the rules these writes run change: as long as a write is read back, when it
\* is, in less than min_off_time, Lag < MinOff.  (With the default, 0, they may.)
NeverBothOn == thMeddles = 0 => ~(reads["heat"] /\ reads["cool"])

\* An output goes on when both have been off for min_off_time, and one that is
\* told to go off for want of demand has been on for min_on_time, both less the
\* time a write takes to be read back.  But an output of which the mode or
\* safety wants nothing is off when the pass is over and its writes are read
\* back: no lock-out holds such a stop.
LockOutsKept ==
  [][Undisturbed' => \A s \in Outputs :
       /\ Idle /\ bus = <<>> /\ Forced(s) => ~reads[s]
       /\ ~reads[s] /\ reads'[s] => \A o \in Outputs : ~reads[o] /\ thSince[o] + Lag >= MinOff
       /\ pass # pass' /\ thermo[s].commanded /\ ~thermo'[s].commanded /\ ~Forced(s)
            => thSince[s] + Lag >= MinOn]_thVars

\* Once the climate stays as it is, an output that alone is wanted ends up on
\* and one that is not wanted ends up off, whoever switched it otherwise and
\* though a write was lost.
DemandIsServed ==
  <>[][climate' = climate]_thVars =>
  \A s \in Outputs :
    /\ <>[](Wanted(s) /\ ~Wanted(OtherSide(s))) => <>[]reads[s]
    /\ <>[]~Wanted(s) => <>[]~reads[s]
=============================================================================
