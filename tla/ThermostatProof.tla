--------------------------- MODULE ThermostatProof --------------------------
(***************************************************************************)
(* The thermostat, for every set of slow outputs, every climate and every  *)
(* number of writes that are refused or lost.  If a write is read back in  *)
(* less than min_off_time, heating and cooling are never on at once, and   *)
(* an undisturbed thermostat keeps its lock-outs.                          *)
(***************************************************************************)
EXTENDS Thermostat, SequenceTheorems, TLAPS

-----------------------------------------------------------------------------
(* What an output is told and what it reads                                *)

\* Output::State after a write: it holds what was written, and an output told
\* to go off was on until now
LEMMA SwitchedIsState ==
  ASSUME NEW o \in OutputState, NEW on \in BOOLEAN
  PROVE  /\ Switched(o, on) \in OutputState
         /\ Switched(o, on).commanded = on
         /\ Switched(o, on).offAge = IF o.commanded /\ ~on THEN 0 ELSE o.offAge
  <1> DEFINE moved == IF o.commanded = on THEN o
                      ELSE IF on THEN [o EXCEPT !.onAge = 0] ELSE [o EXCEPT !.offAge = 0]
             apart == IF o.fighting THEN Doubled(o) ELSE o.spacing
             back == IF o.commanded # on /\ o.foreign
                     THEN [moved EXCEPT !.backAge = 0, !.spacing = apart]
                     ELSE moved
  <1>0. /\ MinOn \in Nat /\ MinOff \in Nat /\ PutBackMax \in Nat
        /\ Unarmed \in 0..Unarmed /\ 0 \in 0..BackOld
    BY ThermostatAssumption DEF Unarmed, SinceOld, Longest, BackOld
  <1>1. /\ moved \in OutputState
        /\ moved.offAge = IF o.commanded /\ ~on THEN 0 ELSE o.offAge
        /\ moved.spacing = o.spacing
    BY <1>0 DEF OutputState
  <1>2. apart \in 0..PutBackMax
    BY <1>0 DEF OutputState, Doubled
  <1>3. back \in OutputState /\ back.offAge = moved.offAge
    <2> HIDE DEF apart, moved
    <2> QED BY <1>0, <1>1, <1>2 DEF OutputState
  <1>4. Switched(o, on) = [back EXCEPT !.commanded = on, !.foreign = FALSE, !.lockout = Unarmed]
    BY <1>1 DEF Switched
  <1> HIDE DEF back, moved
  <1> QED BY <1>0, <1>1, <1>3, <1>4 DEF OutputState

\* Output::State after a read: it holds what is read, and an output that reads
\* off unexpectedly is off since now
LEMMA NoticedIsState ==
  ASSUME NEW o \in OutputState, NEW v \in BOOLEAN
  PROVE  /\ Noticed(o, v) \in OutputState
         /\ Noticed(o, v).commanded = v
         /\ Noticed(o, v).offAge = IF o.commanded /\ ~v THEN 0 ELSE o.offAge
  <1>0. MinOn \in Nat /\ MinOff \in Nat /\ PutBackMax \in Nat /\ PutBack \in 0..PutBackMax
    BY ThermostatAssumption
  <1>1. CASE v = o.commanded
    BY <1>1 DEF Noticed, OutputState
  <1>2. CASE v # o.commanded
    <2>1. PICK fighting \in BOOLEAN : fighting = (o.backAge <= o.spacing)
      <3>1. (o.backAge <= o.spacing) \in BOOLEAN
        OBVIOUS
      <3> QED BY <3>1, Zenon
    <2> DEFINE seen == [o EXCEPT !.commanded = v, !.foreign = TRUE, !.fighting = fighting,
                                 !.spacing = IF fighting THEN @ ELSE PutBack]
    <2>2. Noticed(o, v) = IF v THEN [seen EXCEPT !.onAge = 0] ELSE [seen EXCEPT !.offAge = 0]
      BY <1>2, <2>1, Zenon DEF Noticed
    <2>3. /\ seen \in OutputState /\ seen.commanded = v /\ seen.offAge = o.offAge
      BY <1>0 DEF OutputState
    <2> HIDE DEF seen
    <2> QED BY <1>0, <1>2, <2>2, <2>3 DEF OutputState
  <1> QED BY <1>1, <1>2

\* What a lock-out can last
LEMMA WaitIsBounded ==
  ASSUME ThermoTypeOK, NEW s \in Outputs, NEW on \in BOOLEAN, NEW forced \in BOOLEAN
  PROVE  WaitFor(s, on, forced) \in 0..Unarmed
  <1>0. /\ MinOn \in Nat /\ MinOff \in Nat /\ PutBackMax \in Nat
        /\ s \in Outputs /\ OtherSide(s) \in Outputs
    BY ThermostatAssumption DEF OtherSide, Outputs
  <1>1. \A o \in Outputs : /\ thermo[o].onAge \in 0..MinOn /\ thermo[o].offAge \in 0..MinOff
                           /\ thermo[o].backAge \in 0..BackOld
                           /\ thermo[o].spacing \in 0..PutBackMax
    BY DEF ThermoTypeOK, OutputState
  <1>2. \A o \in Outputs : /\ Remaining(MinOff, thermo[o].offAge) \in 0..MinOff
                           /\ Remaining(MinOn, thermo[o].onAge) \in 0..MinOn
                           /\ Remaining(thermo[o].spacing, thermo[o].backAge) \in 0..PutBackMax
    BY <1>0, <1>1 DEF Remaining, BackOld
  <1>3. LockedFor(s, on, forced) \in 0..SinceOld
    BY <1>0, <1>2 DEF LockedFor, Longest, SinceOld
  <1> QED
    BY <1>0, <1>2, <1>3 DEF WaitFor, Longest, SinceOld, Unarmed, BackOld

-----------------------------------------------------------------------------
(* Type correctness                                                        *)

\* An output that reads v, of which the thermostat holds o
LEMMA ReadsKeepsTypes ==
  ASSUME ThermoTypeOK, NEW s \in Outputs, NEW v \in BOOLEAN, NEW o \in OutputState,
         Reads(s, v, o)
  PROVE  /\ reads' \in [Outputs -> BOOLEAN] /\ thermo' \in [Outputs -> OutputState]
         /\ thSoon' \in BOOLEAN /\ thSince' \in [Outputs -> 0..SinceOld]
  <1>1. thSince' \in [Outputs -> 0..SinceOld]
    BY ThermostatAssumption DEF Reads, ThermoTypeOK, SinceOld, Longest
  <1>2. thermo' \in [Outputs -> OutputState]
    BY NoticedIsState DEF Reads, ThermoTypeOK
  <1> QED BY <1>1, <1>2 DEF Reads, ThermoTypeOK

\* An output that somebody writes
LEMMA WrittenKeepsTypes ==
  ASSUME ThermoTypeOK, NEW s \in Outputs, NEW v \in BOOLEAN, NEW o \in OutputState,
         Written(s, v, o)
  PROVE  /\ reads' \in [Outputs -> BOOLEAN] /\ thermo' \in [Outputs -> OutputState]
         /\ thSoon' \in BOOLEAN /\ thSince' \in [Outputs -> 0..SinceOld]
         /\ bus' \in Seq(Outputs \X BOOLEAN \X (0..Lag))
  <1>1. CASE s \in Slow
    <2>1. bus' = bus \/ bus' = Append(bus, <<s, v, 0>>)
      BY <1>1 DEF Written, Send
    <2>2. /\ <<s, v, 0>> \in Outputs \X BOOLEAN \X (0..Lag)
          /\ bus \in Seq(Outputs \X BOOLEAN \X (0..Lag))
      BY ThermostatAssumption DEF ThermoTypeOK
    <2>3. bus' \in Seq(Outputs \X BOOLEAN \X (0..Lag))
      <3>1. ASSUME NEW S, NEW q \in Seq(S), NEW x \in S PROVE Append(q, x) \in Seq(S)
        OBVIOUS
      <3>2. Append(bus, <<s, v, 0>>) \in Seq(Outputs \X BOOLEAN \X (0..Lag))
        BY <2>2, <3>1, Zenon
      <3> QED BY <2>1, <2>2, <3>2, Zenon
    <2> QED BY <1>1, <2>3 DEF Written, ThermoTypeOK
  <1>2. CASE s \notin Slow
    <2>1. Reads(s, v, o) /\ UNCHANGED bus
      BY <1>2 DEF Written
    <2> QED BY <2>1, ReadsKeepsTypes DEF ThermoTypeOK
  <1> QED BY <1>1, <1>2

\* The orders of a pass are orders
LEMMA OrdersAreOrders ==
  ASSUME NEW on \in BOOLEAN
  PROVE  OrdersOf(on) \in Seq(Orders)
  <1>1. ASSUME NEW s \in Outputs PROVE OrderFor(s, on) \in Seq(Orders)
    <2>1. Forced(s) \in BOOLEAN
      BY DEF Forced
    <2>2. [side |-> s, on |-> on, forced |-> Forced(s)] \in Orders
      BY <2>1 DEF Orders
    <2> QED BY <2>2 DEF OrderFor
  <1> QED BY <1>1 DEF OrdersOf, Outputs

\* The first order of a pass
LEMMA NextOrder ==
  ASSUME ThermoTypeOK, SwitchNext
  PROVE  /\ pass[1].side \in Outputs /\ pass[1].on \in BOOLEAN /\ pass[1].forced \in BOOLEAN
         /\ SwitchOutput(pass[1].side, pass[1].on, pass[1].forced)
         /\ pass' \in Seq(Orders)
  <1>1. pass \in Seq(Orders) /\ pass # <<>> /\ pass' = Tail(pass)
    BY DEF ThermoTypeOK, SwitchNext
  <1>2. pass[1] \in Orders /\ pass' \in Seq(Orders)
    BY <1>1
  <1> QED BY <1>2 DEF SwitchNext, Orders

\* switchOutput() leaves the output, switches it off, or switches on one that
\* does not read on, of which the opposite is off
LEMMA SwitchEnds ==
  ASSUME ThermoTypeOK, NEW s \in Outputs, NEW on \in BOOLEAN, NEW forced \in BOOLEAN,
         SwitchOutput(s, on, forced)
  PROVE  \/ \E lockout \in 0..Unarmed : Leave(s, lockout)
         \/ WriteOutput(s, FALSE) /\ (IsOn(OtherSide(s)) \/ ~on)
            /\ (thermo[s].commanded =>
                  WaitFor(s, FALSE, forced \/ IsOn(OtherSide(s))) = 0)
         \/ /\ on /\ ~IsOn(OtherSide(s)) /\ WriteOutput(s, TRUE)
            /\ IF thermo[s].commanded THEN ~reads[s] ELSE WaitFor(s, TRUE, forced) = 0
  <1>1. Unarmed \in 0..Unarmed
    BY ThermostatAssumption DEF Unarmed, SinceOld, Longest, BackOld
  <1>2. ASSUME NEW v \in BOOLEAN, NEW f \in BOOLEAN, TrySwitch(s, v, f)
        PROVE  \/ \E lockout \in 0..Unarmed : Leave(s, lockout)
               \/ WriteOutput(s, v) /\ IF thermo[s].commanded = v THEN reads[s] # v
                                       ELSE WaitFor(s, v, f) = 0
    <2> DEFINE wait == IF thermo[s].commanded = v THEN 0 ELSE WaitFor(s, v, f)
               agreed == thermo[s].commanded = v /\ reads[s] = v
    <2>1. \/ Leave(s, Unarmed)
          \/ wait > 0 /\ Leave(s, wait)
          \/ ~agreed /\ wait = 0 /\ WriteOutput(s, v)
      BY <1>2 DEF TrySwitch
    <2>2. wait \in 0..Unarmed
      BY <1>1, WaitIsBounded
    <2> QED BY <1>1, <2>1, <2>2
  <1>0. thermo[s].commanded \in BOOLEAN /\ reads[s] \in BOOLEAN
    BY DEF ThermoTypeOK, OutputState
  <1>3. CASE on /\ ~IsOn(OtherSide(s))
    <2>1. TrySwitch(s, TRUE, forced)
      BY <1>3 DEF SwitchOutput
    <2> QED BY <1>0, <1>2, <1>3, <2>1
  <1>4. CASE on /\ IsOn(OtherSide(s))
    <2>1. TrySwitch(s, FALSE, TRUE) \/ Leave(s, Unarmed)
      BY <1>4 DEF SwitchOutput
    <2>2. (forced \/ IsOn(OtherSide(s))) = TRUE
      BY <1>4
    <2> QED BY <1>0, <1>1, <1>2, <1>4, <2>1, <2>2
  <1>5. CASE ~on
    <2>1. TrySwitch(s, FALSE, forced)
      BY <1>5 DEF SwitchOutput
    <2>2. LockedFor(s, FALSE, forced \/ IsOn(OtherSide(s))) = LockedFor(s, FALSE, forced)
      BY DEF LockedFor
    <2>3. WaitFor(s, FALSE, forced \/ IsOn(OtherSide(s))) = WaitFor(s, FALSE, forced)
      BY <2>2 DEF WaitFor
    <2> QED BY <1>0, <1>2, <1>5, <2>1, <2>3
  <1> QED BY <1>3, <1>4, <1>5

\* What a write of regulate() does: the output holds it and is written, or the
\* write is lost or refused
LEMMA WriteEnds ==
  ASSUME ThermoTypeOK, NEW s \in Outputs, NEW on \in BOOLEAN, WriteOutput(s, on)
  PROVE  \/ Written(s, on, Switched(thermo[s], on)) /\ UNCHANGED thFailures
         \/ \E kept \in OutputState :
              /\ thermo' = [thermo EXCEPT ![s] = kept]
              /\ \/ /\ kept.commanded = thermo[s].commanded
                    /\ kept.offAge = thermo[s].offAge
                 \/ /\ kept.commanded = on
                    /\ kept.offAge = Switched(thermo[s], on).offAge
              /\ thFailures' \in 1..MaxFailures
              /\ UNCHANGED <<bus, reads, thSince, thSoon>>
  <1>1. CASE Written(s, on, Switched(thermo[s], on)) /\ UNCHANGED thFailures
    BY <1>1
  <1>2. ASSUME thFailures < MaxFailures, thFailures' = thFailures + 1,
               NEW kept \in {[thermo[s] EXCEPT !.lockout = Unarmed], Switched(thermo[s], on)},
               thermo' = [thermo EXCEPT ![s] = kept],
               UNCHANGED <<bus, reads, thSince, thSoon>>
        PROVE  \E k \in OutputState :
              /\ thermo' = [thermo EXCEPT ![s] = k]
              /\ \/ /\ k.commanded = thermo[s].commanded
                    /\ k.offAge = thermo[s].offAge
                 \/ /\ k.commanded = on
                    /\ k.offAge = Switched(thermo[s], on).offAge
              /\ thFailures' \in 1..MaxFailures
              /\ UNCHANGED <<bus, reads, thSince, thSoon>>
    <2>0. Unarmed \in 0..Unarmed /\ thermo[s] \in OutputState
      <3>1. Unarmed \in 0..Unarmed
        BY ThermostatAssumption DEF Unarmed, SinceOld, Longest, BackOld
      <3> QED BY <3>1 DEF ThermoTypeOK
    <2>1. /\ [thermo[s] EXCEPT !.lockout = Unarmed] \in OutputState
          /\ [thermo[s] EXCEPT !.lockout = Unarmed].commanded = thermo[s].commanded
          /\ [thermo[s] EXCEPT !.lockout = Unarmed].offAge = thermo[s].offAge
      BY <2>0 DEF OutputState
    <2>2. Switched(thermo[s], on) \in OutputState /\ Switched(thermo[s], on).commanded = on
      BY <2>0, SwitchedIsState
    <2>3. thFailures' \in 1..MaxFailures
      BY <1>2, ThermostatAssumption DEF ThermoTypeOK
    <2>4. /\ kept \in OutputState
          /\ \/ kept.commanded = thermo[s].commanded /\ kept.offAge = thermo[s].offAge
             \/ kept.commanded = on /\ kept.offAge = Switched(thermo[s], on).offAge
      BY <2>1, <2>2
    <2> QED BY <1>2, <2>3, <2>4
  <1> QED BY <1>1, <1>2 DEF WriteOutput

\* A step of switchOutput() keeps the types
LEMMA SwitchKeepsTypes ==
  ASSUME ThermoTypeOK, SwitchNext
  PROVE  ThermoTypeOK'
  <1>0. PICK s \in Outputs, on \in BOOLEAN, forced \in BOOLEAN :
          SwitchOutput(s, on, forced)
    BY NextOrder
  <1>1. pass' \in Seq(Orders)
    BY NextOrder
  <1>2. \/ \E lockout \in 0..Unarmed : Leave(s, lockout)
        \/ \E v \in BOOLEAN : WriteOutput(s, v)
    BY <1>0, SwitchEnds
  <1>3. CASE \E lockout \in 0..Unarmed : Leave(s, lockout)
    <2>1. PICK lockout \in 0..Unarmed : Leave(s, lockout)
      BY <1>3
    <2>2. [thermo[s] EXCEPT !.lockout = lockout] \in OutputState
      BY <1>1 DEF ThermoTypeOK, OutputState
    <2>3. thermo' \in [Outputs -> OutputState]
      BY <1>1, <2>1, <2>2 DEF Leave, ThermoTypeOK
    <2> QED BY <1>1, <2>1, <2>3 DEF ThermoTypeOK, SwitchNext, Leave
  <1>4. ASSUME NEW v \in BOOLEAN, WriteOutput(s, v) PROVE ThermoTypeOK'
    <2>1. /\ reads' \in [Outputs -> BOOLEAN] /\ thermo' \in [Outputs -> OutputState]
          /\ thSoon' \in BOOLEAN /\ thSince' \in [Outputs -> 0..SinceOld]
          /\ bus' \in Seq(Outputs \X BOOLEAN \X (0..Lag)) /\ thFailures' \in 0..MaxFailures
      <3>1. CASE Written(s, v, Switched(thermo[s], v)) /\ UNCHANGED thFailures
        <4>1. Switched(thermo[s], v) \in OutputState
          BY <1>1, SwitchedIsState DEF ThermoTypeOK
        <4> QED BY <1>1, <3>1, <4>1, WrittenKeepsTypes DEF ThermoTypeOK
      <3>2. ASSUME NEW kept \in OutputState, thermo' = [thermo EXCEPT ![s] = kept],
                   thFailures' \in 1..MaxFailures,
                   UNCHANGED <<bus, reads, thSince, thSoon>>
            PROVE  /\ reads' \in [Outputs -> BOOLEAN] /\ thermo' \in [Outputs -> OutputState]
                   /\ thSoon' \in BOOLEAN /\ thSince' \in [Outputs -> 0..SinceOld]
                   /\ bus' \in Seq(Outputs \X BOOLEAN \X (0..Lag)) /\ thFailures' \in 0..MaxFailures
        BY <1>1, <3>2, ThermostatAssumption DEF ThermoTypeOK
      <3> QED BY <1>1, <1>4, <3>1, <3>2, WriteEnds
    <2> QED BY <1>1, <1>4, <2>1 DEF ThermoTypeOK, SwitchNext, WriteOutput
  <1> QED BY <1>2, <1>3, <1>4

\* The first evaluation has the types
THEOREM InitTypes == ThermoInit => ThermoTypeOK
  <1> SUFFICES ASSUME ThermoInit PROVE ThermoTypeOK
    OBVIOUS
  <1>0. /\ MinOn \in Nat /\ MinOff \in Nat /\ PutBackMax \in Nat
        /\ 0 \in 0..MaxMeddles /\ 0 \in 0..MaxFailures
        /\ SinceOld \in Nat /\ Unarmed \in Nat /\ BackOld \in Nat
    BY ThermostatAssumption DEF Unarmed, SinceOld, Longest, BackOld
  <1>1. thermo \in [Outputs -> OutputState]
    <2>1. ASSUME NEW s \in Outputs PROVE thermo[s] \in OutputState
      <3>1. PICK held \in BOOLEAN : held = reads[s]
        BY DEF ThermoInit
      <3>2. thermo[s] =
              [commanded |-> held, onAge |-> MinOn, offAge |-> 0, foreign |-> FALSE,
               fighting |-> FALSE, backAge |-> BackOld, spacing |-> 0, lockout |-> Unarmed]
        BY <3>1 DEF ThermoInit
      <3> QED BY <1>0, <3>2 DEF OutputState
    <2> QED BY <2>1 DEF ThermoInit
  <1>2. <<>> \in Seq(Outputs \X BOOLEAN \X (0..Lag)) /\ <<>> \in Seq(Orders)
    OBVIOUS
  <1>3. thSince \in [Outputs -> 0..SinceOld]
    BY <1>0 DEF ThermoInit
  <1> QED BY <1>0, <1>1, <1>2, <1>3 DEF ThermoInit, ThermoTypeOK

\* Every step keeps the types
THEOREM StepTypes == ThermoTypeOK /\ [ThermoNext]_thVars => ThermoTypeOK'
  <1> SUFFICES ASSUME ThermoTypeOK, [ThermoNext]_thVars PROVE ThermoTypeOK'
    OBVIOUS
  <1>1. CASE Regulate
    <2>0. OrdersOf(FALSE) \in Seq(Orders) /\ OrdersOf(TRUE) \in Seq(Orders)
      BY OrdersAreOrders
    <2>1. \A a, b \in Seq(Orders) : a \o b \in Seq(Orders)
      OBVIOUS
    <2>2. pass' \in Seq(Orders)
      BY <1>1, <2>0, <2>1, Zenon DEF Regulate
    <2> QED BY <1>1, <2>2 DEF Regulate, ThermoTypeOK
  <1>2. CASE SwitchNext
    BY <1>2, SwitchKeepsTypes
  <1>3. CASE BusDelivers
    <2>1. /\ bus[1][1] \in Outputs /\ bus[1][2] \in BOOLEAN
          /\ bus' \in Seq(Outputs \X BOOLEAN \X (0..Lag))
      BY <1>3 DEF BusDelivers, ThermoTypeOK
    <2>2. /\ thermo[bus[1][1]] \in OutputState
          /\ Reads(bus[1][1], bus[1][2], thermo[bus[1][1]])
      BY <1>3, <2>1 DEF BusDelivers, ThermoTypeOK
    <2> QED BY <1>3, <2>1, <2>2, ReadsKeepsTypes DEF BusDelivers, ThermoTypeOK
  <1>4. CASE EvaluateSoon
    BY <1>4 DEF EvaluateSoon, ThermoTypeOK
  <1>5. ASSUME NEW s \in Outputs, LockoutOver(s) PROVE ThermoTypeOK'
    <2>1. Unarmed \in 0..Unarmed
      BY ThermostatAssumption DEF Unarmed, SinceOld, Longest, BackOld
    <2>2. [thermo[s] EXCEPT !.lockout = Unarmed] \in OutputState
      BY <2>1 DEF ThermoTypeOK, OutputState
    <2>3. thermo' \in [Outputs -> OutputState]
      BY <1>5, <2>2 DEF LockoutOver, ThermoTypeOK
    <2> QED BY <1>5, <2>3 DEF LockoutOver, ThermoTypeOK
  <1>6. CASE ThermoTick
    <2>0. /\ MinOn \in Nat /\ MinOff \in Nat /\ BackOld \in Nat /\ Unarmed \in Nat
          /\ SinceOld \in Nat
      BY ThermostatAssumption DEF Unarmed, SinceOld, Longest, BackOld
    <2>1. ASSUME NEW s \in Outputs PROVE thermo'[s] \in OutputState
      <3> DEFINE o == thermo[s]
      <3>1. /\ o \in OutputState /\ o.lockout # 0
            /\ thermo'[s] = [o EXCEPT !.onAge = Aged(@, MinOn), !.offAge = Aged(@, MinOff),
                               !.backAge = Aged(@, BackOld),
                               !.lockout = IF @ = Unarmed THEN Unarmed ELSE @ - 1]
        BY <1>6 DEF ThermoTick, ThermoTypeOK
      <3>2. /\ o.onAge \in 0..MinOn /\ o.offAge \in 0..MinOff /\ o.backAge \in 0..BackOld
            /\ o.lockout \in 1..Unarmed
        BY <2>0, <3>1 DEF OutputState
      <3>3. /\ Aged(o.onAge, MinOn) \in 0..MinOn /\ Aged(o.offAge, MinOff) \in 0..MinOff
            /\ Aged(o.backAge, BackOld) \in 0..BackOld
            /\ (IF o.lockout = Unarmed THEN Unarmed ELSE o.lockout - 1) \in 0..Unarmed
        BY <2>0, <3>2 DEF Aged
      <3> HIDE DEF o
      <3> QED BY <3>1, <3>3 DEF OutputState
    <2>2. thermo' \in [Outputs -> OutputState]
      BY <1>6, <2>1 DEF ThermoTick
    <2>3. thSince' \in [Outputs -> 0..SinceOld]
      <3>1. ASSUME NEW s \in Outputs PROVE Aged(thSince[s], SinceOld) \in 0..SinceOld
        BY <2>0 DEF ThermoTypeOK, Aged
      <3> QED BY <1>6, <3>1 DEF ThermoTick
    <2>4. bus' \in Seq(Outputs \X BOOLEAN \X (0..Lag))
      <3>1. bus \in Seq(Outputs \X BOOLEAN \X (0..Lag)) /\ Lag \in Nat
        BY ThermostatAssumption DEF ThermoTypeOK
      <3>2. /\ bus' = [i \in DOMAIN bus |-> <<bus[i][1], bus[i][2], bus[i][3] + 1>>]
            /\ \A i \in DOMAIN bus : bus[i][3] < Lag
        BY <1>6 DEF ThermoTick
      <3>3. ASSUME NEW i \in DOMAIN bus
            PROVE  <<bus[i][1], bus[i][2], bus[i][3] + 1>> \in Outputs \X BOOLEAN \X (0..Lag)
        <4>1. bus[i] \in Outputs \X BOOLEAN \X (0..Lag) /\ bus[i][3] < Lag
          BY <3>1, <3>2
        <4> QED BY <3>1, <4>1
      <3>4. DOMAIN bus = 1..Len(bus) /\ Len(bus) \in Nat
        BY <3>1
      <3> QED BY <3>2, <3>3, <3>4
    <2> QED BY <1>6, <2>2, <2>3, <2>4 DEF ThermoTick, ThermoTypeOK
  <1>7. CASE ClimateChanges
    BY <1>7 DEF ClimateChanges, ThermoTypeOK
  <1>8. ASSUME NEW s \in Outputs, Meddle(s) PROVE ThermoTypeOK'
    <2>1. PICK v \in BOOLEAN : v = ~LastWrite(s)
      OBVIOUS
    <2>2. Written(s, v, thermo[s]) /\ thermo[s] \in OutputState
      BY <1>8, <2>1 DEF Meddle, ThermoTypeOK
    <2>3. thMeddles' \in 0..MaxMeddles
      BY <1>8, ThermostatAssumption DEF Meddle, ThermoTypeOK
    <2> QED BY <1>8, <2>2, <2>3, WrittenKeepsTypes DEF Meddle, ThermoTypeOK
  <1>9. CASE UNCHANGED thVars
    BY <1>9 DEF thVars, ThermoTypeOK
  <1> QED
    BY <1>1, <1>2, <1>3, <1>4, <1>5, <1>6, <1>7, <1>8, <1>9 DEF ThermoNext, ThermoLoop

\* The thermostat's state has its types, whoever writes its outputs.
THEOREM ThermoTypes == ThermoSpec => []ThermoTypeOK
  BY InitTypes, StepTypes, PTL DEF ThermoSpec

-----------------------------------------------------------------------------
(* Never both.  An output may be on, or come on, when it reads on, when the *)
(* thermostat holds it on, or when a write to switch it on is on its way:   *)
(* that is the case of one output at most.  And an output of which an ON is *)
(* on its way is held on, or was told to go off after that write left: so   *)
(* that the changeover delay, if it is longer than a write takes, keeps the *)
(* other one off until the write is read back.                              *)

Coming(s) == {bus[i][3] : i \in {j \in DOMAIN bus : bus[j][1] = s /\ bus[j][2]}}
MayBeOn(s) == reads[s] \/ thermo[s].commanded \/ Coming(s) # {}
OneMayBeOn == ~(MayBeOn("heat") /\ MayBeOn("cool"))
HeldOn(s) == thermo[s].commanded \/ \A age \in Coming(s) : thermo[s].offAge <= age
WritesAreHeld == \A s \in Outputs : HeldOn(s)

BothInv == ThermoTypeOK /\ (thMeddles = 0 => OneMayBeOn /\ WritesAreHeld)

\* A write adds nothing to the bus but itself
LEMMA SendAdds ==
  ASSUME ThermoTypeOK, NEW s \in Outputs, NEW v \in BOOLEAN, Send(s, v)
  PROVE  \A o \in Outputs : Coming(o)' \subseteq Coming(o) \cup (IF o = s /\ v THEN {0} ELSE {})
  <1>0. bus \in Seq(Outputs \X BOOLEAN \X (0..Lag)) /\ 0 \in 0..Lag
    BY ThermostatAssumption DEF ThermoTypeOK
  <1>1. bus' = bus \/ bus' = Append(bus, <<s, v, 0>>)
    BY DEF Send
  <1>2. CASE bus' = bus
    BY <1>2 DEF Coming
  <1>3. CASE bus' = Append(bus, <<s, v, 0>>)
    <2>1. ASSUME NEW o \in Outputs, NEW i \in DOMAIN bus', bus'[i][1] = o, bus'[i][2]
          PROVE  bus'[i][3] \in Coming(o) \cup (IF o = s /\ v THEN {0} ELSE {})
      <3>1. (i \in DOMAIN bus /\ bus'[i] = bus[i]) \/ bus'[i] = <<s, v, 0>>
        BY <1>0, <1>3
      <3>2. CASE i \in DOMAIN bus /\ bus'[i] = bus[i]
        BY <2>1, <3>2 DEF Coming
      <3>3. CASE bus'[i] = <<s, v, 0>>
        BY <2>1, <3>3
      <3> QED BY <3>1, <3>2, <3>3
    <2> QED BY <2>1 DEF Coming
  <1> QED BY <1>1, <1>2, <1>3

\* What is delivered was on its way, what is left on the bus too
LEMMA DeliveredWasComing ==
  ASSUME ThermoTypeOK, BusDelivers
  PROVE  /\ bus[1][1] \in Outputs /\ bus[1][2] \in BOOLEAN
         /\ bus[1][2] => Coming(bus[1][1]) # {}
         /\ \A o \in Outputs : Coming(o)' \subseteq Coming(o)
  <1>1. bus \in Seq(Outputs \X BOOLEAN \X (0..Lag)) /\ bus # <<>> /\ bus' = Tail(bus)
    BY DEF ThermoTypeOK, BusDelivers
  <1>2. bus[1] \in Outputs \X BOOLEAN \X (0..Lag) /\ 1 \in DOMAIN bus
    BY <1>1
  <1>3. \A i \in DOMAIN bus' : i + 1 \in DOMAIN bus /\ bus'[i] = bus[i + 1]
    BY <1>1
  <1>4. bus[1][1] \in Outputs /\ bus[1][2] \in BOOLEAN
    BY <1>2
  <1>5. bus[1][2] => bus[1][3] \in Coming(bus[1][1])
    BY <1>2 DEF Coming
  <1>6. \A o \in Outputs : Coming(o)' \subseteq Coming(o)
    BY <1>3 DEF Coming
  <1> QED BY <1>4, <1>5, <1>6

\* An age is one
LEMMA ComingAreAges ==
  ASSUME ThermoTypeOK, NEW o \in Outputs
  PROVE  \A age \in Coming(o) : age \in Nat /\ 0 <= age /\ age <= Lag
  <1>1. bus \in Seq(Outputs \X BOOLEAN \X (0..Lag)) /\ Lag \in Nat
    BY ThermostatAssumption DEF ThermoTypeOK
  <1>2. \A i \in DOMAIN bus : bus[i][3] \in 0..Lag
    BY <1>1
  <1> QED BY <1>1, <1>2 DEF Coming

\* The writes on the bus grow a tick older
LEMMA ComingAges ==
  ASSUME ThermoTypeOK, ThermoTick, NEW o \in Outputs
  PROVE  /\ Coming(o)' # {} => Coming(o) # {}
         /\ \A age \in Coming(o)' : age - 1 \in Coming(o) /\ age \in Nat
  <1>0. bus \in Seq(Outputs \X BOOLEAN \X (0..Lag)) /\ Lag \in Nat
    BY ThermostatAssumption DEF ThermoTypeOK
  <1>1. bus' = [i \in DOMAIN bus |-> <<bus[i][1], bus[i][2], bus[i][3] + 1>>]
    BY DEF ThermoTick
  <1>2. ASSUME NEW i \in DOMAIN bus', bus'[i][1] = o, bus'[i][2]
        PROVE  bus'[i][3] - 1 \in Coming(o) /\ bus'[i][3] \in Nat
    <2>1. i \in DOMAIN bus /\ bus'[i] = <<bus[i][1], bus[i][2], bus[i][3] + 1>>
      BY <1>1
    <2>2. bus[i] \in Outputs \X BOOLEAN \X (0..Lag)
      BY <1>0, <2>1
    <2>3. bus[i][1] = o /\ bus[i][2] /\ bus'[i][3] = bus[i][3] + 1 /\ bus[i][3] \in Nat
      BY <1>0, <1>2, <2>1, <2>2
    <2>4. bus[i][3] \in Coming(o)
      BY <2>1, <2>3 DEF Coming
    <2> QED BY <2>3, <2>4
  <1>3. \A age \in Coming(o)' : age - 1 \in Coming(o) /\ age \in Nat
    BY <1>2 DEF Coming
  <1> QED BY <1>3

\* An output that may be on is written, reads or is held: the other one is not
\* touched
LEMMA TouchedKeeps ==
  ASSUME ThermoTypeOK, ThermoTypeOK', OneMayBeOn, WritesAreHeld,
         NEW s \in Outputs,
         \A o \in Outputs \ {s} : reads'[o] = reads[o] /\ thermo'[o] = thermo[o],
         \A o \in Outputs \ {s} : Coming(o)' \subseteq Coming(o),
         MayBeOn(s)' => MayBeOn(s) \/ ~MayBeOn(OtherSide(s)),
         HeldOn(s)'
  PROVE  OneMayBeOn' /\ WritesAreHeld'
  <1>1. ASSUME NEW o \in Outputs \ {s} PROVE MayBeOn(o)' => MayBeOn(o)
    BY DEF MayBeOn
  <1>2. WritesAreHeld'
    BY DEF WritesAreHeld, HeldOn
  <1>3. OneMayBeOn'
    <2>1. CASE s = "heat"
      <3>1. "cool" \in Outputs \ {s} /\ OtherSide(s) = "cool"
        BY <2>1 DEF Outputs, OtherSide
      <3>2. MayBeOn("cool")' => MayBeOn("cool")
        BY <1>1, <3>1
      <3> QED BY <2>1, <3>1, <3>2 DEF OneMayBeOn
    <2>2. CASE s = "cool"
      <3>1. "heat" \in Outputs \ {s} /\ OtherSide(s) = "heat"
        BY <2>2 DEF Outputs, OtherSide
      <3>2. MayBeOn("heat")' => MayBeOn("heat")
        BY <1>1, <3>1
      <3> QED BY <2>2, <3>1, <3>2 DEF OneMayBeOn
    <2> QED BY <2>1, <2>2 DEF Outputs
  <1> QED BY <1>2, <1>3

\* A write of regulate(), to switch off or to switch on an output of which the
\* other one may not be on
LEMMA WriteKeepsOne ==
  ASSUME ThermoTypeOK, ThermoTypeOK', OneMayBeOn, WritesAreHeld,
         NEW s \in Outputs, NEW on \in BOOLEAN, WriteOutput(s, on),
         on => MayBeOn(s) \/ ~MayBeOn(OtherSide(s))
  PROVE  OneMayBeOn' /\ WritesAreHeld'
  <1>0. /\ thermo \in [Outputs -> OutputState] /\ thermo[s] \in OutputState
        /\ reads \in [Outputs -> BOOLEAN]
    BY DEF ThermoTypeOK
  <1> DEFINE o == Switched(thermo[s], on)
  <1>1. /\ o \in OutputState /\ o.commanded = on
        /\ o.offAge = IF thermo[s].commanded /\ ~on THEN 0 ELSE thermo[s].offAge
    BY <1>0, SwitchedIsState
  <1>a. \A age \in Coming(s) : 0 <= age
    BY ComingAreAges
  <1>2. CASE Written(s, on, o) /\ s \in Slow
    <2>1. Send(s, on) /\ thermo' = [thermo EXCEPT ![s] = o] /\ reads' = reads
      BY <1>2 DEF Written
    <2>2. /\ \A r \in Outputs \ {s} : Coming(r)' \subseteq Coming(r)
          /\ ~on => Coming(s)' \subseteq Coming(s)
      BY <2>1, SendAdds
    <2>3. thermo'[s] = o /\ \A r \in Outputs \ {s} : thermo'[r] = thermo[r]
      BY <1>0, <2>1
    <2>4. HeldOn(s)'
      BY <1>1, <1>a, <2>2, <2>3 DEF WritesAreHeld, HeldOn
    <2>5. MayBeOn(s)' => MayBeOn(s) \/ ~MayBeOn(OtherSide(s))
      BY <1>1, <2>1, <2>2, <2>3 DEF MayBeOn
    <2> QED BY <2>1, <2>2, <2>3, <2>4, <2>5, TouchedKeeps
  <1>3. CASE Written(s, on, o) /\ s \notin Slow
    <2>1. /\ bus' = bus /\ reads' = [reads EXCEPT ![s] = on]
          /\ thermo' = [thermo EXCEPT ![s] = Noticed(o, on)]
      BY <1>3 DEF Written, Reads
    <2>2. Noticed(o, on) = o
      BY <1>1 DEF Noticed
    <2>3. /\ thermo'[s] = o /\ reads'[s] = on
          /\ \A r \in Outputs \ {s} : thermo'[r] = thermo[r] /\ reads'[r] = reads[r]
      BY <1>0, <2>1, <2>2
    <2>4. \A r \in Outputs : Coming(r)' = Coming(r)
      BY <2>1 DEF Coming
    <2>5. HeldOn(s)'
      BY <1>1, <1>a, <2>3, <2>4 DEF WritesAreHeld, HeldOn
    <2>6. MayBeOn(s)' => MayBeOn(s) \/ ~MayBeOn(OtherSide(s))
      BY <1>1, <2>3, <2>4 DEF MayBeOn
    <2> QED BY <2>3, <2>4, <2>5, <2>6, TouchedKeeps
  <1>4. ASSUME NEW kept \in OutputState,
               thermo' = [thermo EXCEPT ![s] = kept],
               \/ kept.commanded = thermo[s].commanded /\ kept.offAge = thermo[s].offAge
               \/ kept.commanded = on /\ kept.offAge = o.offAge,
               bus' = bus, reads' = reads
        PROVE  OneMayBeOn' /\ WritesAreHeld'
    <2>1. thermo'[s] = kept /\ \A r \in Outputs \ {s} : thermo'[r] = thermo[r]
      BY <1>0, <1>4
    <2>2. \A r \in Outputs : Coming(r)' = Coming(r)
      BY <1>4 DEF Coming
    <2>3. HeldOn(s)'
      BY <1>1, <1>4, <1>a, <2>1, <2>2 DEF WritesAreHeld, HeldOn
    <2>4. MayBeOn(s)' => MayBeOn(s) \/ ~MayBeOn(OtherSide(s))
      BY <1>1, <1>4, <2>1, <2>2 DEF MayBeOn
    <2> QED BY <1>4, <2>1, <2>2, <2>3, <2>4, TouchedKeeps
  <1>5. \/ Written(s, on, o)
        \/ \E kept \in OutputState :
              /\ thermo' = [thermo EXCEPT ![s] = kept]
              /\ \/ kept.commanded = thermo[s].commanded /\ kept.offAge = thermo[s].offAge
                 \/ kept.commanded = on /\ kept.offAge = o.offAge
              /\ bus' = bus /\ reads' = reads
    BY WriteEnds
  <1> QED BY <1>2, <1>3, <1>4, <1>5

\* An output that may be switched on: both have been off for the changeover delay
LEMMA ChangeoverLasts ==
  ASSUME ThermoTypeOK, NEW s \in Outputs, NEW forced \in BOOLEAN,
         WaitFor(s, TRUE, forced) = 0
  PROVE  \A o \in Outputs : thermo[o].offAge >= MinOff
  <1> DEFINE locked == LockedFor(s, TRUE, forced)
             apart == IF thermo[s].foreign
                      THEN Remaining(thermo[s].spacing, thermo[s].backAge) ELSE 0
  <1>0. MinOff \in Nat /\ BackOld \in Nat /\ PutBackMax \in Nat
    BY ThermostatAssumption DEF BackOld
  <1>1. \A o \in Outputs : /\ thermo[o].offAge \in Nat /\ thermo[o].backAge \in Nat
                           /\ thermo[o].spacing \in Nat
    <2>1. \A o \in Outputs : thermo[o] \in OutputState
      BY DEF ThermoTypeOK
    <2> QED BY <1>0, <2>1 DEF OutputState
  <1>2. Remaining(thermo[s].spacing, thermo[s].backAge) \in Nat
    BY <1>1 DEF Remaining
  <1>3. \A o \in Outputs : /\ Remaining(MinOff, thermo[o].offAge) \in Nat
                           /\ Remaining(MinOff, thermo[o].offAge) = 0
                                => thermo[o].offAge >= MinOff
    BY <1>0, <1>1 DEF Remaining
  <1>4. OtherSide(s) \in Outputs /\ \A o \in Outputs : o = s \/ o = OtherSide(s)
    BY DEF OtherSide, Outputs
  <1>5. locked \in Nat
    BY <1>3, <1>4 DEF LockedFor, Longest
  <1>6. locked = 0
    <2>1. Longest(locked, apart) = 0 /\ apart \in Nat
      BY <1>2 DEF WaitFor
    <2> HIDE DEF locked, apart
    <2> QED BY <1>5, <2>1 DEF Longest
  <1>7. /\ Remaining(MinOff, thermo[s].offAge) = 0
        /\ Remaining(MinOff, thermo[OtherSide(s)].offAge) = 0
    BY <1>3, <1>4, <1>6 DEF LockedFor, Longest
  <1> QED BY <1>3, <1>4, <1>7

\* When the changeover delay is over, nothing of the other output is on its way
LEMMA ChangeoverIsOver ==
  ASSUME Lag < MinOff, ThermoTypeOK, WritesAreHeld, NEW s \in Outputs,
         NEW forced \in BOOLEAN, ~IsOn(OtherSide(s)), WaitFor(s, TRUE, forced) = 0
  PROVE  ~MayBeOn(OtherSide(s))
  <1>0. OtherSide(s) \in Outputs /\ MinOff \in Nat /\ Lag \in Nat
    BY ThermostatAssumption DEF OtherSide, Outputs
  <1>1. /\ thermo[OtherSide(s)].offAge >= MinOff
        /\ thermo[OtherSide(s)].offAge \in Nat
    <2>1. thermo[OtherSide(s)] \in OutputState
      BY <1>0 DEF ThermoTypeOK
    <2>2. thermo[OtherSide(s)].offAge >= MinOff
      BY <1>0, ChangeoverLasts
    <2>3. thermo[OtherSide(s)].offAge \in Nat
      BY <1>0, <2>1 DEF OutputState
    <2> QED BY <2>2, <2>3
  <1>2. \A age \in Coming(OtherSide(s)) : ~(thermo[OtherSide(s)].offAge <= age)
    BY <1>0, <1>1, ComingAreAges
  <1> QED BY <1>0, <1>2 DEF IsOn, MayBeOn, WritesAreHeld, HeldOn

\* Every step keeps one output off
THEOREM StepBoth ==
  ASSUME Lag < MinOff
  PROVE  BothInv /\ [ThermoNext]_thVars => BothInv'
  <1> SUFFICES ASSUME BothInv, [ThermoNext]_thVars, thMeddles' = 0
               PROVE  OneMayBeOn' /\ WritesAreHeld'
    BY StepTypes DEF BothInv
  <1>0. ThermoTypeOK /\ ThermoTypeOK'
    BY StepTypes DEF BothInv
  <1>a. thMeddles = 0 /\ ~\E s \in Outputs : Meddle(s)
    <2>1. ASSUME NEW s \in Outputs, Meddle(s) PROVE FALSE
      BY <1>0, <2>1 DEF Meddle, ThermoTypeOK
    <2> QED
      BY <2>1
      DEF ThermoNext, ThermoLoop, Regulate, SwitchNext, BusDelivers, EvaluateSoon,
          LockoutOver, ThermoTick, ClimateChanges, thVars
  <1>b. OneMayBeOn /\ WritesAreHeld
    BY <1>a DEF BothInv
  <1>c. ASSUME reads' = reads, bus' = bus,
               \A s \in Outputs : /\ thermo'[s].commanded = thermo[s].commanded
                                  /\ thermo'[s].offAge = thermo[s].offAge
        PROVE  OneMayBeOn' /\ WritesAreHeld'
    BY <1>b, <1>c DEF OneMayBeOn, MayBeOn, Coming, WritesAreHeld, HeldOn, Outputs
  <1>1. CASE SwitchNext
    <2>1. PICK s \in Outputs, on \in BOOLEAN, forced \in BOOLEAN :
            SwitchOutput(s, on, forced)
      BY <1>0, <1>1, NextOrder
    <2>2. CASE \E lockout \in 0..Unarmed : Leave(s, lockout)
      <3>1. PICK lockout \in 0..Unarmed : thermo' = [thermo EXCEPT ![s].lockout = lockout]
        BY <2>2 DEF Leave
      <3>2. \A r \in Outputs : /\ thermo'[r].commanded = thermo[r].commanded
                               /\ thermo'[r].offAge = thermo[r].offAge
        BY <1>0, <3>1 DEF ThermoTypeOK, OutputState
      <3> QED BY <1>c, <2>2, <3>2 DEF Leave
    <2>3. CASE WriteOutput(s, FALSE)
      BY <1>0, <1>b, <2>1, <2>3, WriteKeepsOne
    <2>4. CASE /\ ~IsOn(OtherSide(s)) /\ WriteOutput(s, TRUE)
               /\ IF thermo[s].commanded THEN ~reads[s] ELSE WaitFor(s, TRUE, forced) = 0
      <3>1. MayBeOn(s) \/ ~MayBeOn(OtherSide(s))
        BY <1>0, <1>b, <2>1, <2>4, ChangeoverIsOver DEF MayBeOn
      <3> QED BY <1>0, <1>b, <2>1, <2>4, <3>1, WriteKeepsOne
    <2> QED BY <1>0, <2>1, <2>2, <2>3, <2>4, SwitchEnds
  <1>2. CASE BusDelivers
    <2>1. PICK s \in Outputs, v \in BOOLEAN : s = bus[1][1] /\ v = bus[1][2]
      BY <1>0, <1>2, DeliveredWasComing
    <2>2. /\ v => Coming(s) # {}
          /\ \A o \in Outputs : Coming(o)' \subseteq Coming(o)
          /\ Reads(s, v, thermo[s])
      BY <1>0, <1>2, <2>1, DeliveredWasComing DEF BusDelivers
    <2>3. /\ thermo[s] \in OutputState
          /\ thermo'[s] = Noticed(thermo[s], v) /\ reads'[s] = v
          /\ \A o \in Outputs \ {s} : thermo'[o] = thermo[o] /\ reads'[o] = reads[o]
      BY <1>0, <2>1, <2>2 DEF Reads, ThermoTypeOK
    <2>4. /\ thermo'[s].commanded = v
          /\ thermo'[s].offAge = IF thermo[s].commanded /\ ~v THEN 0 ELSE thermo[s].offAge
      BY <2>1, <2>3, NoticedIsState
    <2>5. HeldOn(s)'
      BY <1>0, <1>b, <2>2, <2>4, ComingAreAges DEF WritesAreHeld, HeldOn
    <2>6. MayBeOn(s)' => MayBeOn(s)
      BY <2>2, <2>3, <2>4 DEF MayBeOn
    <2> QED BY <1>0, <1>b, <2>2, <2>3, <2>5, <2>6, TouchedKeeps
  <1>3. ASSUME NEW s \in Outputs, LockoutOver(s) PROVE OneMayBeOn' /\ WritesAreHeld'
    <2>1. \A r \in Outputs : /\ thermo'[r].commanded = thermo[r].commanded
                             /\ thermo'[r].offAge = thermo[r].offAge
      BY <1>0, <1>3 DEF LockoutOver, ThermoTypeOK, OutputState
    <2> QED BY <1>3, <1>c, <2>1 DEF LockoutOver
  <1>4. CASE ThermoTick
    <2>1. reads' = reads /\ MinOff \in Nat
      BY <1>4, ThermostatAssumption DEF ThermoTick
    <2>2. ASSUME NEW s \in Outputs
          PROVE  /\ thermo'[s].commanded = thermo[s].commanded
                 /\ thermo[s].offAge \in Nat /\ thermo'[s].offAge <= thermo[s].offAge + 1
      <3>1. thermo[s] \in OutputState
        BY <1>0 DEF ThermoTypeOK
      <3>2. thermo'[s] =
              [thermo[s] EXCEPT !.onAge = Aged(@, MinOn), !.offAge = Aged(@, MinOff),
                 !.backAge = Aged(@, BackOld),
                 !.lockout = IF @ = Unarmed THEN Unarmed ELSE @ - 1]
        BY <1>4 DEF ThermoTick
      <3>3. thermo'[s].offAge = Aged(thermo[s].offAge, MinOff) /\ thermo[s].offAge \in 0..MinOff
        BY <3>1, <3>2 DEF OutputState
      <3> QED BY <2>1, <3>1, <3>2, <3>3 DEF OutputState, Aged
    <2>3. ASSUME NEW s \in Outputs PROVE HeldOn(s)'
      <3>1. SUFFICES ASSUME ~thermo'[s].commanded, NEW age \in Coming(s)'
                     PROVE  thermo'[s].offAge <= age
        BY DEF HeldOn
      <3>2. age - 1 \in Coming(s) /\ age \in Nat
        BY <1>0, <1>4, <3>1, ComingAges
      <3>3. thermo[s].offAge <= age - 1
        BY <1>b, <2>2, <3>1, <3>2 DEF WritesAreHeld, HeldOn
      <3>4. thermo'[s].offAge \in Nat
        <4>1. thermo'[s] \in OutputState
          BY <1>0 DEF ThermoTypeOK
        <4> QED BY <2>1, <4>1 DEF OutputState
      <3> QED BY <2>2, <3>2, <3>3, <3>4
    <2>4. \A s \in Outputs : MayBeOn(s)' => MayBeOn(s)
      BY <1>0, <1>4, <2>1, <2>2, ComingAges DEF MayBeOn
    <2> QED BY <1>b, <2>3, <2>4 DEF OneMayBeOn, WritesAreHeld, Outputs
  <1>5. CASE Regulate \/ EvaluateSoon \/ ClimateChanges \/ UNCHANGED thVars
    <2>1. thermo' = thermo /\ reads' = reads /\ bus' = bus
      BY <1>5 DEF Regulate, EvaluateSoon, ClimateChanges, thVars
    <2> QED BY <1>c, <2>1
  <1> QED
    BY <1>a, <1>1, <1>2, <1>3, <1>4, <1>5 DEF ThermoNext, ThermoLoop

\* If a write is read back, when it is, in less than min_off_time, and nothing
\* but the thermostat writes its outputs, heating and cooling are never on at
\* once: whichever of them is slow, whatever writes they refuse or lose, whatever
\* the climate does.
THEOREM NeverBothAtOnce ==
  ASSUME Lag < MinOff
  PROVE  ThermoSpec => []NeverBothOn
  <1>1. ThermoInit => BothInv
    <2> SUFFICES ASSUME ThermoInit PROVE OneMayBeOn /\ WritesAreHeld
      BY InitTypes DEF BothInv
    <2>1. bus = <<>> /\ ~(reads["heat"] /\ reads["cool"])
      BY DEF ThermoInit
    <2>2. \A s \in Outputs : Coming(s) = {}
      BY <2>1 DEF Coming
    <2>3. \A s \in Outputs : thermo[s].commanded = reads[s]
      BY DEF ThermoInit
    <2> QED BY <2>1, <2>2, <2>3 DEF OneMayBeOn, MayBeOn, WritesAreHeld, HeldOn, Outputs
  <1>2. BothInv => NeverBothOn
    BY DEF BothInv, OneMayBeOn, MayBeOn, NeverBothOn
  <1> QED BY <1>1, <1>2, StepBoth, PTL DEF ThermoSpec
-----------------------------------------------------------------------------
(* The lock-outs.  While nothing disturbs the thermostat, the changeover    *)
(* delay keeps the bus short: nothing, one write, or an ON and the OFF that *)
(* follows it, of one output, the other one being off.  The ages that the   *)
(* lock-outs look at exceed the time since the output changed by no more    *)
(* than a write takes to be read back, and an output that must stop is in   *)
(* what is left of the pass, or ends off.                                   *)

IsOff(s) == ~reads[s] /\ ~thermo[s].commanded
OutputRuns(s) == reads[s] /\ thermo[s].commanded /\ ~thermo[s].foreign
Rested == \A s \in Outputs : ~reads[s] /\ thSince[s] + Lag >= MinOff
BusHas(s, on) == Len(bus) = 1 /\ bus[1][1] = s /\ bus[1][2] = on
NothingSent == bus = <<>> /\ \A s \in Outputs : OutputRuns(s) \/ IsOff(s)
GoesOn(s) ==
  /\ BusHas(s, TRUE) /\ Rested
  /\ thermo[s].commanded /\ ~thermo[s].foreign /\ thermo[s].onAge <= bus[1][3]
GoesOff(s) == BusHas(s, FALSE) /\ reads[s] /\ thermo[s].offAge <= bus[1][3]
Flashes(s) ==
  /\ Len(bus) = 2 /\ bus[1][1] = s /\ bus[2][1] = s /\ bus[1][2] = TRUE /\ bus[2][2] = FALSE
  /\ Rested /\ IsOff(s) /\ thermo[s].offAge <= bus[2][3]
BusIsShort ==
  \/ NothingSent
  \/ \E s \in Slow : (GoesOn(s) \/ GoesOff(s) \/ Flashes(s)) /\ IsOff(OtherSide(s))

AgeIsKnown(s) ==
  /\ IsOff(s) => thermo[s].offAge <= thSince[s] + Lag
  /\ thermo[s].commanded => thermo[s].onAge <= thSince[s] + Lag
AgesAreKnown == \A s \in Outputs : AgeIsKnown(s)

EndsOn(s) == (bus = <<>> /\ reads[s]) \/ BusHas(s, TRUE)
StopOf(s) == [side |-> s, on |-> FALSE, forced |-> TRUE]
OrderMatches(order) ==
  order.forced = Forced(order.side) /\ (order.on => ~order.forced)
OrdersMatch ==
  ~thDue => /\ \A i \in DOMAIN pass : OrderMatches(pass[i])
            /\ \A s \in Outputs : Forced(s) =>
                 (\E i \in DOMAIN pass : pass[i] = StopOf(s)) \/ ~EndsOn(s)

SteadyInv == BothInv /\ (Undisturbed => BusIsShort /\ AgesAreKnown /\ OrdersMatch)

\* Nothing is on an empty bus
LEMMA EmptyBus == Len(<<>>) = 0
  OBVIOUS

\* What is on a bus of one or two writes
LEMMA ShortBus ==
  ASSUME NEW q \in Seq(Outputs \X BOOLEAN \X (0..Lag))
  PROVE  /\ Len(q) = 1 => Tail(q) = <<>> /\ q[1][3] \in Nat /\ q[1][3] <= Lag
         /\ Len(q) = 2 => /\ Len(Tail(q)) = 1 /\ Tail(q)[1] = q[2]
                          /\ q[2][3] \in Nat /\ q[2][3] <= Lag
  <1>0. Lag \in Nat
    BY ThermostatAssumption
  <1>1. \A i \in 1..Len(q) : q[i] \in Outputs \X BOOLEAN \X (0..Lag)
    OBVIOUS
  <1>2. \A w \in Outputs \X BOOLEAN \X (0..Lag) : w[3] \in Nat /\ w[3] <= Lag
    BY <1>0
  <1>3. ASSUME NEW S, NEW x \in Seq(S)
        PROVE  /\ Len(x) = 1 => Tail(x) = <<>>
               /\ Len(x) = 2 => Len(Tail(x)) = 1 /\ Tail(x)[1] = x[2]
    <2>1. ASSUME Len(x) = 1 PROVE Tail(x) = <<>>
      <3>1. Tail(x) \in Seq(S) /\ Len(Tail(x)) = 0
        BY <2>1
      <3>2. \A y \in Seq(S) : Len(y) = 0 => y = <<>>
        OBVIOUS
      <3> QED BY <3>1, <3>2, Zenon
    <2>2. ASSUME Len(x) = 2 PROVE Len(Tail(x)) = 1 /\ Tail(x)[1] = x[2]
      <3>1. x # <<>>
        BY <2>2
      <3>2. Len(Tail(x)) = Len(x) - 1 /\ \A i \in 1..Len(Tail(x)) : Tail(x)[i] = x[i + 1]
        BY <3>1, HeadTailProperties
      <3>3. Len(Tail(x)) = 1 /\ 1 \in 1..1 /\ 1 + 1 = 2
        BY <2>2, <3>2
      <3>4. Tail(x)[1] = x[1 + 1]
        BY <3>2, <3>3, Zenon
      <3> QED BY <3>3, <3>4, Zenon
    <2> QED BY <2>1, <2>2
  <1>4. /\ Len(q) = 1 => Tail(q) = <<>>
        /\ Len(q) = 2 => Len(Tail(q)) = 1 /\ Tail(q)[1] = q[2]
    BY <1>3, Zenon
  <1>5. \A i \in 1..Len(q) : q[i][3] \in Nat /\ q[i][3] <= Lag
    BY <1>1, <1>2
  <1> QED BY <1>4, <1>5

\* What is on a bus
LEMMA BusTypes ==
  ASSUME ThermoTypeOK
  PROVE  /\ bus \in Seq(Outputs \X BOOLEAN \X (0..Lag)) /\ Len(bus) \in Nat /\ Lag \in Nat
         /\ bus = <<>> <=> Len(bus) = 0
         /\ \A i \in 1..Len(bus) : /\ bus[i][1] \in Outputs /\ bus[i][2] \in BOOLEAN
                                   /\ bus[i][3] \in Nat /\ bus[i][3] <= Lag
  <1>1. bus \in Seq(Outputs \X BOOLEAN \X (0..Lag)) /\ Lag \in Nat
    BY ThermostatAssumption DEF ThermoTypeOK
  <1>2. \A i \in 1..Len(bus) : bus[i] \in Outputs \X BOOLEAN \X (0..Lag)
    BY <1>1
  <1> QED BY <1>1, <1>2

\* The last write of an output, when the bus is that short
LEMMA LastWriteIs ==
  ASSUME ThermoTypeOK, NEW s \in Outputs
  PROVE  /\ bus = <<>> => LastWrite(s) = reads[s]
         /\ Len(bus) = 1 => LastWrite(s) = IF bus[1][1] = s THEN bus[1][2] ELSE reads[s]
         /\ Len(bus) = 2 /\ bus[1][1] = bus[2][1] =>
              LastWrite(s) = IF bus[2][1] = s THEN bus[2][2] ELSE reads[s]
  <1> DEFINE mine == {i \in DOMAIN bus : bus[i][1] = s}
  <1>1. LastWrite(s) = IF mine = {} THEN reads[s] ELSE bus[Max(mine)][2]
    BY DEF LastWrite
  <1>2. Max({1}) = 1 /\ Max({1, 2}) = 2
    BY DEF Max
  <1>3. DOMAIN bus = 1..Len(bus) /\ Len(bus) \in Nat /\ (bus = <<>> <=> Len(bus) = 0)
    BY BusTypes
  <1>4. /\ Len(bus) = 0 => mine = {}
        /\ Len(bus) = 1 => mine = IF bus[1][1] = s THEN {1} ELSE {}
        /\ Len(bus) = 2 /\ bus[1][1] = bus[2][1] =>
             mine = IF bus[2][1] = s THEN {1, 2} ELSE {}
    BY <1>3
  <1> HIDE DEF mine
  <1> QED BY <1>1, <1>2, <1>3, <1>4

\* What each of the shapes of the bus says about the write that comes next
LEMMA SendFrom ==
  ASSUME NEW s \in Outputs, NEW v \in BOOLEAN, Send(s, v), ThermoTypeOK
  PROVE  /\ bus = <<>> =>
              IF reads[s] = v THEN bus' = bus ELSE BusHas(s, v)' /\ bus'[1][3] = 0
         /\ BusHas(s, TRUE) /\ ~v =>
              /\ Len(bus') = 2 /\ bus'[1][1] = s /\ bus'[2][1] = s
              /\ bus'[1][2] = TRUE /\ bus'[2][2] = FALSE /\ bus'[2][3] = 0
         /\ BusHas(s, v) => bus' = bus
         /\ Flashes(s) /\ ~v => bus' = bus
         /\ \A o \in Outputs \ {s} : ~reads[s] /\ ~v =>
              /\ \A w \in BOOLEAN : BusHas(o, w) => bus' = bus
              /\ Flashes(o) => bus' = bus
  <1>0. /\ reads[s] \in BOOLEAN /\ bus \in Seq(Outputs \X BOOLEAN \X (0..Lag))
        /\ <<s, v, 0>> \in Outputs \X BOOLEAN \X (0..Lag)
        /\ (bus = <<>> <=> Len(bus) = 0)
    BY BusTypes DEF ThermoTypeOK
  <1>1. bus' = IF LastWrite(s) = v THEN bus ELSE Append(bus, <<s, v, 0>>)
    BY DEF Send
  <1>2. ASSUME bus' = Append(bus, <<s, v, 0>>)
        PROVE  /\ Len(bus') = Len(bus) + 1
               /\ bus'[Len(bus) + 1] = <<s, v, 0>>
               /\ \A i \in 1..Len(bus) : bus'[i] = bus[i]
    BY <1>0, <1>2
  <1>3. CASE bus = <<>>
    <2>1. LastWrite(s) = reads[s] /\ Len(bus) = 0
      BY <1>0, <1>3, LastWriteIs
    <2>2. reads[s] # v => BusHas(s, v)' /\ bus'[1][3] = 0
      BY <1>1, <1>2, <2>1 DEF BusHas
    <2> QED BY <1>1, <1>3, <2>1, <2>2 DEF BusHas, Flashes
  <1>4. CASE Len(bus) = 1
    <2>1. LastWrite(s) = IF bus[1][1] = s THEN bus[1][2] ELSE reads[s]
      BY <1>4, LastWriteIs
    <2>2. ASSUME BusHas(s, TRUE), ~v
          PROVE  /\ Len(bus') = 2 /\ bus'[1][1] = s /\ bus'[2][1] = s
                 /\ bus'[1][2] = TRUE /\ bus'[2][2] = FALSE /\ bus'[2][3] = 0
      BY <1>1, <1>2, <1>4, <2>1, <2>2 DEF BusHas
    <2>3. BusHas(s, v) => bus' = bus
      BY <1>1, <2>1 DEF BusHas
    <2>4. \A o \in Outputs \ {s}, w \in BOOLEAN :
            ~reads[s] /\ ~v /\ BusHas(o, w) => bus' = bus
      BY <1>0, <1>1, <2>1 DEF BusHas
    <2>5. bus # <<>> /\ ~Flashes(s) /\ \A o \in Outputs \ {s} : ~Flashes(o)
      BY <1>0, <1>4 DEF Flashes
    <2> QED BY <2>2, <2>3, <2>4, <2>5
  <1>5. CASE Len(bus) # 0 /\ Len(bus) # 1
    <2>1. Flashes(s) /\ ~v => bus' = bus
      BY <1>1, LastWriteIs DEF Flashes
    <2>2. \A o \in Outputs \ {s} : ~reads[s] /\ ~v /\ Flashes(o) => bus' = bus
      BY <1>0, <1>1, LastWriteIs DEF Flashes
    <2> QED BY <1>0, <1>5, <2>1, <2>2 DEF BusHas
  <1> QED BY <1>0, <1>3, <1>4, <1>5

\* What a write of regulate() leaves alone
LEMMA WriteTouches ==
  ASSUME ThermoTypeOK, NEW s \in Outputs, NEW on \in BOOLEAN,
         WriteOutput(s, on), thFailures' = 0, thFailures = 0
  PROVE  /\ thermo'[s] = Switched(thermo[s], on)
         /\ \A o \in Outputs \ {s} : thermo'[o] = thermo[o] /\ thSince'[o] = thSince[o]
                                   /\ reads'[o] = reads[o]
         /\ s \in Slow => Send(s, on) /\ reads' = reads /\ thSince' = thSince
         /\ s \notin Slow => /\ bus' = bus /\ reads'[s] = on
                             /\ (reads[s] <=> on) => thSince'[s] = thSince[s]
                             /\ (reads[s] <=> ~on) => thSince'[s] = 0
  <1>0. /\ thermo \in [Outputs -> OutputState] /\ reads \in [Outputs -> BOOLEAN]
        /\ thSince \in [Outputs -> 0..SinceOld]
    BY DEF ThermoTypeOK
  <1> DEFINE o == Switched(thermo[s], on)
  <1>1. o \in OutputState /\ o.commanded = on
    BY <1>0, SwitchedIsState
  <1>2. Written(s, on, o)
    BY ThermostatAssumption DEF WriteOutput, ThermoTypeOK
  <1>3. Noticed(o, on) = o
    BY <1>1 DEF Noticed
  <1> HIDE DEF o
  <1>4. CASE s \in Slow
    <2>1. /\ Send(s, on) /\ thermo' = [thermo EXCEPT ![s] = o]
          /\ reads' = reads /\ thSince' = thSince
      BY <1>2, <1>4 DEF Written
    <2>2. thermo'[s] = o /\ \A r \in Outputs \ {s} : thermo'[r] = thermo[r]
      BY <1>0, <2>1
    <2> QED BY <1>4, <2>1, <2>2 DEF o
  <1>5. CASE s \notin Slow
    <2>1. /\ bus' = bus /\ reads' = [reads EXCEPT ![s] = on]
          /\ thSince' = IF reads[s] = on THEN thSince ELSE [thSince EXCEPT ![s] = 0]
          /\ thermo' = [thermo EXCEPT ![s] = o]
      BY <1>2, <1>3, <1>5 DEF Written, Reads
    <2>2. /\ thermo'[s] = o /\ reads'[s] = on
          /\ (reads[s] <=> on) => thSince'[s] = thSince[s]
          /\ (reads[s] <=> ~on) => thSince'[s] = 0
          /\ \A r \in Outputs \ {s} : thermo'[r] = thermo[r] /\ reads'[r] = reads[r]
                                    /\ thSince'[r] = thSince[r]
      BY <1>0, <2>1
    <2> QED BY <1>5, <2>1, <2>2 DEF o
  <1> QED BY <1>4, <1>5

\* What Switched() does to the fields the lock-outs look at
LEMMA SwitchedFields ==
  ASSUME NEW o \in OutputState, NEW on \in BOOLEAN
  PROVE  /\ Switched(o, on).commanded = on /\ ~Switched(o, on).foreign
         /\ Switched(o, on).onAge = IF ~o.commanded /\ on THEN 0 ELSE o.onAge
         /\ Switched(o, on).offAge = IF o.commanded /\ ~on THEN 0 ELSE o.offAge
  <1> DEFINE moved == IF o.commanded = on THEN o
                      ELSE IF on THEN [o EXCEPT !.onAge = 0] ELSE [o EXCEPT !.offAge = 0]
             apart == IF o.fighting THEN Doubled(o) ELSE o.spacing
             back == IF o.commanded # on /\ o.foreign
                     THEN [moved EXCEPT !.backAge = 0, !.spacing = apart]
                     ELSE moved
             kept == [back EXCEPT !.commanded = on, !.foreign = FALSE, !.lockout = Unarmed]
  <1>0. 0 \in 0..MinOn /\ 0 \in 0..MinOff /\ 0 \in 0..BackOld
    BY ThermostatAssumption DEF BackOld
  <1>1. /\ moved \in OutputState /\ moved.spacing = o.spacing
        /\ moved.onAge = IF ~o.commanded /\ on THEN 0 ELSE o.onAge
    BY <1>0 DEF OutputState
  <1>2. apart \in 0..PutBackMax
    BY ThermostatAssumption DEF OutputState, Doubled
  <1>3. back \in OutputState /\ back.onAge = moved.onAge
    <2> HIDE DEF apart, moved
    <2> QED BY <1>0, <1>1, <1>2 DEF OutputState
  <1>4. Switched(o, on) = kept
    BY <1>1 DEF Switched
  <1>5. ~kept.foreign /\ kept.onAge = moved.onAge
    <2> HIDE DEF back
    <2> QED BY <1>3 DEF OutputState
  <1> HIDE DEF kept
  <1> QED BY <1>1, <1>4, <1>5, SwitchedIsState

\* Before and after a write of regulate()
Steady == ThermoTypeOK /\ OneMayBeOn /\ BusIsShort /\ AgesAreKnown

\* An output and its opposite
LEMMA OutputsDiffer ==
  ASSUME NEW s \in Outputs
  PROVE  \E o \in Outputs : /\ o = OtherSide(s) /\ s = OtherSide(o) /\ o # s
                           /\ \A x \in Outputs : x = s \/ x = o
  BY DEF OtherSide, Outputs

\* The types of what the thermostat holds about an output
LEMMA StateTypes ==
  ASSUME ThermoTypeOK, NEW s \in Outputs
  PROVE  /\ thermo[s] \in OutputState /\ thSince[s] \in Nat /\ reads[s] \in BOOLEAN
         /\ thermo[s].commanded \in BOOLEAN /\ thermo[s].foreign \in BOOLEAN
         /\ thermo[s].onAge \in Nat /\ thermo[s].offAge \in Nat
         /\ thermo[s].onAge <= MinOn /\ thermo[s].offAge <= MinOff
  <1>1. MinOn \in Nat /\ MinOff \in Nat /\ SinceOld \in Nat
    BY ThermostatAssumption DEF SinceOld, Longest
  <1>2. thermo[s] \in OutputState /\ thSince[s] \in Nat /\ reads[s] \in BOOLEAN
    BY <1>1 DEF ThermoTypeOK
  <1> QED BY <1>1, <1>2 DEF OutputState

\* A write to switch off
LEMMA StopWrite ==
  ASSUME Lag < MinOff, Steady, ThermoTypeOK', thFailures = 0, thFailures' = 0,
         NEW s \in Outputs, WriteOutput(s, FALSE)
  PROVE  /\ BusIsShort' /\ AgesAreKnown' /\ ~EndsOn(s)'
         /\ \A x \in Outputs \ {s} : EndsOn(x)' => EndsOn(x)
  <1>0. ThermoTypeOK /\ OneMayBeOn /\ BusIsShort /\ AgesAreKnown
    BY DEF Steady
  <1>1. PICK o \in Outputs : /\ o = OtherSide(s) /\ s = OtherSide(o) /\ o # s
                            /\ \A x \in Outputs : x = s \/ x = o
    BY OutputsDiffer
  <1>2. /\ thermo[s] \in OutputState /\ thSince[s] \in Nat /\ thermo[s].offAge \in Nat
        /\ reads[s] \in BOOLEAN /\ thermo[s].commanded \in BOOLEAN /\ Lag \in Nat
    BY <1>0, StateTypes, ThermostatAssumption
  <1>3. /\ thermo'[s] = Switched(thermo[s], FALSE)
        /\ thermo'[o] = thermo[o] /\ thSince'[o] = thSince[o] /\ reads'[o] = reads[o]
        /\ s \in Slow => Send(s, FALSE) /\ reads'[s] = reads[s] /\ thSince'[s] = thSince[s]
        /\ s \notin Slow => /\ bus' = bus /\ ~reads'[s]
                            /\ ~reads[s] => thSince'[s] = thSince[s]
                            /\ reads[s] => thSince'[s] = 0
    BY <1>0, <1>1, WriteTouches
  <1>4. /\ ~thermo'[s].commanded
        /\ thermo'[s].offAge = IF thermo[s].commanded THEN 0 ELSE thermo[s].offAge
    <2>1. /\ ~Switched(thermo[s], FALSE).commanded
          /\ Switched(thermo[s], FALSE).offAge =
               IF thermo[s].commanded THEN 0 ELSE thermo[s].offAge
      BY <1>2, SwitchedFields
    <2> QED BY <1>3, <2>1
  <1>5. /\ OutputRuns(o)' <=> OutputRuns(o)
        /\ IsOff(o)' <=> IsOff(o)
        /\ AgeIsKnown(o)'
    BY <1>0, <1>3 DEF OutputRuns, IsOff, AgesAreKnown, AgeIsKnown
  <1>6. ~(OutputRuns(s) /\ OutputRuns(o))
    BY <1>0, <1>1 DEF OneMayBeOn, MayBeOn, OutputRuns, Outputs
  <1>7. ASSUME AgeIsKnown(s)'
        PROVE  AgesAreKnown'
    BY <1>1, <1>5, <1>7 DEF AgesAreKnown
  <1>8. ASSUME IsOff(s)', bus' = <<>>, bus = <<>>, AgeIsKnown(s)', NothingSent
        PROVE  /\ BusIsShort' /\ AgesAreKnown' /\ ~EndsOn(s)'
               /\ \A x \in Outputs \ {s} : EndsOn(x)' => EndsOn(x)
    <2>1. NothingSent'
      BY <1>1, <1>5, <1>8 DEF NothingSent
    <2>2. ~EndsOn(s)'
      BY <1>8 DEF EndsOn, IsOff, BusHas
    <2>3. EndsOn(o)' => EndsOn(o)
      BY <1>3, <1>8 DEF EndsOn, BusHas
    <2> QED BY <1>1, <1>7, <1>8, <2>1, <2>2, <2>3 DEF BusIsShort
  <1>9. ASSUME s \in Slow, IsOff(o), GoesOff(s)' \/ Flashes(s)', AgeIsKnown(s)'
        PROVE  /\ BusIsShort' /\ AgesAreKnown' /\ ~EndsOn(s)'
               /\ \A x \in Outputs \ {s} : EndsOn(x)' => EndsOn(x)
    <2>1. BusIsShort'
      BY <1>1, <1>5, <1>9 DEF BusIsShort
    <2>2. ~EndsOn(s)' /\ ~EndsOn(o)'
      BY <1>9 DEF EndsOn, GoesOff, Flashes, BusHas
    <2> QED BY <1>1, <1>7, <1>9, <2>1, <2>2
  <1>a. AgeIsKnown(s)' <=> (IsOff(s)' => thermo'[s].offAge <= thSince'[s] + Lag)
    BY <1>4 DEF AgeIsKnown
  <1>b. CASE NothingSent /\ IsOff(s)
    <2>1. bus' = <<>> /\ bus = <<>> /\ IsOff(s)'
      BY <1>0, <1>2, <1>3, <1>4, <1>b, SendFrom DEF NothingSent, IsOff
    <2>2. thermo'[s].offAge = thermo[s].offAge /\ thSince'[s] = thSince[s]
      BY <1>2, <1>3, <1>4, <1>b DEF IsOff
    <2>3. AgeIsKnown(s)'
      BY <1>0, <1>a, <1>b, <2>2 DEF AgesAreKnown, AgeIsKnown
    <2> QED BY <1>8, <1>b, <2>1, <2>3
  <1>c. CASE NothingSent /\ OutputRuns(s) /\ s \in Slow
    <2>1. BusHas(s, FALSE)' /\ bus'[1][3] = 0
      BY <1>0, <1>2, <1>3, <1>c, SendFrom DEF NothingSent, OutputRuns
    <2>2. reads'[s] /\ thermo'[s].offAge = 0
      BY <1>3, <1>4, <1>c DEF OutputRuns
    <2>3. IsOff(o)
      BY <1>1, <1>6, <1>c DEF NothingSent
    <2>4. GoesOff(s)' /\ AgeIsKnown(s)'
      BY <1>a, <2>1, <2>2 DEF GoesOff, IsOff, BusHas
    <2> QED BY <1>9, <1>c, <2>3, <2>4
  <1>d. CASE NothingSent /\ OutputRuns(s) /\ s \notin Slow
    <2>1. /\ bus' = <<>> /\ bus = <<>> /\ IsOff(s)' /\ thermo'[s].offAge = 0
          /\ thSince'[s] = 0
      BY <1>2, <1>3, <1>4, <1>d DEF NothingSent, OutputRuns, IsOff
    <2>2. AgeIsKnown(s)'
      BY <1>2, <1>a, <2>1
    <2> QED BY <1>8, <1>d, <2>1, <2>2
  <1>e. CASE s \in Slow /\ (GoesOn(s) \/ GoesOff(s) \/ Flashes(s)) /\ IsOff(o)
    <2>0. /\ Len(bus) \in {1, 2} /\ \A i \in 1..Len(bus) : bus[i][3] \in Nat /\ bus[i][3] <= Lag
          /\ Lag \in Nat
      BY <1>0, <1>e, BusTypes DEF GoesOn, GoesOff, Flashes, BusHas
    <2>1. /\ GoesOff(s) \/ Flashes(s) => bus' = bus
          /\ GoesOn(s) => /\ Len(bus') = 2 /\ bus'[1][1] = s /\ bus'[2][1] = s
                          /\ bus'[1][2] = TRUE /\ bus'[2][2] = FALSE /\ bus'[2][3] = 0
      <3>1. Send(s, FALSE)
        BY <1>3, <1>e
      <3> QED BY <1>0, <3>1, SendFrom DEF GoesOn, GoesOff, BusHas
    <2>2. /\ GoesOn(s) => thermo'[s].offAge = 0
          /\ GoesOff(s) => thermo'[s].offAge <= bus[1][3]
          /\ Flashes(s) => thermo'[s].offAge <= bus[2][3]
      BY <1>2, <1>4, <2>0 DEF GoesOn, GoesOff, Flashes, BusHas
    <2>3. AgeIsKnown(s)'
      <3>1. thSince'[s] \in Nat
        BY <1>2, <1>3, <1>e
      <3>2. thermo'[s].offAge <= Lag
        <4>1. CASE GoesOn(s)
          BY <2>0, <2>2, <4>1
        <4>2. CASE GoesOff(s)
          BY <1>2, <1>4, <2>0, <2>2, <4>2 DEF GoesOff, BusHas
        <4>3. CASE Flashes(s)
          BY <1>2, <1>4, <2>0, <2>2, <4>3 DEF Flashes, BusHas
        <4> QED BY <1>e, <4>1, <4>2, <4>3
      <3>3. thermo'[s].offAge \in Nat
        BY <1>2, <1>4
      <3> QED BY <1>a, <2>0, <3>1, <3>2, <3>3
    <2>4. CASE GoesOff(s)
      <3>1. GoesOff(s)'
        BY <1>3, <1>e, <2>1, <2>2, <2>4 DEF GoesOff, BusHas
      <3> QED BY <1>9, <1>e, <2>3, <3>1
    <2>5. CASE GoesOn(s) \/ Flashes(s)
      <3>1. Rested /\ ~GoesOff(s)
        BY <2>5 DEF GoesOn, GoesOff, Flashes, Rested, BusHas
      <3>2. Rested'
        BY <1>1, <1>3, <1>e, <3>1 DEF Rested
      <3>3. Flashes(s)'
        BY <1>4, <2>0, <2>1, <2>2, <2>5, <3>1, <3>2 DEF Flashes, IsOff, Rested, BusHas
      <3> QED BY <1>9, <1>e, <2>3, <3>3
    <2> QED BY <1>e, <2>4, <2>5
  <1>f. CASE o \in Slow /\ (GoesOn(o) \/ GoesOff(o) \/ Flashes(o)) /\ IsOff(s)
    <2>1. bus' = bus
      BY <1>0, <1>1, <1>3, <1>f, SendFrom DEF GoesOn, GoesOff, Flashes, IsOff, BusHas
    <2>2. thermo'[s].offAge = thermo[s].offAge /\ thSince'[s] = thSince[s] /\ IsOff(s)'
      BY <1>2, <1>3, <1>4, <1>f DEF IsOff
    <2>3. AgeIsKnown(s)'
      BY <1>0, <1>a, <1>f, <2>2 DEF AgesAreKnown, AgeIsKnown
    <2>4. Rested => Rested'
      BY <1>1, <1>3, <2>2 DEF Rested, IsOff
    <2>5. GoesOn(o)' \/ GoesOff(o)' \/ Flashes(o)'
      BY <1>3, <1>5, <1>f, <2>1, <2>4 DEF GoesOn, GoesOff, Flashes, BusHas
    <2>6. BusIsShort'
      BY <1>1, <1>f, <2>2, <2>5 DEF BusIsShort
    <2>7. ~EndsOn(s)' /\ (EndsOn(o)' => EndsOn(o))
      <3>1. ~EndsOn(s)
        BY <1>1, <1>f DEF EndsOn, GoesOn, GoesOff, Flashes, BusHas
      <3>2. /\ EndsOn(s)' => EndsOn(s)
            /\ EndsOn(o)' => EndsOn(o)
        BY <1>3, <1>f, <2>1, <2>2 DEF EndsOn, IsOff, BusHas
      <3> QED BY <3>1, <3>2
    <2> QED BY <1>1, <1>7, <2>3, <2>6, <2>7
  <1>g. \/ NothingSent /\ (IsOff(s) \/ OutputRuns(s))
        \/ s \in Slow /\ (GoesOn(s) \/ GoesOff(s) \/ Flashes(s)) /\ IsOff(o)
        \/ o \in Slow /\ (GoesOn(o) \/ GoesOff(o) \/ Flashes(o)) /\ IsOff(s)
    <2>1. CASE NothingSent
      BY <2>1 DEF NothingSent
    <2>2. ASSUME NEW x \in Slow, GoesOn(x) \/ GoesOff(x) \/ Flashes(x),
                 IsOff(OtherSide(x))
          PROVE  \/ s \in Slow /\ (GoesOn(s) \/ GoesOff(s) \/ Flashes(s)) /\ IsOff(o)
                 \/ o \in Slow /\ (GoesOn(o) \/ GoesOff(o) \/ Flashes(o)) /\ IsOff(s)
      BY <1>1, <2>2, ThermostatAssumption
    <2> QED BY <1>0, <2>1, <2>2 DEF BusIsShort
  <1> QED BY <1>b, <1>c, <1>d, <1>e, <1>f, <1>g
\* A write to switch on
LEMMA StartWrite ==
  ASSUME Lag < MinOff, Steady, ThermoTypeOK', thFailures = 0, thFailures' = 0,
         NEW s \in Outputs, NEW forced \in BOOLEAN, WriteOutput(s, TRUE),
         ~IsOn(OtherSide(s)),
         IF thermo[s].commanded THEN ~reads[s] ELSE WaitFor(s, TRUE, forced) = 0
  PROVE  /\ BusIsShort' /\ AgesAreKnown'
         /\ \A x \in Outputs \ {s} : EndsOn(x)' => EndsOn(x)
         /\ \A x \in Outputs : ~reads[x] /\ reads'[x] => Rested
  <1>0. ThermoTypeOK /\ OneMayBeOn /\ BusIsShort /\ AgesAreKnown
    BY DEF Steady
  <1>1. PICK o \in Outputs : /\ o = OtherSide(s) /\ s = OtherSide(o) /\ o # s
                            /\ \A x \in Outputs : x = s \/ x = o
    BY OutputsDiffer
  <1>2. /\ thermo[s] \in OutputState /\ thSince[s] \in Nat /\ thermo[s].offAge \in Nat
        /\ reads[s] \in BOOLEAN /\ thermo[s].commanded \in BOOLEAN
        /\ thSince[o] \in Nat /\ thermo[o].offAge \in Nat /\ MinOff \in Nat /\ Lag \in Nat
    BY <1>0, StateTypes, ThermostatAssumption
  <1>3. /\ thermo'[s] = Switched(thermo[s], TRUE)
        /\ thermo'[o] = thermo[o] /\ thSince'[o] = thSince[o] /\ reads'[o] = reads[o]
        /\ s \in Slow => Send(s, TRUE) /\ reads'[s] = reads[s] /\ thSince'[s] = thSince[s]
        /\ s \notin Slow => /\ bus' = bus /\ reads'[s]
                            /\ ~reads[s] => thSince'[s] = 0
    BY <1>0, <1>1, WriteTouches
  <1>4. /\ thermo'[s].commanded /\ ~thermo'[s].foreign
        /\ thermo'[s].onAge = IF ~thermo[s].commanded THEN 0 ELSE thermo[s].onAge
    <2>1. /\ Switched(thermo[s], TRUE).commanded /\ ~Switched(thermo[s], TRUE).foreign
          /\ Switched(thermo[s], TRUE).onAge =
               IF ~thermo[s].commanded THEN 0 ELSE thermo[s].onAge
      BY <1>2, SwitchedFields
    <2> QED BY <1>3, <2>1
  <1>5. IsOff(o) /\ IsOff(o)' /\ AgeIsKnown(o)'
    BY <1>0, <1>1, <1>3 DEF IsOn, IsOff, AgesAreKnown, AgeIsKnown
  <1>6. ASSUME GoesOn(s)', s \in Slow, thSince'[s] \in Nat
        PROVE  BusIsShort' /\ AgesAreKnown' /\ ~EndsOn(o)'
    <2>1. AgeIsKnown(s)'
      <3>1. bus'[1][3] <= Lag /\ bus'[1][3] \in Nat /\ thermo'[s].onAge \in Nat
        <4>1. bus' \in Seq(Outputs \X BOOLEAN \X (0..Lag)) /\ thermo'[s] \in OutputState
          BY DEF ThermoTypeOK
        <4>2. Len(bus') = 1
          BY <1>6 DEF GoesOn, BusHas
        <4>3. bus'[1][3] \in Nat /\ bus'[1][3] <= Lag
          BY <4>1, <4>2, ShortBus
        <4>4. thermo'[s].onAge \in Nat
          BY <4>1, ThermostatAssumption DEF OutputState
        <4> QED BY <4>3, <4>4
      <3>2. thermo'[s].onAge <= bus'[1][3] /\ thermo'[s].commanded
        BY <1>6 DEF GoesOn
      <3> QED BY <1>2, <1>6, <3>1, <3>2 DEF AgeIsKnown, IsOff
    <2>2. ~EndsOn(o)'
      <3>1. Len(bus') = 1 /\ bus'[1][1] = s
        BY <1>6 DEF GoesOn, BusHas
      <3> QED BY <1>1, <3>1, EmptyBus DEF EndsOn, BusHas
    <2> QED BY <1>1, <1>5, <1>6, <2>1, <2>2 DEF BusIsShort, AgesAreKnown
  <1>7. CASE thermo[s].commanded
    <2>1. GoesOn(s) /\ s \in Slow
      <3>1. ~NothingSent
        BY <1>7 DEF NothingSent, OutputRuns, IsOff
      <3>2. PICK x \in Slow : (GoesOn(x) \/ GoesOff(x) \/ Flashes(x)) /\ IsOff(OtherSide(x))
        BY <1>0, <3>1 DEF BusIsShort
      <3>3. x = s
        BY <1>1, <1>7, <3>2, ThermostatAssumption DEF IsOff
      <3> QED BY <1>7, <3>2, <3>3 DEF GoesOn, GoesOff, Flashes, IsOff, BusHas
    <2>2. bus' = bus
      BY <1>0, <1>3, <2>1, SendFrom DEF GoesOn, BusHas
    <2>3. Rested'
      BY <1>1, <1>3, <2>1 DEF GoesOn, Rested, BusHas
    <2>4. GoesOn(s)'
      BY <1>4, <1>7, <2>1, <2>2, <2>3 DEF GoesOn, BusHas
    <2>5. \A x \in Outputs : reads'[x] = reads[x]
      BY <1>1, <1>3, <2>1
    <2> QED BY <1>1, <1>2, <1>3, <1>6, <2>1, <2>4, <2>5
  <1>8. CASE ~thermo[s].commanded
    <2>1. thermo[s].offAge >= MinOff /\ thermo[o].offAge >= MinOff
      BY <1>0, <1>1, <1>8, ChangeoverLasts
    <2>2. NothingSent
      <3>1. ASSUME NEW x \in Slow, GoesOn(x) \/ GoesOff(x) \/ Flashes(x) PROVE FALSE
        <4>1. x = s \/ x = o
          BY <1>1, ThermostatAssumption
        <4>2. ~thermo[x].commanded /\ thermo[x].offAge > Lag
          BY <1>2, <1>5, <1>8, <2>1, <4>1 DEF IsOff
        <4>3. \A i \in 1..Len(bus) : bus[i][3] <= Lag /\ bus[i][3] \in Nat
          BY <1>0, BusTypes
        <4>4. thermo[x].offAge \in Nat
          BY <1>2, <4>1
        <4> QED BY <1>2, <3>1, <4>2, <4>3, <4>4 DEF GoesOn, GoesOff, Flashes, BusHas
      <3> QED BY <1>0, <3>1 DEF BusIsShort
    <2>3. IsOff(s)
      BY <1>8, <2>2 DEF NothingSent, OutputRuns
    <2>4. Rested
      <3>1. thSince[s] + Lag >= MinOff /\ thSince[o] + Lag >= MinOff
        BY <1>0, <1>2, <1>5, <2>1, <2>3 DEF AgesAreKnown, AgeIsKnown
      <3> QED BY <1>1, <1>5, <2>3, <3>1 DEF Rested, IsOff
    <2>5. CASE s \in Slow
      <3>1. BusHas(s, TRUE)' /\ bus'[1][3] = 0
        BY <1>0, <1>2, <1>3, <2>2, <2>3, <2>5, SendFrom DEF NothingSent, IsOff
      <3>2. Rested'
        BY <1>1, <1>3, <2>4, <2>5 DEF Rested
      <3>3. GoesOn(s)'
        BY <1>4, <1>8, <3>1, <3>2 DEF GoesOn, BusHas
      <3> QED BY <1>1, <1>2, <1>3, <1>6, <2>4, <2>5, <3>3
    <2>6. CASE s \notin Slow
      <3>1. /\ bus' = <<>> /\ OutputRuns(s)' /\ thSince'[s] = 0 /\ thermo'[s].onAge = 0
        BY <1>3, <1>4, <1>8, <2>2, <2>3, <2>6 DEF NothingSent, OutputRuns, IsOff
      <3>2. NothingSent'
        BY <1>1, <1>5, <3>1 DEF NothingSent
      <3>3. AgeIsKnown(s)'
        BY <1>2, <3>1 DEF AgeIsKnown, OutputRuns, IsOff
      <3>4. ~EndsOn(o)'
        BY <1>5, <3>1 DEF EndsOn, IsOff, BusHas
      <3> QED BY <1>1, <1>5, <2>4, <3>2, <3>3, <3>4 DEF BusIsShort, AgesAreKnown
    <2> QED BY <2>5, <2>6
  <1> QED BY <1>2, <1>7, <1>8
\* What Noticed() does to the ages
LEMMA NoticedFields ==
  ASSUME NEW o \in OutputState, NEW v \in BOOLEAN
  PROVE  /\ o.commanded = v => Noticed(o, v) = o
         /\ ~o.commanded /\ v => Noticed(o, v).onAge = 0
  <1>1. o.commanded = v => Noticed(o, v) = o
    BY DEF Noticed
  <1>2. ASSUME ~o.commanded, v PROVE Noticed(o, v).onAge = 0
    <2> DEFINE fighting == o.backAge <= o.spacing
               seen == [o EXCEPT !.commanded = v, !.foreign = TRUE, !.fighting = fighting,
                                 !.spacing = IF fighting THEN @ ELSE PutBack]
    <2>1. Noticed(o, v) = [seen EXCEPT !.onAge = 0]
      <3>1. o.commanded \in BOOLEAN
        BY DEF OutputState
      <3> QED BY <1>2, <3>1 DEF Noticed
    <2>2. "onAge" \in DOMAIN seen
      <3> HIDE DEF fighting
      <3> QED BY DEF OutputState
    <2> HIDE DEF seen
    <2> QED BY <2>1, <2>2
  <1> QED BY <1>1, <1>2

\* An output that ends on is held on, and nobody else switched it
LEMMA EndsOnIsHeld ==
  ASSUME BusIsShort, NEW s \in Outputs, EndsOn(s)
  PROVE  thermo[s].commanded /\ ~thermo[s].foreign
  <1>1. CASE NothingSent
    BY <1>1 DEF NothingSent, EndsOn, OutputRuns, IsOff, BusHas
  <1>2. ASSUME NEW x \in Slow, GoesOn(x) \/ GoesOff(x) \/ Flashes(x)
        PROVE  thermo[s].commanded /\ ~thermo[s].foreign
    <2>1. CASE GoesOn(x)
      <3>1. x = s
        <4>1. Len(bus) = 1 /\ bus[1][1] = x
          BY <2>1, Zenon DEF GoesOn, BusHas
        <4>2. bus # <<>>
          BY <4>1, EmptyBus
        <4>3. bus[1][1] = s
          BY <4>2, Zenon DEF EndsOn, BusHas
        <4> QED BY <4>1, <4>3, Zenon
      <3> QED BY <2>1, <3>1 DEF GoesOn, BusHas
    <2>2. CASE GoesOff(x) \/ Flashes(x)
      BY <2>2, EmptyBus DEF EndsOn, GoesOff, Flashes, BusHas
    <2> QED BY <1>2, <2>1, <2>2
  <1> QED BY <1>1, <1>2 DEF BusIsShort

\* A forced stop is over, is a write, or waits for something else that switched
\* the output
LEMMA StopEnds ==
  ASSUME ThermoTypeOK, NEW s \in Outputs, SwitchOutput(s, FALSE, TRUE)
  PROVE  \/ WriteOutput(s, FALSE)
         \/ ~thermo[s].commanded \/ thermo[s].foreign
  <1>0. thermo[s].commanded \in BOOLEAN
    BY StateTypes
  <1>1. TrySwitch(s, FALSE, TRUE)
    BY DEF SwitchOutput
  <1>2. LockedFor(s, FALSE, TRUE) = 0
    BY DEF LockedFor
  <1>3. ~thermo[s].foreign => WaitFor(s, FALSE, TRUE) = 0
    BY <1>2 DEF WaitFor, Longest
  <1> DEFINE wait == IF thermo[s].commanded = FALSE THEN 0 ELSE WaitFor(s, FALSE, TRUE)
  <1>4. \/ thermo[s].commanded = FALSE
        \/ wait > 0
        \/ WriteOutput(s, FALSE)
    BY <1>1 DEF TrySwitch
  <1>5. ~thermo[s].foreign => wait = 0
    BY <1>3
  <1>6. wait > 0 => thermo[s].foreign
    <2> HIDE DEF wait
    <2> QED BY <1>5
  <1> QED BY <1>0, <1>4, <1>6

\* An output that is switched off for want of demand has been on for min_on_time
LEMMA StopHasWaited ==
  ASSUME Steady, NEW s \in Outputs, NEW forced \in BOOLEAN,
         thermo[s].commanded, ~forced,
         WaitFor(s, FALSE, forced \/ IsOn(OtherSide(s))) = 0
  PROVE  thSince[s] + Lag >= MinOn
  <1>0. ThermoTypeOK /\ OneMayBeOn /\ AgesAreKnown
    BY DEF Steady
  <1>1. ~IsOn(OtherSide(s))
    BY <1>0 DEF OneMayBeOn, MayBeOn, IsOn, OtherSide, Outputs
  <1>2. /\ thSince[s] \in Nat /\ thermo[s].onAge \in Nat /\ MinOn \in Nat /\ Lag \in Nat
        /\ thermo[s].onAge <= thSince[s] + Lag
    BY <1>0, StateTypes, ThermostatAssumption DEF AgesAreKnown, AgeIsKnown
  <1> DEFINE locked == LockedFor(s, FALSE, forced \/ IsOn(OtherSide(s)))
             apart == IF thermo[s].foreign
                      THEN Remaining(thermo[s].spacing, thermo[s].backAge) ELSE 0
  <1>3. locked = Remaining(MinOn, thermo[s].onAge)
    BY <1>1 DEF LockedFor
  <1>4. locked \in Nat
    <2>1. Remaining(MinOn, thermo[s].onAge) \in Nat
      BY <1>2 DEF Remaining
    <2> QED BY <1>3, <2>1
  <1>5. apart \in Nat
    <2>1. thermo[s].spacing \in Nat /\ thermo[s].backAge \in Nat
      <3>1. BackOld \in Nat /\ PutBackMax \in Nat
        BY ThermostatAssumption DEF BackOld
      <3>2. thermo[s] \in OutputState
        BY <1>0, StateTypes
      <3> QED BY <3>1, <3>2 DEF OutputState
    <2> QED BY <2>1 DEF Remaining
  <1>6. Longest(locked, apart) = 0
    BY DEF WaitFor
  <1> HIDE DEF locked, apart
  <1>7. locked = 0
    BY <1>4, <1>5, <1>6 DEF Longest
  <1> QED BY <1>2, <1>3, <1>7 DEF Remaining

\* switchOutput() on an undisturbed thermostat
LEMMA SwitchIsSteady ==
  ASSUME Lag < MinOff, Steady, ThermoTypeOK', thFailures = 0, thFailures' = 0,
         NEW s \in Outputs, NEW on \in BOOLEAN, NEW forced \in BOOLEAN, on => ~forced,
         SwitchOutput(s, on, forced)
  PROVE  /\ BusIsShort' /\ AgesAreKnown' /\ (forced => ~EndsOn(s)')
         /\ \A x \in Outputs \ {s} : EndsOn(x)' => EndsOn(x)
         /\ \A x \in Outputs : ~reads[x] /\ reads'[x] => Rested
         /\ \A x \in Outputs : thermo[x].commanded /\ ~thermo'[x].commanded =>
              x = s /\ (~forced => thSince[x] + Lag >= MinOn)
  <1>0. ThermoTypeOK /\ OneMayBeOn /\ BusIsShort /\ AgesAreKnown
    BY DEF Steady
  <1>1. CASE \E lockout \in 0..Unarmed : Leave(s, lockout)
    <2>1. PICK lockout \in 0..Unarmed : thermo' = [thermo EXCEPT ![s].lockout = lockout]
      BY <1>1 DEF Leave
    <2>2. bus' = bus /\ reads' = reads /\ thSince' = thSince
      BY <1>1 DEF Leave
    <2>3. ASSUME NEW x \in Outputs
          PROVE  /\ thermo'[x].commanded = thermo[x].commanded
                 /\ thermo'[x].foreign = thermo[x].foreign
                 /\ thermo'[x].onAge = thermo[x].onAge
                 /\ thermo'[x].offAge = thermo[x].offAge
      BY <1>0, <2>1 DEF ThermoTypeOK, OutputState
    <2>4. \A x \in Outputs : /\ EndsOn(x)' <=> EndsOn(x)
                             /\ AgeIsKnown(x)' <=> AgeIsKnown(x)
                             /\ IsOff(x)' <=> IsOff(x) /\ (OutputRuns(x)' <=> OutputRuns(x))
      BY <2>2, <2>3 DEF EndsOn, AgeIsKnown, IsOff, OutputRuns, BusHas
    <2>5. BusIsShort'
      <3>1. CASE NothingSent
        BY <2>2, <2>3, <3>1 DEF NothingSent, BusIsShort, OutputRuns, IsOff
      <3>2. ASSUME NEW x \in Slow, GoesOn(x) \/ GoesOff(x) \/ Flashes(x),
                   IsOff(OtherSide(x))
            PROVE  BusIsShort'
        <4>1. x \in Outputs /\ OtherSide(x) \in Outputs
          BY ThermostatAssumption DEF OtherSide, Outputs
        <4>2. Rested' <=> Rested
          BY <2>2 DEF Rested
        <4>3. GoesOn(x)' \/ GoesOff(x)' \/ Flashes(x)'
          BY <2>2, <2>3, <3>2, <4>1, <4>2 DEF GoesOn, GoesOff, Flashes, IsOff, BusHas
        <4>4. IsOff(OtherSide(x))'
          BY <2>2, <2>3, <3>2, <4>1 DEF IsOff
        <4> QED BY <4>3, <4>4 DEF BusIsShort
      <3> QED BY <1>0, <3>1, <3>2 DEF BusIsShort
    <2>6. forced => ~EndsOn(s)
      <3>1. SUFFICES ASSUME forced, EndsOn(s) PROVE FALSE
        OBVIOUS
      <3>2. thermo[s].commanded /\ ~thermo[s].foreign
        BY <1>0, <3>1, EndsOnIsHeld
      <3>3. on = FALSE /\ forced = TRUE
        BY <3>1
      <3>4. WriteOutput(s, FALSE)
        BY <1>0, <3>2, <3>3, StopEnds
      <3> QED BY <1>1, <3>4 DEF Leave, WriteOutput
    <2> QED BY <1>0, <2>2, <2>3, <2>4, <2>5, <2>6 DEF AgesAreKnown
  <1>2. CASE WriteOutput(s, FALSE)
             /\ (thermo[s].commanded => WaitFor(s, FALSE, forced \/ IsOn(OtherSide(s))) = 0)
    <2>1. \A x \in Outputs \ {s} : thermo'[x] = thermo[x] /\ reads'[x] = reads[x]
      BY <1>0, <1>2, WriteTouches
    <2>2. reads'[s] => reads[s]
      BY <1>0, <1>2, WriteTouches
    <2>3. thermo[s].commanded /\ ~forced => thSince[s] + Lag >= MinOn
      BY <1>2, StopHasWaited
    <2> QED BY <1>2, <2>1, <2>2, <2>3, StopWrite
  <1>3. CASE /\ on /\ ~IsOn(OtherSide(s)) /\ WriteOutput(s, TRUE)
             /\ IF thermo[s].commanded THEN ~reads[s] ELSE WaitFor(s, TRUE, forced) = 0
    <2>1. \A x \in Outputs \ {s} : thermo'[x] = thermo[x]
      BY <1>0, <1>3, WriteTouches
    <2>2. thermo'[s].commanded
      <3>1. thermo[s] \in OutputState /\ thermo'[s] = Switched(thermo[s], TRUE)
        BY <1>0, <1>3, WriteTouches, StateTypes
      <3>2. Switched(thermo[s], TRUE).commanded = TRUE
        BY <3>1, SwitchedFields, Zenon
      <3> QED BY <3>1, <3>2
    <2> QED BY <1>3, <2>1, <2>2, StartWrite
  <1> QED BY <1>0, <1>1, <1>2, <1>3, SwitchEnds

\* The bus delivers to an undisturbed thermostat
LEMMA DeliveryIsSteady ==
  ASSUME Lag < MinOff, Steady, ThermoTypeOK', BusDelivers
  PROVE  /\ BusIsShort' /\ AgesAreKnown'
         /\ \A x \in Outputs : EndsOn(x)' => EndsOn(x)
         /\ \A x \in Outputs : ~reads[x] /\ reads'[x] => Rested
  <1>0. ThermoTypeOK /\ OneMayBeOn /\ BusIsShort /\ AgesAreKnown
    BY DEF Steady
  <1>1. PICK s \in Slow : (GoesOn(s) \/ GoesOff(s) \/ Flashes(s)) /\ IsOff(OtherSide(s))
    BY <1>0 DEF BusIsShort, NothingSent, BusDelivers
  <1>2. PICK o \in Outputs : /\ o = OtherSide(s) /\ s = OtherSide(o) /\ o # s
                            /\ s \in Outputs /\ \A x \in Outputs : x = s \/ x = o
    BY OutputsDiffer, ThermostatAssumption
  <1>3. PICK v \in BOOLEAN :
          /\ bus[1][1] = s /\ bus[1][2] = v /\ Lag \in Nat
          /\ bus[1][3] \in Nat /\ bus[1][3] <= Lag
          /\ GoesOn(s) => v = TRUE /\ Tail(bus) = <<>>
          /\ GoesOff(s) => v = FALSE /\ Tail(bus) = <<>>
          /\ Flashes(s) =>
               /\ v = TRUE /\ Len(Tail(bus)) = 1 /\ Tail(bus)[1] = bus[2]
               /\ bus[2][3] \in Nat /\ bus[2][3] <= Lag
    <2>1. /\ bus[1][2] \in BOOLEAN /\ bus[1][1] = s
          /\ bus[1][3] \in Nat /\ bus[1][3] <= Lag /\ Lag \in Nat
      BY <1>0, <1>1, BusTypes DEF GoesOn, GoesOff, Flashes, BusHas
    <2>2. bus \in Seq(Outputs \X BOOLEAN \X (0..Lag))
      BY <1>0, BusTypes
    <2>3. /\ GoesOn(s) => bus[1][2] = TRUE /\ Tail(bus) = <<>>
          /\ GoesOff(s) => bus[1][2] = FALSE /\ Tail(bus) = <<>>
      BY <2>2, ShortBus DEF GoesOn, GoesOff, BusHas
    <2>4. Flashes(s) =>
            /\ bus[1][2] = TRUE /\ Len(Tail(bus)) = 1 /\ Tail(bus)[1] = bus[2]
            /\ bus[2][3] \in Nat /\ bus[2][3] <= Lag
      BY <2>2, ShortBus DEF Flashes
    <2> QED BY <2>1, <2>3, <2>4, Zenon
  <1>4. Reads(s, v, thermo[s]) /\ bus' = Tail(bus)
    BY <1>3 DEF BusDelivers
  <1>5. /\ thermo[s] \in OutputState /\ reads \in [Outputs -> BOOLEAN]
        /\ thermo \in [Outputs -> OutputState] /\ thSince \in [Outputs -> 0..SinceOld]
    BY <1>0, <1>2 DEF ThermoTypeOK
  <1>6. /\ reads'[s] = v /\ reads'[o] = reads[o]
        /\ thermo'[s] = Noticed(thermo[s], v) /\ thermo'[o] = thermo[o]
        /\ (reads[s] <=> ~v) => thSince'[s] = 0
        /\ thSince'[o] = thSince[o]
    BY <1>2, <1>4, <1>5 DEF Reads
  <1>7. IsOff(o)' /\ AgeIsKnown(o)'
    BY <1>0, <1>1, <1>2, <1>6 DEF IsOff, AgesAreKnown, AgeIsKnown
  <1>8. /\ thermo'[s].commanded = v
        /\ thermo'[s].offAge = IF thermo[s].commanded /\ ~v THEN 0 ELSE thermo[s].offAge
        /\ thermo[s].commanded = v => thermo'[s] = thermo[s]
        /\ ~thermo[s].commanded /\ v => thermo'[s].onAge = 0
    BY <1>5, <1>6, NoticedIsState, NoticedFields
  <1>c. thermo'[s] \in OutputState /\ MinOn \in Nat /\ MinOff \in Nat
    BY <1>2, ThermostatAssumption DEF ThermoTypeOK
  <1>9. CASE GoesOn(s)
    <2>1. v = TRUE /\ bus' = <<>> /\ ~reads[s] /\ thermo[s].commanded = TRUE
      <3>1. thermo[s].commanded \in BOOLEAN
        BY <1>0, <1>2, StateTypes
      <3> QED BY <1>2, <1>3, <1>4, <1>9, <3>1 DEF GoesOn, Rested, BusHas
    <2>2. OutputRuns(s)' /\ thermo'[s].onAge <= bus[1][3] /\ thSince'[s] = 0
      BY <1>6, <1>8, <1>9, <2>1 DEF OutputRuns, GoesOn, BusHas
    <2>3. AgeIsKnown(s)'
      <3>1. thermo'[s].onAge \in Nat
        BY <1>c DEF OutputState
      <3> QED BY <1>3, <2>2, <3>1 DEF OutputRuns, IsOff, AgeIsKnown
    <2>4. NothingSent'
      BY <1>2, <1>7, <2>1, <2>2 DEF NothingSent
    <2>5. EndsOn(s) /\ ~EndsOn(o)'
      BY <1>7, <1>9, <2>1 DEF EndsOn, GoesOn, IsOff, BusHas
    <2> QED BY <1>2, <1>7, <1>9, <2>3, <2>4, <2>5 DEF BusIsShort, AgesAreKnown, GoesOn, BusHas
  <1>a. CASE GoesOff(s)
    <2>1. v = FALSE /\ bus' = <<>> /\ reads[s] /\ thermo[s].offAge <= bus[1][3]
      BY <1>3, <1>4, <1>a DEF GoesOff, BusHas
    <2>2. IsOff(s)' /\ thermo'[s].offAge <= bus[1][3] /\ thSince'[s] = 0
      BY <1>3, <1>6, <1>8, <2>1 DEF IsOff
    <2>3. AgeIsKnown(s)'
      <3>1. thermo'[s].offAge \in Nat
        BY <1>c DEF OutputState
      <3> QED BY <1>3, <2>2, <3>1 DEF IsOff, AgeIsKnown
    <2>4. NothingSent'
      BY <1>2, <1>7, <2>1, <2>2 DEF NothingSent
    <2>5. ~EndsOn(s)' /\ ~EndsOn(o)'
      BY <1>2, <1>7, <2>1, <2>2 DEF EndsOn, IsOff, BusHas
    <2>6. \A x \in Outputs : reads'[x] => reads[x]
      BY <1>2, <1>6, <2>1
    <2> QED BY <1>2, <1>7, <2>3, <2>4, <2>5, <2>6 DEF BusIsShort, AgesAreKnown
  <1>b. CASE Flashes(s)
    <2>1. /\ v = TRUE /\ Len(bus') = 1 /\ bus'[1] = bus[2] /\ ~reads[s]
          /\ ~thermo[s].commanded /\ thermo[s].offAge <= bus[2][3]
      BY <1>3, <1>4, <1>b DEF Flashes, IsOff, BusHas
    <2>2. /\ reads'[s] /\ thermo'[s].offAge <= bus[2][3] /\ thermo'[s].onAge = 0
          /\ thSince'[s] = 0
      BY <1>6, <1>8, <2>1
    <2>3. AgeIsKnown(s)'
      BY <1>3, <2>2 DEF IsOff, AgeIsKnown
    <2>4. GoesOff(s)'
      BY <1>b, <2>1, <2>2 DEF GoesOff, Flashes, BusHas
    <2>5. BusIsShort'
      BY <1>2, <1>7, <2>4 DEF BusIsShort
    <2>6. ~EndsOn(s)' /\ ~EndsOn(o)'
      <3>1. bus'[1][2] = FALSE
        BY <1>b, <2>1 DEF Flashes
      <3>2. bus' # <<>>
        BY <2>1, EmptyBus
      <3>3. ~BusHas(s, TRUE)' /\ ~BusHas(o, TRUE)'
        BY <3>1 DEF BusHas
      <3> QED BY <3>2, <3>3, Zenon DEF EndsOn
    <2> QED BY <1>2, <1>7, <1>b, <2>3, <2>5, <2>6 DEF AgesAreKnown, Flashes, BusHas
  <1> QED BY <1>1, <1>9, <1>a, <1>b
\* The orders of a pass are those of the climate, and a forced stop is among them
LEMMA OrdersOfMatch ==
  /\ \A i \in DOMAIN (OrdersOf(FALSE) \o OrdersOf(TRUE)) :
       OrderMatches((OrdersOf(FALSE) \o OrdersOf(TRUE))[i])
  /\ \A s \in Outputs : Forced(s) =>
       \E i \in DOMAIN (OrdersOf(FALSE) \o OrdersOf(TRUE)) :
         (OrdersOf(FALSE) \o OrdersOf(TRUE))[i] = StopOf(s)
  <1> DEFINE Order(s, on) == [side |-> s, on |-> on, forced |-> Forced(s)]
             Good(q) == \A i \in DOMAIN q : OrderMatches(q[i])
             Has(q, x) == \E i \in DOMAIN q : q[i] = x
  <1>1. ASSUME NEW s \in Outputs PROVE Forced(s) => ~Wanted(s)
    BY DEF Forced, Wanted, Serves, Outputs
  <1>2. ASSUME NEW s \in Outputs, NEW on \in BOOLEAN
        PROVE  /\ OrderFor(s, on) \in Seq(Orders) /\ Good(OrderFor(s, on))
               /\ Forced(s) /\ ~on => Has(OrderFor(s, on), StopOf(s))
    <2>0. Forced(s) \in BOOLEAN
      BY DEF Forced
    <2>1. Order(s, on) \in Orders
      BY <2>0 DEF Orders
    <2>2. CASE Wanted(s) = on
      <3>1. OrderFor(s, on) = <<Order(s, on)>>
        BY <2>2, Zenon DEF OrderFor
      <3>2. OrderMatches(Order(s, on))
        BY <1>1, <2>2 DEF OrderMatches
      <3>3. Forced(s) /\ ~on => Order(s, on) = StopOf(s)
        <4>1. SUFFICES ASSUME Forced(s), ~on PROVE Order(s, on) = StopOf(s)
          OBVIOUS
        <4>2. on = FALSE
          BY <4>1
        <4> QED BY <2>0, <4>1, <4>2 DEF StopOf
      <3> HIDE DEF Order
      <3>4. \A x \in Orders : /\ <<x>> \in Seq(Orders) /\ DOMAIN <<x>> = {1} /\ <<x>>[1] = x
        OBVIOUS
      <3> QED BY <2>1, <3>1, <3>2, <3>3, <3>4
    <2>3. CASE Wanted(s) # on
      <3>1. OrderFor(s, on) = <<>>
        BY <2>3, Zenon DEF OrderFor
      <3>2. ~(Forced(s) /\ ~on)
        <4>1. SUFFICES ASSUME Forced(s), ~on PROVE FALSE
          OBVIOUS
        <4>2. on = FALSE /\ ~Wanted(s)
          BY <1>1, <4>1
        <4>3. Wanted(s) = FALSE
          BY <4>2 DEF Wanted
        <4> QED BY <2>3, <4>2, <4>3
      <3> QED BY <3>1, <3>2
    <2> QED BY <2>2, <2>3
  <1>3. ASSUME NEW a \in Seq(Orders), NEW b \in Seq(Orders)
        PROVE  /\ a \o b \in Seq(Orders)
               /\ Good(a) /\ Good(b) => Good(a \o b)
               /\ \A x \in Orders : Has(a, x) \/ Has(b, x) => Has(a \o b, x)
    <2>1. /\ a \o b \in Seq(Orders)
          /\ DOMAIN (a \o b) = 1..(Len(a) + Len(b))
          /\ DOMAIN a = 1..Len(a) /\ DOMAIN b = 1..Len(b)
          /\ Len(a) \in Nat /\ Len(b) \in Nat
      OBVIOUS
    <2>2. \A i \in 1..(Len(a) + Len(b)) : (a \o b)[i] =
            IF i <= Len(a) THEN a[i] ELSE b[i - Len(a)]
      BY ConcatProperties
    <2>3. \A i \in 1..Len(a) : (a \o b)[i] = a[i] /\ i \in DOMAIN (a \o b)
      BY <2>1, <2>2
    <2>4. \A i \in 1..Len(b) : (a \o b)[Len(a) + i] = b[i] /\ Len(a) + i \in DOMAIN (a \o b)
      BY <2>1, <2>2
    <2>5. \A i \in DOMAIN (a \o b) : \/ i \in DOMAIN a /\ (a \o b)[i] = a[i]
                                     \/ i - Len(a) \in DOMAIN b /\ (a \o b)[i] = b[i - Len(a)]
      BY <2>1, <2>2
    <2> QED BY <2>1, <2>3, <2>4, <2>5
  <1>4. ASSUME NEW on \in BOOLEAN
        PROVE  /\ OrdersOf(on) \in Seq(Orders) /\ Good(OrdersOf(on))
               /\ \A s \in Outputs : Forced(s) /\ ~on => Has(OrdersOf(on), StopOf(s))
    <2>1. \A s \in Outputs : StopOf(s) \in Orders
      BY DEF StopOf, Orders
    <2>2. "heat" \in Outputs /\ "cool" \in Outputs /\ \A s \in Outputs : s = "heat" \/ s = "cool"
      BY DEF Outputs
    <2> HIDE DEF Good, Has
    <2> QED BY <1>2, <1>3, <2>1, <2>2 DEF OrdersOf
  <1>5. \A s \in Outputs : StopOf(s) \in Orders
    BY DEF StopOf, Orders
  <1>6. /\ OrdersOf(FALSE) \in Seq(Orders) /\ Good(OrdersOf(FALSE))
        /\ \A s \in Outputs : Forced(s) => Has(OrdersOf(FALSE), StopOf(s))
        /\ OrdersOf(TRUE) \in Seq(Orders) /\ Good(OrdersOf(TRUE))
    <2> HIDE DEF Good, Has
    <2> QED BY <1>4
  <1>7. /\ Good(OrdersOf(FALSE) \o OrdersOf(TRUE))
        /\ \A s \in Outputs : Forced(s) => Has(OrdersOf(FALSE) \o OrdersOf(TRUE), StopOf(s))
    <2> HIDE DEF Good, Has
    <2> QED BY <1>3, <1>5, <1>6
  <1> QED BY <1>7, Zenon

\* Every step of an undisturbed thermostat is steady, and does what LockOutsKept
\* says of it
LEMMA StepIsSteady ==
  ASSUME Lag < MinOff, SteadyInv, [ThermoNext]_thVars, Undisturbed'
  PROVE  /\ Undisturbed /\ Steady /\ OrdersMatch
         /\ BusIsShort' /\ AgesAreKnown' /\ OrdersMatch'
         /\ \A s \in Outputs :
              /\ ~reads[s] /\ reads'[s] => Rested
              /\ pass # pass' /\ thermo[s].commanded /\ ~thermo'[s].commanded /\ ~Forced(s)
                   => thSince[s] + Lag >= MinOn
  <1>0. ThermoTypeOK /\ BothInv /\ ThermoTypeOK' /\ thMeddles' = 0 /\ thFailures' = 0
    BY StepTypes DEF SteadyInv, BothInv, Undisturbed
  <1>1. /\ thMeddles = 0 /\ thFailures = 0 /\ ~\E s \in Outputs : Meddle(s)
    <2>1. ASSUME NEW s \in Outputs, Meddle(s) PROVE FALSE
      BY <1>0, <2>1 DEF Meddle, ThermoTypeOK
    <2>2. thMeddles \in Nat /\ thFailures \in Nat
      BY <1>0, ThermostatAssumption DEF ThermoTypeOK
    <2>3. ASSUME SwitchNext PROVE thMeddles = 0 /\ thFailures = 0
      <3>1. PICK s \in Outputs, on \in BOOLEAN, forced \in BOOLEAN :
              SwitchOutput(s, on, forced)
        BY <1>0, <2>3, NextOrder
      <3>2. \/ \E lockout \in 0..Unarmed : Leave(s, lockout)
            \/ \E v \in BOOLEAN : WriteOutput(s, v)
        BY <1>0, <3>1, SwitchEnds
      <3>3. thFailures' = thFailures
        <4>1. ASSUME NEW v \in BOOLEAN, WriteOutput(s, v) PROVE thFailures' = thFailures
          BY <1>0, <2>2, <4>1 DEF WriteOutput
        <4> QED BY <3>2, <4>1 DEF Leave
      <3> QED BY <1>0, <2>3, <3>3 DEF SwitchNext
    <2> QED
      BY <1>0, <2>1, <2>3
      DEF ThermoNext, ThermoLoop, Regulate, BusDelivers, EvaluateSoon,
          LockoutOver, ThermoTick, ClimateChanges, thVars
  <1>2. Undisturbed /\ Steady /\ OrdersMatch
    BY <1>0, <1>1 DEF SteadyInv, BothInv, Undisturbed, Steady
  <1>a. ThermoTypeOK /\ OneMayBeOn /\ BusIsShort /\ AgesAreKnown
    BY <1>2 DEF Steady
  <1>b. ASSUME bus' = bus, reads' = reads, thSince' = thSince,
               \A s \in Outputs : /\ thermo'[s].commanded = thermo[s].commanded
                                  /\ thermo'[s].foreign = thermo[s].foreign
                                  /\ thermo'[s].onAge = thermo[s].onAge
                                  /\ thermo'[s].offAge = thermo[s].offAge
        PROVE  BusIsShort' /\ AgesAreKnown'
    <2>1. \A x \in Outputs : /\ AgeIsKnown(x)' <=> AgeIsKnown(x)
                             /\ IsOff(x)' <=> IsOff(x) /\ (OutputRuns(x)' <=> OutputRuns(x))
      BY <1>b DEF AgeIsKnown, IsOff, OutputRuns
    <2>2. CASE NothingSent
      BY <1>a, <1>b, <2>1, <2>2 DEF NothingSent, BusIsShort, AgesAreKnown, OutputRuns, IsOff
    <2>3. ASSUME NEW x \in Slow, GoesOn(x) \/ GoesOff(x) \/ Flashes(x), IsOff(OtherSide(x))
          PROVE  BusIsShort'
      <3>1. x \in Outputs /\ OtherSide(x) \in Outputs
        BY ThermostatAssumption DEF OtherSide, Outputs
      <3>2. Rested' <=> Rested
        BY <1>b DEF Rested
      <3>3. GoesOn(x)' \/ GoesOff(x)' \/ Flashes(x)'
        BY <1>b, <2>3, <3>1, <3>2 DEF GoesOn, GoesOff, Flashes, IsOff, BusHas
      <3>4. IsOff(OtherSide(x))'
        BY <1>b, <2>3, <3>1 DEF IsOff
      <3> QED BY <3>3, <3>4 DEF BusIsShort
    <2>4. AgesAreKnown'
      BY <1>a, <1>b DEF AgesAreKnown, AgeIsKnown, IsOff
    <2> QED BY <1>a, <2>2, <2>3, <2>4 DEF BusIsShort
  <1>3. CASE SwitchNext
    <2>1. /\ pass[1].side \in Outputs /\ pass[1].on \in BOOLEAN /\ pass[1].forced \in BOOLEAN
          /\ SwitchOutput(pass[1].side, pass[1].on, pass[1].forced)
      BY <1>0, <1>3, NextOrder
    <2>2. PICK s \in Outputs, on \in BOOLEAN, forced \in BOOLEAN :
            s = pass[1].side /\ on = pass[1].on /\ forced = pass[1].forced
      BY <2>1
    <2>3. /\ pass \in Seq(Orders) /\ pass # <<>> /\ pass' = Tail(pass) /\ ~thDue /\ ~thDue'
          /\ climate' = climate
      BY <1>0, <1>3 DEF SwitchNext, ThermoTypeOK
    <2>4. /\ 1 \in DOMAIN pass
          /\ \A i \in DOMAIN pass' : i + 1 \in DOMAIN pass /\ pass'[i] = pass[i + 1]
          /\ \A i \in DOMAIN pass : i = 1 \/ (i - 1 \in DOMAIN pass' /\ pass'[i - 1] = pass[i])
      BY <2>3
    <2>5. /\ \A i \in DOMAIN pass : OrderMatches(pass[i])
          /\ \A x \in Outputs : Forced(x) =>
                 (\E i \in DOMAIN pass : pass[i] = StopOf(x)) \/ ~EndsOn(x)
      BY <1>2, <2>3 DEF OrdersMatch
    <2>6. forced = Forced(s) /\ (on => ~forced)
      BY <2>2, <2>4, <2>5, Zenon DEF OrderMatches
    <2>7. /\ BusIsShort' /\ AgesAreKnown' /\ (forced => ~EndsOn(s)')
          /\ \A x \in Outputs \ {s} : EndsOn(x)' => EndsOn(x)
          /\ \A x \in Outputs : ~reads[x] /\ reads'[x] => Rested
          /\ \A x \in Outputs : thermo[x].commanded /\ ~thermo'[x].commanded =>
               x = s /\ (~forced => thSince[x] + Lag >= MinOn)
      BY <1>0, <1>1, <1>2, <2>1, <2>2, <2>6, SwitchIsSteady
    <2>8. \A x \in Outputs : Forced(x)' <=> Forced(x)
      BY <2>3 DEF Forced
    <2>9. (\A i \in DOMAIN pass : OrderMatches(pass[i]))'
      BY <2>3, <2>4, <2>5 DEF OrderMatches, Forced
    <2>a. ASSUME NEW x \in Outputs, Forced(x)
          PROVE  (\E i \in DOMAIN pass' : pass'[i] = StopOf(x)) \/ ~EndsOn(x)'
      <3>1. CASE x = s
        BY <2>6, <2>7, <2>a, <3>1
      <3>2. CASE x # s
        <4>1. ASSUME NEW i \in DOMAIN pass, pass[i] = StopOf(x) PROVE i # 1
          BY <2>2, <3>2, <4>1 DEF StopOf
        <4>2. CASE ~EndsOn(x)
          BY <2>7, <3>2, <4>2
        <4>3. CASE \E i \in DOMAIN pass : pass[i] = StopOf(x)
          BY <2>4, <4>1, <4>3
        <4> QED BY <2>5, <2>a, <4>2, <4>3
      <3> QED BY <3>1, <3>2
    <2>b. OrdersMatch'
      BY <2>8, <2>9, <2>a DEF OrdersMatch, StopOf
    <2> QED BY <1>2, <2>6, <2>7, <2>b
  <1>4. CASE BusDelivers
    <2>1. /\ BusIsShort' /\ AgesAreKnown'
          /\ \A x \in Outputs : EndsOn(x)' => EndsOn(x)
          /\ \A x \in Outputs : ~reads[x] /\ reads'[x] => Rested
      BY <1>0, <1>2, <1>4, DeliveryIsSteady
    <2>2. pass = <<>> /\ pass' = <<>> /\ ~thDue /\ climate' = climate
      BY <1>4 DEF BusDelivers, Idle
    <2>3. \A x \in Outputs : Forced(x) => ~EndsOn(x)
      BY <1>2, <2>2 DEF OrdersMatch
    <2>4. \A x \in Outputs : Forced(x)' => ~EndsOn(x)'
      BY <2>1, <2>2, <2>3 DEF Forced
    <2>5. OrdersMatch'
      BY <2>2, <2>4 DEF OrdersMatch
    <2> QED BY <1>2, <2>1, <2>2, <2>5
  <1>5. CASE Regulate
    <2>1. /\ bus' = bus /\ reads' = reads /\ thSince' = thSince /\ thermo' = thermo
          /\ climate' = climate /\ pass' = OrdersOf(FALSE) \o OrdersOf(TRUE)
      BY <1>5 DEF Regulate
    <2>2. (\A i \in DOMAIN pass : OrderMatches(pass[i]))'
      BY <2>1, OrdersOfMatch DEF OrderMatches, Forced
    <2>3. \A s \in Outputs : Forced(s)' => \E i \in DOMAIN pass' : pass'[i] = StopOf(s)
      BY <2>1, OrdersOfMatch DEF Forced
    <2>4. OrdersMatch'
      BY <2>2, <2>3 DEF OrdersMatch, StopOf
    <2> QED BY <1>2, <1>b, <2>1, <2>4
  <1>6. CASE ThermoTick
    <2>0. /\ bus \in Seq(Outputs \X BOOLEAN \X (0..Lag)) /\ Lag \in Nat
          /\ \A i \in 1..Len(bus) : bus[i][3] \in Nat
      BY <1>0, BusTypes
    <2>1. /\ Len(bus') = Len(bus) /\ reads' = reads /\ thDue' /\ pass' = pass
          /\ bus = <<>> => bus' = <<>>
          /\ \A i \in 1..Len(bus) : /\ bus'[i][1] = bus[i][1] /\ bus'[i][2] = bus[i][2]
                                    /\ bus'[i][3] = bus[i][3] + 1
      <3>1. /\ bus' = [i \in DOMAIN bus |-> <<bus[i][1], bus[i][2], bus[i][3] + 1>>]
            /\ reads' = reads /\ thDue' /\ pass' = pass
        BY <1>6 DEF ThermoTick
      <3>2. DOMAIN bus = 1..Len(bus) /\ Len(bus) \in Nat
        BY <2>0
      <3>3. DOMAIN bus' = 1..Len(bus') /\ Len(bus') \in Nat
        BY <1>0 DEF ThermoTypeOK
      <3>4. 1..Len(bus') = 1..Len(bus)
        BY <3>1, <3>2, <3>3
      <3>5. Len(bus') = Len(bus)
        <4>1. ASSUME NEW a \in Nat, NEW b \in Nat, 1..a = 1..b PROVE a = b
          <5>1. (a > 0 => a \in 1..a) /\ (b > 0 => b \in 1..b)
            OBVIOUS
          <5>2. (a > 0 => a \in 1..b) /\ (b > 0 => b \in 1..a)
            BY <4>1, <5>1
          <5> QED BY <5>2
        <4> QED BY <3>2, <3>3, <3>4, <4>1, Zenon
      <3>6. bus = <<>> => bus' = <<>>
        BY <3>1
      <3>7. \A i \in 1..Len(bus) : /\ bus'[i][1] = bus[i][1] /\ bus'[i][2] = bus[i][2]
                                  /\ bus'[i][3] = bus[i][3] + 1
        BY <3>1, <3>2
      <3> QED BY <3>1, <3>5, <3>6, <3>7
    <2>2. ASSUME NEW s \in Outputs
          PROVE  /\ thermo'[s].commanded = thermo[s].commanded
                 /\ thermo'[s].foreign = thermo[s].foreign
                 /\ thermo'[s].onAge = Aged(thermo[s].onAge, MinOn)
                 /\ thermo'[s].offAge = Aged(thermo[s].offAge, MinOff)
                 /\ thSince'[s] = Aged(thSince[s], SinceOld)
      <3>1. thermo[s] \in OutputState
        BY <1>0 DEF ThermoTypeOK
      <3>2. thermo'[s] =
              [thermo[s] EXCEPT !.onAge = Aged(@, MinOn), !.offAge = Aged(@, MinOff),
                 !.backAge = Aged(@, BackOld),
                 !.lockout = IF @ = Unarmed THEN Unarmed ELSE @ - 1]
        BY <1>6 DEF ThermoTick
      <3> QED BY <1>6, <3>1, <3>2 DEF OutputState, ThermoTick
    <2>3. ASSUME NEW s \in Outputs PROVE AgeIsKnown(s)'
      <3>1. /\ MinOn \in Nat /\ MinOff \in Nat /\ SinceOld \in Nat
            /\ MinOn <= SinceOld /\ MinOff <= SinceOld
        BY ThermostatAssumption DEF SinceOld, Longest
      <3>2. /\ thermo[s].onAge \in Nat /\ thermo[s].offAge \in Nat /\ thSince[s] \in Nat
            /\ thermo[s].onAge <= MinOn /\ thermo[s].offAge <= MinOff
        BY <1>0, StateTypes
      <3>3. /\ IsOff(s)' => thermo[s].offAge <= thSince[s] + Lag
            /\ thermo'[s].commanded => thermo[s].onAge <= thSince[s] + Lag
        BY <1>a, <2>1, <2>2 DEF AgesAreKnown, AgeIsKnown, IsOff
      <3>4. ASSUME NEW a \in Nat, NEW m \in Nat, a <= thSince[s] + Lag, m <= SinceOld, a <= m
            PROVE  Aged(a, m) <= Aged(thSince[s], SinceOld) + Lag
        BY <2>0, <3>1, <3>2, <3>4 DEF Aged
      <3>5. /\ thermo[s].offAge <= thSince[s] + Lag => thermo'[s].offAge <= thSince'[s] + Lag
            /\ thermo[s].onAge <= thSince[s] + Lag => thermo'[s].onAge <= thSince'[s] + Lag
        BY <2>2, <3>1, <3>2, <3>4
      <3> QED BY <3>3, <3>5 DEF AgeIsKnown
    <2>4. ASSUME NothingSent PROVE BusIsShort'
      BY <2>1, <2>2, <2>4 DEF NothingSent, OutputRuns, IsOff, BusIsShort
    <2>5. ASSUME NEW x \in Slow, GoesOn(x) \/ GoesOff(x) \/ Flashes(x), IsOff(OtherSide(x))
          PROVE  BusIsShort'
      <3>0. /\ x \in Outputs /\ OtherSide(x) \in Outputs
            /\ MinOn \in Nat /\ MinOff \in Nat /\ SinceOld \in Nat /\ MinOff <= SinceOld
        BY ThermostatAssumption DEF OtherSide, Outputs, SinceOld, Longest
      <3>1. ASSUME NEW y \in Outputs
            PROVE  /\ thermo[y].onAge \in Nat /\ thermo[y].offAge \in Nat /\ thSince[y] \in Nat
                   /\ thermo'[y].onAge <= thermo[y].onAge + 1
                   /\ thermo'[y].offAge <= thermo[y].offAge + 1
                   /\ thermo'[y].onAge \in Nat /\ thermo'[y].offAge \in Nat
                   /\ thSince[y] + Lag >= MinOff => thSince'[y] + Lag >= MinOff
        <4>1. /\ thermo[y].onAge \in Nat /\ thermo[y].offAge \in Nat /\ thSince[y] \in Nat
              /\ thermo[y].onAge <= MinOn /\ thermo[y].offAge <= MinOff
          BY <1>0, StateTypes
        <4>2. /\ thermo'[y].onAge = Aged(thermo[y].onAge, MinOn)
              /\ thermo'[y].offAge = Aged(thermo[y].offAge, MinOff)
              /\ thSince'[y] = Aged(thSince[y], SinceOld)
          BY <2>2
        <4>3. Lag \in Nat
          BY <2>0
        <4> QED BY <3>0, <4>1, <4>2, <4>3 DEF Aged
      <3>2. Rested => Rested'
        BY <2>1, <3>1 DEF Rested
      <3>a. /\ Len(bus) \in Nat
            /\ Len(bus) >= 1 => /\ bus'[1][1] = bus[1][1] /\ bus'[1][2] = bus[1][2]
                                /\ bus'[1][3] = bus[1][3] + 1 /\ bus[1][3] \in Nat
            /\ Len(bus) >= 2 => /\ bus'[2][1] = bus[2][1] /\ bus'[2][2] = bus[2][2]
                                /\ bus'[2][3] = bus[2][3] + 1 /\ bus[2][3] \in Nat
        <4>1. Len(bus) \in Nat
          BY <2>0
        <4> QED BY <2>0, <2>1, <4>1
      <3>b. /\ thermo[x].onAge \in Nat /\ thermo[x].offAge \in Nat
            /\ thermo'[x].onAge \in Nat /\ thermo'[x].offAge \in Nat
            /\ thermo'[x].onAge <= thermo[x].onAge + 1
            /\ thermo'[x].offAge <= thermo[x].offAge + 1
            /\ thermo'[x].commanded = thermo[x].commanded
            /\ thermo'[x].foreign = thermo[x].foreign
            /\ reads'[x] = reads[x] /\ Len(bus') = Len(bus)
        BY <2>1, <2>2, <3>0, <3>1
      <3>3. GoesOn(x) => GoesOn(x)'
        BY <3>2, <3>a, <3>b DEF GoesOn, BusHas
      <3>4. GoesOff(x) => GoesOff(x)'
        BY <3>a, <3>b DEF GoesOff, BusHas
      <3>5. Flashes(x) => Flashes(x)'
        BY <3>2, <3>a, <3>b DEF Flashes, IsOff
      <3>6. IsOff(OtherSide(x))'
        BY <2>1, <2>2, <2>5, <3>0 DEF IsOff
      <3> QED BY <2>5, <3>3, <3>4, <3>5, <3>6 DEF BusIsShort
    <2>6. BusIsShort'
      BY <1>a, <2>4, <2>5 DEF BusIsShort
    <2> QED BY <1>2, <2>1, <2>3, <2>6 DEF AgesAreKnown, OrdersMatch
  <1>7. ASSUME NEW s \in Outputs, LockoutOver(s)
        PROVE  /\ BusIsShort' /\ AgesAreKnown' /\ thDue' /\ reads' = reads /\ pass' = pass
    <2>1. \A x \in Outputs : /\ thermo'[x].commanded = thermo[x].commanded
                             /\ thermo'[x].foreign = thermo[x].foreign
                             /\ thermo'[x].onAge = thermo[x].onAge
                             /\ thermo'[x].offAge = thermo[x].offAge
      BY <1>0, <1>7 DEF LockoutOver, ThermoTypeOK, OutputState
    <2> QED BY <1>7, <1>b, <2>1 DEF LockoutOver
  <1>8. CASE EvaluateSoon \/ ClimateChanges
    <2>1. /\ bus' = bus /\ reads' = reads /\ thSince' = thSince /\ thermo' = thermo
          /\ thDue' /\ pass' = pass
      BY <1>8 DEF EvaluateSoon, ClimateChanges
    <2> QED BY <1>2, <1>b, <2>1 DEF OrdersMatch
  <1>9. CASE UNCHANGED thVars
    <2>1. /\ bus' = bus /\ reads' = reads /\ thSince' = thSince /\ thermo' = thermo
          /\ thDue' = thDue /\ pass' = pass /\ climate' = climate
      BY <1>9 DEF thVars
    <2>2. OrdersMatch'
      BY <1>2, <2>1 DEF OrdersMatch, OrderMatches, Forced, EndsOn, StopOf, BusHas
    <2> QED BY <1>2, <1>b, <2>1, <2>2
  <1>c. CASE \E s \in Outputs : LockoutOver(s)
    BY <1>2, <1>7, <1>c DEF OrdersMatch
  <1> QED
    BY <1>1, <1>3, <1>4, <1>5, <1>6, <1>8, <1>9, <1>c DEF ThermoNext, ThermoLoop

\* If a write is read back in less than min_off_time, and nothing disturbs the
\* thermostat: an output goes on when both have been off for min_off_time, one
\* that is told to go off for want of demand has been on for min_on_time, both
\* less the time a write takes to be read back, and one that must stop is off
\* when the pass is over and its writes are read back.
THEOREM LockOutsAreKept ==
  ASSUME Lag < MinOff
  PROVE  ThermoSpec => LockOutsKept
  <1>1. ThermoInit => SteadyInv
    <2> SUFFICES ASSUME ThermoInit PROVE BothInv /\ BusIsShort /\ AgesAreKnown /\ OrdersMatch
      BY DEF SteadyInv
    <2>1. ThermoTypeOK
      BY InitTypes
    <2>2. /\ bus = <<>> /\ ~(reads["heat"] /\ reads["cool"]) /\ thDue
      BY DEF ThermoInit
    <2>3. ASSUME NEW s \in Outputs
          PROVE  /\ thermo[s].commanded = reads[s] /\ ~thermo[s].foreign
                 /\ thermo[s].onAge = MinOn /\ thermo[s].offAge = 0
                 /\ thSince[s] = IF reads[s] THEN SinceOld ELSE 0
      BY DEF ThermoInit
    <2>4. BothInv
      <3>1. \A s \in Outputs : Coming(s) = {}
        BY <2>2 DEF Coming
      <3> QED BY <2>1, <2>2, <2>3, <3>1
              DEF BothInv, OneMayBeOn, MayBeOn, WritesAreHeld, HeldOn, Outputs
    <2>5. NothingSent
      BY <2>1, <2>2, <2>3 DEF NothingSent, OutputRuns, IsOff, ThermoTypeOK
    <2>6. AgesAreKnown
      <3>1. MinOn \in Nat /\ MinOn <= SinceOld /\ SinceOld \in Nat /\ Lag \in Nat
        BY ThermostatAssumption DEF SinceOld, Longest
      <3> QED BY <2>1, <2>3, <3>1 DEF AgesAreKnown, AgeIsKnown, IsOff, ThermoTypeOK
    <2> QED BY <2>2, <2>4, <2>5, <2>6 DEF BusIsShort, OrdersMatch
  <1>2. SteadyInv /\ [ThermoNext]_thVars => SteadyInv'
    <2> SUFFICES ASSUME SteadyInv, [ThermoNext]_thVars PROVE SteadyInv'
      OBVIOUS
    <2>1. BothInv'
      BY StepBoth DEF SteadyInv
    <2> QED BY <2>1, StepIsSteady DEF SteadyInv
  <1> DEFINE Kept ==
        Undisturbed' => \A s \in Outputs :
          /\ Idle /\ bus = <<>> /\ Forced(s) => ~reads[s]
          /\ ~reads[s] /\ reads'[s] => \A o \in Outputs : ~reads[o] /\ thSince[o] + Lag >= MinOff
          /\ pass # pass' /\ thermo[s].commanded /\ ~thermo'[s].commanded /\ ~Forced(s)
               => thSince[s] + Lag >= MinOn
  <1>3. SteadyInv /\ [ThermoNext]_thVars => [Kept]_thVars
    <2> SUFFICES ASSUME SteadyInv, [ThermoNext]_thVars, Undisturbed', NEW s \in Outputs
                 PROVE  /\ Idle /\ bus = <<>> /\ Forced(s) => ~reads[s]
                        /\ ~reads[s] /\ reads'[s] =>
                             \A o \in Outputs : ~reads[o] /\ thSince[o] + Lag >= MinOff
                        /\ pass # pass' /\ thermo[s].commanded /\ ~thermo'[s].commanded
                           /\ ~Forced(s) => thSince[s] + Lag >= MinOn
      OBVIOUS
    <2>1. /\ OrdersMatch
          /\ ~reads[s] /\ reads'[s] => Rested
          /\ pass # pass' /\ thermo[s].commanded /\ ~thermo'[s].commanded /\ ~Forced(s)
               => thSince[s] + Lag >= MinOn
      BY StepIsSteady
    <2>2. ASSUME Idle, bus = <<>>, Forced(s) PROVE ~reads[s]
      BY <2>1, <2>2 DEF OrdersMatch, Idle, EndsOn, BusHas
    <2> QED BY <2>1, <2>2 DEF Rested
  <1> QED BY <1>1, <1>2, <1>3, PTL DEF ThermoSpec, LockOutsKept
=============================================================================
