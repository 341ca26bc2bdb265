----------------------------- MODULE MCDevices -----------------------------
(***************************************************************************)
(* What keeps timers of its own in a house: a held shutter, a smart        *)
(* shutter, a light with a rule that may answer it, a dimmer, a thermostat *)
(* that heats and cools, a scenario, a push button.                        *)
(* They share no state, so one instance follows one of them, "part".       *)
(***************************************************************************)
EXTENDS Shutter, SmartShutter, Light, Dimmer, Thermostat, Scenario, Buttons

CONSTANT Parts   \* the devices that are followed

ShortNudge == {1}
Places == {3, -1}
Distances == {2, -1}
Patterns == {<<1>>, <<1, 2, LoopToken, 1, 1>>, <<1, 1, OldToken>>}
HouseRules ==
  [on : {TRUE}, do : {"nothing", "false"}, tokens : {<<1>>}] \cup
  [on : {FALSE}, do : {"true"}, tokens : {<<1>>}]
Weather(mode, heat, cool, coolSafe) ==
  [mode |-> mode, need |-> [heat |-> heat, cool |-> cool],
   safe |-> [heat |-> TRUE, cool |-> coolSafe]]
Seasons ==
  {Weather("heat", "more", "less", TRUE), Weather("auto", "hold", "more", TRUE),
   Weather("cool", "less", "more", FALSE)}

ScenarioOf(steps, final, cycle) == [steps |-> steps, final |-> final, cycle |-> cycle]
Step(pause, uses) == [pause |-> pause, uses |-> uses]
SmallScenarios ==
  {ScenarioOf(<<Step(2, FALSE), Step(0, TRUE)>>, FALSE, FALSE),
   ScenarioOf(<<Step(0, TRUE)>>, FALSE, TRUE),
   ScenarioOf(<<>>, FALSE, FALSE),
   ScenarioOf(<<Step(0, FALSE), Step(0, FALSE)>>, TRUE, TRUE)}

VARIABLE part

deviceVars == <<vars, smVars, lgVars, dmVars, thVars, scVars, btVars,
                part>>

DevicesTypeOK ==
  /\ part \in Parts /\ TypeOK /\ SmartTypeOK /\ LightTypeOK /\ DimTypeOK
  /\ ThermoTypeOK /\ ScenarioTypeOK /\ ButtonTypeOK

DevicesInit ==
  /\ part \in Parts
  /\ Init /\ SmartInit /\ LightInit /\ DimInit /\ ThermoInit
  /\ ScenarioInit /\ ButtonInit
  /\ part = "light" \/ reaction.do = "nothing"
  /\ part = "thermostat" \/ (reads["heat"] /\ climate = Weather("heat", "more", "less", TRUE))
  /\ part = "scenario" \/ (~sc.scheduled /\ scDef = ScenarioOf(<<>>, FALSE, FALSE))

\* Every device but one stands still
Alone(device) ==
  /\ part = device /\ UNCHANGED part
  /\ device # "shutter" => UNCHANGED vars
  /\ device # "smart" => UNCHANGED smVars
  /\ device # "light" => UNCHANGED lgVars
  /\ device # "dimmer" => UNCHANGED dmVars
  /\ device # "thermostat" => UNCHANGED thVars
  /\ device # "scenario" => UNCHANGED scVars
  /\ device # "button" => UNCHANGED btVars

DevicesNext ==
  \/ Alone("shutter") /\ Next
  \/ Alone("smart") /\ SmartNext
  \/ Alone("light") /\ LightNext
  \/ Alone("dimmer") /\ DimNext
  \/ Alone("thermostat") /\ ThermoNext
  \/ Alone("scenario") /\ ScenarioNext
  \/ Alone("button") /\ ButtonNext

DevicesSpec == DevicesInit /\ [][DevicesNext]_deviceVars

\* The event loop runs the timers that are due
DevicesCallback ==
  \/ Alone("shutter") /\ Callback
  \/ Alone("smart") /\ SmartCallback
  \/ Alone("light") /\ LightCallback
  \/ Alone("dimmer") /\ DimCallback
  \/ Alone("thermostat") /\ ThermoLoop
  \/ Alone("scenario") /\ ScenarioCallback
  \/ Alone("button") /\ ButtonCallback

\* Time passes
DevicesTick ==
  \/ Alone("shutter") /\ Tick
  \/ Alone("smart") /\ SmartTick
  \/ Alone("light") /\ LightTick
  \/ Alone("dimmer") /\ DimTick
  \/ Alone("thermostat") /\ ThermoTick
  \/ Alone("scenario") /\ ScenarioTick
  \/ Alone("button") /\ ButtonTick

DevicesFairSpec ==
  /\ DevicesSpec
  /\ WF_deviceVars(DevicesCallback) /\ WF_deviceVars(DevicesTick)

-----------------------------------------------------------------------------
(* Properties of several devices                                           *)

\* Every motor has the timer that stops it, and its relays are as the shutter
\* believes, for both kinds of shutter.
RelaysAreTimed == RunIsTimed /\ SmartRelaysAreTimed

\* A light and a dimmer are as their last impulse or pattern leaves them.
LightsEndAsAsked == LightEndsAsAsked /\ DimIsRestored

\* Left alone, a light, a scenario and the inputs of a button come to rest.
TheyComeToRest == PatternsEnd /\ ScenariosEnd /\ ButtonsRest
=============================================================================
