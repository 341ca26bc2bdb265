------------------------------ MODULE Scenario ------------------------------
(***************************************************************************)
(* An auto scenario: a button, the IOs that carry its run, an InputTimer   *)
(* and the rules AutoScenario generates.  A run is the rules writing the   *)
(* inputs of each other, so the march of ListeRule is part of the model: a *)
(* write made while a march runs waits in "pending", and the rules that an *)
(* IO triggers are chosen before the first of them acts.                   *)
(*                                                                         *)
(* A tick is the 50 ms below which no InputTimer goes.  Steps count from 0 *)
(* as in the code.  One IO, that the steps with "uses" write, may be       *)
(* deleted and come back.  Left out: other rules that write the scenario,  *)
(* its deletion, the schedule that is added or removed, and the one-shot   *)
(* that resets the button after 250 ms, which always finds it reset (see   *)
(* ScenarioKeepsTime).                                                     *)
(* StepWithoutStart, GateIsLive and EndKeepsActive are faults, used by no   *)
(* action.                                                                 *)
(***************************************************************************)
EXTENDS Integers, Sequences, SequencesExt

CONSTANT Definitions   \* what a scenario may be defined as

NotRunning == -1
EndStep == -1
StepDef == [pause : Nat, uses : BOOLEAN]

ASSUME ScenarioAssumption ==
  \A d \in Definitions :
    d \in [steps : Seq(StepDef), final : BOOLEAN, cycle : BOOLEAN]

VARIABLES
  sc,         \* the IOs of the scenario, pendingTriggers, and the steps played
              \* since the last event came
  scDef,      \* the definition
  scRules,    \* what the generated rules were built from, and which are disabled
  scGate,     \* disabled_missing_io, and whether the IO is missing
  scBusy,     \* the handler that is under way, and the definition it installs
  scEdited    \* history: the run that is under way was modified

scVars == <<sc, scDef, scRules, scGate, scBusy, scEdited>>

ScenarioIO == {"scenario", "active", "step", "timer", "schedule", "range"}
Handler == {"none", "delete", "rebuild", "haltStep", "haltTimer"}

ScenarioTypeOK ==
  /\ sc.button \in BOOLEAN /\ sc.active \in BOOLEAN /\ sc.done \in BOOLEAN
  /\ sc.scheduled \in BOOLEAN /\ sc.schedule \in BOOLEAN /\ sc.range \in BOOLEAN
  /\ sc.stopped \in BOOLEAN /\ sc.step \in Nat \cup {EndStep}
  /\ sc.time \in Nat /\ sc.left \in Nat \cup {NotRunning}
  /\ sc.pending \in Seq(ScenarioIO) /\ sc.played \in Seq(Nat \cup {EndStep})
  /\ scRules.off \subseteq DOMAIN scRules.steps \cup {0}
  /\ scGate \in [disabled : BOOLEAN, missing : BOOLEAN]
  /\ scBusy.at \in Handler /\ scEdited \in BOOLEAN

-----------------------------------------------------------------------------
(* The rules                                                               *)

\* Rules built while the IO is missing are disabled; 0 is the rule step_end
Generated(d, missing) ==
  [steps |-> d.steps, cycle |-> d.cycle, final |-> d.final,
   off |-> IF ~missing THEN {}
           ELSE {i \in DOMAIN d.steps : d.steps[i].uses} \cup {i \in {0} : d.final}]

Cleared(d) == [steps |-> <<>>, final |-> FALSE, cycle |-> d.cycle]

ScenarioInit ==
  /\ scDef \in Definitions
  /\ sc \in [button : {FALSE}, active : {FALSE}, step : {0}, time : {0},
             left : {NotRunning}, done : {TRUE}, scheduled : BOOLEAN, schedule : {TRUE},
             range : {FALSE}, pending : {<<>>}, played : {<<>>}, stopped : {FALSE}]
  /\ scRules = Generated(scDef, FALSE)
  /\ scGate = [disabled |-> FALSE, missing |-> FALSE]
  /\ scBusy = [at |-> "none", def |-> scDef]
  /\ scEdited = FALSE

\* isBroken(): an IO it names is gone, a rule is disabled, or rules are missing
Broken(d, rules, missing) ==
  \/ missing /\ (d.final \/ \E i \in DOMAIN d.steps : d.steps[i].uses)
  \/ rules.off # {}
  \/ LET Count(r) == Len(r.steps) + (IF sc.scheduled /\ r.cycle THEN 1 ELSE 0)
     IN Count(rules) < Count(d)

GateIsLive == Broken(scDef, scRules, scGate.missing)
Refuses == scGate.disabled \/ Broken(scDef, scRules, scGate.missing)

To(io, value) == [io |-> io, value |-> value]
RestartAt(step) == <<To("step", step), To("time", 0), To("start", TRUE)>>

Rule(on, holds, does) == [on |-> on, holds |-> holds, does |-> does]

ButtonStart ==
  Rule({"scenario", "active"}, sc.button /\ ~sc.active,
       <<To("scenario", FALSE), To("active", TRUE)>> \o RestartAt(0)
         \o <<To("stopped", FALSE)>>)
ButtonStop ==
  Rule({"scenario", "active"}, sc.button /\ sc.active,
       <<To("scenario", FALSE)>> \o RestartAt(EndStep) \o <<To("stopped", TRUE)>>)

EndKeepsActive ==
  Rule({"active", "step", "timer"},
       sc.active /\ sc.step = EndStep /\ sc.done /\ 0 \notin scRules.off,
       <<To("played", EndStep)>>)
StepEnd ==
  Rule({"active", "step", "timer"},
       sc.active /\ sc.step = EndStep /\ sc.done /\ 0 \notin scRules.off,
       <<To("active", FALSE), To("played", EndStep)>>)

StepWithoutStart(i) ==
  Rule({"active", "step", "timer"},
       sc.active /\ sc.step = i - 1 /\ sc.done /\ i \notin scRules.off,
       <<To("step", IF i < Len(scRules.steps) THEN i
                    ELSE IF scRules.cycle THEN 0 ELSE EndStep),
         To("time", scRules.steps[i].pause), To("played", i - 1)>>)
StepRule(i) ==
  Rule({"active", "step", "timer"},
       sc.active /\ sc.step = i - 1 /\ sc.done /\ i \notin scRules.off,
       <<To("step", IF i < Len(scRules.steps) THEN i
                    ELSE IF scRules.cycle THEN 0 ELSE EndStep),
         To("time", scRules.steps[i].pause), To("start", TRUE), To("played", i - 1)>>)

TimeStart ==
  Rule({"active", "schedule", "range"},
       sc.scheduled /\ ~sc.active /\ sc.schedule /\ sc.range, <<To("scenario", TRUE)>>)
TimeStop ==
  Rule({"active", "schedule", "range"},
       sc.scheduled /\ scRules.cycle /\ sc.active /\ sc.schedule /\ ~sc.range,
       RestartAt(EndStep))

\* In the order of their insertion
RuleList ==
  <<ButtonStart, ButtonStop, StepEnd>>
  \o [i \in DOMAIN scRules.steps |-> StepRule(i)] \o <<TimeStart, TimeStop>>

-----------------------------------------------------------------------------
(* Writes                                                                  *)

Signal(s, io) == [s EXCEPT !.pending = Append(@, io)]

\* InputTimer: it signals nothing when it starts or stops, and a new time
\* restarts a timer that runs
TimerStart(s) ==
  [s EXCEPT !.left = IF s.time = 0 THEN 1 ELSE s.time, !.done = FALSE]
TimerStop(s) == [s EXCEPT !.left = NotRunning, !.done = FALSE]
TimerSet(s, time) ==
  LET set == [s EXCEPT !.time = time]
  IN IF s.left = NotRunning THEN set ELSE TimerStart(set)

PressButton(s, on) ==
  IF on /\ Refuses THEN s ELSE Signal([s EXCEPT !.button = on], "scenario")

WriteIO(s, w) ==
  CASE w.io = "scenario" -> PressButton(s, w.value)
    [] w.io = "active" -> Signal([s EXCEPT !.active = w.value], "active")
    [] w.io = "step" -> Signal([s EXCEPT !.step = w.value], "step")
    [] w.io = "schedule" -> Signal([s EXCEPT !.schedule = w.value], "schedule")
    [] w.io = "time" -> TimerSet(s, w.value)
    [] w.io = "start" -> TimerStart(s)
    [] w.io = "played" -> [s EXCEPT !.played = Append(@, w.value)]
    [] w.io = "stopped" -> [s EXCEPT !.stopped = w.value]

\* The conditions are those of the moment the trigger is served
Serve(s, rule) ==
  IF Head(sc.pending) \in rule.on /\ rule.holds THEN FoldLeft(WriteIO, s, rule.does) ELSE s
Marched == FoldLeft(Serve, [sc EXCEPT !.pending = Tail(@)], RuleList)

ExecuteTrigger ==
  /\ sc.pending # <<>>
  /\ sc' = Marched
  /\ scEdited' = (scEdited /\ Marched.active)
  /\ UNCHANGED <<scDef, scRules, scGate, scBusy>>

-----------------------------------------------------------------------------
(* What clients, the clock and the rest of the house do, once the march is *)
(* over                                                                    *)

Quiet == sc.pending = <<>> /\ scBusy.at = "none"
Fresh == [sc EXCEPT !.played = <<>>]

SetScenario(on) ==
  /\ Quiet
  /\ sc' = PressButton(Fresh, on)
  /\ UNCHANGED <<scDef, scRules, scGate, scBusy, scEdited>>

\* The time range begins or ends
RangeChanges ==
  /\ Quiet /\ sc.scheduled
  /\ sc' = Signal([Fresh EXCEPT !.range = ~@], "range")
  /\ UNCHANGED <<scDef, scRules, scGate, scBusy, scEdited>>

\* <uid>_is_schedule_enabled is an IO that may be written
SetSchedule(on) ==
  /\ Quiet /\ sc.scheduled
  /\ sc' = WriteIO(Fresh, To("schedule", on))
  /\ UNCHANGED <<scDef, scRules, scGate, scBusy, scEdited>>

TimerDone ==
  /\ Quiet /\ sc.left = 0
  /\ sc' = Signal([Fresh EXCEPT !.left = NotRunning, !.done = TRUE], "timer")
  /\ UNCHANGED <<scDef, scRules, scGate, scBusy, scEdited>>

ScenarioTick ==
  /\ Quiet /\ sc.left > 0
  /\ sc' = [sc EXCEPT !.left = @ - 1]
  /\ UNCHANGED <<scDef, scRules, scGate, scBusy, scEdited>>

-----------------------------------------------------------------------------
(* A modification: deleteRules(), which builds rules without steps, then   *)
(* rebuildRules().  Each build first writes the IO that enables the        *)
(* schedule, whose march runs with the rules there are.                    *)

Prepared(s, enabled) ==
  IF s.scheduled THEN WriteIO(s, To("schedule", enabled)) ELSE s

Modify(d, enabled) ==
  /\ Quiet
  /\ scBusy' = [at |-> "delete", def |-> d]
  /\ scDef' = Cleared(d)
  /\ sc' = Prepared(Fresh, enabled)
  /\ scEdited' = sc.active
  /\ UNCHANGED <<scRules, scGate>>

RulesDeleted ==
  /\ scBusy.at = "delete" /\ sc.pending = <<>>
  /\ scRules' = Generated(scDef, scGate.missing)
  /\ scDef' = scBusy.def
  /\ scBusy' = [scBusy EXCEPT !.at = "rebuild"]
  /\ sc' = Prepared(sc, sc.schedule)
  /\ scEdited' = sc.active
  /\ UNCHANGED scGate

RulesRebuilt ==
  /\ scBusy.at = "rebuild" /\ sc.pending = <<>>
  /\ scRules' = Generated(scDef, scGate.missing)
  /\ scBusy' = [scBusy EXCEPT !.at = "none"]
  /\ scEdited' = sc.active
  /\ UNCHANGED <<sc, scDef, scGate>>

-----------------------------------------------------------------------------
(* The IO that steps write is deleted: refreshBrokenScenarios() disables   *)
(* the scenario, then stopBrokenRun() makes its writes, a march each.      *)

StopBrokenRun(s) ==
  /\ scGate' = [disabled |-> TRUE, missing |-> TRUE]
  /\ sc' = IF s.active THEN WriteIO(s, To("active", FALSE)) ELSE s
  /\ scBusy' = [scBusy EXCEPT !.at = IF s.active THEN "haltStep" ELSE "none"]

DeleteUserIO ==
  /\ Quiet /\ ~scGate.missing
  /\ scRules' = Generated(scRules, TRUE)
  /\ \/ /\ Broken(scDef, scRules', TRUE) /\ ~scGate.disabled
        /\ StopBrokenRun(Fresh)
        /\ scEdited' = FALSE
     \/ /\ ~Broken(scDef, scRules', TRUE) \/ scGate.disabled
        /\ scGate' = [scGate EXCEPT !.missing = TRUE]
        /\ UNCHANGED <<sc, scBusy, scEdited>>
  /\ UNCHANGED scDef

HaltStep ==
  /\ scBusy.at = "haltStep" /\ sc.pending = <<>>
  /\ sc' = WriteIO(sc, To("step", EndStep))
  /\ scBusy' = [scBusy EXCEPT !.at = "haltTimer"]
  /\ UNCHANGED <<scDef, scRules, scGate, scEdited>>

HaltTimer ==
  /\ scBusy.at = "haltTimer" /\ sc.pending = <<>>
  /\ sc' = TimerStop(sc)
  /\ scBusy' = [scBusy EXCEPT !.at = "none"]
  /\ UNCHANGED <<scDef, scRules, scGate, scEdited>>

\* The rules stay disabled until they are built again
CreateUserIO ==
  /\ Quiet /\ scGate.missing
  /\ scGate' = [scGate EXCEPT !.missing = FALSE]
  /\ UNCHANGED <<sc, scDef, scRules, scBusy, scEdited>>

TryReenable ==
  /\ Quiet /\ scGate.disabled
  /\ ~Broken(scDef, scRules, scGate.missing)
  /\ scGate' = [scGate EXCEPT !.disabled = FALSE]
  /\ UNCHANGED <<sc, scDef, scRules, scBusy, scEdited>>

-----------------------------------------------------------------------------

ScenarioClient ==
  \/ \E on \in BOOLEAN : SetScenario(on) \/ SetSchedule(on)
  \/ RangeChanges
  \/ \E d \in Definitions, enabled \in BOOLEAN : Modify(d, enabled)
  \/ DeleteUserIO \/ CreateUserIO \/ TryReenable

\* A handler goes on with its march
ScenarioHandler ==
  ExecuteTrigger \/ RulesDeleted \/ RulesRebuilt \/ HaltStep \/ HaltTimer

ScenarioCallback == ScenarioHandler \/ TimerDone

ScenarioNext == ScenarioClient \/ ScenarioCallback \/ ScenarioTick

ScenarioSpec == ScenarioInit /\ [][ScenarioNext]_scVars

\* A march goes on, the event loop runs the timer that is due, time passes
ScenarioFairSpec ==
  ScenarioSpec /\ WF_scVars(ScenarioCallback) /\ WF_scVars(ScenarioTick)

-----------------------------------------------------------------------------
(* Properties                                                              *)

\* A run of a scenario that has no step waits at step 0, which no rule answers
Stepless == scRules.steps = <<>> /\ sc.step = 0

\* What runs, or starts again, for as long as nobody stops it: a scenario in its
\* time range, or a cycle
RunsForEver ==
  \/ sc.scheduled /\ sc.schedule /\ sc.range
  \/ /\ scRules.cycle /\ ~sc.stopped
     /\ sc.scheduled /\ sc.schedule => sc.range

\* Between two events a run is alive, and slow: a scenario that is active has
\* the timer that takes it to its next step, one that is not has none; the end
\* of the timer plays one step at most, as the rules that write each other's
\* inputs could play several in one march; a scenario disabled for a missing IO
\* neither runs nor starts, however its schedule and its rules answer the
\* writes that stop it (AutoScenario.cpp:336-338); the button is released.
\* Two kinds of runs may lack the timer: one that was modified meanwhile, as its
\* step may be gone, and one of a scenario without steps, which waits for
\* ever.
ScenarioKeepsTime ==
  Quiet =>
    /\ ~sc.button
    /\ sc.left # NotRunning => sc.active
    /\ sc.active /\ ~scEdited => sc.left # NotRunning \/ Stepless
    /\ Len(sc.played) <= 1
    /\ scGate.disabled => ~sc.active

\* Left alone, a run ends: after its last step, at the press of a button that
\* stops it, or when the time range of its schedule is over; but a scenario in
\* its time range starts again, and a cycle goes on until it is stopped.  A run
\* that was modified, or that has no step and so never ends, is left out.
ScenariosEnd ==
  <>[][~ScenarioClient]_scVars =>
    <>[](sc.active => RunsForEver \/ scEdited \/ Stepless)
=============================================================================
